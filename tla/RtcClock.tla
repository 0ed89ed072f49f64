------------------------------ MODULE RtcClock ------------------------------
(***************************************************************************)
(* The clock of the application (app_rtc.c): the RTC interrupt gives a     *)
(* binary semaphore every second, the RTC task takes it, prints unix_time  *)
(* and increments it; the Wi-Fi task sets unix_time from the chip's answer *)
(* to m2m_wifi_get_sytem_time (wifi_cb, app_wifi.c).  Nothing protects     *)
(* unix_time: the RTC task tests it, prints it, loads it and stores it,    *)
(* and may be preempted by the button task, after whose delay the Wi-Fi    *)
(* task may run first, between any two of these.                           *)
(***************************************************************************)
EXTENDS Naturals

CONSTANTS Start,     \* true time, in seconds, when the RTC is started
          Latency,   \* bound on the age of an answer when the callback stores it
          MaxTicks   \* bound on the seconds that pass

ASSUME ClockAssumption ==
  /\ Start \in Nat /\ Latency \in Nat /\ MaxTicks \in Nat
  /\ Latency + 3600 < Start

VARIABLES now,         \* true time
          unix_time,   \* 0 until the first answer
          sem,         \* m_rtc_semaphore, binary
          pc,          \* where the RTC task is
          loaded,      \* register of unix_time++
          printed      \* the time printed last

vars == <<now, unix_time, sem, pc, loaded, printed>>

Init == /\ now = Start /\ unix_time = 0 /\ sem = 0
        /\ pc = "test" /\ loaded = 0 /\ printed = 0

\* Mutant: a counting semaphore remembers every second.
rtc_int_handler_Counting ==
  /\ now < Start + MaxTicks
  /\ now' = now + 1 /\ sem' = sem + 1
  /\ UNCHANGED <<unix_time, pc, loaded, printed>>

rtc_int_handler ==
  /\ now < Start + MaxTicks
  /\ now' = now + 1 /\ sem' = 1
  /\ UNCHANGED <<unix_time, pc, loaded, printed>>

\* M2M_WIFI_RESP_GET_SYS_TIME, as old as it took to reach the callback.  mktime is
\* given an uninitialised tm_isdst: when it is positive, the library may take the
\* answer for summer time and subtract an hour.
wifi_cb ==
  /\ \E age \in 0..Latency : \E isdst \in {0, 3600} : unix_time' = now - age - isdst
  /\ UNCHANGED <<now, sem, pc, loaded, printed>>

----------------------------------------------------------------------------
(* rtc_task_function *)

TestTime ==
  /\ pc = "test"
  /\ pc' = IF unix_time # 0 THEN "print" ELSE "take"
  /\ UNCHANGED <<now, unix_time, sem, loaded, printed>>

print_time ==
  /\ pc = "print"
  /\ printed' = unix_time /\ pc' = "load"
  /\ UNCHANGED <<now, unix_time, sem, loaded>>

LoadTime ==
  /\ pc = "load"
  /\ loaded' = unix_time /\ pc' = "store"
  /\ UNCHANGED <<now, unix_time, sem, printed>>

\* Mutant: the task does not wait for the semaphore after an increment.
StoreTime_NoWait ==
  /\ pc = "store"
  /\ unix_time' = loaded + 1 /\ pc' = "test"
  /\ UNCHANGED <<now, sem, loaded, printed>>

StoreTime ==
  /\ pc = "store"
  /\ unix_time' = loaded + 1 /\ pc' = "take"
  /\ UNCHANGED <<now, sem, loaded, printed>>

\* Mutant: the semaphore is peeked at and stays given.
SemaphoreTake_Peek ==
  /\ pc = "take" /\ sem = 1
  /\ pc' = "test"
  /\ UNCHANGED <<now, unix_time, sem, loaded, printed>>

SemaphoreTake ==
  /\ pc = "take" /\ sem = 1
  /\ sem' = 0 /\ pc' = "test"
  /\ UNCHANGED <<now, unix_time, loaded, printed>>

rtc_task_function == TestTime \/ print_time \/ LoadTime \/ StoreTime \/ SemaphoreTake

Next == rtc_int_handler \/ wifi_cb \/ rtc_task_function

Spec == Init /\ [][Next]_vars

----------------------------------------------------------------------------
(* Properties *)

TypeOK ==
  /\ now \in Start..Start + MaxTicks /\ unix_time \in Nat /\ sem \in {0, 1}
  /\ pc \in {"test", "print", "load", "store", "take"}
  /\ loaded \in Nat /\ printed \in Nat

\* However the seconds, the answers and the unprotected increment interleave,
\* the clock never runs more than two seconds ahead of the true time, and a lost
\* update does not accumulate: the increments made for seconds that passed
\* before an answer was stored are at most the one being served and the one the
\* semaphore remembers.
NeverFarAhead == unix_time <= now + 2

\* The time is printed before it is incremented, so what is printed is at most
\* one second ahead.
PrintedNotFarAhead == printed <= now + 1
=============================================================================
