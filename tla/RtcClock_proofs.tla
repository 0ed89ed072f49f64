-------------------------- MODULE RtcClock_proofs --------------------------
(***************************************************************************)
(* Proofs about RtcClock, for every start, latency and number of seconds.  *)
(***************************************************************************)
EXTENDS RtcClock, TLAPS

\* The increments the RTC task owes unix_time: the second it is serving and the
\* one the semaphore remembers.
Owed == (IF pc \in {"test", "print", "load"} THEN 1 ELSE 0) + sem

\* Both owed seconds may already be part of an answer; nothing more can be.
DriftInv ==
  /\ unix_time + Owed <= now + 2
  /\ pc = "store" => loaded + 1 + sem <= now + 2
  /\ printed <= now + 1

IInv == TypeOK /\ DriftInv

----------------------------------------------------------------------------
\* The clock is unset and the task is about to test it.
LEMMA InitIInv == Init => IInv
  BY ClockAssumption DEF Init, IInv, TypeOK, DriftInv, Owed

\* A second adds one to the true time and at most one to what is owed; an answer
\* is not in the future; the task only moves what is owed into unix_time.
LEMMA StepIInv == IInv /\ [Next]_vars => IInv'
<1> SUFFICES ASSUME IInv, [Next]_vars PROVE IInv'
  OBVIOUS
<1> USE ClockAssumption DEF IInv, TypeOK, DriftInv, Owed
<1>1. CASE rtc_int_handler
  BY <1>1 DEF rtc_int_handler
<1>2. CASE wifi_cb
  <2>1. wifi_cb
    BY ONLY <1>2
  <2>2. PICK age \in 0..Latency : \E isdst \in {0, 3600} : unix_time' = now - age - isdst
    BY ONLY <2>1 DEF wifi_cb
  <2>3. unix_time' \in Nat /\ unix_time' <= now
    BY <2>2
  <2> QED
    BY <1>2, <2>3 DEF wifi_cb
<1>3. CASE TestTime
  BY <1>3 DEF TestTime
<1>4. CASE print_time
  BY <1>4 DEF print_time
<1>5. CASE LoadTime
  BY <1>5 DEF LoadTime
<1>6. CASE StoreTime
  BY <1>6 DEF StoreTime
<1>7. CASE SemaphoreTake
  BY <1>7 DEF SemaphoreTake
<1>8. CASE UNCHANGED vars
  BY <1>8 DEF vars
<1> QED
  BY <1>1, <1>2, <1>3, <1>4, <1>5, <1>6, <1>7, <1>8 DEF Next, rtc_task_function

\* Every reachable state satisfies the inductive invariant.
LEMMA Invariance == Spec => []IInv
  BY InitIInv, StepIInv, PTL DEF Spec

\* Every variable of the clock keeps its type.
THEOREM ClockTypeCorrect == Spec => []TypeOK
<1>1. IInv => TypeOK
  BY DEF IInv
<1> QED
  BY <1>1, Invariance, PTL

\* The unprotected increment and the answers of the chip never take the clock
\* more than two seconds ahead.
THEOREM DriftIsBounded == Spec => []NeverFarAhead
<1>1. IInv => NeverFarAhead
  BY ClockAssumption DEF IInv, TypeOK, DriftInv, Owed, NeverFarAhead
<1> QED
  BY <1>1, Invariance, PTL

\* What rtc_task_function prints is at most one second ahead.
THEOREM PrintIsBounded == Spec => []PrintedNotFarAhead
<1>1. IInv => PrintedNotFarAhead
  BY DEF IInv, DriftInv, PrintedNotFarAhead
<1> QED
  BY <1>1, Invariance, PTL
=============================================================================
