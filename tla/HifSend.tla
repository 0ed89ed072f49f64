------------------------------ MODULE HifSend ------------------------------
(***************************************************************************)
(* The transmit path of the host interface and its power management:       *)
(* hif_send, hif_chip_wake, hif_chip_sleep (m2m_hif.c), chip_wake and      *)
(* chip_sleep (nmasic.c).  A send wakes the chip, publishes its header in  *)
(* NMI_STATE_REG, asks for a buffer in CTRL_2, polls, reads the buffer's   *)
(* address in CTRL_4, writes the packet into it, submits it in CTRL_3 and  *)
(* lets the chip sleep.  The Wi-Fi task sends from its start-up code and   *)
(* from the callbacks it runs while it holds a received message; the       *)
(* button task sends too (wifi_req_curr_rssi).  Nothing locks the driver.  *)
(* The tasks have the same priority: one that runs is preempted, between   *)
(* any two steps, only by the expired vTaskDelay of another, and gives the *)
(* processor up in its own delays, see the README.  Register and block     *)
(* transfers are atomic and what Bus promises: a read may fail, a block    *)
(* write may fail and have been stored or not, a register write always     *)
(* reports success and may have been lost, so the branches for a failed    *)
(* nm_write_reg are never taken.  The firmware's side is external.         *)
(***************************************************************************)
EXTENDS Naturals, FiniteSets, Sequences

CONSTANTS Tasks,      \* the tasks that send
          Wifi,       \* the one that receives
          Buffers,    \* transmit buffers of the firmware
          None,       \* no task, no buffer (DMA address 0)
          MaxSends,   \* bound on the sends of the Wi-Fi task
          MaxOthers,  \* bound on the sends of each other task
          MaxPosts,   \* bound on the messages the chip posts
          MaxFaults   \* bound on failed and lost bus transfers and expired polls

ASSUME SendAssumption ==
  /\ Wifi \in Tasks /\ None \notin Tasks /\ None \notin Buffers
  /\ MaxSends \in Nat /\ MaxOthers \in 0..MaxSends /\ MaxPosts \in Nat /\ MaxFaults \in Nat

VARIABLES
  u8ChipMode,    \* power save on: anything but M2M_NO_PS
  u8ChipSleep,   \* how many senders want the chip awake
  u8HifRXDone,   \* a received message is held
  wakeBits,      \* WAKE_CLK_REG bit 1 and HOST_CORT_COMM bit 0, as set by the host
  awake,         \* chip: its clocks run
  hold,          \* chip: CORT_HOST_COMM bit 0, the host is to wait
  posted,        \* chip: messages posted
  unacked,       \* chip: the last one is not acknowledged
  stateReg,      \* NMI_STATE_REG: whose header it is
  allocReq,      \* CTRL_2 bit 1
  ctrl4,         \* CTRL_4: the buffer allocated last
  content,       \* whose header and whose data are in each buffer
  owner,         \* chip: the send each allocated buffer was made for
  running,       \* the task that has the processor
  pc, dma, loaded,  \* of each task: place, dma_addr, register of u8ChipSleep
  sends,         \* of each task: hif_send calls
  result,        \* of each task: what its last hif_send has done
  lost,          \* history, of each task: its last hif_send's lost register writes
  faults,
  taken,         \* history: the buffers the firmware took
  overlapped     \* history: a task entered the driver with another inside

power == <<u8ChipMode, u8ChipSleep>>
chip == <<posted, unacked, hold>>
outcome == <<result, lost>>
alloc == <<stateReg, allocReq, ctrl4, content, owner>>
place == <<pc, running>>
local == <<dma, loaded>>
history == <<taken, overlapped>>
vars == <<power, u8HifRXDone, wakeBits, awake, chip, alloc, place, local, sends, outcome, faults, history>>

Bits == {"clk", "host"}
\* The register writes of a send that matter to it: the wake bits, NMI_STATE_REG,
\* CTRL_2 and CTRL_3.
Writes == Bits \cup {"state", "request", "submit"}
\* A send, as its header and its data identify it: the task and its how-manieth.
NoSend == [task |-> None, n |-> 0]
Send(t) == [task |-> t, n |-> sends[t]]
Empty == [hdr |-> NoSend, data |-> NoSend]
Packet(t) == [hdr |-> Send(t), data |-> Send(t)]

Init ==
  /\ u8ChipMode = FALSE /\ u8ChipSleep = 0 /\ u8HifRXDone = FALSE
  /\ wakeBits = {} /\ awake = TRUE /\ posted = 0 /\ unacked = FALSE /\ hold = FALSE
  /\ stateReg = NoSend /\ allocReq = FALSE /\ ctrl4 = None
  /\ content = [b \in Buffers |-> Empty] /\ owner = [b \in Buffers |-> NoSend]
  /\ running = Wifi /\ pc = [t \in Tasks |-> "idle"] /\ dma = [t \in Tasks |-> None]
  /\ loaded = [t \in Tasks |-> 0]
  /\ sends = [t \in Tasks |-> 0] /\ faults = 0
  /\ result = [t \in Tasks |-> "none"] /\ lost = [t \in Tasks |-> {}]
  /\ taken = <<>> /\ overlapped = FALSE

Goto(t, from, to) ==
  /\ running = t /\ pc[t] = from
  /\ pc' = [pc EXCEPT ![t] = to] /\ UNCHANGED running

\* A task is in the driver while it sends and, the Wi-Fi task, while it holds a
\* message.  Nothing keeps another one out: the history says when that happened.
Inside(t) == pc[t] # "idle" \/ (t = Wifi /\ u8HifRXDone)
Enter(t) == overlapped' = (overlapped \/ \E u \in Tasks \ {t} : Inside(u))

BusOk == UNCHANGED faults
BusFault == faults < MaxFaults /\ faults' = faults + 1
\* A register write that does not arrive; the task that made it can not tell.
Lose(t, write) == BusFault /\ lost' = [lost EXCEPT ![t] = @ \cup {write}]

\* nm_bsp_sleep in the polls, vTaskDelay of the tasks that do not receive.
Delays == {"wake_poll", "poll"}
Delayed(t) == pc[t] \in Delays \/ (t # Wifi /\ pc[t] = "idle")

\* A delay expires and its task preempts; a task that blocks gives way.
SwitchTo(t) ==
  /\ running # t
  /\ Delayed(t) \/ pc[running] \in Delays \cup {"idle"}
  /\ running' = t
  /\ UNCHANGED <<power, u8HifRXDone, wakeBits, awake, chip, alloc, pc, local, sends, outcome, faults, history>>

----------------------------------------------------------------------------
(* The firmware *)

\* It sleeps in power save when the host does not keep it awake and no message
\* it posted waits for RX done.
FirmwareSleeps ==
  /\ awake /\ u8ChipMode /\ wakeBits = {} /\ ~unacked
  /\ awake' = FALSE
  /\ UNCHANGED <<power, u8HifRXDone, wakeBits, chip, alloc, place, local, sends, outcome, faults, history>>

FirmwareWakes ==
  /\ ~awake /\ "clk" \in wakeBits
  /\ awake' = TRUE
  /\ UNCHANGED <<power, u8HifRXDone, wakeBits, chip, alloc, place, local, sends, outcome, faults, history>>

FirmwarePosts ==
  /\ ~unacked /\ posted < MaxPosts
  /\ posted' = posted + 1 /\ unacked' = TRUE /\ awake' = TRUE
  /\ UNCHANGED <<power, u8HifRXDone, wakeBits, hold, alloc, place, local, sends, outcome, faults, history>>

\* CORT_HOST_COMM bit 0 may change at any time; it does so here while the driver
\* waits for it to be clear, which is the only time it looks.
FirmwareHolds ==
  /\ \E t \in Tasks : pc[t] = "sleep_wait"
  /\ hold' = ~hold
  /\ UNCHANGED <<power, u8HifRXDone, wakeBits, awake, posted, unacked, alloc, place, local,
                 sends, outcome, faults, history>>

\* A buffer for the header in NMI_STATE_REG, or address 0 when there is none.
FirmwareAllocates ==
  /\ awake /\ allocReq
  /\ allocReq' = FALSE
  /\ \/ \E b \in Buffers : /\ owner[b] = NoSend
                           /\ owner' = [owner EXCEPT ![b] = stateReg]
                           /\ ctrl4' = b
     \/ (\A b \in Buffers : owner[b] # NoSend) /\ ctrl4' = None /\ UNCHANGED owner
  /\ UNCHANGED <<power, u8HifRXDone, wakeBits, awake, chip, stateReg, content, place, local,
                 sends, outcome, faults, history>>

----------------------------------------------------------------------------
(* The Wi-Fi task's receive path, as far as the power management sees it *)

\* hif_isr claims a message: bit 0 is cleared, u8HifRXDone set.  The task handles
\* events after its start-up code, which sets the sleep mode.
ClaimMessage ==
  /\ running = Wifi /\ pc[Wifi] = "idle" /\ u8ChipMode /\ unacked /\ ~u8HifRXDone
  /\ u8HifRXDone' = TRUE /\ Enter(Wifi)
  /\ UNCHANGED <<power, wakeBits, awake, chip, alloc, place, local, sends, outcome, faults, taken>>

\* hif_set_rx_done, between two sends of the callback or after it.
ClearRxDone ==
  /\ u8HifRXDone /\ Goto(Wifi, "idle", "rx_done")
  /\ u8HifRXDone' = FALSE
  /\ UNCHANGED <<power, wakeBits, awake, chip, alloc, local, sends, outcome, faults, history>>

\* A failed read leaves it undone like a lost write.
WriteRxDone ==
  /\ Goto(Wifi, "rx_done", "idle")
  /\ \/ BusOk /\ unacked' = FALSE
     \/ BusFault /\ UNCHANGED unacked
  /\ UNCHANGED <<power, u8HifRXDone, wakeBits, awake, posted, hold, alloc, local, sends, outcome, history>>

\* m2m_wifi_set_sleep_mode, after the request for it was sent.
hif_set_sleep_mode ==
  /\ running = Wifi /\ pc[Wifi] = "idle" /\ ~u8ChipMode /\ sends[Wifi] > 0
  /\ u8ChipMode' = TRUE /\ Enter(Wifi)
  /\ UNCHANGED <<u8ChipSleep, u8HifRXDone, wakeBits, awake, chip, alloc, place, local, sends,
                 outcome, faults, taken>>

----------------------------------------------------------------------------
(* hif_chip_wake and chip_wake *)

BeginSend(t) ==
  /\ Goto(t, "idle", "wake") /\ Enter(t)
  /\ sends[t] < (IF t = Wifi THEN MaxSends ELSE MaxOthers)
  /\ sends' = [sends EXCEPT ![t] = @ + 1]
  /\ result' = [result EXCEPT ![t] = "none"] /\ lost' = [lost EXCEPT ![t] = {}]
  /\ dma' = [dma EXCEPT ![t] = None]
  /\ UNCHANGED <<power, u8HifRXDone, wakeBits, awake, chip, alloc, loaded, faults, taken>>

\* Mutant: the chip is woken for the second sender, not for the first.
NeedsWake_Inverted == u8ChipMode /\ u8ChipSleep # 0

NeedsWake == u8ChipMode /\ u8ChipSleep = 0

\* A held message needs no wake request: return without counting.
hif_chip_wake(t) ==
  /\ \/ u8HifRXDone /\ Goto(t, "wake", "state")
     \/ ~u8HifRXDone /\ NeedsWake /\ Goto(t, "wake", "wake_host")
     \/ ~u8HifRXDone /\ ~NeedsWake /\ Goto(t, "wake", "inc_load")
  /\ UNCHANGED <<power, u8HifRXDone, wakeBits, awake, chip, alloc, local, sends, outcome, faults, history>>

\* The register is read, and written if the bit is clear; only the read can fail.
SetWakeBit(t, bit, from, to) ==
  /\ \/ BusOk /\ Goto(t, from, to) /\ wakeBits' = wakeBits \cup {bit} /\ UNCHANGED lost
     \/ bit \notin wakeBits /\ Lose(t, bit) /\ Goto(t, from, to) /\ UNCHANGED wakeBits
     \/ BusFault /\ Goto(t, from, "idle") /\ UNCHANGED <<wakeBits, lost>>
  /\ UNCHANGED <<power, u8HifRXDone, awake, chip, alloc, local, sends, result, history>>

\* The clocks are polled; when a read fails, or after WAKUP_TRAILS_TIMEOUT trials,
\* chip_wake fails and leaves the wake bits set.
PollClocks(t) ==
  /\ \/ BusOk /\ awake /\ Goto(t, "wake_poll", "inc_load")
     \/ BusOk /\ ~awake /\ "clk" \notin wakeBits /\ Goto(t, "wake_poll", "idle")
     \/ BusFault /\ Goto(t, "wake_poll", "idle")
  /\ UNCHANGED <<power, u8HifRXDone, wakeBits, awake, chip, alloc, local, sends, outcome, history>>

\* u8ChipSleep++ is a load and a store; the register is not used again.
LoadForWake(t) ==
  /\ Goto(t, "inc_load", "inc_store")
  /\ loaded' = [loaded EXCEPT ![t] = u8ChipSleep]
  /\ UNCHANGED <<power, u8HifRXDone, wakeBits, awake, chip, alloc, dma, sends, outcome, faults, history>>

StoreForWake(t) ==
  /\ Goto(t, "inc_store", "state")
  /\ u8ChipSleep' = (loaded[t] + 1) % 256
  /\ loaded' = [loaded EXCEPT ![t] = 0]
  /\ UNCHANGED <<u8ChipMode, u8HifRXDone, wakeBits, awake, chip, alloc, dma, sends, outcome, faults,
                 history>>

----------------------------------------------------------------------------
(* hif_send: every reported bus error goes to ERR1 *)

\* NMI_STATE_REG, then CTRL_2.
WriteState(t) ==
  /\ Goto(t, "state", "request")
  /\ \/ BusOk /\ stateReg' = Send(t) /\ UNCHANGED lost
     \/ Lose(t, "state") /\ UNCHANGED stateReg
  /\ UNCHANGED <<power, u8HifRXDone, wakeBits, awake, chip, allocReq, ctrl4, content, owner,
                 local, sends, result, history>>

RequestBuffer(t) ==
  /\ Goto(t, "request", "poll")
  /\ \/ BusOk /\ allocReq' = TRUE /\ UNCHANGED lost
     \/ Lose(t, "request") /\ UNCHANGED allocReq
  /\ UNCHANGED <<power, u8HifRXDone, wakeBits, awake, chip, stateReg, ctrl4, content, owner,
                 local, sends, result, history>>

\* Mutant: the address is read without waiting for bit 1.
Answered_NoWait == TRUE

Answered == ~allocReq

\* Mutant: the loop has no bound.
PollExpires_Never == FALSE

PollExpires == allocReq /\ ~awake

\* Bit 1 clear: the address can be read.  A failed read, or 1000 polls of a chip
\* that sleeps or is late (BusFault), leave the loop with dma_addr 0: no buffer.
PollBuffer(t) ==
  /\ \/ BusOk /\ Answered /\ Goto(t, "poll", "address")
     \/ BusOk /\ PollExpires /\ Goto(t, "poll", "sleep")
     \/ BusFault /\ Goto(t, "poll", "sleep")
  /\ UNCHANGED <<power, u8HifRXDone, wakeBits, awake, chip, alloc, local, sends, outcome, history>>

ReadDmaAddress(t) ==
  /\ \/ BusOk /\ dma' = [dma EXCEPT ![t] = ctrl4]
        /\ Goto(t, "address", IF ctrl4 = None THEN "sleep" ELSE "header")
     \/ BusFault /\ Goto(t, "address", "err1") /\ UNCHANGED dma
  /\ UNCHANGED <<power, u8HifRXDone, wakeBits, awake, chip, alloc, loaded, sends, outcome, history>>

\* The header block, then the control and data blocks.
WriteBlock(t, part, from, to) ==
  LET written == [content EXCEPT ![dma[t]] =
        IF part = "hdr" THEN [@ EXCEPT !.hdr = Send(t)] ELSE [@ EXCEPT !.data = Send(t)]]
  IN  /\ \/ BusOk /\ Goto(t, from, to) /\ content' = written
         \/ BusFault /\ Goto(t, from, "err1") /\ content' \in {content, written}
      /\ UNCHANGED <<power, u8HifRXDone, wakeBits, awake, chip, stateReg, allocReq, ctrl4, owner,
                     local, sends, outcome, history>>

\* CTRL_3: the firmware takes what is in the buffer, if the buffer is still one
\* it allocated, and frees it.
FirmwareTakes(b) ==
  /\ taken' = IF owner[b] = NoSend THEN taken ELSE Append(taken, content[b])
  /\ content' = [content EXCEPT ![b] = Empty]
  /\ owner' = [owner EXCEPT ![b] = NoSend]

\* A write that is lost is reported like one that was not.
Submit(t) ==
  /\ Goto(t, "submit", "sleep")
  /\ \/ /\ BusOk /\ FirmwareTakes(dma[t]) /\ UNCHANGED lost
        /\ result' = [result EXCEPT ![t] =
             IF content[dma[t]] = Packet(t) /\ owner[dma[t]] = Send(t) THEN "delivered" ELSE "undelivered"]
     \/ /\ Lose(t, "submit") /\ UNCHANGED <<content, owner, taken>>
        /\ result' = [result EXCEPT ![t] = "undelivered"]
  /\ UNCHANGED <<power, u8HifRXDone, wakeBits, awake, chip, stateReg, allocReq, ctrl4, local, sends,
     overlapped>>

----------------------------------------------------------------------------
(* hif_chip_sleep, and hif_chip_sleep_sc after a bus error (ERR1) *)

IsCounted == u8ChipSleep # 0

\* Mutant: an error returns without hif_chip_sleep_sc.
LoadForSleep_ErrorLeaks(t) ==
  /\ \/ IsCounted /\ (Goto(t, "sleep", "dec_store") \/ Goto(t, "err1", "idle"))
     \/ ~IsCounted /\ (Goto(t, "sleep", "sleep_test") \/ Goto(t, "err1", "idle"))
  /\ loaded' = [loaded EXCEPT ![t] = u8ChipSleep]
  /\ UNCHANGED <<power, u8HifRXDone, wakeBits, awake, chip, alloc, dma, sends, outcome, faults, history>>

\* if (u8ChipSleep >= 1) u8ChipSleep--: a load, and a store if it was not 0.
LoadForSleep(t) ==
  /\ \/ IsCounted /\ (Goto(t, "sleep", "dec_store") \/ Goto(t, "err1", "err1_store"))
     \/ ~IsCounted /\ (Goto(t, "sleep", "sleep_test") \/ Goto(t, "err1", "idle"))
  /\ loaded' = [loaded EXCEPT ![t] = u8ChipSleep]
  /\ UNCHANGED <<power, u8HifRXDone, wakeBits, awake, chip, alloc, dma, sends, outcome, faults, history>>

\* Mutant: the decrement is not cut to the eight bits of the variable.
StoreForSleep_Wide(t) ==
  /\ Goto(t, "dec_store", "sleep_test") \/ Goto(t, "err1_store", "idle")
  /\ u8ChipSleep' = loaded[t] + 255
  /\ loaded' = [loaded EXCEPT ![t] = 0]
  /\ UNCHANGED <<u8ChipMode, u8HifRXDone, wakeBits, awake, chip, alloc, dma, sends, outcome, faults,
                 history>>

StoreForSleep(t) ==
  /\ Goto(t, "dec_store", "sleep_test") \/ Goto(t, "err1_store", "idle")
  /\ u8ChipSleep' = (loaded[t] + 255) % 256
  /\ loaded' = [loaded EXCEPT ![t] = 0]
  /\ UNCHANGED <<u8ChipMode, u8HifRXDone, wakeBits, awake, chip, alloc, dma, sends, outcome, faults,
                 history>>

TestForSleep(t) ==
  /\ \/ u8ChipSleep = 0 /\ u8ChipMode /\ Goto(t, "sleep_test", "sleep_wait")
     \/ ~(u8ChipSleep = 0 /\ u8ChipMode) /\ Goto(t, "sleep_test", "idle")
  /\ UNCHANGED <<power, u8HifRXDone, wakeBits, awake, chip, alloc, local, sends, outcome, faults, history>>

\* chip_sleep: a while(1) without a delay, which only a failed read ends otherwise.
WaitForChip(t) ==
  /\ \/ BusOk /\ ~hold /\ Goto(t, "sleep_wait", "sleep_clk")
     \/ BusFault /\ Goto(t, "sleep_wait", "idle")
  /\ UNCHANGED <<power, u8HifRXDone, wakeBits, awake, chip, alloc, local, sends, outcome, history>>

\* A bit whose clearing is lost stays set: the chip is kept awake until the next.
ClearWakeBit(t, bit, from, to) ==
  /\ \/ BusOk /\ Goto(t, from, to) /\ wakeBits' = wakeBits \ {bit}
     \/ bit \in wakeBits /\ BusFault /\ Goto(t, from, to) /\ UNCHANGED wakeBits
     \/ BusFault /\ Goto(t, from, "idle") /\ UNCHANGED wakeBits
  /\ UNCHANGED <<power, u8HifRXDone, awake, chip, alloc, local, sends, outcome, history>>

----------------------------------------------------------------------------
hif_send(t) ==
  \/ BeginSend(t) \/ hif_chip_wake(t)
  \/ SetWakeBit(t, "host", "wake_host", "wake_clk") \/ SetWakeBit(t, "clk", "wake_clk", "wake_poll")
  \/ PollClocks(t) \/ LoadForWake(t) \/ StoreForWake(t)
  \/ WriteState(t) \/ RequestBuffer(t) \/ PollBuffer(t) \/ ReadDmaAddress(t)
  \/ WriteBlock(t, "hdr", "header", "data") \/ WriteBlock(t, "data", "data", "submit")
  \/ Submit(t)
  \/ LoadForSleep(t) \/ StoreForSleep(t) \/ TestForSleep(t) \/ WaitForChip(t)
  \/ ClearWakeBit(t, "clk", "sleep_clk", "sleep_host") \/ ClearWakeBit(t, "host", "sleep_host", "idle")

Firmware == FirmwareSleeps \/ FirmwareWakes \/ FirmwarePosts \/ FirmwareHolds \/ FirmwareAllocates
Receive == ClaimMessage \/ ClearRxDone \/ WriteRxDone \/ hif_set_sleep_mode

Next == Firmware \/ Receive \/ \E t \in Tasks : hif_send(t) \/ SwitchTo(t)

Spec == Init /\ [][Next]_vars

\* A task in the driver takes its next step.
Proceeds(t) == pc[t] # "idle" /\ (hif_send(t) \/ (t = Wifi /\ WriteRxDone)) /\ BusOk

\* A delay expires, the task that has the processor runs on (strong fairness: a
\* delay of the other may preempt it again and again), and the firmware wakes up
\* and allocates when asked.  No transfer has to fail, and the firmware may hold
\* the driver as often and as long as it likes.
FairSpec == /\ Spec /\ WF_vars(FirmwareWakes) /\ WF_vars(FirmwareAllocates)
            /\ \A t \in Tasks : WF_vars(SwitchTo(t)) /\ SF_vars(Proceeds(t))

----------------------------------------------------------------------------
(* Properties *)

Accessing == {"state", "request", "poll", "address", "header", "data", "submit"}
Pcs == Accessing \cup {"idle", "rx_done", "wake", "wake_host", "wake_clk", "wake_poll",
  "inc_load", "inc_store", "err1", "err1_store", "sleep",
  "dec_store", "sleep_test", "sleep_wait", "sleep_clk", "sleep_host"}
Sends == [task : Tasks, n : 1..MaxSends] \cup {NoSend}

\* Every variable has its type; u8ChipSleep has eight bits.
TypeOK ==
  /\ u8ChipMode \in BOOLEAN /\ u8ChipSleep \in 0..255
  /\ u8HifRXDone \in BOOLEAN /\ wakeBits \subseteq Bits /\ awake \in BOOLEAN
  /\ posted \in 0..MaxPosts /\ unacked \in BOOLEAN /\ hold \in BOOLEAN
  /\ stateReg \in Sends /\ allocReq \in BOOLEAN /\ ctrl4 \in Buffers \cup {None}
  /\ content \in [Buffers -> [hdr : Sends, data : Sends]] /\ owner \in [Buffers -> Sends]
  /\ running \in Tasks /\ pc \in [Tasks -> Pcs] /\ dma \in [Tasks -> Buffers \cup {None}]
  /\ loaded \in [Tasks -> 0..255] /\ sends \in [Tasks -> 0..MaxSends]
  /\ result \in [Tasks -> {"none", "delivered", "undelivered"}]
  /\ lost \in [Tasks -> SUBSET Writes] /\ faults \in 0..MaxFaults
  /\ taken \in Seq([hdr : Sends, data : Sends]) /\ overlapped \in BOOLEAN

\* In power save hif_send touches the chip's registers and buffers only while
\* something keeps the chip awake: both wake bits are set, or a posted message
\* waits for RX done.  Nothing reads the wake bits back, so it is not promised to a
\* send whose write of one was lost; whatever else fails or is lost, and in
\* whatever state an earlier send left the bits, it is.
AccessIsCovered ==
  \A t \in Tasks : u8ChipMode /\ pc[t] \in Accessing =>
    unacked \/ wakeBits = Bits \/ lost[t] \cap Bits # {}

\* u8ChipSleep counts senders: it is never above the number of tasks that send,
\* and 0 between sends, whichever of the error exits they took and whether they
\* counted or not.  A count left behind would make every later hif_chip_sleep
\* leave the chip awake; the decrement of a send that held a message, and so
\* did not count, must not take the 0 to 255.
CountIsOfSenders == u8ChipSleep <= Cardinality({t \in Tasks : pc[t] # "idle"})

\* A hif_send that returns success has put its own header and data, and nobody
\* else's, into a buffer the firmware allocated for it: "The function shall
\* return ZERO for successful operation and a negative value otherwise"
\* (m2m_hif.c:291).  In particular a late answer to a request whose poll had
\* expired is not taken for the answer to the next one.  The one exception is a
\* lost write of NMI_STATE_REG, CTRL_2 or CTRL_3 of this very send: without
\* CTRL_2 the poll sees bit 1 clear at once and the address of an earlier send in
\* CTRL_4, without CTRL_3 nothing is taken, and hif_send returns 0 all the same.
SuccessIsDelivery == \A t \in Tasks : result[t] = "undelivered" => lost[t] \ Bits # {}

\* The driver has no lock, and all of this is lost when a task enters it while
\* another sends or holds a message (HifSendGarbled).  But only then: as long as
\* the tasks happen to come one after the other, the state that one leaves behind
\* is never wrong for the next, whichever exit it took, whatever it lost and
\* however late the answers to it.
SafeUntilOverlap == ~overlapped => AccessIsCovered /\ CountIsOfSenders /\ SuccessIsDelivery

Sending == {t \in Tasks : pc[t] \notin {"idle", "rx_done"}}
Current == IF Sending = {} THEN Empty ELSE Packet(CHOOSE t \in Sending : TRUE)
Reported == \E t \in Sending : result[t] # "none"
Lossy == \E t \in Sending : lost[t] # {}
Tx == INSTANCE TxChannel WITH
  NoPacket <- Empty, packet <- Current, sent <- Reported, lossy <- Lossy

\* Until tasks overlap, hif_send keeps the promise of TxChannel: the firmware takes
\* the packets whole, one at a time, each at most once and while its hif_send runs,
\* whatever fails or is lost; and what is reported sent was taken, unless a register
\* write of the call was lost.
RefinesTx == Tx!Spec

\* Unless a transfer fails, every send is delivered: the chip is awake to answer
\* it and a buffer comes back to be used again.
SendsAreDelivered ==
  \A t \in Tasks : pc[t] = "wake" ~> (result[t] = "delivered" \/ faults > 0)

\* A send returns, also when the other task's decrement let the chip sleep in the
\* middle of it, or a transfer failed or was lost: the polls give up.  The one wait
\* without a bound is chip_sleep's: a task that never gets out of the driver again
\* has been caught by a bit that the chip sets again and again, or leaves set,
\* while that task or the other waits for it.
SendsReturn ==
  \A t \in Tasks : []<>(pc[t] = "idle" \/ (hold /\ \E u \in Tasks : pc[u] = "sleep_wait"))
=============================================================================
