------------------------------- MODULE HifRx -------------------------------
(***************************************************************************)
(* The receive path of the WINC1500 host interface (m2m_hif.c on the nRF52 *)
(* port): the chip posts a message in WIFI_HOST_RCV_CTRL_0 and pulls its   *)
(* IRQ line low; the GPIOTE interrupt counts it in u8Interrupt and gives   *)
(* the semaphore the Wi-Fi task sleeps on; the task decrements the count,  *)
(* claims the message (clear bit 0, set u8HifRXDone), reads its header,    *)
(* runs the group's callback, which reads the payload, and acknowledges    *)
(* (RX done, bit 1).  Every access to the chip is a bus transfer of its    *)
(* own, with what Bus promises of it: a read may fail; a write of a        *)
(* register always reports success and may have been lost (spi_cmd_rsp     *)
(* returns N_OK when its polls run out), so the branches for a failed      *)
(* nm_write_reg are never taken.  The chip's side is external: it is       *)
(* modelled from what the driver relies on, one message at a time, the     *)
(* next one after RX done.                                                 *)
(***************************************************************************)
EXTENDS Naturals

CONSTANTS MaxMsgs,    \* bound on the messages the chip posts
          MaxReads,   \* bound on the hif_receive calls that leave a message open
          MaxFaults   \* bound on failed, corrupted or lost bus transfers

ASSUME BoundsAssumption == MaxMsgs \in Nat /\ MaxReads \in Nat /\ MaxFaults \in Nat

VARIABLES
  posted,        \* chip: messages posted so far, the last one is in the buffer
  busy,          \* chip: the last message is not acknowledged yet
  ctrl0,         \* WIFI_HOST_RCV_CTRL_0: rx is bit 0, done is bit 1
  evEnabled,     \* GPIOTE event of the IRQ pin
  evPending,     \* an IRQ edge was captured, its handler has not run
  u8Interrupt,   \* gstrHifCxt.u8Interrupt
  u8HifRXDone,   \* gstrHifCxt.u8HifRXDone
  rxMsg,         \* gstrHifCxt.u32RxAddr: the message it is the address of
  sem,           \* m_winc_int_semaphore, binary
  pc,            \* where the Wi-Fi task is
  loaded,        \* register of the decrement u8Interrupt--
  reg,           \* the local copy of CTRL_0
  caller,        \* who called hif_set_rx_done: the callback or hif_isr
  reads,         \* hif_receive calls this callback made
  handled,       \* history: the last message whose callback was entered
  repeats,       \* history: callbacks entered again for the same message
  lost,          \* history: a register write for this message was lost
  faults         \* bus faults so far

chip == <<posted, busy>>
gpiote == <<evEnabled, evPending>>
count == <<u8Interrupt, loaded, sem>>
dispatch == <<handled, repeats>>
msg == <<u8HifRXDone, rxMsg, caller, reads, dispatch>>
vars == <<chip, ctrl0, gpiote, count, msg, pc, reg, lost, faults>>

Ctrl0 == [rx : BOOLEAN, done : BOOLEAN]
Idle == [rx |-> FALSE, done |-> FALSE]

Init ==
  /\ posted = 0 /\ busy = FALSE /\ ctrl0 = Idle
  /\ evEnabled = TRUE /\ evPending = FALSE
  /\ u8Interrupt = 0 /\ loaded = 0 /\ sem = 0
  /\ u8HifRXDone = FALSE /\ rxMsg = 0 /\ caller = "callback"
  /\ reads = 0 /\ handled = 0 /\ repeats = 0
  /\ pc = "check" /\ reg = Idle /\ lost = FALSE /\ faults = 0

BusOk == UNCHANGED <<faults, lost>>
BusFault == faults < MaxFaults /\ faults' = faults + 1 /\ UNCHANGED lost

\* nm_write_reg(WIFI_HOST_RCV_CTRL_0): the driver can not tell the two apart.
WriteCtrl0(value) ==
  \/ BusOk /\ ctrl0' = value
  \/ faults < MaxFaults /\ faults' = faults + 1 /\ lost' = TRUE /\ UNCHANGED ctrl0

\* nm_bsp_interrupt_ctrl(1) clears an event captured before, and (0) masks
\* the interrupt: either way an edge not yet handled is forgotten.
interrupt_ctrl(enable) == evEnabled' = enable /\ evPending' = FALSE

----------------------------------------------------------------------------
(* The chip and the interrupt handler *)

ChipPost ==
  /\ ~busy /\ posted < MaxMsgs
  /\ posted' = posted + 1 /\ busy' = TRUE
  /\ ctrl0' = [rx |-> TRUE, done |-> FALSE]
  /\ evPending' = (evPending \/ evEnabled) /\ lost' = FALSE
  /\ UNCHANGED <<evEnabled, count, msg, pc, reg, faults>>

ChipRelease ==
  /\ busy /\ ctrl0.done
  /\ busy' = FALSE /\ ctrl0' = [ctrl0 EXCEPT !.done = FALSE]
  /\ UNCHANGED <<posted, gpiote, count, msg, pc, reg, lost, faults>>

\* Mutant: the semaphore counts instead of being binary.
in_pin_handler_Counting ==
  /\ evPending /\ evEnabled
  /\ evPending' = FALSE
  /\ u8Interrupt' = (u8Interrupt + 1) % 256
  /\ sem' = sem + 1
  /\ UNCHANGED <<chip, ctrl0, evEnabled, loaded, msg, pc, reg, lost, faults>>

in_pin_handler ==
  /\ evPending /\ evEnabled
  /\ evPending' = FALSE
  /\ u8Interrupt' = (u8Interrupt + 1) % 256
  /\ sem' = 1
  /\ UNCHANGED <<chip, ctrl0, evEnabled, loaded, msg, pc, reg, lost, faults>>

----------------------------------------------------------------------------
(* hif_handle_isr, called in a loop by the Wi-Fi task *)

SemaphoreTake ==
  /\ pc = "take" /\ sem = 1
  /\ sem' = 0 /\ pc' = "check"
  /\ UNCHANGED <<chip, ctrl0, gpiote, u8Interrupt, loaded, msg, reg, lost, faults>>

\* Mutant: off by one in the loop's condition.
CheckInterrupt_OffByOne ==
  /\ pc = "check"
  /\ pc' = IF u8Interrupt > 1 THEN "load" ELSE "take"
  /\ UNCHANGED <<chip, ctrl0, gpiote, count, msg, reg, lost, faults>>

CheckInterrupt ==
  /\ pc = "check"
  /\ pc' = IF u8Interrupt # 0 THEN "load" ELSE "take"
  /\ UNCHANGED <<chip, ctrl0, gpiote, count, msg, reg, lost, faults>>

\* u8Interrupt-- is a load and a store; the interrupt may come in between.
LoadInterrupt ==
  /\ pc = "load"
  /\ loaded' = u8Interrupt /\ pc' = "store"
  /\ UNCHANGED <<chip, ctrl0, gpiote, u8Interrupt, sem, msg, reg, lost, faults>>

StoreInterrupt ==
  /\ pc = "store"
  /\ u8Interrupt' = (loaded + 255) % 256 /\ pc' = "isr_read"
  /\ UNCHANGED <<chip, ctrl0, gpiote, loaded, sem, msg, reg, lost, faults>>

----------------------------------------------------------------------------
(* hif_isr: every failure returns to hif_handle_isr, which calls it again *)

\* A failed read and a clear bit 0 (False interrupt) both mean: try again.
ReadCtrl0 ==
  /\ pc = "isr_read"
  /\ \/ /\ BusOk /\ ctrl0.rx
        /\ reg' = ctrl0 /\ pc' = "isr_clear"
        /\ interrupt_ctrl(FALSE)
     \/ /\ BusOk /\ ~ctrl0.rx
        /\ reg' = ctrl0
        /\ UNCHANGED <<pc, gpiote>>
     \/ /\ BusFault
        /\ UNCHANGED <<reg, pc, gpiote>>
  /\ UNCHANGED <<chip, ctrl0, count, msg>>

\* When the write is lost, hif_isr goes on with bit 0 still set.
ClearRxInterrupt ==
  /\ pc = "isr_clear"
  /\ WriteCtrl0([reg EXCEPT !.rx = FALSE])
  /\ u8HifRXDone' = TRUE /\ pc' = "isr_addr"
  /\ UNCHANGED <<chip, gpiote, count, rxMsg, caller, reads, dispatch, reg>>

\* Size 0, as corrupted on the bus, returns with the interrupt disabled; a
\* failed read of the address enables it.
ReadAddress ==
  /\ pc = "isr_addr"
  /\ \/ /\ BusOk
        /\ rxMsg' = posted /\ pc' = "isr_header" /\ UNCHANGED gpiote
     \/ /\ BusFault
        /\ pc' = "isr_read" /\ UNCHANGED rxMsg
        /\ interrupt_ctrl(TRUE) \/ UNCHANGED gpiote
  /\ UNCHANGED <<chip, ctrl0, count, u8HifRXDone, caller, reads, dispatch, reg>>

\* A failed header read and a length that does not match enable the
\* interrupt, a group that does not exist does not.
ReadHeader ==
  /\ pc = "isr_header"
  /\ \/ /\ BusOk
        /\ handled' = rxMsg /\ repeats' = IF rxMsg = handled THEN repeats + 1 ELSE repeats
        /\ reads' = 0 /\ pc' = "callback" /\ UNCHANGED gpiote
     \/ /\ BusFault
        /\ pc' = "isr_read" /\ UNCHANGED <<dispatch, reads>>
        /\ interrupt_ctrl(TRUE) \/ UNCHANGED gpiote
  /\ UNCHANGED <<chip, ctrl0, count, u8HifRXDone, rxMsg, caller, reg>>

----------------------------------------------------------------------------
(* The callback of the message: any number of hif_receive calls, the last  *)
(* of which may or may not ask for RX done; it gives up on a failed one.   *)

ReceivePart ==
  /\ pc = "callback"
  /\ \/ /\ BusOk /\ reads < MaxReads
        /\ reads' = reads + 1 /\ UNCHANGED pc
     \/ /\ BusFault
        /\ pc' = "isr_end" /\ UNCHANGED reads
  /\ UNCHANGED <<chip, ctrl0, gpiote, count, u8HifRXDone, rxMsg, caller, dispatch, reg>>

\* isDone, or the read that reaches the end of the message.
ReceiveLast ==
  /\ pc = "callback"
  /\ pc' = "done_read" /\ caller' = "callback"
  /\ UNCHANGED <<chip, ctrl0, gpiote, count, u8HifRXDone, rxMsg, reads, dispatch, reg, lost, faults>>

CallbackReturn ==
  /\ pc = "callback"
  /\ pc' = "isr_end"
  /\ UNCHANGED <<chip, ctrl0, gpiote, count, msg, reg, lost, faults>>

\* Mutant: RX done is set after every callback, the flag is not looked at.
CheckRxDone_Always ==
  /\ pc = "isr_end"
  /\ pc' = "done_read" /\ caller' = "isr"
  /\ UNCHANGED <<chip, ctrl0, gpiote, count, u8HifRXDone, rxMsg, reads, dispatch, reg, lost, faults>>

\* Mutant: the interrupt is enabled again at the end of hif_isr, after RX done.
CheckRxDone_LateEnable ==
  /\ pc = "isr_end"
  /\ IF u8HifRXDone THEN pc' = "done_read" /\ caller' = "isr" /\ UNCHANGED gpiote
                    ELSE pc' = "check" /\ UNCHANGED caller /\ interrupt_ctrl(TRUE)
  /\ UNCHANGED <<chip, ctrl0, count, u8HifRXDone, rxMsg, reads, dispatch, reg, lost, faults>>

\* "host app didn't set RX Done": hif_isr sets it after the callback.
CheckRxDone ==
  /\ pc = "isr_end"
  /\ IF u8HifRXDone THEN pc' = "done_read" /\ caller' = "isr"
                    ELSE pc' = "check" /\ UNCHANGED caller
  /\ UNCHANGED <<chip, ctrl0, gpiote, count, u8HifRXDone, rxMsg, reads, dispatch, reg, lost, faults>>

----------------------------------------------------------------------------
(* hif_set_rx_done: it fails when its read does; the callback ignores that, *)
(* hif_isr returns it                                                       *)

\* Mutant: the callback reads on after it gave the buffer back.
AfterRxDone_ReadOn(ok) ==
  IF caller = "callback" THEN "callback" ELSE IF ok THEN "check" ELSE "isr_read"

AfterRxDone(ok) ==
  IF caller = "callback" THEN "isr_end" ELSE IF ok THEN "check" ELSE "isr_read"

\* Mutant: hif_set_rx_done forgets to enable the interrupt.
ReadForRxDone_NoEnable ==
  /\ pc = "done_read"
  /\ u8HifRXDone' = FALSE
  /\ UNCHANGED gpiote
  /\ \/ BusOk /\ reg' = ctrl0 /\ pc' = "done_write"
     \/ BusFault /\ UNCHANGED reg /\ pc' = AfterRxDone(FALSE)
  /\ UNCHANGED <<chip, ctrl0, count, rxMsg, caller, reads, dispatch>>

ReadForRxDone ==
  /\ pc = "done_read"
  /\ u8HifRXDone' = FALSE
  /\ interrupt_ctrl(TRUE)
  /\ \/ BusOk /\ reg' = ctrl0 /\ pc' = "done_write"
     \/ BusFault /\ UNCHANGED reg /\ pc' = AfterRxDone(FALSE)
  /\ UNCHANGED <<chip, ctrl0, count, rxMsg, caller, reads, dispatch>>

WriteRxDone ==
  /\ pc = "done_write"
  /\ WriteCtrl0([reg EXCEPT !.done = TRUE])
  /\ pc' = AfterRxDone(TRUE)
  /\ UNCHANGED <<chip, gpiote, count, msg, reg>>

----------------------------------------------------------------------------
hif_handle_isr == CheckInterrupt \/ LoadInterrupt \/ StoreInterrupt
hif_isr == ReadCtrl0 \/ ClearRxInterrupt \/ ReadAddress \/ ReadHeader \/ CheckRxDone
hif_receive == ReceivePart \/ ReceiveLast \/ CallbackReturn
hif_set_rx_done == ReadForRxDone \/ WriteRxDone

WifiTask == SemaphoreTake \/ hif_handle_isr \/ hif_isr \/ hif_receive \/ hif_set_rx_done
Chip == ChipPost \/ ChipRelease

Next == Chip \/ in_pin_handler \/ WifiTask

Spec == Init /\ [][Next]_vars

\* The interrupt is served, the scheduler runs a ready Wi-Fi task again and
\* again (no task of its priority spins without blocking), and the chip
\* releases a buffer it was told is free.  It need not post.
FairSpec == Spec /\ WF_vars(WifiTask) /\ WF_vars(in_pin_handler) /\ WF_vars(ChipRelease)

----------------------------------------------------------------------------
(* Properties *)

Pcs == {"take", "check", "load", "store", "isr_read", "isr_clear", "isr_addr",
        "isr_header", "callback", "isr_end", "done_read", "done_write"}

\* Every variable stays in its type; u8Interrupt is an 8-bit counter.
TypeOK ==
  /\ posted \in 0..MaxMsgs /\ busy \in BOOLEAN /\ ctrl0 \in Ctrl0
  /\ evEnabled \in BOOLEAN /\ evPending \in BOOLEAN
  /\ u8Interrupt \in 0..255 /\ loaded \in 0..255 /\ sem \in {0, 1}
  /\ u8HifRXDone \in BOOLEAN /\ rxMsg \in 0..MaxMsgs
  /\ caller \in {"callback", "isr"} /\ reads \in 0..MaxReads
  /\ handled \in 0..MaxMsgs /\ repeats \in Nat /\ lost \in BOOLEAN
  /\ pc \in Pcs /\ reg \in Ctrl0 /\ faults \in 0..MaxFaults

\* From the claim (hif_isr clears bit 0) to RX done the chip keeps the message
\* in its buffer, and the callback reads the message u32RxAddr points to: the
\* chip can not overwrite what hif_receive is copying, whatever reads failed and
\* whatever writes were lost.  A clear that was lost leaves bit 0 set over the
\* claim, over RX done and over the release, until the next message.
BufferHeld ==
  pc \in {"isr_addr", "isr_header", "callback", "done_read", "done_write"} =>
    /\ busy /\ ~ctrl0.done /\ (ctrl0.rx => lost)
    /\ pc = "callback" => rxMsg = posted

\* The Wi-Fi task does not sleep on a message whose callback it has not run: when
\* it is in xSemaphoreTake and there is one, the semaphore is given and the count
\* it will test is not 0, or the interrupt that does both is pending, whatever the
\* order of the interrupt and the decrement, whatever reads failed and whatever
\* writes were lost.
NoLostWakeup ==
  pc = "take" /\ handled < posted => evPending \/ (sem = 1 /\ u8Interrupt > 0)

\* hif_isr disables the interrupt while it holds a message and hif_set_rx_done
\* enables it, which clears a captured edge, before it writes RX done.  So no edge
\* is missed and none is counted twice: the edges pending, counted or being served
\* are exactly the messages posted and not dispatched; in particular the decrement
\* never overwrites an increment, and no call of hif_isr, however often it is
\* retried, leaves a count behind for a message it has served.
EdgePerMessage ==
  (IF evPending THEN 1 ELSE 0) + u8Interrupt
    + (IF handled < posted /\ pc \in {"isr_read", "isr_clear", "isr_addr", "isr_header"} THEN 1 ELSE 0)
  = posted - handled

\* A message the chip waits with, and how many steps of the interrupt handler and
\* of the Wi-Fi task its acknowledgement is away at most: MaxReads + 17 when it is
\* posted, counting a stale semaphore that sends the task round the loop once more.
Waiting == busy /\ ~ctrl0.done
StepsLeft ==
  IF ~Waiting THEN 0
  ELSE CASE pc = "done_write" -> 1
         [] pc = "done_read" -> 2
         [] pc = "isr_end" /\ u8HifRXDone -> 3
         [] pc = "callback" -> 4 + (MaxReads - reads)
         [] pc = "isr_header" -> MaxReads + 5
         [] pc = "isr_addr" -> MaxReads + 6
         [] pc = "isr_clear" -> MaxReads + 7
         [] pc = "isr_read" -> MaxReads + 8
         [] pc = "store" -> MaxReads + 9
         [] pc = "load" -> MaxReads + 10
         [] pc = "check" -> MaxReads + IF u8Interrupt > 0 THEN 11 ELSE 14 + 2 * sem
         [] pc = "take" -> MaxReads + IF u8Interrupt > 0 THEN 12 ELSE 13 + 2 * sem
         [] pc = "isr_end" /\ ~u8HifRXDone -> MaxReads + IF u8Interrupt > 0 THEN 12 ELSE 17

\* Until a transfer fails or is lost, the task and the handler do nothing but serve
\* the message that waits: no step repeats or undoes another, the retries of
\* hif_handle_isr ("we will try forever", m2m_hif.c:582) never begin, and within
\* MaxReads + 17 steps RX done is written.
ServiceAdvances ==
  [][Waiting /\ faults' = 0 /\ (WifiTask \/ in_pin_handler) => StepsLeft' < StepsLeft]_vars

Channel == INSTANCE RxChannel WITH
  sent <- posted, dispatched <- handled, repeated <- repeats, lossy <- lost,
  acked <- IF busy THEN posted - 1 ELSE posted

\* Messages are dispatched in order, none is skipped, and RX done is only signalled
\* for a dispatched message, whatever the bus does; the callback of a message runs
\* again only when a register write for it was lost (the clear of bit 0, and then
\* the read in hif_set_rx_done failed and hif_handle_isr tried again).
RefinesChannel == Channel!Spec

\* Unless a transfer fails or is lost, every message is acknowledged
\* (RefinesChannel: after its callback has run), so the chip can post the next one.
ServesMessages == busy ~> (~busy \/ faults > 0)

\* "we will try forever untill we get that interrupt", with errors "due to bus
\* errors" (m2m_hif.c:582): finitely many errors that the bus does report do not
\* stop reception.
Recovers == busy ~> (~busy \/ lost)
=============================================================================
