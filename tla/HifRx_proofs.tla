---------------------------- MODULE HifRx_proofs ----------------------------
(***************************************************************************)
(* Proofs about HifRx, for every bound on messages, reads and bus faults.  *)
(***************************************************************************)
EXTENDS HifRx, TLAPS

\* From the decrement to the end of hif_isr, with a message that is not given back.
Serving ==
  \/ pc \in {"isr_read", "isr_clear", "isr_addr", "isr_header", "callback", "done_read", "done_write"}
  \/ pc = "isr_end" /\ u8HifRXDone

\* The chip's buffer: bit 1 is set only for a message that was dispatched, bit 0 only
\* for one that was not, unless a clear of it was lost.
BufferInv ==
  /\ busy => posted > 0 /\ handled \in {posted - 1, posted}
  /\ ~busy => handled = posted /\ ~ctrl0.done
  /\ ctrl0.rx => lost \/ handled = posted - 1
  /\ ctrl0.done => handled = posted
  /\ evPending => ctrl0.rx /\ evEnabled
  /\ lost => faults > 0

\* Where the Wi-Fi task is in hif_isr, and what it holds there.  Also in its retries
\* hif_isr serves one message, which the chip keeps: no edge comes meanwhile.
TaskInv ==
  /\ Serving => busy /\ ~ctrl0.done /\ ~evPending /\ u8Interrupt = 0
  /\ pc = "isr_clear" => ctrl0.rx /\ reg.rx /\ ~reg.done /\ ~evEnabled
  /\ pc \in {"isr_addr", "isr_header", "callback", "done_read", "done_write"} => (ctrl0.rx => lost)
  /\ pc = "isr_end" /\ u8HifRXDone => (ctrl0.rx => lost)
  /\ pc \in {"isr_addr", "isr_header", "callback"} => u8HifRXDone
  /\ pc \in {"isr_header", "callback"} => rxMsg = posted
  /\ pc \in {"isr_addr", "isr_header"} => lost \/ handled = posted - 1
  /\ pc \in {"callback", "done_read", "done_write"} => handled = posted
  /\ pc = "isr_end" /\ u8HifRXDone => handled = posted
  /\ pc = "done_write" => ~u8HifRXDone /\ evEnabled /\ ~reg.done /\ (reg.rx => lost)

\* Between two calls of hif_isr the interrupt is enabled and a message that is not
\* dispatched is pending or counted; a task that sleeps with a count has a token.
WakeInv ==
  ~Serving =>
    /\ evEnabled
    /\ (IF evPending THEN 1 ELSE 0) + u8Interrupt = posted - handled
    /\ pc \in {"load", "store"} => u8Interrupt = 1
    /\ pc = "store" => loaded = 1
    /\ pc = "take" /\ u8Interrupt > 0 => sem = 1

IInv == TypeOK /\ BufferInv /\ TaskInv /\ WakeInv

----------------------------------------------------------------------------
\* The initial state satisfies the inductive invariant.
LEMMA InitIInv == Init => IInv
<1> SUFFICES ASSUME Init PROVE IInv
  OBVIOUS
<1> USE BoundsAssumption DEF Init, Idle
<1>1. TypeOK
  <2>1. ctrl0 \in Ctrl0 /\ reg \in Ctrl0
    BY DEF Ctrl0
  <2>2. /\ busy \in BOOLEAN /\ evEnabled \in BOOLEAN /\ evPending \in BOOLEAN
        /\ u8HifRXDone \in BOOLEAN /\ lost \in BOOLEAN
    OBVIOUS
  <2>. QED
    BY <2>1, <2>2 DEF TypeOK, Pcs
<1>2. BufferInv /\ TaskInv /\ WakeInv
  BY DEF BufferInv, TaskInv, WakeInv, Serving
<1>. QED
  BY <1>1, <1>2 DEF IInv

\* Every step of the chip, of the interrupt handler and of the Wi-Fi task keeps it.
LEMMA StepIInv == ASSUME IInv, [Next]_vars PROVE IInv'
<1> USE BoundsAssumption
         DEF IInv, TypeOK, BufferInv, TaskInv, WakeInv, Serving, Ctrl0, Pcs,
             chip, gpiote, count, dispatch, msg, BusOk, BusFault, WriteCtrl0, interrupt_ctrl, AfterRxDone
<1>1. CASE ChipPost
  <2>1. TypeOK'
    <3>1. evPending' \in BOOLEAN /\ busy' \in BOOLEAN /\ lost' \in BOOLEAN
      BY <1>1, Zenon DEF ChipPost
    <3>2. ctrl0' \in Ctrl0 /\ posted' \in 0..MaxMsgs
      BY <1>1 DEF ChipPost
    <3>3. UNCHANGED <<evEnabled, count, msg, pc, reg, faults>>
      BY <1>1 DEF ChipPost
    <3>. QED
      BY <3>1, <3>2, <3>3
  <2>2. BufferInv'
    BY <1>1 DEF ChipPost
  <2>3. TaskInv'
    BY <1>1 DEF ChipPost
  <2>4. WakeInv'
    <3>1. ~Serving /\ ~busy /\ handled = posted
      BY <1>1 DEF ChipPost
    <3>2. evEnabled /\ ~evPending /\ u8Interrupt = 0
      BY <3>1
    <3>3. evPending' = TRUE /\ posted' = posted + 1 /\ UNCHANGED <<evEnabled, count, msg, pc>>
      BY <1>1, <3>2 DEF ChipPost
    <3>. QED
      BY <3>1, <3>2, <3>3
  <2>. QED
    BY <2>1, <2>2, <2>3, <2>4 DEF IInv
<1>2. CASE ChipRelease
  <2>1. TypeOK'
    <3>1. ctrl0' \in Ctrl0 /\ busy' \in BOOLEAN
      BY <1>2 DEF ChipRelease
    <3>2. UNCHANGED <<posted, gpiote, count, msg, pc, reg, lost, faults>>
      BY <1>2 DEF ChipRelease
    <3>. QED
      BY <3>1, <3>2
  <2>2. BufferInv'
    BY <1>2 DEF ChipRelease
  <2>3. TaskInv'
    BY <1>2 DEF ChipRelease
  <2>4. WakeInv'
    BY <1>2 DEF ChipRelease
  <2>. QED
    BY <2>1, <2>2, <2>3, <2>4 DEF IInv
<1>3. CASE in_pin_handler
  <2>1. TypeOK'
    <3>1. evEnabled' \in BOOLEAN /\ evPending' \in BOOLEAN /\ u8HifRXDone' \in BOOLEAN
      BY <1>3 DEF in_pin_handler
    <3>2. ctrl0' \in Ctrl0 /\ reg' \in Ctrl0
      BY <1>3 DEF in_pin_handler
    <3>3. u8Interrupt' \in 0..255 /\ faults' \in 0..MaxFaults
      BY <1>3 DEF in_pin_handler
    <3>. QED
      BY <1>3, <3>1, <3>2, <3>3 DEF in_pin_handler
  <2>2. BufferInv'
    BY <1>3 DEF in_pin_handler
  <2>3. TaskInv'
    BY <1>3 DEF in_pin_handler
  <2>4. WakeInv'
    BY <1>3 DEF in_pin_handler
  <2>. QED
    BY <2>1, <2>2, <2>3, <2>4 DEF IInv
<1>4. CASE SemaphoreTake
  <2>1. TypeOK'
    BY <1>4 DEF SemaphoreTake
  <2>2. BufferInv'
    BY <1>4 DEF SemaphoreTake
  <2>3. TaskInv'
    BY <1>4 DEF SemaphoreTake
  <2>4. WakeInv'
    BY <1>4 DEF SemaphoreTake
  <2>. QED
    BY <2>1, <2>2, <2>3, <2>4 DEF IInv
<1>5. CASE CheckInterrupt
  <2>1. TypeOK'
    BY <1>5 DEF CheckInterrupt
  <2>2. BufferInv'
    BY <1>5 DEF CheckInterrupt
  <2>3. TaskInv'
    BY <1>5 DEF CheckInterrupt
  <2>4. WakeInv'
    BY <1>5 DEF CheckInterrupt
  <2>. QED
    BY <2>1, <2>2, <2>3, <2>4 DEF IInv
<1>6. CASE LoadInterrupt
  <2>1. TypeOK'
    BY <1>6 DEF LoadInterrupt
  <2>2. BufferInv'
    BY <1>6 DEF LoadInterrupt
  <2>3. TaskInv'
    BY <1>6 DEF LoadInterrupt
  <2>4. WakeInv'
    BY <1>6 DEF LoadInterrupt
  <2>. QED
    BY <2>1, <2>2, <2>3, <2>4 DEF IInv
<1>7. CASE StoreInterrupt
  <2>1. TypeOK'
    BY <1>7 DEF StoreInterrupt
  <2>2. BufferInv'
    BY <1>7 DEF StoreInterrupt
  <2>3. TaskInv'
    BY <1>7 DEF StoreInterrupt
  <2>4. WakeInv'
    BY <1>7 DEF StoreInterrupt
  <2>. QED
    BY <2>1, <2>2, <2>3, <2>4 DEF IInv
<1>8. CASE ReadCtrl0
  <2>1. TypeOK'
    <3>1. evEnabled' \in BOOLEAN /\ evPending' \in BOOLEAN /\ u8HifRXDone' \in BOOLEAN
      BY <1>8 DEF ReadCtrl0
    <3>2. ctrl0' \in Ctrl0 /\ reg' \in Ctrl0
      BY <1>8 DEF ReadCtrl0
    <3>3. u8Interrupt' \in 0..255 /\ faults' \in 0..MaxFaults
      BY <1>8 DEF ReadCtrl0
    <3>. QED
      BY <1>8, <3>1, <3>2, <3>3 DEF ReadCtrl0
  <2>2. BufferInv'
    BY <1>8 DEF ReadCtrl0
  <2>3. TaskInv'
    BY <1>8 DEF ReadCtrl0
  <2>4. WakeInv'
    BY <1>8 DEF ReadCtrl0
  <2>. QED
    BY <2>1, <2>2, <2>3, <2>4 DEF IInv
<1>9. CASE ClearRxInterrupt
  <2>1. TypeOK'
    <3>1. evEnabled' \in BOOLEAN /\ evPending' \in BOOLEAN /\ u8HifRXDone' \in BOOLEAN
      BY <1>9 DEF ClearRxInterrupt
    <3>2. ctrl0' \in Ctrl0 /\ reg' \in Ctrl0
      BY <1>9 DEF ClearRxInterrupt
    <3>3. u8Interrupt' \in 0..255 /\ faults' \in 0..MaxFaults
      BY <1>9 DEF ClearRxInterrupt
    <3>. QED
      BY <1>9, <3>1, <3>2, <3>3 DEF ClearRxInterrupt
  <2>2. BufferInv'
    BY <1>9 DEF ClearRxInterrupt
  <2>3. TaskInv'
    BY <1>9 DEF ClearRxInterrupt
  <2>4. WakeInv'
    BY <1>9 DEF ClearRxInterrupt
  <2>. QED
    BY <2>1, <2>2, <2>3, <2>4 DEF IInv
<1>10. CASE ReadAddress
  <2>1. TypeOK'
    <3>1. evEnabled' \in BOOLEAN /\ evPending' \in BOOLEAN /\ u8HifRXDone' \in BOOLEAN
      BY <1>10 DEF ReadAddress
    <3>2. ctrl0' \in Ctrl0 /\ reg' \in Ctrl0
      BY <1>10 DEF ReadAddress
    <3>3. u8Interrupt' \in 0..255 /\ faults' \in 0..MaxFaults
      BY <1>10 DEF ReadAddress
    <3>. QED
      BY <1>10, <3>1, <3>2, <3>3 DEF ReadAddress
  <2>2. BufferInv'
    BY <1>10 DEF ReadAddress
  <2>3. TaskInv'
    BY <1>10 DEF ReadAddress
  <2>4. WakeInv'
    BY <1>10 DEF ReadAddress
  <2>. QED
    BY <2>1, <2>2, <2>3, <2>4 DEF IInv
<1>11. CASE ReadHeader
  <2>1. TypeOK'
    <3>1. evEnabled' \in BOOLEAN /\ evPending' \in BOOLEAN /\ u8HifRXDone' \in BOOLEAN
      BY <1>11 DEF ReadHeader
    <3>2. ctrl0' \in Ctrl0 /\ reg' \in Ctrl0
      BY <1>11 DEF ReadHeader
    <3>3. u8Interrupt' \in 0..255 /\ faults' \in 0..MaxFaults
      BY <1>11 DEF ReadHeader
    <3>. QED
      BY <1>11, <3>1, <3>2, <3>3 DEF ReadHeader
  <2>2. BufferInv'
    BY <1>11 DEF ReadHeader
  <2>3. TaskInv'
    BY <1>11 DEF ReadHeader
  <2>4. WakeInv'
    BY <1>11 DEF ReadHeader
  <2>. QED
    BY <2>1, <2>2, <2>3, <2>4 DEF IInv
<1>12. CASE ReceivePart
  <2>1. TypeOK'
    BY <1>12 DEF ReceivePart
  <2>2. BufferInv'
    BY <1>12 DEF ReceivePart
  <2>3. TaskInv'
    BY <1>12 DEF ReceivePart
  <2>4. WakeInv'
    BY <1>12 DEF ReceivePart
  <2>. QED
    BY <2>1, <2>2, <2>3, <2>4 DEF IInv
<1>13. CASE ReceiveLast
  <2>1. TypeOK'
    BY <1>13 DEF ReceiveLast
  <2>2. BufferInv'
    BY <1>13 DEF ReceiveLast
  <2>3. TaskInv'
    BY <1>13 DEF ReceiveLast
  <2>4. WakeInv'
    BY <1>13 DEF ReceiveLast
  <2>. QED
    BY <2>1, <2>2, <2>3, <2>4 DEF IInv
<1>14. CASE CallbackReturn
  <2>1. TypeOK'
    BY <1>14 DEF CallbackReturn
  <2>2. BufferInv'
    BY <1>14 DEF CallbackReturn
  <2>3. TaskInv'
    BY <1>14 DEF CallbackReturn
  <2>4. WakeInv'
    BY <1>14 DEF CallbackReturn
  <2>. QED
    BY <2>1, <2>2, <2>3, <2>4 DEF IInv
<1>15. CASE CheckRxDone
  <2>1. TypeOK'
    BY <1>15 DEF CheckRxDone
  <2>2. BufferInv'
    BY <1>15 DEF CheckRxDone
  <2>3. TaskInv'
    BY <1>15 DEF CheckRxDone
  <2>4. WakeInv'
    BY <1>15 DEF CheckRxDone
  <2>. QED
    BY <2>1, <2>2, <2>3, <2>4 DEF IInv
<1>16. CASE ReadForRxDone
  <2>1. TypeOK'
    <3>1. evEnabled' \in BOOLEAN /\ evPending' \in BOOLEAN /\ u8HifRXDone' \in BOOLEAN
      BY <1>16 DEF ReadForRxDone
    <3>2. ctrl0' \in Ctrl0 /\ reg' \in Ctrl0
      BY <1>16 DEF ReadForRxDone
    <3>3. u8Interrupt' \in 0..255 /\ faults' \in 0..MaxFaults
      BY <1>16 DEF ReadForRxDone
    <3>. QED
      BY <1>16, <3>1, <3>2, <3>3 DEF ReadForRxDone
  <2>2. BufferInv'
    BY <1>16 DEF ReadForRxDone
  <2>3. TaskInv'
    BY <1>16 DEF ReadForRxDone
  <2>4. WakeInv'
    BY <1>16 DEF ReadForRxDone
  <2>. QED
    BY <2>1, <2>2, <2>3, <2>4 DEF IInv
<1>17. CASE WriteRxDone
  <2>1. TypeOK'
    <3>1. evEnabled' \in BOOLEAN /\ evPending' \in BOOLEAN /\ u8HifRXDone' \in BOOLEAN
      BY <1>17 DEF WriteRxDone
    <3>2. ctrl0' \in Ctrl0 /\ reg' \in Ctrl0
      BY <1>17 DEF WriteRxDone
    <3>3. u8Interrupt' \in 0..255 /\ faults' \in 0..MaxFaults
      BY <1>17 DEF WriteRxDone
    <3>. QED
      BY <1>17, <3>1, <3>2, <3>3 DEF WriteRxDone
  <2>2. BufferInv'
    BY <1>17 DEF WriteRxDone
  <2>3. TaskInv'
    BY <1>17 DEF WriteRxDone
  <2>4. WakeInv'
    BY <1>17 DEF WriteRxDone
  <2>. QED
    BY <2>1, <2>2, <2>3, <2>4 DEF IInv
<1>18. CASE UNCHANGED vars
  BY <1>18 DEF vars
<1>. QED
  BY <1>1, <1>2, <1>3, <1>4, <1>5, <1>6, <1>7, <1>8, <1>9, <1>10, <1>11, <1>12, <1>13, <1>14, <1>15, <1>16,
     <1>17, <1>18
  DEF Next, Chip, WifiTask, hif_handle_isr, hif_isr, hif_receive, hif_set_rx_done

----------------------------------------------------------------------------
LEMMA Invariance == Spec => []IInv
<1>1. IInv /\ [Next]_vars => IInv'
  BY StepIInv
<1>. QED
  BY InitIInv, <1>1, PTL DEF Spec

\* Every variable of the driver, of the chip and of the GPIOTE keeps its type.
THEOREM TypeCorrect == Spec => []TypeOK
<1>1. IInv => TypeOK
  BY DEF IInv
<1>. QED
  BY Invariance, <1>1, PTL

\* The payload hif_receive copies is that of the message being dispatched, and
\* the chip does not own the buffer meanwhile, whatever reads failed and whatever
\* writes were lost.
THEOREM BufferIsHeld == Spec => []BufferHeld
<1>1. IInv => BufferHeld
  BY DEF IInv, TypeOK, TaskInv, Serving, BufferHeld
<1>. QED
  BY Invariance, <1>1, PTL

\* The Wi-Fi task never sleeps on a message it has not dispatched: xSemaphoreTake
\* returns and hif_handle_isr finds the count set.
THEOREM WakeupIsNotLost == Spec => []NoLostWakeup
<1>1. IInv => NoLostWakeup
  BY BoundsAssumption DEF IInv, TypeOK, WakeInv, Serving, NoLostWakeup
<1>. QED
  BY Invariance, <1>1, PTL

\* The edges pending, counted and being served are exactly the messages not
\* dispatched: no increment is lost to the decrement, and no retry adds one.
THEOREM EveryEdgeCounts == Spec => []EdgePerMessage
<1>1. IInv => EdgePerMessage
  <2> SUFFICES ASSUME IInv PROVE EdgePerMessage
    OBVIOUS
  <2> USE BoundsAssumption DEF IInv, TypeOK, Pcs
  <2>1. CASE Serving
    BY <2>1 DEF Serving, TaskInv, BufferInv, EdgePerMessage
  <2>2. CASE ~Serving
    BY <2>2 DEF Serving, WakeInv, EdgePerMessage
  <2>. QED
    BY <2>1, <2>2
<1>. QED
  BY Invariance, <1>1, PTL

----------------------------------------------------------------------------
\* The driver keeps the promise of RxChannel: the callbacks in order, none skipped
\* and none run again unless a register write for its message was lost, RX done only
\* after them, whatever the bus does.
THEOREM ImplementsChannel == Spec => RefinesChannel
<1>1. Init => Channel!Init
  BY DEF Init, Channel!Init
<1>2. IInv /\ [Next]_vars => [Channel!Next]_(Channel!vars)
  <2> SUFFICES ASSUME IInv, [Next]_vars PROVE [Channel!Next]_(Channel!vars)
    OBVIOUS
  <2> USE DEF IInv, TypeOK, Channel!vars, chip, dispatch, msg, BusOk, BusFault, interrupt_ctrl
  <2>1. CASE ChipPost
    BY <2>1 DEF ChipPost, BufferInv, Channel!Next, Channel!Post
  <2>2. CASE ChipRelease
    BY <2>2 DEF ChipRelease, BufferInv, Channel!Next, Channel!Ack
  <2>3. CASE ReadHeader
    <3>1. CASE BusFault
      BY <2>3, <3>1 DEF ReadHeader
    <3>2. CASE BusOk
      <4>1. busy /\ rxMsg = posted /\ handled \in {posted - 1, posted} /\ (ctrl0.rx => lost)
        BY <2>3 DEF ReadHeader, TaskInv, BufferInv, Serving
      <4>2. /\ handled' = rxMsg /\ repeats' = IF rxMsg = handled THEN repeats + 1 ELSE repeats
            /\ UNCHANGED <<posted, busy, lost>>
        BY <2>3, <3>2 DEF ReadHeader
      <4>3. CASE handled = posted - 1
        BY <4>1, <4>2, <4>3 DEF Channel!Next, Channel!Dispatch
      <4>4. CASE handled = posted
        <5>1. lost
          BY <2>3, <4>4 DEF ReadHeader, TaskInv
        <5>. QED
          BY <4>1, <4>2, <4>4, <5>1 DEF Channel!Next, Channel!Repeat
      <4>. QED
        BY <4>1, <4>3, <4>4
    <3>. QED
      BY <2>3, <3>1, <3>2 DEF ReadHeader
  <2>4. CASE in_pin_handler
    BY <2>4 DEF in_pin_handler
  <2>5. CASE SemaphoreTake \/ hif_handle_isr
    BY <2>5 DEF SemaphoreTake, hif_handle_isr, CheckInterrupt, LoadInterrupt, StoreInterrupt
  <2>6. CASE ReadCtrl0 \/ ReadAddress \/ CheckRxDone
    BY <2>6 DEF ReadCtrl0, ReadAddress, CheckRxDone
  <2>10. CASE ClearRxInterrupt \/ WriteRxDone
    <3>1. busy /\ UNCHANGED <<posted, busy, handled, repeats>>
      BY <2>10 DEF ClearRxInterrupt, WriteRxDone, TaskInv, Serving
    <3>2. UNCHANGED lost \/ lost' = TRUE
      BY <2>10 DEF ClearRxInterrupt, WriteRxDone, WriteCtrl0
    <3>. QED
      BY <3>1, <3>2 DEF Channel!Next, Channel!Lose
  <2>7. CASE hif_receive
    BY <2>7 DEF hif_receive, ReceivePart, ReceiveLast, CallbackReturn
  <2>8. CASE ReadForRxDone
    BY <2>8 DEF ReadForRxDone, AfterRxDone
  <2>9. CASE UNCHANGED vars
    BY <2>9 DEF vars
  <2>. QED
    BY <2>1, <2>2, <2>3, <2>4, <2>5, <2>6, <2>7, <2>8, <2>9, <2>10
    DEF Next, Chip, WifiTask, hif_isr, hif_set_rx_done
<1>. QED
  BY <1>1, <1>2, Invariance, PTL DEF Spec, RefinesChannel, Channel!Spec

----------------------------------------------------------------------------
\* A message that waits is flagged by bit 0 until the task has claimed it.
ClaimInv ==
  faults = 0 /\ Waiting =>
    /\ pc \in {"take", "check", "load", "store", "isr_read", "isr_clear"} => ctrl0.rx
    /\ pc = "isr_end" /\ ~u8HifRXDone => ctrl0.rx

LEMMA ClaimStep == ASSUME IInv, ClaimInv, [Next]_vars PROVE ClaimInv'
<1> SUFFICES ASSUME faults' = 0 PROVE ClaimInv'
  BY DEF ClaimInv
<1>0. ~BusFault
  BY BoundsAssumption DEF IInv, TypeOK, BusFault
<1>00. TypeOK /\ TaskInv /\ BufferInv
  BY DEF IInv
<1> USE <1>0, <1>00
    DEF TypeOK, Ctrl0, Waiting, ClaimInv, Serving, chip, gpiote, count, dispatch, msg, BusOk, WriteCtrl0
<1>1. CASE ChipPost
  BY <1>1 DEF ChipPost
<1>2. CASE ChipRelease
  BY <1>2 DEF ChipRelease
<1>3. CASE in_pin_handler
  BY <1>3 DEF in_pin_handler
<1>4. CASE SemaphoreTake
  BY <1>4 DEF SemaphoreTake
<1>5. CASE CheckInterrupt
  BY <1>5 DEF CheckInterrupt
<1>6. CASE LoadInterrupt
  BY <1>6 DEF LoadInterrupt
<1>7. CASE StoreInterrupt
  BY <1>7 DEF StoreInterrupt
<1>8. CASE ReadCtrl0
  BY <1>8 DEF ReadCtrl0
<1>9. CASE ClearRxInterrupt
  BY <1>9 DEF ClearRxInterrupt, TaskInv
<1>10. CASE ReadAddress
  BY <1>10 DEF ReadAddress, TaskInv
<1>11. CASE ReadHeader
  BY <1>11 DEF ReadHeader, TaskInv
<1>12. CASE hif_receive
  BY <1>12 DEF hif_receive, ReceivePart, ReceiveLast, CallbackReturn, TaskInv
<1>13. CASE CheckRxDone
  BY <1>13 DEF CheckRxDone, TaskInv
<1>14. CASE ReadForRxDone
  BY <1>14 DEF ReadForRxDone, AfterRxDone, TaskInv
<1>15. CASE WriteRxDone
  BY <1>15 DEF WriteRxDone, AfterRxDone, TaskInv
<1>16. CASE UNCHANGED vars
  BY <1>16 DEF vars
<1>. QED
  BY <1>1, <1>2, <1>3, <1>4, <1>5, <1>6, <1>7, <1>8, <1>9, <1>10, <1>11, <1>12, <1>13, <1>14, <1>15, <1>16
  DEF Next, Chip, WifiTask, hif_handle_isr, hif_isr, hif_set_rx_done

LEMMA Claimed == Spec => []ClaimInv
<1>1. Init => ClaimInv
  BY DEF Init, ClaimInv, Waiting
<1>. QED
  BY <1>1, ClaimStep, Invariance, PTL DEF Spec

\* Of a message that is not claimed yet exactly one trace is left: the pending
\* edge, the count, or the decrement that was made for it.
LEMMA OneTrace ==
  ASSUME IInv, ClaimInv, EdgePerMessage, faults = 0, Waiting
  PROVE  /\ pc \in {"take", "check"} \/ (pc = "isr_end" /\ ~u8HifRXDone) =>
              (evPending /\ u8Interrupt = 0) \/ (~evPending /\ u8Interrupt = 1)
         /\ pc \in {"load", "store"} => ~evPending /\ u8Interrupt = 1
         /\ pc \notin {"take", "check", "load", "store", "isr_end"} => ~evPending
         /\ evPending => ctrl0.rx
         /\ pc = "isr_read" => ctrl0.rx
<1>1. ctrl0.rx => handled = posted - 1
  BY DEF IInv, BufferInv
<1>2. posted \in Nat /\ handled \in Nat /\ u8Interrupt \in Nat
  BY BoundsAssumption DEF IInv, TypeOK
<1>3. pc \in Pcs
  BY DEF IInv, TypeOK
<1>4. /\ pc = "load" => u8Interrupt > 0
      /\ pc = "store" => u8Interrupt > 0
  BY DEF IInv, TypeOK, WakeInv, Serving
<1>5. evPending => ctrl0.rx
  BY DEF IInv, BufferInv
<1>6. ctrl0.rx => ~(pc \in {"isr_addr", "isr_header", "callback", "done_read", "done_write"})
  BY DEF IInv, TaskInv, BufferInv
<1>7. evPending => evEnabled /\ pc # "isr_clear"
  BY DEF IInv, BufferInv, TaskInv
<1>. QED
  BY <1>1, <1>2, <1>3, <1>4, <1>5, <1>6, <1>7 DEF EdgePerMessage, ClaimInv, Pcs

LEMMA StepServes ==
  ASSUME IInv, ClaimInv, EdgePerMessage, Waiting, faults' = 0, [Next]_vars, WifiTask \/ in_pin_handler
  PROVE  StepsLeft' < StepsLeft
<1>1. faults = 0 /\ ~BusFault /\ \A value : WriteCtrl0(value) => BusOk /\ ctrl0' = value
  <2>1. faults \in Nat
    BY BoundsAssumption DEF IInv, TypeOK
  <2>2. ~BusFault /\ \A value : WriteCtrl0(value) => BusOk /\ ctrl0' = value
    BY <2>1 DEF BusFault, BusOk, WriteCtrl0
  <2>3. UNCHANGED faults
    BY <2>2 DEF WifiTask, hif_handle_isr, hif_isr, hif_receive, hif_set_rx_done,
       in_pin_handler, SemaphoreTake, CheckInterrupt, LoadInterrupt, StoreInterrupt, ReadCtrl0,
       ClearRxInterrupt, ReadAddress, ReadHeader, ReceivePart, ReceiveLast, CallbackReturn,
       CheckRxDone, ReadForRxDone, WriteRxDone, BusOk
  <2>. QED
    BY <2>2, <2>3
<1>2. TypeOK /\ TaskInv
  BY DEF IInv
<1> USE <1>1, <1>2, OneTrace, BoundsAssumption
    DEF TypeOK, Ctrl0, Pcs, Waiting, StepsLeft, chip, gpiote, count, dispatch, msg, BusOk
<1>3. CASE in_pin_handler
  <2>1. evPending /\ UNCHANGED <<busy, ctrl0, pc,
     u8HifRXDone>> /\ u8Interrupt' = (u8Interrupt + 1) % 256 /\ sem' = 1
    BY <1>3 DEF in_pin_handler
  <2>2. pc \in {"take", "check"} \/ (pc = "isr_end" /\ ~u8HifRXDone)
    <3>1. pc \notin {"load", "store"} /\ pc \in {"take", "check", "load", "store", "isr_end"}
      BY <2>1
    <3>2. pc = "isr_end" => ~u8HifRXDone
      BY <2>1 DEF TaskInv, Serving
    <3>. QED
      BY <3>1, <3>2
  <2>3. u8Interrupt = 0 /\ u8Interrupt' = 1 /\ Waiting'
    BY <2>1, <2>2
  <2>4. CASE pc = "take"
    BY <2>1, <2>3, <2>4
  <2>5. CASE pc = "check"
    BY <2>1, <2>3, <2>5
  <2>6. CASE pc = "isr_end" /\ ~u8HifRXDone
    BY <2>1, <2>3, <2>6
  <2>. QED
    BY <2>2, <2>4, <2>5, <2>6
<1>4. CASE SemaphoreTake
  BY <1>4 DEF SemaphoreTake
<1>5. CASE CheckInterrupt
  BY <1>5 DEF CheckInterrupt
<1>6. CASE LoadInterrupt
  BY <1>6 DEF LoadInterrupt
<1>7. CASE StoreInterrupt
  BY <1>7 DEF StoreInterrupt
<1>8. CASE ReadCtrl0
  <2>1. pc = "isr_read" /\ pc' = "isr_clear" /\ Waiting'
    BY <1>8 DEF ReadCtrl0
  <2>. QED
    BY <2>1
<1>9. CASE ClearRxInterrupt
  BY <1>9 DEF ClearRxInterrupt, TaskInv
<1>10. CASE ReadAddress
  <2>1. pc = "isr_addr" /\ pc' = "isr_header" /\ Waiting'
    BY <1>10 DEF ReadAddress
  <2>. QED
    BY <2>1
<1>11. CASE ReadHeader
  <2>1. pc = "isr_header" /\ pc' = "callback" /\ reads' = 0 /\ Waiting'
    BY <1>11 DEF ReadHeader
  <2>. QED
    BY <2>1
<1>12. CASE hif_receive
  <2>1. /\ pc = "callback" /\ Waiting' /\ u8HifRXDone' = u8HifRXDone
        /\ (pc' = "callback" /\ reads' = reads + 1 /\ reads < MaxReads) \/ pc' \in {"done_read", "isr_end"}
    BY <1>12 DEF hif_receive, ReceivePart, ReceiveLast, CallbackReturn
  <2>2. u8HifRXDone
    BY <2>1 DEF TaskInv
  <2>3. StepsLeft = 4 + (MaxReads - reads)
    BY <2>1
  <2>4. CASE pc' = "callback" /\ reads' = reads + 1 /\ reads < MaxReads
    <3>1. StepsLeft' = 4 + (MaxReads - reads')
      BY <2>1, <2>4
    <3>. QED
      BY <2>3, <2>4, <3>1
  <2>5. CASE pc' \in {"done_read", "isr_end"}
    <3>1. StepsLeft >= 4
      BY <2>3
    <3>2. CASE pc' = "done_read"
      BY <2>1, <3>1, <3>2
    <3>3. CASE pc' = "isr_end"
      BY <2>1, <2>2, <3>1, <3>3
    <3>. QED
      BY <2>5, <3>2, <3>3
  <2>. QED
    BY <2>1, <2>4, <2>5
<1>13. CASE CheckRxDone
  BY <1>13 DEF CheckRxDone, TaskInv
<1>14. CASE ReadForRxDone
  BY <1>14 DEF ReadForRxDone, AfterRxDone, TaskInv
<1>15. CASE WriteRxDone
  BY <1>15 DEF WriteRxDone, AfterRxDone, TaskInv
<1>. QED
  BY <1>3, <1>4, <1>5, <1>6, <1>7, <1>8, <1>9, <1>10, <1>11, <1>12, <1>13, <1>14, <1>15
  DEF WifiTask, hif_handle_isr, hif_isr, hif_set_rx_done

\* The safety half of ServesMessages: until a transfer fails, every step of the
\* handler or of the task brings the message that waits nearer to its RX done.
THEOREM EveryStepServes == Spec => ServiceAdvances
<1>1. IInv /\ ClaimInv /\ EdgePerMessage /\ [Next]_vars =>
        [Waiting /\ faults' = 0 /\ (WifiTask \/ in_pin_handler) => StepsLeft' < StepsLeft]_vars
  BY StepServes
<1>. QED
  BY <1>1, Invariance, Claimed, EveryEdgeCounts, PTL DEF Spec, ServiceAdvances

\* And one of them has a step to make: an edge is pending that the handler is
\* enabled for, or the task is not blocked in xSemaphoreTake.  With the fairness of
\* both this is ServesMessages.
CanServe == (evPending /\ evEnabled) \/ pc # "take" \/ sem = 1

THEOREM SomeStepServes == Spec => [](faults = 0 /\ Waiting => CanServe)
<1>1. IInv /\ ClaimInv /\ EdgePerMessage => (faults = 0 /\ Waiting => CanServe)
  <2> SUFFICES ASSUME IInv, ClaimInv, EdgePerMessage, faults = 0, Waiting, pc = "take" PROVE CanServe
    BY DEF CanServe
  <2>1. evPending \/ u8Interrupt = 1
    BY OneTrace
  <2>2. evPending => evEnabled
    BY DEF IInv, BufferInv
  <2>3. u8Interrupt = 1 => sem = 1
    BY DEF IInv, WakeInv, Serving
  <2>. QED
    BY <2>1, <2>2, <2>3 DEF CanServe
<1>. QED
  BY <1>1, Invariance, Claimed, EveryEdgeCounts, PTL
=============================================================================
