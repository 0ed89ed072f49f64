--------------------------- MODULE HifSend_proofs ---------------------------
(***************************************************************************)
(* Proofs about HifSend for any set of tasks, with any number of buffers,  *)
(* sends, messages and faults.  The driver has no lock, so what it is to   *)
(* keep is an invariant only until tasks overlap in it (HifSendGarbled.cfg *)
(* has the counterexample): the inductive invariant has one part that      *)
(* always holds, for the types, and one that holds until then.  A task     *)
(* that sends alone never overlaps, and for it the properties hold always. *)
(***************************************************************************)
EXTENDS HifSend, FiniteSetTheorems, TLAPS

\* A task in the middle of a hif_send has counted it, and one that writes to a
\* buffer was given one.
Placed(t) ==
  /\ pc[t] \notin {"idle", "rx_done"} => sends[t] > 0
  /\ pc[t] \in {"header", "data", "submit"} => dma[t] \in Buffers
TypeInv == TypeOK /\ \A t \in Tasks : Placed(t)

\* Where u8ChipSleep is 0, and where it is what was loaded.  Between the two it is
\* 0 or 1, because a send that holds a message has not counted.
Count(t) ==
  /\ pc[t] \in {"rx_done", "wake", "wake_host", "wake_clk", "wake_poll", "inc_load", "inc_store",
                "sleep_test", "sleep_wait", "sleep_clk", "sleep_host"} => u8ChipSleep = 0
  /\ pc[t] = "inc_store" => loaded[t] = 0
  /\ pc[t] \in {"dec_store", "err1_store"} => u8ChipSleep = 1 /\ loaded[t] = 1
CountGlobal == u8ChipSleep \in {0, 1} /\ ((\A t \in Tasks : pc[t] = "idle") => u8ChipSleep = 0)

\* What keeps the chip awake from the moment the sender relies on it, unless a wake
\* bit of this send was lost.
Missed(t) == lost[t] \cap Bits # {}
Cover(t) ==
  /\ pc[t] = "rx_done" => ~u8HifRXDone
  /\ pc[t] = "wake_clk" => "host" \in wakeBits \/ Missed(t)
  /\ pc[t] = "wake_poll" => wakeBits = Bits \/ Missed(t)
  /\ u8ChipMode /\ pc[t] \in {"inc_load", "inc_store"} => wakeBits = Bits \/ Missed(t)
  /\ u8ChipMode /\ pc[t] \in Accessing => unacked \/ wakeBits = Bits \/ Missed(t)
CoverGlobal == u8HifRXDone => unacked

\* The answer a send takes from CTRL_4 was made for it, and so is the buffer, from
\* the request to the submission, if its own register writes have arrived; in any
\* case the buffer holds its own blocks, each from when it was written on.
Lossless(t) == lost[t] \ Bits = {}
Granted(t) ==
  /\ pc[t] \in {"request", "poll", "address"} => stateReg = Send(t)
  /\ (pc[t] = "poll" /\ ~allocReq) \/ pc[t] = "address" =>
       ~allocReq /\ (ctrl4 = None \/ owner[ctrl4] = Send(t))
  /\ pc[t] \in {"header", "data", "submit"} => owner[dma[t]] = Send(t)
  /\ result[t] # "undelivered"
Filled(t) ==
  /\ pc[t] \in {"data", "submit"} => content[dma[t]].hdr = Send(t)
  /\ pc[t] = "submit" => content[dma[t]].data = Send(t)
Answer(t) == (Lossless(t) => Granted(t)) /\ Filled(t)
\* The firmware has not taken the packet of a send before it is submitted.
BeforeSubmit == {"wake", "wake_host", "wake_clk", "wake_poll", "inc_load", "inc_store"} \cup Accessing
Taken(t) ==
  /\ \A i \in DOMAIN taken : taken[i].hdr.task = t => taken[i].hdr.n <= sends[t]
  /\ pc[t] \in BeforeSubmit => result[t] = "none" /\ \A i \in DOMAIN taken : taken[i].hdr # Send(t)

Others(t) == \A u \in Tasks \ {t} : ~Inside(u)
Serial == \A t \in Tasks : Inside(t) => Others(t)
SerialInv == /\ Serial /\ CountGlobal /\ CoverGlobal
             /\ \A t \in Tasks : Count(t) /\ Cover(t) /\ Answer(t) /\ Taken(t)

IInv == TypeInv /\ (~overlapped => SerialInv)


\* The parts of TypeOK, each small enough for the provers.
FlagsType == /\ u8ChipMode \in BOOLEAN /\ u8HifRXDone \in BOOLEAN /\ awake \in BOOLEAN
             /\ unacked \in BOOLEAN /\ hold \in BOOLEAN /\ allocReq \in BOOLEAN /\ overlapped \in BOOLEAN
CountsType == u8ChipSleep \in 0..255 /\ posted \in 0..MaxPosts /\ faults \in 0..MaxFaults
PacketsType ==
  /\ stateReg \in Sends /\ ctrl4 \in Buffers \cup {None}
  /\ content \in [Buffers -> [hdr : Sends, data : Sends]] /\ owner \in [Buffers -> Sends]
  /\ taken \in Seq([hdr : Sends, data : Sends])
TasksType ==
  /\ running \in Tasks /\ pc \in [Tasks -> Pcs] /\ dma \in [Tasks -> Buffers \cup {None}]
  /\ loaded \in [Tasks -> 0..255] /\ sends \in [Tasks -> 0..MaxSends]
  /\ result \in [Tasks -> {"none", "delivered", "undelivered"}]
  /\ lost \in [Tasks -> SUBSET Writes]

LEMMA NoSendType == NoSend \in Sends /\ Empty \in [hdr : Sends, data : Sends]
  BY DEF Sends, Empty

LEMMA SendType ==
  ASSUME TypeInv, NEW t \in Tasks, pc[t] \notin {"idle", "rx_done"}
  PROVE Send(t) \in Sends
<1>1. sends[t] \in 1..MaxSends
  BY SendAssumption DEF TypeInv, TypeOK, Placed
<1>. QED
  BY <1>1 DEF Send, Sends

LEMMA AppendType == ASSUME NEW S, NEW s \in Seq(S), NEW e \in S PROVE Append(s, e) \in Seq(S)
  OBVIOUS

LEMMA ElementType == ASSUME NEW S, NEW s \in Seq(S) PROVE \A i \in DOMAIN s : s[i] \in S
  OBVIOUS

LEMMA ByteType == \A n \in 0..255 : (n + 1) % 256 \in 0..255 /\ (n + 255) % 256 \in 0..255
  OBVIOUS

LEMMA SendKeepsType == ASSUME TypeInv, NEW t \in Tasks, hif_send(t) PROVE TypeInv'
<1>1. FlagsType /\ CountsType /\ wakeBits \subseteq Bits /\ PacketsType /\ TasksType
  BY DEF TypeInv, TypeOK, FlagsType, CountsType, PacketsType, TasksType
<1>2. \A u \in Tasks : Placed(u)
  BY DEF TypeInv
<1>. USE SendAssumption, <1>1, <1>2
<1>3. CASE BeginSend(t)
  <2>1. FlagsType'
    <3>1. overlapped' \in BOOLEAN
      BY <1>3, Zenon DEF BeginSend, Enter
    <3>2. UNCHANGED <<u8ChipMode, u8HifRXDone, awake, unacked, hold, allocReq>>
      BY <1>3 DEF BeginSend, power, chip, alloc
    <3>. QED
      BY <3>1, <3>2 DEF FlagsType
  <2>2. CountsType'
    BY <1>3 DEF CountsType, BeginSend, Goto, power, chip, alloc, place, local, history, outcome
  <2>3. wakeBits' \subseteq Bits
    BY <1>3 DEF Bits, BeginSend, Goto, power, chip, alloc, place, local, history, outcome
  <2>4. PacketsType'
    BY <1>3 DEF PacketsType, BeginSend, Goto, power, chip, alloc, place, local, history, outcome
  <2>5. TasksType'
    BY <1>3 DEF TasksType, Pcs, Accessing, BeginSend, Goto, power, chip, alloc, place, local, history,
       outcome
  <2>6. \A u \in Tasks : Placed(u)'
    BY <1>3 DEF Placed, TasksType, BeginSend, Goto, power, chip, alloc, place, local, history, outcome
  <2>. QED
    BY <2>1, <2>2, <2>3, <2>4, <2>5, <2>6
    DEF TypeInv, TypeOK, FlagsType, CountsType, PacketsType, TasksType
<1>4. CASE hif_chip_wake(t)
  <2>1. FlagsType'
    BY <1>4 DEF FlagsType, hif_chip_wake, NeedsWake, Goto, power, chip, alloc, place, local, history,
       outcome
  <2>2. CountsType'
    BY <1>4 DEF CountsType, hif_chip_wake, NeedsWake, Goto, power, chip, alloc, place, local, history,
       outcome
  <2>3. wakeBits' \subseteq Bits
    BY <1>4 DEF Bits, hif_chip_wake, NeedsWake, Goto, power, chip, alloc, place, local, history, outcome
  <2>4. PacketsType'
    BY <1>4 DEF PacketsType, hif_chip_wake, NeedsWake, Goto, power, chip, alloc, place, local, history,
       outcome
  <2>5. TasksType'
    BY <1>4 DEF TasksType, Pcs, Accessing, hif_chip_wake, NeedsWake, Goto, power, chip, alloc, place, local,
       history, outcome
  <2>6. \A u \in Tasks : Placed(u)'
    BY <1>4 DEF Placed, TasksType, hif_chip_wake, NeedsWake, Goto, power, chip, alloc, place, local,
       history, outcome
  <2>. QED
    BY <2>1, <2>2, <2>3, <2>4, <2>5, <2>6
    DEF TypeInv, TypeOK, FlagsType, CountsType, PacketsType, TasksType
<1>5. CASE SetWakeBit(t, "host", "wake_host", "wake_clk")
  <2>1. FlagsType'
    BY <1>5 DEF FlagsType, SetWakeBit, Lose, Goto, BusOk, BusFault, power, chip, alloc, place, local,
       history, outcome
  <2>2. CountsType'
    BY <1>5 DEF CountsType, SetWakeBit, Lose, Goto, BusOk, BusFault, power, chip, alloc, place, local,
       history, outcome
  <2>3. wakeBits' \subseteq Bits
    BY <1>5 DEF Bits, SetWakeBit, Lose, Goto, BusOk, BusFault, power, chip, alloc, place, local, history,
       outcome
  <2>4. PacketsType'
    BY <1>5 DEF PacketsType, SetWakeBit, Lose, Goto, BusOk, BusFault, power, chip, alloc, place, local,
       history, outcome
  <2>5. TasksType'
    BY <1>5 DEF TasksType, Pcs, Accessing, Bits, Writes, SetWakeBit, Lose, Goto, BusOk, BusFault, power,
       chip, alloc, place, local, history, outcome
  <2>6. \A u \in Tasks : Placed(u)'
    BY <1>5 DEF Placed, TasksType, SetWakeBit, Lose, Goto, BusOk, BusFault, power, chip, alloc, place,
       local, history, outcome
  <2>. QED
    BY <2>1, <2>2, <2>3, <2>4, <2>5, <2>6
    DEF TypeInv, TypeOK, FlagsType, CountsType, PacketsType, TasksType
<1>6. CASE SetWakeBit(t, "clk", "wake_clk", "wake_poll")
  <2>1. FlagsType'
    BY <1>6 DEF FlagsType, SetWakeBit, Lose, Goto, BusOk, BusFault, power, chip, alloc, place, local,
       history, outcome
  <2>2. CountsType'
    BY <1>6 DEF CountsType, SetWakeBit, Lose, Goto, BusOk, BusFault, power, chip, alloc, place, local,
       history, outcome
  <2>3. wakeBits' \subseteq Bits
    BY <1>6 DEF Bits, SetWakeBit, Lose, Goto, BusOk, BusFault, power, chip, alloc, place, local, history,
       outcome
  <2>4. PacketsType'
    BY <1>6 DEF PacketsType, SetWakeBit, Lose, Goto, BusOk, BusFault, power, chip, alloc, place, local,
       history, outcome
  <2>5. TasksType'
    BY <1>6 DEF TasksType, Pcs, Accessing, Bits, Writes, SetWakeBit, Lose, Goto, BusOk, BusFault, power,
       chip, alloc, place, local, history, outcome
  <2>6. \A u \in Tasks : Placed(u)'
    BY <1>6 DEF Placed, TasksType, SetWakeBit, Lose, Goto, BusOk, BusFault, power, chip, alloc, place,
       local, history, outcome
  <2>. QED
    BY <2>1, <2>2, <2>3, <2>4, <2>5, <2>6
    DEF TypeInv, TypeOK, FlagsType, CountsType, PacketsType, TasksType
<1>7. CASE PollClocks(t)
  <2>1. FlagsType'
    BY <1>7 DEF FlagsType, PollClocks, Goto, BusOk, BusFault, power, chip, alloc, place, local, history,
       outcome
  <2>2. CountsType'
    BY <1>7 DEF CountsType, PollClocks, Goto, BusOk, BusFault, power, chip, alloc, place, local, history,
       outcome
  <2>3. wakeBits' \subseteq Bits
    BY <1>7 DEF Bits, PollClocks, Goto, BusOk, BusFault, power, chip, alloc, place, local, history, outcome
  <2>4. PacketsType'
    BY <1>7 DEF PacketsType, PollClocks, Goto, BusOk, BusFault, power, chip, alloc, place, local, history,
       outcome
  <2>5. TasksType'
    BY <1>7 DEF TasksType, Pcs, Accessing, PollClocks, Goto, BusOk, BusFault, power, chip, alloc, place,
       local, history, outcome
  <2>6. \A u \in Tasks : Placed(u)'
    BY <1>7 DEF Placed, TasksType, PollClocks, Goto, BusOk, BusFault, power, chip, alloc, place, local,
       history, outcome
  <2>. QED
    BY <2>1, <2>2, <2>3, <2>4, <2>5, <2>6
    DEF TypeInv, TypeOK, FlagsType, CountsType, PacketsType, TasksType
<1>8. CASE LoadForWake(t)
  <2>1. FlagsType'
    BY <1>8 DEF FlagsType, LoadForWake, Goto, power, chip, alloc, place, local, history, outcome
  <2>2. CountsType'
    BY <1>8 DEF CountsType, LoadForWake, Goto, power, chip, alloc, place, local, history, outcome
  <2>3. wakeBits' \subseteq Bits
    BY <1>8 DEF Bits, LoadForWake, Goto, power, chip, alloc, place, local, history, outcome
  <2>4. PacketsType'
    BY <1>8 DEF PacketsType, LoadForWake, Goto, power, chip, alloc, place, local, history, outcome
  <2>5. TasksType'
    BY <1>8 DEF TasksType, Pcs, Accessing, CountsType, LoadForWake, Goto, power, chip, alloc, place, local,
       history, outcome
  <2>6. \A u \in Tasks : Placed(u)'
    BY <1>8 DEF Placed, TasksType, LoadForWake, Goto, power, chip, alloc, place, local, history, outcome
  <2>. QED
    BY <2>1, <2>2, <2>3, <2>4, <2>5, <2>6
    DEF TypeInv, TypeOK, FlagsType, CountsType, PacketsType, TasksType
<1>9. CASE StoreForWake(t)
  <2>1. FlagsType'
    BY <1>9 DEF FlagsType, StoreForWake, Goto, power, chip, alloc, place, local, history, outcome
  <2>2. CountsType'
    BY <1>9, ByteType DEF CountsType, TasksType, StoreForWake, chip
  <2>3. wakeBits' \subseteq Bits
    BY <1>9 DEF Bits, StoreForWake, Goto, power, chip, alloc, place, local, history, outcome
  <2>4. PacketsType'
    BY <1>9 DEF PacketsType, StoreForWake, Goto, power, chip, alloc, place, local, history, outcome
  <2>5. TasksType'
    BY <1>9 DEF TasksType, Pcs, Accessing, StoreForWake, Goto, power, chip, alloc, place, local, history,
       outcome
  <2>6. \A u \in Tasks : Placed(u)'
    BY <1>9 DEF Placed, TasksType, StoreForWake, Goto, power, chip, alloc, place, local, history, outcome
  <2>. QED
    BY <2>1, <2>2, <2>3, <2>4, <2>5, <2>6
    DEF TypeInv, TypeOK, FlagsType, CountsType, PacketsType, TasksType
<1>10. CASE WriteState(t)
  <2>1. FlagsType'
    BY <1>10 DEF FlagsType, WriteState, Lose, Goto, BusOk, BusFault, power, chip, alloc, place, local,
       history, outcome
  <2>2. CountsType'
    BY <1>10 DEF CountsType, WriteState, Lose, Goto, BusOk, BusFault, power, chip, alloc, place, local,
       history, outcome
  <2>3. wakeBits' \subseteq Bits
    BY <1>10 DEF Bits, WriteState, Lose, Goto, BusOk, BusFault, power, chip, alloc, place, local, history,
       outcome
  <2>4. PacketsType'
    <3>1. pc[t] = "state" /\ (stateReg' = stateReg \/ stateReg' = Send(t))
      BY <1>10 DEF WriteState, Goto
    <3>2. UNCHANGED <<ctrl4, content, owner, taken>>
      BY <1>10 DEF WriteState, history, outcome
    <3>. QED
      BY <3>1, <3>2, SendType DEF PacketsType
  <2>5. TasksType'
    BY <1>10 DEF TasksType, Pcs, Accessing, Writes, WriteState, Lose, Goto, BusOk, BusFault, power, chip,
       alloc, place, local, history, outcome
  <2>6. \A u \in Tasks : Placed(u)'
    BY <1>10 DEF Placed, TasksType, WriteState, Lose, Goto, BusOk, BusFault, power, chip, alloc, place,
       local, history, outcome
  <2>. QED
    BY <2>1, <2>2, <2>3, <2>4, <2>5, <2>6
    DEF TypeInv, TypeOK, FlagsType, CountsType, PacketsType, TasksType
<1>11. CASE RequestBuffer(t)
  <2>1. FlagsType'
    <3>1. allocReq' = allocReq \/ allocReq' = TRUE
      BY <1>11, Zenon DEF RequestBuffer
    <3>2. UNCHANGED <<u8ChipMode, u8HifRXDone, awake, unacked, hold, overlapped>>
      BY <1>11 DEF RequestBuffer, power, chip, history, outcome
    <3>. QED
      BY <3>1, <3>2 DEF FlagsType
  <2>2. CountsType'
    <3>1. BusOk \/ BusFault
      BY <1>11 DEF RequestBuffer, Lose
    <3>2. UNCHANGED <<u8ChipSleep, posted>>
      BY <1>11 DEF RequestBuffer, power, chip
    <3>. QED
      BY <3>1, <3>2 DEF BusOk, BusFault, CountsType
  <2>3. wakeBits' \subseteq Bits
    BY <1>11 DEF Bits, RequestBuffer, Lose, Goto, BusOk, BusFault, power, chip, alloc, place, local,
       history, outcome
  <2>4. PacketsType'
    BY <1>11 DEF PacketsType, RequestBuffer, Lose, Goto, BusOk, BusFault, power, chip, alloc, place, local,
       history, outcome
  <2>5. TasksType'
    <3>1. pc' = [pc EXCEPT ![t] = "poll"] /\ UNCHANGED <<running, local, sends, result>>
      BY <1>11 DEF RequestBuffer, Goto
    <3>2. lost' = lost \/ lost' = [lost EXCEPT ![t] = lost[t] \cup {"request"}]
      BY <1>11 DEF RequestBuffer, Lose, TasksType
    <3>. QED
      BY <3>1, <3>2 DEF TasksType, Pcs, Accessing, Writes, local
  <2>6. \A u \in Tasks : Placed(u)'
    <3>1. pc' = [pc EXCEPT ![t] = "poll"]
      BY <1>11 DEF RequestBuffer, Goto
    <3>2. pc[t] = "request" /\ UNCHANGED <<dma, sends>>
      BY <1>11 DEF RequestBuffer, Goto, local
    <3>. QED
      BY <3>1, <3>2 DEF Placed, TasksType
  <2>. QED
    BY <2>1, <2>2, <2>3, <2>4, <2>5, <2>6
    DEF TypeInv, TypeOK, FlagsType, CountsType, PacketsType, TasksType
<1>12. CASE PollBuffer(t)
  <2>1. FlagsType'
    BY <1>12 DEF FlagsType, PollBuffer, Answered, PollExpires, Goto, BusOk, BusFault, power, chip, alloc,
       place, local, history, outcome
  <2>2. CountsType'
    BY <1>12 DEF CountsType, PollBuffer, Answered, PollExpires, Goto, BusOk, BusFault, power, chip, alloc,
       place, local, history, outcome
  <2>3. wakeBits' \subseteq Bits
    BY <1>12 DEF Bits, PollBuffer, Answered, PollExpires, Goto, BusOk, BusFault, power, chip, alloc, place,
       local, history, outcome
  <2>4. PacketsType'
    BY <1>12 DEF PacketsType, PollBuffer, Answered, PollExpires, Goto, BusOk, BusFault, power, chip, alloc,
       place, local, history, outcome
  <2>5. TasksType'
    BY <1>12 DEF TasksType, Pcs, Accessing, PollBuffer, Answered, PollExpires, Goto, BusOk, BusFault, power,
       chip, alloc, place, local, history, outcome
  <2>6. \A u \in Tasks : Placed(u)'
    BY <1>12 DEF Placed, TasksType, PollBuffer, Answered, PollExpires, Goto, BusOk, BusFault, power, chip,
       alloc, place, local, history, outcome
  <2>. QED
    BY <2>1, <2>2, <2>3, <2>4, <2>5, <2>6
    DEF TypeInv, TypeOK, FlagsType, CountsType, PacketsType, TasksType
<1>13. CASE ReadDmaAddress(t)
  <2>1. FlagsType'
    BY <1>13 DEF FlagsType, ReadDmaAddress, Goto, BusOk, BusFault, power, chip, alloc, place, local,
       history, outcome
  <2>2. CountsType'
    BY <1>13 DEF CountsType, ReadDmaAddress, Goto, BusOk, BusFault, power, chip, alloc, place, local,
       history, outcome
  <2>3. wakeBits' \subseteq Bits
    BY <1>13 DEF Bits, ReadDmaAddress, Goto, BusOk, BusFault, power, chip, alloc, place, local, history,
       outcome
  <2>4. PacketsType'
    BY <1>13 DEF PacketsType, ReadDmaAddress, Goto, BusOk, BusFault, power, chip, alloc, place, local,
       history, outcome
  <2>5. TasksType'
    <3>1. /\ pc[t] = "address" /\ UNCHANGED <<running, loaded, sends, result, lost>>
          /\ \/ dma' = [dma EXCEPT ![t] = None] /\ pc' = [pc EXCEPT ![t] = "sleep"]
             \/ \E b \in Buffers : dma' = [dma EXCEPT ![t] = b] /\ pc' = [pc EXCEPT ![t] = "header"]
             \/ dma' = dma /\ pc' = [pc EXCEPT ![t] = "err1"]
      BY <1>13 DEF ReadDmaAddress, Goto, PacketsType, outcome
    <3>. QED
      BY <3>1 DEF TasksType, Pcs, Accessing
  <2>6. \A u \in Tasks : Placed(u)'
    <3>1. /\ pc[t] = "address" /\ UNCHANGED <<running, loaded, sends, result, lost>>
          /\ \/ dma' = [dma EXCEPT ![t] = None] /\ pc' = [pc EXCEPT ![t] = "sleep"]
             \/ \E b \in Buffers : dma' = [dma EXCEPT ![t] = b] /\ pc' = [pc EXCEPT ![t] = "header"]
             \/ dma' = dma /\ pc' = [pc EXCEPT ![t] = "err1"]
      BY <1>13 DEF ReadDmaAddress, Goto, PacketsType, outcome
    <3>. QED
      BY <3>1 DEF Placed, TasksType
  <2>. QED
    BY <2>1, <2>2, <2>3, <2>4, <2>5, <2>6
    DEF TypeInv, TypeOK, FlagsType, CountsType, PacketsType, TasksType
<1>14. CASE WriteBlock(t, "hdr", "header", "data")
  <2>1. FlagsType'
    BY <1>14 DEF FlagsType, WriteBlock, Goto, BusOk, BusFault, power, chip, alloc, place, local, history,
       outcome
  <2>2. CountsType'
    BY <1>14 DEF CountsType, WriteBlock, Goto, BusOk, BusFault, power, chip, alloc, place, local, history,
       outcome
  <2>3. wakeBits' \subseteq Bits
    BY <1>14 DEF Bits, WriteBlock, Goto, BusOk, BusFault, power, chip, alloc, place, local, history, outcome
  <2>4. PacketsType'
    <3>1. pc[t] = "header" /\ UNCHANGED <<stateReg, ctrl4, owner, taken>>
      BY <1>14 DEF WriteBlock, Goto, history, outcome
    <3>2. dma[t] \in Buffers /\ Send(t) \in Sends
      BY <3>1, SendType DEF TypeInv, Placed
    <3>3. [content[dma[t]] EXCEPT !.hdr = Send(t)] \in [hdr : Sends, data : Sends]
      BY <3>2 DEF PacketsType
    <3>4. \/ UNCHANGED content
          \/ content' = [content EXCEPT ![dma[t]] = [content[dma[t]] EXCEPT !.hdr = Send(t)]]
      BY <1>14, <3>2 DEF WriteBlock, PacketsType
    <3>. QED
      BY <3>1, <3>2, <3>3, <3>4 DEF PacketsType
  <2>5. TasksType'
    BY <1>14 DEF TasksType, Pcs, Accessing, WriteBlock, Goto, BusOk, BusFault, power, chip, alloc, place,
       local, history, outcome
  <2>6. \A u \in Tasks : Placed(u)'
    BY <1>14 DEF Placed, TasksType, WriteBlock, Goto, BusOk, BusFault, power, chip, alloc, place, local,
       history, outcome
  <2>. QED
    BY <2>1, <2>2, <2>3, <2>4, <2>5, <2>6
    DEF TypeInv, TypeOK, FlagsType, CountsType, PacketsType, TasksType
<1>15. CASE WriteBlock(t, "data", "data", "submit")
  <2>1. FlagsType'
    BY <1>15 DEF FlagsType, WriteBlock, Goto, BusOk, BusFault, power, chip, alloc, place, local, history,
       outcome
  <2>2. CountsType'
    BY <1>15 DEF CountsType, WriteBlock, Goto, BusOk, BusFault, power, chip, alloc, place, local, history,
       outcome
  <2>3. wakeBits' \subseteq Bits
    BY <1>15 DEF Bits, WriteBlock, Goto, BusOk, BusFault, power, chip, alloc, place, local, history, outcome
  <2>4. PacketsType'
    <3>1. pc[t] = "data" /\ UNCHANGED <<stateReg, ctrl4, owner, taken>>
      BY <1>15 DEF WriteBlock, Goto, history, outcome
    <3>2. dma[t] \in Buffers /\ Send(t) \in Sends
      BY <3>1, SendType DEF TypeInv, Placed
    <3>3. [content[dma[t]] EXCEPT !.data = Send(t)] \in [hdr : Sends, data : Sends]
      BY <3>2 DEF PacketsType
    <3>4. \/ UNCHANGED content
          \/ content' = [content EXCEPT ![dma[t]] = [content[dma[t]] EXCEPT !.data = Send(t)]]
      BY <1>15, <3>2 DEF WriteBlock, PacketsType
    <3>. QED
      BY <3>1, <3>2, <3>3, <3>4 DEF PacketsType
  <2>5. TasksType'
    BY <1>15 DEF TasksType, Pcs, Accessing, WriteBlock, Goto, BusOk, BusFault, power, chip, alloc, place,
       local, history, outcome
  <2>6. \A u \in Tasks : Placed(u)'
    BY <1>15 DEF Placed, TasksType, WriteBlock, Goto, BusOk, BusFault, power, chip, alloc, place, local,
       history, outcome
  <2>. QED
    BY <2>1, <2>2, <2>3, <2>4, <2>5, <2>6
    DEF TypeInv, TypeOK, FlagsType, CountsType, PacketsType, TasksType
<1>16. CASE Submit(t)
  <2>1. FlagsType'
    BY <1>16 DEF FlagsType, Submit, Lose, FirmwareTakes, Packet, Goto, BusOk, BusFault, power, chip, alloc,
       place, local, history, outcome
  <2>2. CountsType'
    BY <1>16 DEF CountsType, Submit, Lose, FirmwareTakes, Packet, Goto, BusOk, BusFault, power, chip, alloc,
       place, local, history, outcome
  <2>3. wakeBits' \subseteq Bits
    BY <1>16 DEF Bits, Submit, Lose, FirmwareTakes, Packet, Goto, BusOk, BusFault, power, chip, alloc,
       place, local, history, outcome
  <2>4. PacketsType'
    <3>1. pc[t] = "submit" /\ UNCHANGED <<stateReg, ctrl4>>
      BY <1>16 DEF Submit, Goto
    <3>2. FirmwareTakes(dma[t]) \/ UNCHANGED <<content, owner, taken>>
      BY <1>16 DEF Submit
    <3>3. dma[t] \in Buffers
      BY <3>1 DEF TypeInv, Placed
    <3>4. CASE FirmwareTakes(dma[t])
      <4>1. content[dma[t]] \in [hdr : Sends, data : Sends]
        BY <3>3 DEF PacketsType
      <4>2. taken' \in Seq([hdr : Sends, data : Sends])
        <5>1. taken' = taken \/ taken' = Append(taken, content[dma[t]])
          BY <3>4 DEF FirmwareTakes
        <5>2. taken \in Seq([hdr : Sends, data : Sends])
          BY DEF PacketsType
        <5>3. Append(taken, content[dma[t]]) \in Seq([hdr : Sends, data : Sends])
          BY <4>1, <5>2, AppendType, Zenon
        <5>. QED
          BY <5>1, <5>2, <5>3, Zenon
      <4>3. owner' \in [Buffers -> Sends] /\ content' \in [Buffers -> [hdr : Sends, data : Sends]]
        BY <3>4, NoSendType DEF PacketsType, FirmwareTakes
      <4>. QED
        BY <3>1, <4>2, <4>3 DEF PacketsType
    <3>5. CASE UNCHANGED <<content, owner, taken>>
      BY <3>1, <3>5 DEF PacketsType
    <3>. QED
      BY <3>2, <3>4, <3>5
  <2>5. TasksType'
    <3>1. pc' = [pc EXCEPT ![t] = "sleep"] /\ UNCHANGED <<running, local, sends>>
      BY <1>16 DEF Submit, Goto
    <3>2. \E r \in {"delivered", "undelivered"} : result' = [result EXCEPT ![t] = r]
      BY <1>16 DEF Submit
    <3>3. lost' = lost \/ lost' = [lost EXCEPT ![t] = lost[t] \cup {"submit"}]
      BY <1>16 DEF Submit, Lose, TasksType
    <3>. QED
      BY <3>1, <3>2, <3>3 DEF TasksType, Pcs, Accessing, Writes, local
  <2>6. \A u \in Tasks : Placed(u)'
    BY <1>16 DEF Placed, TasksType, Submit, Lose, FirmwareTakes, Packet, Goto, BusOk, BusFault, power, chip,
       alloc, place, local, history, outcome
  <2>. QED
    BY <2>1, <2>2, <2>3, <2>4, <2>5, <2>6
    DEF TypeInv, TypeOK, FlagsType, CountsType, PacketsType, TasksType
<1>17. CASE LoadForSleep(t)
  <2>1. FlagsType'
    BY <1>17 DEF FlagsType, LoadForSleep, IsCounted, Goto, power, chip, alloc, place, local, history,
       outcome
  <2>2. CountsType'
    BY <1>17 DEF CountsType, LoadForSleep, IsCounted, Goto, power, chip, alloc, place, local, history,
       outcome
  <2>3. wakeBits' \subseteq Bits
    BY <1>17 DEF Bits, LoadForSleep, IsCounted, Goto, power, chip, alloc, place, local, history, outcome
  <2>4. PacketsType'
    BY <1>17 DEF PacketsType, LoadForSleep, IsCounted, Goto, power, chip, alloc, place, local, history,
       outcome
  <2>5. TasksType'
    BY <1>17 DEF TasksType, Pcs, Accessing, CountsType, LoadForSleep, IsCounted, Goto, power, chip, alloc,
       place, local, history, outcome
  <2>6. \A u \in Tasks : Placed(u)'
    BY <1>17 DEF Placed, TasksType, LoadForSleep, IsCounted, Goto, power, chip, alloc, place, local,
       history, outcome
  <2>. QED
    BY <2>1, <2>2, <2>3, <2>4, <2>5, <2>6
    DEF TypeInv, TypeOK, FlagsType, CountsType, PacketsType, TasksType
<1>18. CASE StoreForSleep(t)
  <2>1. FlagsType'
    BY <1>18 DEF FlagsType, StoreForSleep, Goto, power, chip, alloc, place, local, history, outcome
  <2>2. CountsType'
    BY <1>18, ByteType DEF CountsType, TasksType, StoreForSleep, chip
  <2>3. wakeBits' \subseteq Bits
    BY <1>18 DEF Bits, StoreForSleep, Goto, power, chip, alloc, place, local, history, outcome
  <2>4. PacketsType'
    BY <1>18 DEF PacketsType, StoreForSleep, Goto, power, chip, alloc, place, local, history, outcome
  <2>5. TasksType'
    BY <1>18 DEF TasksType, Pcs, Accessing, StoreForSleep, Goto, power, chip, alloc, place, local, history,
       outcome
  <2>6. \A u \in Tasks : Placed(u)'
    BY <1>18 DEF Placed, TasksType, StoreForSleep, Goto, power, chip, alloc, place, local, history, outcome
  <2>. QED
    BY <2>1, <2>2, <2>3, <2>4, <2>5, <2>6
    DEF TypeInv, TypeOK, FlagsType, CountsType, PacketsType, TasksType
<1>19. CASE TestForSleep(t)
  <2>1. FlagsType'
    BY <1>19 DEF FlagsType, TestForSleep, Goto, power, chip, alloc, place, local, history, outcome
  <2>2. CountsType'
    BY <1>19 DEF CountsType, TestForSleep, Goto, power, chip, alloc, place, local, history, outcome
  <2>3. wakeBits' \subseteq Bits
    BY <1>19 DEF Bits, TestForSleep, Goto, power, chip, alloc, place, local, history, outcome
  <2>4. PacketsType'
    BY <1>19 DEF PacketsType, TestForSleep, Goto, power, chip, alloc, place, local, history, outcome
  <2>5. TasksType'
    BY <1>19 DEF TasksType, Pcs, Accessing, TestForSleep, Goto, power, chip, alloc, place, local, history,
       outcome
  <2>6. \A u \in Tasks : Placed(u)'
    BY <1>19 DEF Placed, TasksType, TestForSleep, Goto, power, chip, alloc, place, local, history, outcome
  <2>. QED
    BY <2>1, <2>2, <2>3, <2>4, <2>5, <2>6
    DEF TypeInv, TypeOK, FlagsType, CountsType, PacketsType, TasksType
<1>20. CASE ClearWakeBit(t, "clk", "sleep_clk", "sleep_host")
  <2>1. FlagsType'
    BY <1>20 DEF FlagsType, ClearWakeBit, Goto, BusOk, BusFault, power, chip, alloc, place, local, history,
       outcome
  <2>2. CountsType'
    BY <1>20 DEF CountsType, ClearWakeBit, Goto, BusOk, BusFault, power, chip, alloc, place, local, history,
       outcome
  <2>3. wakeBits' \subseteq Bits
    BY <1>20 DEF Bits, ClearWakeBit, Goto, BusOk, BusFault, power, chip, alloc, place, local, history,
       outcome
  <2>4. PacketsType'
    BY <1>20 DEF PacketsType, ClearWakeBit, Goto, BusOk, BusFault, power, chip, alloc, place, local,
       history, outcome
  <2>5. TasksType'
    BY <1>20 DEF TasksType, Pcs, Accessing, ClearWakeBit, Goto, BusOk, BusFault, power, chip, alloc, place,
       local, history, outcome
  <2>6. \A u \in Tasks : Placed(u)'
    BY <1>20 DEF Placed, TasksType, ClearWakeBit, Goto, BusOk, BusFault, power, chip, alloc, place, local,
       history, outcome
  <2>. QED
    BY <2>1, <2>2, <2>3, <2>4, <2>5, <2>6
    DEF TypeInv, TypeOK, FlagsType, CountsType, PacketsType, TasksType
<1>21. CASE ClearWakeBit(t, "host", "sleep_host", "idle")
  <2>1. FlagsType'
    BY <1>21 DEF FlagsType, ClearWakeBit, Goto, BusOk, BusFault, power, chip, alloc, place, local, history,
       outcome
  <2>2. CountsType'
    BY <1>21 DEF CountsType, ClearWakeBit, Goto, BusOk, BusFault, power, chip, alloc, place, local, history,
       outcome
  <2>3. wakeBits' \subseteq Bits
    BY <1>21 DEF Bits, ClearWakeBit, Goto, BusOk, BusFault, power, chip, alloc, place, local, history,
       outcome
  <2>4. PacketsType'
    BY <1>21 DEF PacketsType, ClearWakeBit, Goto, BusOk, BusFault, power, chip, alloc, place, local,
       history, outcome
  <2>5. TasksType'
    BY <1>21 DEF TasksType, Pcs, Accessing, ClearWakeBit, Goto, BusOk, BusFault, power, chip, alloc, place,
       local, history, outcome
  <2>6. \A u \in Tasks : Placed(u)'
    BY <1>21 DEF Placed, TasksType, ClearWakeBit, Goto, BusOk, BusFault, power, chip, alloc, place, local,
       history, outcome
  <2>. QED
    BY <2>1, <2>2, <2>3, <2>4, <2>5, <2>6
    DEF TypeInv, TypeOK, FlagsType, CountsType, PacketsType, TasksType
<1>22. CASE WaitForChip(t)
  <2>1. FlagsType'
    BY <1>22 DEF FlagsType, WaitForChip, Goto, BusOk, BusFault, power, chip, alloc, place, local, history,
       outcome
  <2>2. CountsType'
    BY <1>22 DEF CountsType, WaitForChip, Goto, BusOk, BusFault, power, chip, alloc, place, local, history,
       outcome
  <2>3. wakeBits' \subseteq Bits
    BY <1>22 DEF Bits, WaitForChip, Goto, BusOk, BusFault, power, chip, alloc, place, local, history,
       outcome
  <2>4. PacketsType'
    BY <1>22 DEF PacketsType, WaitForChip, Goto, BusOk, BusFault, power, chip, alloc, place, local, history,
       outcome
  <2>5. TasksType'
    BY <1>22 DEF TasksType, Pcs, Accessing, WaitForChip, Goto, BusOk, BusFault, power, chip, alloc, place,
       local, history, outcome
  <2>6. \A u \in Tasks : Placed(u)'
    BY <1>22 DEF Placed, TasksType, WaitForChip, Goto, BusOk, BusFault, power, chip, alloc, place, local,
       history, outcome
  <2>. QED
    BY <2>1, <2>2, <2>3, <2>4, <2>5, <2>6
    DEF TypeInv, TypeOK, FlagsType, CountsType, PacketsType, TasksType
<1>. QED
  BY <1>3, <1>4, <1>5, <1>6, <1>7, <1>8, <1>9, <1>10, <1>11, <1>12, <1>13, <1>14, <1>15, <1>16, <1>17,
     <1>18,
     <1>19, <1>20, <1>21, <1>22
  DEF hif_send

LEMMA RestKeepsType ==
  ASSUME TypeInv, Firmware \/ Receive \/ (\E t \in Tasks : SwitchTo(t)) \/ UNCHANGED vars
  PROVE TypeInv'
<1>1. FlagsType /\ CountsType /\ wakeBits \subseteq Bits /\ PacketsType /\ TasksType
  BY DEF TypeInv, TypeOK, FlagsType, CountsType, PacketsType, TasksType
<1>2. \A u \in Tasks : Placed(u)
  BY DEF TypeInv
<1>. USE SendAssumption, <1>1, <1>2
<1>3. CASE FirmwareSleeps
  <2>1. FlagsType'
    BY <1>3 DEF FlagsType, FirmwareSleeps, power, chip, alloc, place, local, history, outcome
  <2>2. CountsType'
    BY <1>3 DEF CountsType, FirmwareSleeps, power, chip, alloc, place, local, history, outcome
  <2>3. wakeBits' \subseteq Bits
    BY <1>3 DEF Bits, FirmwareSleeps, power, chip, alloc, place, local, history, outcome
  <2>4. PacketsType'
    BY <1>3 DEF PacketsType, FirmwareSleeps, power, chip, alloc, place, local, history, outcome
  <2>5. TasksType'
    BY <1>3 DEF TasksType, Pcs, Accessing, FirmwareSleeps, power, chip, alloc, place, local, history,
       outcome
  <2>6. \A u \in Tasks : Placed(u)'
    BY <1>3 DEF Placed, TasksType, FirmwareSleeps, power, chip, alloc, place, local, history, outcome
  <2>. QED
    BY <2>1, <2>2, <2>3, <2>4, <2>5, <2>6
    DEF TypeInv, TypeOK, FlagsType, CountsType, PacketsType, TasksType
<1>4. CASE FirmwareWakes
  <2>1. FlagsType'
    BY <1>4 DEF FlagsType, FirmwareWakes, power, chip, alloc, place, local, history, outcome
  <2>2. CountsType'
    BY <1>4 DEF CountsType, FirmwareWakes, power, chip, alloc, place, local, history, outcome
  <2>3. wakeBits' \subseteq Bits
    BY <1>4 DEF Bits, FirmwareWakes, power, chip, alloc, place, local, history, outcome
  <2>4. PacketsType'
    BY <1>4 DEF PacketsType, FirmwareWakes, power, chip, alloc, place, local, history, outcome
  <2>5. TasksType'
    BY <1>4 DEF TasksType, Pcs, Accessing, FirmwareWakes, power, chip, alloc, place, local, history, outcome
  <2>6. \A u \in Tasks : Placed(u)'
    BY <1>4 DEF Placed, TasksType, FirmwareWakes, power, chip, alloc, place, local, history, outcome
  <2>. QED
    BY <2>1, <2>2, <2>3, <2>4, <2>5, <2>6
    DEF TypeInv, TypeOK, FlagsType, CountsType, PacketsType, TasksType
<1>5. CASE FirmwarePosts
  <2>1. FlagsType'
    BY <1>5 DEF FlagsType, FirmwarePosts, power, chip, alloc, place, local, history, outcome
  <2>2. CountsType'
    BY <1>5 DEF CountsType, FirmwarePosts, power, chip, alloc, place, local, history, outcome
  <2>3. wakeBits' \subseteq Bits
    BY <1>5 DEF Bits, FirmwarePosts, power, chip, alloc, place, local, history, outcome
  <2>4. PacketsType'
    BY <1>5 DEF PacketsType, FirmwarePosts, power, chip, alloc, place, local, history, outcome
  <2>5. TasksType'
    BY <1>5 DEF TasksType, Pcs, Accessing, FirmwarePosts, power, chip, alloc, place, local, history, outcome
  <2>6. \A u \in Tasks : Placed(u)'
    BY <1>5 DEF Placed, TasksType, FirmwarePosts, power, chip, alloc, place, local, history, outcome
  <2>. QED
    BY <2>1, <2>2, <2>3, <2>4, <2>5, <2>6
    DEF TypeInv, TypeOK, FlagsType, CountsType, PacketsType, TasksType
<1>6. CASE FirmwareAllocates
  <2>1. FlagsType'
    BY <1>6 DEF FlagsType, FirmwareAllocates, power, chip, alloc, place, local, history, outcome
  <2>2. CountsType'
    BY <1>6 DEF CountsType, FirmwareAllocates, power, chip, alloc, place, local, history, outcome
  <2>3. wakeBits' \subseteq Bits
    BY <1>6 DEF Bits, FirmwareAllocates, power, chip, alloc, place, local, history, outcome
  <2>4. PacketsType'
    BY <1>6 DEF PacketsType, FirmwareAllocates, history, outcome
  <2>5. TasksType'
    BY <1>6 DEF TasksType, Pcs, Accessing, FirmwareAllocates, power, chip, alloc, place, local, history,
       outcome
  <2>6. \A u \in Tasks : Placed(u)'
    BY <1>6 DEF Placed, TasksType, FirmwareAllocates, power, chip, alloc, place, local, history, outcome
  <2>. QED
    BY <2>1, <2>2, <2>3, <2>4, <2>5, <2>6
    DEF TypeInv, TypeOK, FlagsType, CountsType, PacketsType, TasksType
<1>7. CASE ClaimMessage
  <2>1. FlagsType'
    <3>1. overlapped' \in BOOLEAN /\ u8HifRXDone' = TRUE
      BY <1>7, Zenon DEF ClaimMessage, Enter
    <3>2. UNCHANGED <<u8ChipMode, awake, unacked, hold, allocReq>>
      BY <1>7 DEF ClaimMessage, power, chip, alloc
    <3>. QED
      BY <3>1, <3>2 DEF FlagsType
  <2>2. CountsType'
    BY <1>7 DEF CountsType, ClaimMessage, power, chip, alloc, place, local, history, outcome
  <2>3. wakeBits' \subseteq Bits
    BY <1>7 DEF Bits, ClaimMessage, power, chip, alloc, place, local, history, outcome
  <2>4. PacketsType'
    BY <1>7 DEF PacketsType, ClaimMessage, power, chip, alloc, place, local, history, outcome
  <2>5. TasksType'
    BY <1>7 DEF TasksType, Pcs, Accessing, ClaimMessage, power, chip, alloc, place, local, history, outcome
  <2>6. \A u \in Tasks : Placed(u)'
    BY <1>7 DEF Placed, TasksType, ClaimMessage, power, chip, alloc, place, local, history, outcome
  <2>. QED
    BY <2>1, <2>2, <2>3, <2>4, <2>5, <2>6
    DEF TypeInv, TypeOK, FlagsType, CountsType, PacketsType, TasksType
<1>8. CASE ClearRxDone
  <2>1. FlagsType'
    BY <1>8 DEF FlagsType, ClearRxDone, Goto, power, chip, alloc, place, local, history, outcome
  <2>2. CountsType'
    BY <1>8 DEF CountsType, ClearRxDone, Goto, power, chip, alloc, place, local, history, outcome
  <2>3. wakeBits' \subseteq Bits
    BY <1>8 DEF Bits, ClearRxDone, Goto, power, chip, alloc, place, local, history, outcome
  <2>4. PacketsType'
    BY <1>8 DEF PacketsType, ClearRxDone, Goto, power, chip, alloc, place, local, history, outcome
  <2>5. TasksType'
    BY <1>8 DEF TasksType, Pcs, Accessing, ClearRxDone, Goto, power, chip, alloc, place, local, history,
       outcome
  <2>6. \A u \in Tasks : Placed(u)'
    BY <1>8 DEF Placed, TasksType, ClearRxDone, Goto, power, chip, alloc, place, local, history, outcome
  <2>. QED
    BY <2>1, <2>2, <2>3, <2>4, <2>5, <2>6
    DEF TypeInv, TypeOK, FlagsType, CountsType, PacketsType, TasksType
<1>9. CASE WriteRxDone
  <2>1. FlagsType'
    BY <1>9 DEF FlagsType, WriteRxDone, BusOk, BusFault, Goto, power, chip, alloc, place, local, history,
       outcome
  <2>2. CountsType'
    BY <1>9 DEF CountsType, WriteRxDone, BusOk, BusFault, Goto, power, chip, alloc, place, local, history,
       outcome
  <2>3. wakeBits' \subseteq Bits
    BY <1>9 DEF Bits, WriteRxDone, BusOk, BusFault, Goto, power, chip, alloc, place, local, history, outcome
  <2>4. PacketsType'
    BY <1>9 DEF PacketsType, WriteRxDone, BusOk, BusFault, Goto, power, chip, alloc, place, local, history,
       outcome
  <2>5. TasksType'
    BY <1>9 DEF TasksType, Pcs, Accessing, WriteRxDone, BusOk, BusFault, Goto, power, chip, alloc, place,
       local, history, outcome
  <2>6. \A u \in Tasks : Placed(u)'
    BY <1>9 DEF Placed, TasksType, WriteRxDone, BusOk, BusFault, Goto, power, chip, alloc, place, local,
       history, outcome
  <2>. QED
    BY <2>1, <2>2, <2>3, <2>4, <2>5, <2>6
    DEF TypeInv, TypeOK, FlagsType, CountsType, PacketsType, TasksType
<1>10. CASE hif_set_sleep_mode
  <2>1. FlagsType'
    <3>1. overlapped' \in BOOLEAN /\ u8ChipMode' = TRUE
      BY <1>10, Zenon DEF hif_set_sleep_mode, Enter
    <3>2. UNCHANGED <<u8HifRXDone, awake, unacked, hold, allocReq>>
      BY <1>10 DEF hif_set_sleep_mode, power, chip, alloc
    <3>. QED
      BY <3>1, <3>2 DEF FlagsType
  <2>2. CountsType'
    BY <1>10 DEF CountsType, hif_set_sleep_mode, power, chip, alloc, place, local, history, outcome
  <2>3. wakeBits' \subseteq Bits
    BY <1>10 DEF Bits, hif_set_sleep_mode, power, chip, alloc, place, local, history, outcome
  <2>4. PacketsType'
    BY <1>10 DEF PacketsType, hif_set_sleep_mode, power, chip, alloc, place, local, history, outcome
  <2>5. TasksType'
    BY <1>10 DEF TasksType, Pcs, Accessing, hif_set_sleep_mode, power, chip, alloc, place, local, history,
       outcome
  <2>6. \A u \in Tasks : Placed(u)'
    BY <1>10 DEF Placed, TasksType, hif_set_sleep_mode, power, chip, alloc, place, local, history, outcome
  <2>. QED
    BY <2>1, <2>2, <2>3, <2>4, <2>5, <2>6
    DEF TypeInv, TypeOK, FlagsType, CountsType, PacketsType, TasksType
<1>11. CASE \E t \in Tasks : SwitchTo(t)
  <2>1. FlagsType'
    BY <1>11 DEF FlagsType, SwitchTo, power, chip, alloc, place, local, history, outcome
  <2>2. CountsType'
    BY <1>11 DEF CountsType, SwitchTo, power, chip, alloc, place, local, history, outcome
  <2>3. wakeBits' \subseteq Bits
    BY <1>11 DEF Bits, SwitchTo, power, chip, alloc, place, local, history, outcome
  <2>4. PacketsType'
    BY <1>11 DEF PacketsType, SwitchTo, power, chip, alloc, place, local, history, outcome
  <2>5. TasksType'
    BY <1>11 DEF TasksType, Pcs, Accessing, SwitchTo, power, chip, alloc, place, local, history, outcome
  <2>6. \A u \in Tasks : Placed(u)'
    BY <1>11 DEF Placed, TasksType, SwitchTo, power, chip, alloc, place, local, history, outcome
  <2>. QED
    BY <2>1, <2>2, <2>3, <2>4, <2>5, <2>6
    DEF TypeInv, TypeOK, FlagsType, CountsType, PacketsType, TasksType
<1>12. CASE UNCHANGED vars
  <2>1. FlagsType'
    BY <1>12 DEF FlagsType, vars, power, chip, alloc, place, local, history, outcome
  <2>2. CountsType'
    BY <1>12 DEF CountsType, vars, power, chip, alloc, place, local, history, outcome
  <2>3. wakeBits' \subseteq Bits
    BY <1>12 DEF Bits, vars, power, chip, alloc, place, local, history, outcome
  <2>4. PacketsType'
    BY <1>12 DEF PacketsType, vars, power, chip, alloc, place, local, history, outcome
  <2>5. TasksType'
    BY <1>12 DEF TasksType, Pcs, Accessing, vars, power, chip, alloc, place, local, history, outcome
  <2>6. \A u \in Tasks : Placed(u)'
    BY <1>12 DEF Placed, TasksType, vars, power, chip, alloc, place, local, history, outcome
  <2>. QED
    BY <2>1, <2>2, <2>3, <2>4, <2>5, <2>6
    DEF TypeInv, TypeOK, FlagsType, CountsType, PacketsType, TasksType
<1>13. CASE FirmwareHolds
  <2>1. FlagsType'
    BY <1>13 DEF FlagsType, FirmwareHolds, power, chip, alloc, place, local, history, outcome
  <2>2. CountsType'
    BY <1>13 DEF CountsType, FirmwareHolds, power, chip, alloc, place, local, history, outcome
  <2>3. wakeBits' \subseteq Bits
    BY <1>13 DEF Bits, FirmwareHolds, power, chip, alloc, place, local, history, outcome
  <2>4. PacketsType'
    BY <1>13 DEF PacketsType, FirmwareHolds, power, chip, alloc, place, local, history, outcome
  <2>5. TasksType'
    BY <1>13 DEF TasksType, Pcs, Accessing, FirmwareHolds, power, chip, alloc, place, local, history,
       outcome
  <2>6. \A u \in Tasks : Placed(u)'
    BY <1>13 DEF Placed, TasksType, FirmwareHolds, power, chip, alloc, place, local, history, outcome
  <2>. QED
    BY <2>1, <2>2, <2>3, <2>4, <2>5, <2>6
    DEF TypeInv, TypeOK, FlagsType, CountsType, PacketsType, TasksType
<1>. QED
  BY <1>3, <1>4, <1>5, <1>6, <1>7, <1>8, <1>9, <1>10, <1>11, <1>12, <1>13
  DEF Firmware, Receive

----------------------------------------------------------------------------
\* A step of a hif_send moves one task, and notes it when it enters.
LEMMA SendFrame ==
  ASSUME TypeInv, NEW t \in Tasks, hif_send(t)
  PROVE  /\ \A u \in Tasks \ {t} : pc'[u] = pc[u] /\ result'[u] = result[u] /\ lost'[u] = lost[u]
                                /\ sends'[u] = sends[u]
         /\ UNCHANGED u8HifRXDone /\ pc[t] # "rx_done" /\ pc'[t] # "rx_done"
         /\ (pc[t] = "idle" /\ Enter(t)) \/ (pc[t] # "idle" /\ UNCHANGED overlapped)
<1>1. pc \in [Tasks -> Pcs] /\ result \in [Tasks -> {"none", "delivered", "undelivered"}]
      /\ lost \in [Tasks -> SUBSET Writes] /\ sends \in [Tasks -> 0..MaxSends]
  BY DEF TypeInv, TypeOK
<1>. USE <1>1 DEF history, outcome, power
<1>2. CASE BeginSend(t)
  BY <1>2 DEF BeginSend, Goto
<1>3. CASE hif_chip_wake(t)
  BY <1>3 DEF hif_chip_wake, NeedsWake, Goto
<1>4. CASE SetWakeBit(t, "host", "wake_host", "wake_clk")
  BY <1>4 DEF SetWakeBit, Lose, Goto, BusOk, BusFault
<1>5. CASE SetWakeBit(t, "clk", "wake_clk", "wake_poll")
  BY <1>5 DEF SetWakeBit, Lose, Goto, BusOk, BusFault
<1>6. CASE PollClocks(t)
  BY <1>6 DEF PollClocks, Goto, BusOk, BusFault
<1>7. CASE LoadForWake(t)
  BY <1>7 DEF LoadForWake, Goto
<1>8. CASE StoreForWake(t)
  BY <1>8 DEF StoreForWake, Goto
<1>9. CASE WriteState(t)
  BY <1>9 DEF WriteState, Lose, Goto, BusOk, BusFault
<1>10. CASE RequestBuffer(t)
  BY <1>10 DEF RequestBuffer, Lose, Goto, BusOk, BusFault
<1>11. CASE PollBuffer(t)
  BY <1>11 DEF PollBuffer, Answered, PollExpires, Goto, BusOk, BusFault
<1>12. CASE ReadDmaAddress(t)
  BY <1>12 DEF ReadDmaAddress, Goto, BusOk, BusFault
<1>13. CASE WriteBlock(t, "hdr", "header", "data")
  BY <1>13 DEF WriteBlock, Goto, BusOk, BusFault
<1>14. CASE WriteBlock(t, "data", "data", "submit")
  BY <1>14 DEF WriteBlock, Goto, BusOk, BusFault
<1>15. CASE Submit(t)
  BY <1>15 DEF Submit, Lose, FirmwareTakes, Packet, Goto, BusOk, BusFault
<1>16. CASE LoadForSleep(t)
  BY <1>16 DEF LoadForSleep, IsCounted, Goto
<1>17. CASE StoreForSleep(t)
  BY <1>17 DEF StoreForSleep, Goto
<1>18. CASE TestForSleep(t)
  BY <1>18 DEF TestForSleep, Goto
<1>19. CASE ClearWakeBit(t, "clk", "sleep_clk", "sleep_host")
  BY <1>19 DEF ClearWakeBit, Goto, BusOk, BusFault
<1>20. CASE ClearWakeBit(t, "host", "sleep_host", "idle")
  BY <1>20 DEF ClearWakeBit, Goto, BusOk, BusFault
<1>21. CASE WaitForChip(t)
  BY <1>21 DEF WaitForChip, Goto, BusOk, BusFault
<1>. QED
  BY <1>2, <1>3, <1>4, <1>5, <1>6, <1>7, <1>8, <1>9, <1>10, <1>11, <1>12, <1>13, <1>14, <1>15, <1>16, <1>17,
     <1>18, <1>19, <1>20, <1>21
  DEF hif_send

\* Until tasks overlap, the task that sends is the only one in the driver.
LEMMA SendAlone ==
  ASSUME TypeInv, ~overlapped => SerialInv, ~overlapped', NEW t \in Tasks, hif_send(t)
  PROVE  ~overlapped /\ SerialInv /\ Others(t) /\ Others(t)' /\ Serial'
<1>1. ~overlapped /\ Others(t)
  <2>1. CASE pc[t] = "idle" /\ Enter(t)
    BY <2>1 DEF Enter, Others
  <2>2. CASE pc[t] # "idle" /\ UNCHANGED overlapped
    BY <2>2 DEF SerialInv, Serial, Inside
  <2>. QED
    BY <2>1, <2>2, SendFrame
<1>2. Others(t)'
  BY <1>1, SendFrame DEF Others, Inside
<1>3. Serial'
  BY <1>2 DEF Serial, Others
<1>. QED
  BY <1>1, <1>2, <1>3

LEMMA SendCount ==
  ASSUME NEW t \in Tasks, TypeInv, SerialInv, Others(t), hif_send(t)
  PROVE  Count(t)' /\ u8ChipSleep' \in {0, 1} /\ (pc'[t] = "idle" => u8ChipSleep' = 0)
<1>1. Count(t) /\ u8ChipSleep \in {0, 1}
  BY DEF SerialInv, CountGlobal
<1>2. pc[t] = "idle" => u8ChipSleep = 0
  BY DEF SerialInv, CountGlobal, Others, Inside
<1>. USE <1>1, <1>2
<1>. USE DEF Count, TypeInv, TypeOK, Accessing, power, place, local
<1>3. CASE BeginSend(t)
  BY <1>3 DEF BeginSend, Goto
<1>4. CASE hif_chip_wake(t)
  BY <1>4 DEF hif_chip_wake, NeedsWake, Goto
<1>5. CASE SetWakeBit(t, "host", "wake_host", "wake_clk")
  BY <1>5 DEF SetWakeBit, Lose, Goto, BusOk, BusFault
<1>6. CASE SetWakeBit(t, "clk", "wake_clk", "wake_poll")
  BY <1>6 DEF SetWakeBit, Lose, Goto, BusOk, BusFault
<1>7. CASE PollClocks(t)
  BY <1>7 DEF PollClocks, Goto, BusOk, BusFault
<1>8. CASE LoadForWake(t)
  BY <1>8 DEF LoadForWake, Goto
<1>9. CASE StoreForWake(t)
  BY <1>9 DEF StoreForWake, Goto
<1>10. CASE WriteState(t)
  BY <1>10 DEF WriteState, Lose, Goto, BusOk, BusFault
<1>11. CASE RequestBuffer(t)
  <2>1. pc[t] = "request" /\ pc' = [pc EXCEPT ![t] = "poll"]
    BY <1>11 DEF RequestBuffer, Goto
  <2>2. UNCHANGED u8ChipSleep
    BY <1>11 DEF RequestBuffer
  <2>. QED
    BY <2>1, <2>2
<1>12. CASE PollBuffer(t)
  BY <1>12 DEF PollBuffer, Answered, PollExpires, Goto, BusOk, BusFault
<1>13. CASE ReadDmaAddress(t)
  BY <1>13 DEF ReadDmaAddress, Goto, BusOk, BusFault
<1>14. CASE WriteBlock(t, "hdr", "header", "data")
  BY <1>14 DEF WriteBlock, Goto, BusOk, BusFault
<1>15. CASE WriteBlock(t, "data", "data", "submit")
  BY <1>15 DEF WriteBlock, Goto, BusOk, BusFault
<1>16. CASE Submit(t)
  BY <1>16 DEF Submit, Lose, FirmwareTakes, Packet, Goto, BusOk, BusFault
<1>17. CASE LoadForSleep(t)
  BY <1>17 DEF LoadForSleep, IsCounted, Goto
<1>18. CASE StoreForSleep(t)
  BY <1>18 DEF StoreForSleep, Goto
<1>19. CASE TestForSleep(t)
  BY <1>19 DEF TestForSleep, Goto
<1>20. CASE ClearWakeBit(t, "clk", "sleep_clk", "sleep_host")
  BY <1>20 DEF ClearWakeBit, Goto, BusOk, BusFault
<1>21. CASE ClearWakeBit(t, "host", "sleep_host", "idle")
  BY <1>21 DEF ClearWakeBit, Goto, BusOk, BusFault
<1>22. CASE WaitForChip(t)
  BY <1>22 DEF WaitForChip, Goto, BusOk, BusFault
<1>. QED
  BY <1>3, <1>4, <1>5, <1>6, <1>7, <1>8, <1>9, <1>10, <1>11, <1>12, <1>13, <1>14, <1>15, <1>16, <1>17,
     <1>18,
     <1>19, <1>20, <1>21, <1>22
  DEF hif_send

\* A send does not forget what it lost.
LEMMA SendLost ==
  ASSUME NEW t \in Tasks, TypeInv, hif_send(t), pc[t] # "idle"
  PROVE  lost[t] \subseteq lost'[t]
<1>. USE DEF TypeInv, TypeOK, outcome
<1>1. CASE BeginSend(t)
  BY <1>1 DEF BeginSend, Goto
<1>2. CASE hif_chip_wake(t)
  BY <1>2 DEF hif_chip_wake, NeedsWake, Goto
<1>3. CASE SetWakeBit(t, "host", "wake_host", "wake_clk")
  BY <1>3 DEF SetWakeBit, Lose, Goto, BusOk, BusFault
<1>4. CASE SetWakeBit(t, "clk", "wake_clk", "wake_poll")
  BY <1>4 DEF SetWakeBit, Lose, Goto, BusOk, BusFault
<1>5. CASE PollClocks(t)
  BY <1>5 DEF PollClocks, Goto, BusOk, BusFault
<1>6. CASE LoadForWake(t)
  BY <1>6 DEF LoadForWake, Goto
<1>7. CASE StoreForWake(t)
  BY <1>7 DEF StoreForWake, Goto
<1>8. CASE WriteState(t)
  BY <1>8 DEF WriteState, Lose, Goto, BusOk, BusFault
<1>9. CASE RequestBuffer(t)
  BY <1>9 DEF RequestBuffer, Lose, Goto, BusOk, BusFault
<1>10. CASE PollBuffer(t)
  BY <1>10 DEF PollBuffer, Answered, PollExpires, Goto, BusOk, BusFault
<1>11. CASE ReadDmaAddress(t)
  BY <1>11 DEF ReadDmaAddress, Goto, BusOk, BusFault
<1>12. CASE WriteBlock(t, "hdr", "header", "data")
  BY <1>12 DEF WriteBlock, Goto, BusOk, BusFault
<1>13. CASE WriteBlock(t, "data", "data", "submit")
  BY <1>13 DEF WriteBlock, Goto, BusOk, BusFault
<1>14. CASE Submit(t)
  BY <1>14 DEF Submit, Lose
<1>15. CASE LoadForSleep(t)
  BY <1>15 DEF LoadForSleep, IsCounted, Goto
<1>16. CASE StoreForSleep(t)
  BY <1>16 DEF StoreForSleep, Goto
<1>17. CASE TestForSleep(t)
  BY <1>17 DEF TestForSleep, Goto
<1>18. CASE ClearWakeBit(t, "clk", "sleep_clk", "sleep_host")
  BY <1>18 DEF ClearWakeBit, Goto, BusOk, BusFault
<1>19. CASE ClearWakeBit(t, "host", "sleep_host", "idle")
  BY <1>19 DEF ClearWakeBit, Goto, BusOk, BusFault
<1>20. CASE WaitForChip(t)
  BY <1>20 DEF WaitForChip, Goto, BusOk, BusFault
<1>. QED
  BY <1>1, <1>2, <1>3, <1>4, <1>5, <1>6, <1>7, <1>8, <1>9, <1>10, <1>11, <1>12, <1>13, <1>14, <1>15, <1>16,
     <1>17, <1>18, <1>19, <1>20
  DEF hif_send

LEMMA SendMissed ==
  ASSUME NEW t \in Tasks, TypeInv, hif_send(t), pc[t] # "idle"
  PROVE  (Missed(t) => Missed(t)') /\ (Lossless(t)' => Lossless(t))
  BY SendLost DEF Missed, Lossless

LEMMA LoseMisses ==
  ASSUME NEW t \in Tasks, TypeInv, NEW w \in Writes, Lose(t, w)
  PROVE  (w \in Bits => Missed(t)') /\ (w \notin Bits => ~Lossless(t)')
<1>1. w \in lost'[t]
  BY DEF Lose, TypeInv, TypeOK
<1>. QED
  BY <1>1 DEF Missed, Lossless

LEMMA SendCover ==
  ASSUME NEW t \in Tasks, TypeInv, SerialInv, Others(t), hif_send(t)
  PROVE  Cover(t)' /\ CoverGlobal'
<1>1. Cover(t) /\ CoverGlobal /\ wakeBits \subseteq Bits /\ pc \in [Tasks -> Pcs]
  BY DEF SerialInv, TypeInv, TypeOK
<1>2. Count(t) /\ u8ChipSleep \in {0, 1}
  BY DEF SerialInv, CountGlobal
<1>3. pc[t] \in {"wake", "inc_load", "inc_store"} => u8ChipSleep = 0
  BY <1>2 DEF Count
<1>30. pc[t] # "idle" => (Missed(t) => Missed(t)')
  BY SendMissed
<1>. USE <1>1, <1>3, <1>30
<1>. USE DEF Cover, CoverGlobal, Accessing, Bits, power, chip, place, local
<1>4. CASE BeginSend(t)
  BY <1>4 DEF BeginSend, Goto
<1>5. CASE hif_chip_wake(t)
  BY <1>5 DEF hif_chip_wake, NeedsWake, Goto
<1>6. CASE SetWakeBit(t, "host", "wake_host", "wake_clk")
  <2>1. /\ pc[t] = "wake_host" /\ UNCHANGED <<u8HifRXDone, chip>>
        /\ pc' = [pc EXCEPT ![t] = "wake_clk"] \/ pc' = [pc EXCEPT ![t] = "idle"]
    BY <1>6 DEF SetWakeBit, Goto
  <2>2. (pc' = [pc EXCEPT ![t] = "wake_clk"] /\ wakeBits' = wakeBits \cup {"host"}) \/ Missed(t)'
        \/ pc' = [pc EXCEPT ![t] = "idle"]
    BY <1>6, LoseMisses DEF SetWakeBit, Goto, Writes
  <2>. QED
    BY <2>1, <2>2
<1>7. CASE SetWakeBit(t, "clk", "wake_clk", "wake_poll")
  <2>1. /\ pc[t] = "wake_clk" /\ UNCHANGED <<u8HifRXDone, chip>>
        /\ pc' = [pc EXCEPT ![t] = "wake_poll"] \/ pc' = [pc EXCEPT ![t] = "idle"]
    BY <1>7 DEF SetWakeBit, Goto
  <2>2. (pc' = [pc EXCEPT ![t] = "wake_poll"] /\ wakeBits' = wakeBits \cup {"clk"}) \/ Missed(t)'
        \/ pc' = [pc EXCEPT ![t] = "idle"]
    BY <1>7, LoseMisses DEF SetWakeBit, Goto, Writes
  <2>. QED
    BY <2>1, <2>2
<1>8. CASE PollClocks(t)
  BY <1>8 DEF PollClocks, Goto, BusOk, BusFault
<1>9. CASE LoadForWake(t)
  BY <1>9 DEF LoadForWake, Goto
<1>10. CASE StoreForWake(t)
  BY <1>10 DEF StoreForWake, Goto
<1>11. CASE WriteState(t)
  BY <1>11 DEF WriteState, Lose, Goto, BusOk, BusFault
<1>12. CASE RequestBuffer(t)
  BY <1>12 DEF RequestBuffer, Lose, Goto, BusOk, BusFault
<1>13. CASE PollBuffer(t)
  BY <1>13 DEF PollBuffer, Answered, PollExpires, Goto, BusOk, BusFault
<1>14. CASE ReadDmaAddress(t)
  BY <1>14 DEF ReadDmaAddress, Goto, BusOk, BusFault
<1>15. CASE WriteBlock(t, "hdr", "header", "data")
  BY <1>15 DEF WriteBlock, Goto, BusOk, BusFault
<1>16. CASE WriteBlock(t, "data", "data", "submit")
  BY <1>16 DEF WriteBlock, Goto, BusOk, BusFault
<1>17. CASE Submit(t)
  BY <1>17 DEF Submit, Lose, FirmwareTakes, Packet, Goto, BusOk, BusFault
<1>18. CASE LoadForSleep(t)
  BY <1>18 DEF LoadForSleep, IsCounted, Goto
<1>19. CASE StoreForSleep(t)
  BY <1>19 DEF StoreForSleep, Goto
<1>20. CASE TestForSleep(t)
  BY <1>20 DEF TestForSleep, Goto
<1>21. CASE ClearWakeBit(t, "clk", "sleep_clk", "sleep_host")
  BY <1>21 DEF ClearWakeBit, Goto, BusOk, BusFault
<1>22. CASE ClearWakeBit(t, "host", "sleep_host", "idle")
  BY <1>22 DEF ClearWakeBit, Goto, BusOk, BusFault
<1>23. CASE WaitForChip(t)
  BY <1>23 DEF WaitForChip, Goto, BusOk, BusFault
<1>. QED
  BY <1>4, <1>5, <1>6, <1>7, <1>8, <1>9, <1>10, <1>11, <1>12, <1>13, <1>14, <1>15, <1>16, <1>17, <1>18,
     <1>19, <1>20, <1>21, <1>22, <1>23
  DEF hif_send

LEMMA SendAnswer ==
  ASSUME NEW t \in Tasks, TypeInv, SerialInv, Others(t), hif_send(t)
  PROVE  Answer(t)'
<1>1. Answer(t)
  BY DEF SerialInv
<1>30. pc[t] # "idle" => (Lossless(t)' => Lossless(t))
  BY SendMissed
<1>. USE <1>1, <1>30 DEF Send, Granted, Filled
<1>. USE DEF Answer, Accessing, TypeInv, TypeOK, Placed, alloc, place, local, outcome
<1>2. CASE BeginSend(t)
  BY <1>2 DEF BeginSend, Goto
<1>3. CASE hif_chip_wake(t)
  BY <1>3 DEF hif_chip_wake, NeedsWake, Goto
<1>4. CASE SetWakeBit(t, "host", "wake_host", "wake_clk")
  BY <1>4 DEF SetWakeBit, Lose, Goto, BusOk, BusFault
<1>5. CASE SetWakeBit(t, "clk", "wake_clk", "wake_poll")
  BY <1>5 DEF SetWakeBit, Lose, Goto, BusOk, BusFault
<1>6. CASE PollClocks(t)
  BY <1>6 DEF PollClocks, Goto, BusOk, BusFault
<1>7. CASE LoadForWake(t)
  BY <1>7 DEF LoadForWake, Goto
<1>8. CASE StoreForWake(t)
  BY <1>8 DEF StoreForWake, Goto
<1>9. CASE WriteState(t)
  BY <1>9, LoseMisses DEF WriteState, Writes, Bits, Goto, BusOk, BusFault
<1>10. CASE RequestBuffer(t)
  BY <1>10, LoseMisses DEF RequestBuffer, Writes, Bits, Goto, BusOk, BusFault
<1>11. CASE PollBuffer(t)
  BY <1>11 DEF PollBuffer, Answered, PollExpires, Goto, BusOk, BusFault
<1>12. CASE ReadDmaAddress(t)
  BY <1>12 DEF ReadDmaAddress, Goto, BusOk, BusFault
<1>13. CASE WriteBlock(t, "hdr", "header", "data")
  BY <1>13 DEF WriteBlock, Goto, BusOk, BusFault
<1>14. CASE WriteBlock(t, "data", "data", "submit")
  BY <1>14 DEF WriteBlock, Goto, BusOk, BusFault
<1>15. CASE Submit(t)
  <2>1. pc[t] = "submit" /\ pc'[t] = "sleep"
    BY <1>15 DEF Submit, Goto
  <2>2. Filled(t)'
    BY <2>1
  <2>3. CASE UNCHANGED lost /\ Lossless(t)
    <3>1. owner[dma[t]] = Send(t) /\ content[dma[t]].hdr = Send(t) /\ content[dma[t]].data = Send(t)
      BY <2>1, <2>3
    <3>2. dma[t] \in Buffers /\ content[dma[t]] \in [hdr : Sends, data : Sends]
      BY <2>1
    <3>3. content[dma[t]] = Packet(t)
      BY <3>1, <3>2 DEF Packet
    <3>4. result'[t] # "undelivered"
      <4>1. ~Lose(t, "submit")
        BY <2>1, <2>3, LoseMisses DEF Lossless, Writes, Bits
      <4>. QED
        BY <1>15, <3>1, <3>3, <4>1 DEF Submit
    <3>. QED
      BY <2>1, <2>2, <3>4
  <2>4. CASE UNCHANGED lost /\ ~Lossless(t)
    BY <2>1, <2>2, <2>4 DEF Lossless
  <2>5. CASE Lose(t, "submit")
    <3>1. ~Lossless(t)'
      BY <2>5, LoseMisses DEF Writes, Bits
    <3>. QED
      BY <2>2, <3>1
  <2>. QED
    BY <1>15, <2>3, <2>4, <2>5 DEF Submit
<1>16. CASE LoadForSleep(t)
  BY <1>16 DEF LoadForSleep, IsCounted, Goto
<1>17. CASE StoreForSleep(t)
  BY <1>17 DEF StoreForSleep, Goto
<1>18. CASE TestForSleep(t)
  BY <1>18 DEF TestForSleep, Goto
<1>19. CASE ClearWakeBit(t, "clk", "sleep_clk", "sleep_host")
  BY <1>19 DEF ClearWakeBit, Goto, BusOk, BusFault
<1>20. CASE ClearWakeBit(t, "host", "sleep_host", "idle")
  BY <1>20 DEF ClearWakeBit, Goto, BusOk, BusFault
<1>21. CASE WaitForChip(t)
  BY <1>21 DEF WaitForChip, Goto, BusOk, BusFault
<1>. QED
  BY <1>2, <1>3, <1>4, <1>5, <1>6, <1>7, <1>8, <1>9, <1>10, <1>11, <1>12, <1>13, <1>14, <1>15, <1>16, <1>17,
     <1>18, <1>19, <1>20, <1>21
  DEF hif_send

LEMMA TakenType ==
  ASSUME TypeInv
  PROVE  /\ taken \in Seq([hdr : Sends, data : Sends])
         /\ \A i \in DOMAIN taken : taken[i].hdr \in Sends
<1>1. taken \in Seq([hdr : Sends, data : Sends])
  BY DEF TypeInv, TypeOK
<1>2. \A i \in DOMAIN taken : taken[i] \in [hdr : Sends, data : Sends]
  BY <1>1, ElementType, Zenon
<1>. QED
  BY <1>1, <1>2

LEMMA SendTaken ==
  ASSUME NEW t \in Tasks, TypeInv, SerialInv, Others(t), hif_send(t)
  PROVE  Taken(t)'
<1>1. Answer(t) /\ Taken(t)
  BY DEF SerialInv
<1>2. pc \in [Tasks -> Pcs] /\ result \in [Tasks -> {"none", "delivered", "undelivered"}]
      /\ sends \in [Tasks -> 0..MaxSends]
  BY DEF TypeInv, TypeOK
<1>. USE <1>1, <1>2
<1>. USE DEF Taken, Accessing, BeforeSubmit, alloc, place, local, history, outcome, Send
<1>3. CASE BeginSend(t)
  <2>1. sends'[t] = sends[t] + 1 /\ result'[t] = "none" /\ UNCHANGED taken
    BY <1>3 DEF BeginSend
  <2>2. sends[t] \in Nat
    BY SendAssumption
  <2>3. \A i \in DOMAIN taken : taken[i].hdr.task = t => taken[i].hdr.n <= sends[t]
    OBVIOUS
  <2>4. ASSUME NEW i \in DOMAIN taken PROVE taken[i].hdr # Send(t)'
    <3>1. Send(t)'.task = t /\ Send(t)'.n = sends[t] + 1
      BY <2>1
    <3>2. CASE taken[i].hdr.task # t
      BY <3>1, <3>2
    <3>3. CASE taken[i].hdr.task = t
      <4>1. taken[i].hdr.n <= sends[t] /\ taken[i].hdr.n \in Nat
        <5>1. taken[i].hdr \in Sends /\ t # None
          BY SendAssumption, TakenType
        <5>. QED
          BY <2>3, <3>3, <5>1, SendAssumption DEF Sends, NoSend
      <4>. QED
        BY <2>2, <3>1, <4>1
    <3>. QED
      BY <3>2, <3>3
  <2>5. ASSUME NEW i \in DOMAIN taken, taken[i].hdr.task = t PROVE taken[i].hdr.n <= sends'[t]
    <3>1. taken[i].hdr \in Sends /\ t # None
      BY SendAssumption, TakenType
    <3>2. taken[i].hdr.n \in Nat
      BY <2>5, <3>1, SendAssumption DEF Sends, NoSend
    <3>. QED
      BY <2>1, <2>2, <2>3, <2>5, <3>2
  <2>. QED
    BY <2>1, <2>4, <2>5
<1>4. CASE hif_chip_wake(t)
  BY <1>4 DEF hif_chip_wake, NeedsWake, Goto
<1>5. CASE SetWakeBit(t, "host", "wake_host", "wake_clk")
  BY <1>5 DEF SetWakeBit, Lose, Goto, BusOk, BusFault
<1>6. CASE SetWakeBit(t, "clk", "wake_clk", "wake_poll")
  BY <1>6 DEF SetWakeBit, Lose, Goto, BusOk, BusFault
<1>7. CASE PollClocks(t)
  BY <1>7 DEF PollClocks, Goto, BusOk, BusFault
<1>8. CASE LoadForWake(t)
  BY <1>8 DEF LoadForWake, Goto
<1>9. CASE StoreForWake(t)
  BY <1>9 DEF StoreForWake, Goto
<1>10. CASE WriteState(t)
  BY <1>10 DEF WriteState, Lose, Goto, BusOk, BusFault
<1>11. CASE RequestBuffer(t)
  BY <1>11 DEF RequestBuffer, Lose, Goto, BusOk, BusFault
<1>12. CASE PollBuffer(t)
  BY <1>12 DEF PollBuffer, Answered, PollExpires, Goto, BusOk, BusFault
<1>13. CASE ReadDmaAddress(t)
  BY <1>13 DEF ReadDmaAddress, Goto, BusOk, BusFault
<1>14. CASE WriteBlock(t, "hdr", "header", "data")
  BY <1>14 DEF WriteBlock, Goto, BusOk, BusFault
<1>15. CASE WriteBlock(t, "data", "data", "submit")
  BY <1>15 DEF WriteBlock, Goto, BusOk, BusFault
<1>16. CASE Submit(t)
  <2>1. pc[t] = "submit" /\ pc'[t] \notin BeforeSubmit /\ UNCHANGED sends
    BY <1>16 DEF Submit, Goto
  <2>2. dma[t] \in Buffers /\ content[dma[t]] \in [hdr : Sends, data : Sends]
    BY <2>1 DEF TypeInv, TypeOK, Placed
  <2>3. content[dma[t]].hdr = Send(t)
    BY <2>1 DEF Answer, Filled
  <2>4. taken' = taken \/ taken' = Append(taken, content[dma[t]])
    BY <1>16 DEF Submit, FirmwareTakes
  <2>5. CASE taken' = taken
    BY <2>1, <2>5
  <2>6. CASE taken' = Append(taken, content[dma[t]])
    <3>1. ASSUME NEW i \in DOMAIN taken', taken'[i].hdr.task = t PROVE taken'[i].hdr.n <= sends'[t]
      <4>1. CASE i \in DOMAIN taken
        <5>1. taken'[i] = taken[i]
          BY <2>6, <4>1, TakenType
        <5>. QED
          BY <2>1, <3>1, <4>1, <5>1
      <4>2. CASE i \notin DOMAIN taken
        <5>1. taken'[i] = content[dma[t]]
          BY <2>6, <3>1, <4>2, TakenType
        <5>. QED
          BY <2>1, <2>3, <5>1, SendAssumption
      <4>. QED
        BY <4>1, <4>2
    <3>. QED
      BY <2>1, <3>1
  <2>. QED
    BY <2>4, <2>5, <2>6
<1>17. CASE LoadForSleep(t)
  BY <1>17 DEF LoadForSleep, IsCounted, Goto
<1>18. CASE StoreForSleep(t)
  BY <1>18 DEF StoreForSleep, Goto
<1>19. CASE TestForSleep(t)
  BY <1>19 DEF TestForSleep, Goto
<1>20. CASE ClearWakeBit(t, "clk", "sleep_clk", "sleep_host")
  BY <1>20 DEF ClearWakeBit, Goto, BusOk, BusFault
<1>21. CASE ClearWakeBit(t, "host", "sleep_host", "idle")
  BY <1>21 DEF ClearWakeBit, Goto, BusOk, BusFault
<1>22. CASE WaitForChip(t)
  BY <1>22 DEF WaitForChip, Goto, BusOk, BusFault
<1>. QED
  BY <1>3, <1>4, <1>5, <1>6, <1>7, <1>8, <1>9, <1>10, <1>11, <1>12, <1>13, <1>14, <1>15, <1>16, <1>17,
     <1>18,
     <1>19, <1>20, <1>21, <1>22
  DEF hif_send

LEMMA TakenGrows ==
  ASSUME NEW t \in Tasks, hif_send(t)
  PROVE  UNCHANGED taken \/ (pc[t] = "submit" /\ taken' = Append(taken, content[dma[t]]))
<1>. USE DEF history, outcome
<1>1. CASE BeginSend(t)
  BY <1>1 DEF BeginSend, Goto
<1>2. CASE hif_chip_wake(t)
  BY <1>2 DEF hif_chip_wake, NeedsWake, Goto
<1>3. CASE SetWakeBit(t, "host", "wake_host", "wake_clk")
  BY <1>3 DEF SetWakeBit, Lose, Goto, BusOk, BusFault
<1>4. CASE SetWakeBit(t, "clk", "wake_clk", "wake_poll")
  BY <1>4 DEF SetWakeBit, Lose, Goto, BusOk, BusFault
<1>5. CASE PollClocks(t)
  BY <1>5 DEF PollClocks, Goto, BusOk, BusFault
<1>6. CASE LoadForWake(t)
  BY <1>6 DEF LoadForWake, Goto
<1>7. CASE StoreForWake(t)
  BY <1>7 DEF StoreForWake, Goto
<1>8. CASE WriteState(t)
  BY <1>8 DEF WriteState, Lose, Goto, BusOk, BusFault
<1>9. CASE RequestBuffer(t)
  BY <1>9 DEF RequestBuffer, Lose, Goto, BusOk, BusFault
<1>10. CASE PollBuffer(t)
  BY <1>10 DEF PollBuffer, Answered, PollExpires, Goto, BusOk, BusFault
<1>11. CASE ReadDmaAddress(t)
  BY <1>11 DEF ReadDmaAddress, Goto, BusOk, BusFault
<1>12. CASE WriteBlock(t, "hdr", "header", "data")
  BY <1>12 DEF WriteBlock, Goto, BusOk, BusFault
<1>13. CASE WriteBlock(t, "data", "data", "submit")
  BY <1>13 DEF WriteBlock, Goto, BusOk, BusFault
<1>14. CASE Submit(t)
  BY <1>14 DEF Submit, FirmwareTakes, Goto
<1>15. CASE LoadForSleep(t)
  BY <1>15 DEF LoadForSleep, IsCounted, Goto
<1>16. CASE StoreForSleep(t)
  BY <1>16 DEF StoreForSleep, Goto
<1>17. CASE TestForSleep(t)
  BY <1>17 DEF TestForSleep, Goto
<1>18. CASE ClearWakeBit(t, "clk", "sleep_clk", "sleep_host")
  BY <1>18 DEF ClearWakeBit, Goto, BusOk, BusFault
<1>19. CASE ClearWakeBit(t, "host", "sleep_host", "idle")
  BY <1>19 DEF ClearWakeBit, Goto, BusOk, BusFault
<1>20. CASE WaitForChip(t)
  BY <1>20 DEF WaitForChip, Goto, BusOk, BusFault
<1>. QED
  BY <1>1, <1>2, <1>3, <1>4, <1>5, <1>6, <1>7, <1>8, <1>9, <1>10, <1>11, <1>12, <1>13, <1>14, <1>15, <1>16,
     <1>17, <1>18, <1>19, <1>20
  DEF hif_send

\* The tasks that are not in the driver are where they were.
LEMMA OthersStay ==
  ASSUME NEW t \in Tasks, NEW u \in Tasks \ {t}, TypeInv, SerialInv, Others(t), hif_send(t)
  PROVE  Count(u)' /\ Cover(u)' /\ Answer(u)' /\ Taken(u)'
<1>1. pc[u] = "idle" /\ pc'[u] = "idle" /\ result'[u] = result[u] /\ lost'[u] = lost[u]
      /\ sends'[u] = sends[u]
  BY SendFrame DEF Others, Inside
<1>2. Answer(u) /\ Taken(u) /\ Answer(t)
  BY DEF SerialInv
<1>3. Count(u)' /\ Cover(u)' /\ Answer(u)'
  BY <1>1, <1>2 DEF Count, Cover, Missed, Answer, Lossless, Granted, Filled, Accessing
<1>4. \A i \in DOMAIN taken' : taken'[i].hdr.task = u => taken'[i].hdr.n <= sends'[u]
  <2>1. CASE UNCHANGED taken
    BY <1>1, <1>2, <2>1 DEF Taken
  <2>2. CASE pc[t] = "submit" /\ taken' = Append(taken, content[dma[t]])
    <3>1. content[dma[t]].hdr.task = t
      BY <1>2, <2>2 DEF Answer, Filled, Send
    <3>2. SUFFICES ASSUME NEW i \in DOMAIN taken', taken'[i].hdr.task = u
                   PROVE  taken'[i].hdr.n <= sends'[u]
      OBVIOUS
    <3>3. i \in DOMAIN taken /\ taken'[i] = taken[i]
      <4>1. i \in DOMAIN taken \/ taken'[i] = content[dma[t]]
        BY <2>2, TakenType
      <4>2. taken'[i] # content[dma[t]]
        BY <3>1, <3>2
      <4>3. i \in DOMAIN taken => taken'[i] = taken[i]
        BY <2>2, TakenType
      <4>. QED
        BY <4>1, <4>2, <4>3
    <3>. QED
      BY <1>1, <1>2, <3>2, <3>3 DEF Taken
  <2>. QED
    BY <2>1, <2>2, TakenGrows
<1>. QED
  BY <1>1, <1>3, <1>4 DEF Taken, BeforeSubmit, Accessing

LEMMA SendStep ==
  ASSUME TypeInv, ~overlapped => SerialInv, ~overlapped', NEW t \in Tasks, hif_send(t)
  PROVE  SerialInv'
<1>1. SerialInv /\ Others(t) /\ Others(t)' /\ Serial'
  BY SendAlone
<1>2. Count(t)' /\ Cover(t)' /\ Answer(t)' /\ Taken(t)'
  BY <1>1, SendCount, SendCover, SendAnswer, SendTaken
<1>3. \A u \in Tasks \ {t} : Count(u)' /\ Cover(u)' /\ Answer(u)' /\ Taken(u)'
  BY <1>1, OthersStay
<1>4. CountGlobal'
  BY <1>1, SendCount DEF CountGlobal
<1>5. CoverGlobal'
  BY <1>1, SendCover
<1>. QED
  BY <1>1, <1>2, <1>3, <1>4, <1>5 DEF SerialInv

----------------------------------------------------------------------------
LEMMA ReceiveStep ==
  ASSUME TypeInv, ~overlapped => SerialInv, ~overlapped', Receive
  PROVE  SerialInv'
<1>. USE SendAssumption
<1>1. ~overlapped /\ Others(Wifi) /\ pc[Wifi] \in {"idle", "rx_done"}
  <2>1. CASE ClaimMessage \/ hif_set_sleep_mode
    BY <2>1 DEF ClaimMessage, hif_set_sleep_mode, Enter, Others
  <2>2. CASE ClearRxDone \/ WriteRxDone
    BY <2>2 DEF ClearRxDone, WriteRxDone, Goto, history, outcome, SerialInv, Serial, Inside
  <2>. QED
    BY <2>1, <2>2 DEF Receive
<1>2. pc \in [Tasks -> Pcs]
  BY DEF TypeInv, TypeOK
<1>3. \A u \in Tasks \ {Wifi} : pc[u] = "idle" /\ pc'[u] = "idle"
  BY <1>1, <1>2 DEF Others, Inside, Receive, ClaimMessage, hif_set_sleep_mode, ClearRxDone, WriteRxDone,
     Goto, place
<1>4. /\ UNCHANGED <<u8ChipSleep, stateReg, allocReq, ctrl4, content, owner, wakeBits, sends, result, lost, taken>>
      /\ pc'[Wifi] \in {"idle", "rx_done"}
  BY <1>1, <1>2 DEF Receive, ClaimMessage, hif_set_sleep_mode, ClearRxDone, WriteRxDone, BusOk, BusFault,
     Goto, power, alloc, history, outcome, place
<1>5. /\ CountGlobal /\ CoverGlobal
      /\ \A u \in Tasks : Count(u) /\ Cover(u) /\ Answer(u) /\ Taken(u)
  BY <1>1 DEF SerialInv
<1>6. u8ChipSleep = 0
  BY <1>1, <1>3, <1>5 DEF CountGlobal, Count
<1>7. CountGlobal' /\ \A u \in Tasks : Count(u)'
  BY <1>3, <1>4, <1>6 DEF CountGlobal, Count
<1>8. CoverGlobal' /\ (pc'[Wifi] = "rx_done" => ~u8HifRXDone')
  BY <1>1, <1>2, <1>5 DEF CoverGlobal, Cover, Receive, ClaimMessage, hif_set_sleep_mode, ClearRxDone,
     WriteRxDone, Goto, power, chip, place
<1>9. \A u \in Tasks : Cover(u)' /\ Answer(u)' /\ Taken(u)'
  BY <1>3, <1>4, <1>5, <1>8 DEF Cover, Missed, Answer, Lossless, Granted, Filled, Taken, BeforeSubmit,
     Accessing
<1>10. Serial'
  BY <1>3 DEF Serial, Others, Inside
<1>. QED
  BY <1>7, <1>8, <1>9, <1>10 DEF SerialInv

LEMMA FirmwareStep ==
  ASSUME TypeInv, SerialInv, Firmware \/ (\E t \in Tasks : SwitchTo(t)) \/ UNCHANGED vars
  PROVE  SerialInv'
<1>1. UNCHANGED <<power, u8HifRXDone, wakeBits, pc, loaded, dma, sends, result, lost, taken, stateReg, content>>
  BY DEF Firmware, FirmwareSleeps, FirmwareWakes, FirmwarePosts, FirmwareHolds, FirmwareAllocates, SwitchTo,
     vars, place, local, history, outcome, alloc
<1>2. Serial' /\ CountGlobal' /\ \A u \in Tasks : Count(u)' /\ Taken(u)'
  BY <1>1 DEF SerialInv, Serial, Others, Inside, CountGlobal, Count, Taken, Send, power
<1>3. unacked => unacked'
  BY DEF Firmware, FirmwareSleeps, FirmwareWakes, FirmwarePosts, FirmwareHolds, FirmwareAllocates, SwitchTo,
     vars, chip
<1>4. CoverGlobal' /\ \A u \in Tasks : Cover(u)'
  BY <1>1, <1>3 DEF SerialInv, CoverGlobal, Cover, Missed, power
<1>5. ASSUME NEW u \in Tasks PROVE Answer(u)'
  <2>1. Answer(u) /\ Placed(u) /\ Send(u)' = Send(u) /\ Send(u) # NoSend
    BY <1>1, SendAssumption DEF SerialInv, TypeInv, Send, NoSend
  <2>2. owner \in [Buffers -> Sends]
    BY DEF TypeInv, TypeOK
  <2>3. CASE FirmwareAllocates
    <3>1. /\ allocReq /\ ~allocReq'
          /\ \/ \E b \in Buffers : owner[b] = NoSend /\ owner' = [owner EXCEPT ![b] = stateReg] /\ ctrl4' = b
             \/ ctrl4' = None /\ UNCHANGED owner
      BY <2>3 DEF FirmwareAllocates
    <3>. QED
      BY <1>1, <2>1, <2>2, <3>1 DEF Answer, Lossless, Granted, Filled, Placed
  <2>4. CASE UNCHANGED <<allocReq, ctrl4, owner>>
    BY <1>1, <2>1, <2>4 DEF Answer, Lossless, Granted, Filled
  <2>. QED
    BY <2>3, <2>4 DEF Firmware, FirmwareSleeps, FirmwareWakes, FirmwarePosts, FirmwareHolds, SwitchTo, vars,
       alloc
<1>. QED
  BY <1>2, <1>4, <1>5 DEF SerialInv

LEMMA Start == Init => IInv
<1> SUFFICES ASSUME Init PROVE IInv
  OBVIOUS
<1>. USE SendAssumption
<1>1. TypeOK
  <2>1. FlagsType /\ wakeBits \subseteq Bits
    BY DEF Init, FlagsType
  <2>4. CountsType
    BY DEF Init, CountsType
  <2>2. PacketsType
    BY NoSendType DEF Init, PacketsType
  <2>3. TasksType
    BY DEF Init, TasksType, Pcs, Writes
  <2>. QED
    BY <2>1, <2>2, <2>3, <2>4 DEF TypeOK, FlagsType, CountsType, PacketsType, TasksType
<1>2. \A t \in Tasks : Placed(t) /\ Count(t) /\ Cover(t) /\ Answer(t) /\ Taken(t)
  BY DEF Init, Placed, Count, Cover, Answer, Granted, Filled, Taken, Accessing, BeforeSubmit
<1>3. Serial /\ CountGlobal /\ CoverGlobal
  BY DEF Init, Serial, Others, Inside, CountGlobal, CoverGlobal
<1>. QED
  BY <1>1, <1>2, <1>3 DEF IInv, TypeInv, SerialInv

LEMMA Inductive == IInv /\ [Next]_vars => IInv'
<1> SUFFICES ASSUME IInv, [Next]_vars PROVE IInv'
  OBVIOUS
<1>1. TypeInv /\ (~overlapped => SerialInv)
  BY DEF IInv
<1>2. CASE \E t \in Tasks : hif_send(t)
  BY <1>1, <1>2, SendKeepsType, SendStep DEF IInv
<1>3. CASE Receive
  BY <1>1, <1>3, RestKeepsType, ReceiveStep DEF IInv
<1>4. CASE Firmware \/ (\E t \in Tasks : SwitchTo(t)) \/ UNCHANGED vars
  <2>1. UNCHANGED overlapped
    BY <1>4 DEF Firmware, FirmwareSleeps, FirmwareWakes, FirmwarePosts, FirmwareHolds, FirmwareAllocates,
       SwitchTo, vars, history, outcome
  <2>. QED
    BY <1>1, <1>4, <2>1, RestKeepsType, FirmwareStep DEF IInv
<1>. QED
  BY <1>2, <1>3, <1>4 DEF Next

\* The inductive invariant holds, whichever tasks there are.
THEOREM Invariance == Spec => []IInv
  BY Start, Inductive, PTL DEF Spec

\* Every variable has its type, overlapping tasks or not.
THEOREM TypeCorrect == Spec => []TypeOK
<1>1. IInv => TypeOK
  BY DEF IInv, TypeInv
<1>. QED
  BY <1>1, Invariance, PTL

LEMMA SerialCover == TypeInv /\ SerialInv => AccessIsCovered
  BY DEF SerialInv, Cover, Missed, AccessIsCovered

LEMMA SerialCount == TypeInv /\ SerialInv => CountIsOfSenders
<1> SUFFICES ASSUME TypeInv, SerialInv PROVE CountIsOfSenders
  OBVIOUS
<1>. DEFINE S == {t \in Tasks : pc[t] # "idle"}
<1>1. u8ChipSleep \in {0, 1}
  BY DEF SerialInv, CountGlobal
<1>2. CASE S = {}
  <2>1. u8ChipSleep = 0
    BY <1>2 DEF SerialInv, CountGlobal
  <2>2. Cardinality(S) = 0
    BY <1>2, FS_EmptySet
  <2>. QED
    BY <2>1, <2>2 DEF CountIsOfSenders
<1>3. CASE S # {}
  <2>1. PICK t \in Tasks : pc[t] # "idle"
    BY <1>3
  <2>2. S = {t}
    BY <2>1 DEF SerialInv, Serial, Others, Inside
  <2>3. Cardinality(S) = 1
    BY <2>2, FS_Singleton
  <2>. QED
    BY <1>1, <2>3 DEF CountIsOfSenders
<1>. QED
  BY <1>2, <1>3

LEMMA SerialDelivery == SerialInv => SuccessIsDelivery
  BY DEF SerialInv, Answer, Lossless, Granted, SuccessIsDelivery

\* Until tasks overlap in it, the driver keeps the chip awake under every access of a
\* send that lost no wake bit, counts its senders, and reports no packet sent that
\* was not delivered unless NMI_STATE_REG, CTRL_2 or CTRL_3 of that send was lost.
THEOREM SafeWhileSerial == Spec => []SafeUntilOverlap
<1>1. IInv => SafeUntilOverlap
  BY SerialCover, SerialCount, SerialDelivery DEF IInv, SafeUntilOverlap
<1>. QED
  BY <1>1, Invariance, PTL

----------------------------------------------------------------------------
LEMMA MidSend ==
  ASSUME NEW t \in Tasks, hif_send(t), pc[t] # "idle"
  PROVE  Submit(t) \/ UNCHANGED <<sends, result, taken>>
<1>. USE DEF history, outcome
<1>1. CASE BeginSend(t)
  BY <1>1 DEF BeginSend, Goto
<1>2. CASE hif_chip_wake(t)
  BY <1>2 DEF hif_chip_wake, NeedsWake, Goto
<1>3. CASE SetWakeBit(t, "host", "wake_host", "wake_clk")
  BY <1>3 DEF SetWakeBit, Lose, Goto, BusOk, BusFault
<1>4. CASE SetWakeBit(t, "clk", "wake_clk", "wake_poll")
  BY <1>4 DEF SetWakeBit, Lose, Goto, BusOk, BusFault
<1>5. CASE PollClocks(t)
  BY <1>5 DEF PollClocks, Goto, BusOk, BusFault
<1>6. CASE LoadForWake(t)
  BY <1>6 DEF LoadForWake, Goto
<1>7. CASE StoreForWake(t)
  BY <1>7 DEF StoreForWake, Goto
<1>8. CASE WriteState(t)
  BY <1>8 DEF WriteState, Lose, Goto, BusOk, BusFault
<1>9. CASE RequestBuffer(t)
  BY <1>9 DEF RequestBuffer, Lose, Goto, BusOk, BusFault
<1>10. CASE PollBuffer(t)
  BY <1>10 DEF PollBuffer, Answered, PollExpires, Goto, BusOk, BusFault
<1>11. CASE ReadDmaAddress(t)
  BY <1>11 DEF ReadDmaAddress, Goto, BusOk, BusFault
<1>12. CASE WriteBlock(t, "hdr", "header", "data")
  BY <1>12 DEF WriteBlock, Goto, BusOk, BusFault
<1>13. CASE WriteBlock(t, "data", "data", "submit")
  BY <1>13 DEF WriteBlock, Goto, BusOk, BusFault
<1>14. CASE Submit(t)
  BY <1>14
<1>15. CASE LoadForSleep(t)
  BY <1>15 DEF LoadForSleep, IsCounted, Goto
<1>16. CASE StoreForSleep(t)
  BY <1>16 DEF StoreForSleep, Goto
<1>17. CASE TestForSleep(t)
  BY <1>17 DEF TestForSleep, Goto
<1>18. CASE ClearWakeBit(t, "clk", "sleep_clk", "sleep_host")
  BY <1>18 DEF ClearWakeBit, Goto, BusOk, BusFault
<1>19. CASE ClearWakeBit(t, "host", "sleep_host", "idle")
  BY <1>19 DEF ClearWakeBit, Goto, BusOk, BusFault
<1>20. CASE WaitForChip(t)
  BY <1>20 DEF WaitForChip, Goto, BusOk, BusFault
<1>. QED
  BY <1>1, <1>2, <1>3, <1>4, <1>5, <1>6, <1>7, <1>8, <1>9, <1>10, <1>11, <1>12, <1>13, <1>14, <1>15, <1>16,
     <1>17, <1>18, <1>19, <1>20
  DEF hif_send


LEMMA NobodySends == Sending = {} => Current = Empty /\ ~Reported /\ ~Lossy
  BY DEF Current, Reported, Lossy

LEMMA OneSends ==
  ASSUME NEW t \in Tasks, Sending = {t}
  PROVE  Current = Packet(t) /\ (Reported <=> result[t] # "none") /\ (Lossy <=> lost[t] # {})
  BY DEF Current, Reported, Lossy

\* The same in the next state.
LEMMA NobodySendsNext == Sending' = {} => Current' = Empty /\ ~Reported' /\ ~Lossy'
  BY DEF Current, Reported, Lossy

LEMMA OneSendsNext ==
  ASSUME NEW t \in Tasks, Sending' = {t}
  PROVE  Current' = Packet(t)' /\ (Reported' <=> result'[t] # "none") /\ (Lossy' <=> lost'[t] # {})
  BY DEF Current, Reported, Lossy

LEMMA TxTypes ==
  /\ Reported \in BOOLEAN /\ Reported' \in BOOLEAN /\ Lossy \in BOOLEAN /\ Lossy' \in BOOLEAN
  BY DEF Reported, Lossy

LEMMA SendImplements ==
  ASSUME TypeInv, ~overlapped => SerialInv, ~overlapped', NEW t \in Tasks, hif_send(t)
  PROVE  [Tx!Next]_(Tx!vars)
<1>1. ~overlapped /\ SerialInv /\ Others(t) /\ Others(t)'
  BY SendAlone
<1>2. pc[t] # "rx_done" /\ pc'[t] # "rx_done" /\ pc \in [Tasks -> Pcs]
  BY SendFrame DEF TypeInv, TypeOK
<1>3. Sending = IF pc[t] = "idle" THEN {} ELSE {t}
  BY <1>1, <1>2 DEF Sending, Others, Inside
<1>4. Sending' = IF pc'[t] = "idle" THEN {} ELSE {t}
  BY <1>1, <1>2 DEF Sending, Others, Inside
<1>5. UNCHANGED overlapped
  <2>1. overlapped \in BOOLEAN /\ overlapped' \in BOOLEAN
    BY SendKeepsType DEF TypeInv, TypeOK
  <2>. QED
    BY <1>1, <2>1, Zenon
<1>6. CASE pc[t] = "idle"
  <2>1. /\ pc'[t] = "wake" /\ UNCHANGED taken /\ sends'[t] = sends[t] + 1 /\ result'[t] = "none"
        /\ lost'[t] = {}
    BY <1>2, <1>6 DEF hif_send, BeginSend, hif_chip_wake, SetWakeBit, PollClocks, LoadForWake, StoreForWake,
       WriteState, RequestBuffer, PollBuffer, ReadDmaAddress, WriteBlock, Submit, LoadForSleep,
       StoreForSleep, TestForSleep, WaitForChip, ClearWakeBit, Goto, TypeInv, TypeOK
  <2>2. Current = Empty /\ ~Reported /\ ~Lossy
    BY <1>3, <1>6, NobodySends
  <2>3. Current' = Packet(t)' /\ ~Reported' /\ ~Lossy'
    BY <1>4, <2>1, OneSendsNext
  <2>4. Current' # Empty
    BY <2>3, SendAssumption DEF Packet, Send, Empty, NoSend
  <2>5. \A i \in DOMAIN taken : taken[i] # Current'
    <3>1. \A i \in DOMAIN taken' : taken'[i].hdr # Send(t)'
      BY <1>1, <2>1, SendTaken DEF Taken, BeforeSubmit
    <3>. QED
      BY <2>1, <2>3, <3>1 DEF Packet
  <2>6. UNCHANGED <<Reported, Lossy>>
    BY <2>2, <2>3, TxTypes
  <2>. QED
    BY <1>5, <2>1, <2>2, <2>4, <2>5, <2>6 DEF Tx!Next, Tx!Call, Tx!New
<1>7. CASE pc[t] # "idle" /\ UNCHANGED <<sends, result, taken>>
  <2>1. Current = Packet(t) /\ (Reported <=> result[t] # "none") /\ (Lossy <=> lost[t] # {})
    BY <1>3, <1>7, OneSends
  <2>2. Current # Empty
    BY <2>1, SendAssumption DEF Packet, Send, Empty, NoSend
  <2>3. CASE pc'[t] = "idle"
    <3>1. Current' = Empty /\ ~Reported' /\ ~Lossy'
      BY <1>4, <2>3, NobodySendsNext
    <3>. QED
      BY <1>5, <1>7, <2>2, <3>1, TxTypes DEF Tx!Next, Tx!Return
  <2>4. CASE pc'[t] # "idle"
    <3>1. Current' = Packet(t)' /\ (Reported' <=> result'[t] # "none") /\ (Lossy' <=> lost'[t] # {})
      BY <1>4, <2>4, OneSendsNext
    <3>2. UNCHANGED <<Current, Reported>>
      BY <1>7, <2>1, <3>1, TxTypes DEF Packet, Send
    <3>3. CASE UNCHANGED Lossy
      BY <1>5, <1>7, <3>2, <3>3 DEF Tx!vars
    <3>4. CASE Lossy' = TRUE
      BY <1>5, <1>7, <2>2, <3>2, <3>4 DEF Tx!Next, Tx!Lose
    <3>5. Lossy => Lossy'
      BY <1>7, <2>1, <3>1, SendLost
    <3>. QED
      BY <3>3, <3>4, <3>5, TxTypes
  <2>. QED
    BY <2>3, <2>4
<1>8. CASE pc[t] # "idle" /\ Submit(t)
  <2>1. pc[t] = "submit" /\ pc'[t] # "idle" /\ UNCHANGED sends /\ result'[t] # "none"
    BY <1>2, <1>8 DEF Submit, Goto, TypeInv, TypeOK
  <2>2. Current = Packet(t) /\ (Reported <=> result[t] # "none") /\ (Lossy <=> lost[t] # {})
    BY <1>3, <1>8, OneSends
  <2>3. Current' = Packet(t)' /\ Reported' = TRUE /\ (Lossy' <=> lost'[t] # {})
    BY <1>4, <2>1, OneSendsNext, TxTypes
  <2>4. Current' = Current /\ Current # Empty
    BY <2>1, <2>2, <2>3, SendAssumption DEF Packet, Send, Empty, NoSend
  <2>5. /\ Answer(t) /\ dma[t] \in Buffers /\ content[dma[t]] = Packet(t)
        /\ \A i \in DOMAIN taken : taken[i] # Packet(t)
    <3>1. Answer(t) /\ Taken(t) /\ Placed(t)
      BY <1>1 DEF SerialInv, TypeInv
    <3>2. dma[t] \in Buffers /\ content[dma[t]] \in [hdr : Sends, data : Sends]
      BY <2>1, <3>1 DEF Placed, TypeInv, TypeOK
    <3>3. content[dma[t]].hdr = Send(t) /\ content[dma[t]].data = Send(t)
      BY <2>1, <3>1 DEF Answer, Filled
    <3>4. content[dma[t]] = Packet(t)
      BY <3>2, <3>3 DEF Packet
    <3>5. \A i \in DOMAIN taken : taken[i].hdr # Send(t)
      BY <2>1, <3>1 DEF Taken, BeforeSubmit, Accessing
    <3>. QED
      BY <3>1, <3>2, <3>4, <3>5 DEF Packet
  <2>6. \/ taken' = Append(taken, Packet(t)) /\ UNCHANGED lost
        \/ taken' = taken /\ lost'[t] # {}
    <3>1. CASE FirmwareTakes(dma[t]) /\ UNCHANGED lost
      <4>1. CASE owner[dma[t]] = NoSend
        <5>1. Send(t) # NoSend
          BY SendAssumption DEF Send, NoSend
        <5>2. ~Lossless(t)
          BY <2>1, <2>5, <4>1, <5>1 DEF Answer, Granted
        <5>. QED
          BY <3>1, <4>1, <5>2 DEF FirmwareTakes, Lossless
      <4>2. CASE owner[dma[t]] # NoSend
        BY <2>5, <3>1, <4>2 DEF FirmwareTakes
      <4>. QED
        BY <4>1, <4>2
    <3>2. CASE Lose(t, "submit") /\ UNCHANGED taken
      BY <3>2 DEF Lose, TypeInv, TypeOK
    <3>. QED
      BY <1>8, <3>1, <3>2 DEF Submit
  <2>7. CASE taken' = Append(taken, Packet(t)) /\ UNCHANGED lost
    <3>1. UNCHANGED Lossy
      BY <2>2, <2>3, <2>7, TxTypes
    <3>. QED
      BY <1>5, <2>2, <2>3, <2>4, <2>5, <2>7, <3>1 DEF Tx!Next, Tx!Take, Tx!New
  <2>8. CASE taken' = taken /\ lost'[t] # {}
    <3>1. Lossy' = TRUE
      BY <2>3, <2>8, TxTypes
    <3>. QED
      BY <1>5, <2>3, <2>4, <2>8, <3>1 DEF Tx!Next, Tx!Lose
  <2>. QED
    BY <2>6, <2>7, <2>8
<1>. QED
  BY <1>6, <1>7, <1>8, MidSend

\* The firmware and the receive path do not change what is under way.
LEMMA RestImplements ==
  ASSUME TypeInv, Firmware \/ Receive \/ (\E t \in Tasks : SwitchTo(t)) \/ UNCHANGED vars, ~overlapped,
         ~overlapped'
  PROVE  UNCHANGED (Tx!vars)
<1>1. UNCHANGED <<sends, result, lost, taken>>
  BY DEF Firmware, FirmwareSleeps, FirmwareWakes, FirmwarePosts, FirmwareHolds, FirmwareAllocates, SwitchTo,
     vars, history, outcome, Receive, ClaimMessage, hif_set_sleep_mode, ClearRxDone, WriteRxDone
<1>2. \A u \in Tasks : pc'[u] = pc[u] \/ (pc[u] \in {"idle", "rx_done"} /\ pc'[u] \in {"idle", "rx_done"})
  BY SendAssumption DEF Firmware, FirmwareSleeps, FirmwareWakes, FirmwarePosts, FirmwareHolds,
     FirmwareAllocates, SwitchTo, vars, place, Receive, ClaimMessage, hif_set_sleep_mode, ClearRxDone,
     WriteRxDone, Goto, TypeInv, TypeOK
<1>3. Sending' = Sending
  BY <1>2 DEF Sending
<1>4. UNCHANGED <<Current, Reported, Lossy>>
  BY <1>1, <1>3 DEF Current, Reported, Lossy, Packet, Send
<1>5. UNCHANGED overlapped
  <2>1. overlapped \in BOOLEAN /\ overlapped' \in BOOLEAN
    BY RestKeepsType DEF TypeInv, TypeOK
  <2>. QED
    BY <2>1, Zenon
<1>. QED
  BY <1>1, <1>4, <1>5 DEF Tx!vars

\* hif_send keeps the promise of TxChannel to any tasks that do not overlap in it,
\* whatever transfers fail or are lost: see there what a lost write excuses.
THEOREM ImplementsTx == Spec => RefinesTx
<1>1. Init => Tx!Init
  <2> SUFFICES ASSUME Init PROVE Tx!Init
    OBVIOUS
  <2>1. Sending = {} /\ taken = <<>> /\ ~overlapped
    BY DEF Init, Sending
  <2>. QED
    BY <2>1, NobodySends DEF Tx!Init
<1>2. IInv /\ IInv' /\ [Next]_vars => [Tx!Next]_(Tx!vars)
  <2> SUFFICES ASSUME IInv, IInv', [Next]_vars PROVE [Tx!Next]_(Tx!vars)
    OBVIOUS
  <2>1. CASE overlapped'
    BY <2>1 DEF Tx!Next
  <2>2. CASE ~overlapped' /\ \E t \in Tasks : hif_send(t)
    BY <2>2, SendImplements DEF IInv
  <2>3. CASE ~overlapped' /\ (Firmware \/ Receive \/ (\E t \in Tasks : SwitchTo(t)) \/ UNCHANGED vars)
    <3>1. ~overlapped
      BY <2>3 DEF Firmware, FirmwareSleeps, FirmwareWakes, FirmwarePosts, FirmwareHolds, FirmwareAllocates,
         SwitchTo, vars, history, outcome, Receive, ClaimMessage, hif_set_sleep_mode, ClearRxDone,
         WriteRxDone, Enter
    <3>. QED
      BY <2>3, <3>1, RestImplements DEF IInv
  <2>. QED
    BY <2>1, <2>2, <2>3 DEF Next
<1>. QED
  BY <1>1, <1>2, Invariance, PTL DEF Spec, RefinesTx, Tx!Spec

----------------------------------------------------------------------------
\* The Wi-Fi task alone, as it is but for the button's task.
Alone == Tasks = {Wifi}

LEMMA NeverOverlaps == ASSUME Alone PROVE Spec => [](~overlapped)
<1>1. Init => ~overlapped
  BY DEF Init
<1>2. ASSUME IInv, ~overlapped, [Next]_vars PROVE ~overlapped'
  <2>1. CASE \E t \in Tasks : hif_send(t)
    BY <1>2, <2>1, SendFrame DEF Alone, Enter, IInv
  <2>2. CASE Receive
    BY <1>2, <2>2 DEF Alone, Receive, ClaimMessage, hif_set_sleep_mode, ClearRxDone, WriteRxDone, Enter,
       history, outcome
  <2>3. CASE Firmware \/ (\E t \in Tasks : SwitchTo(t)) \/ UNCHANGED vars
    BY <1>2, <2>3 DEF Firmware, FirmwareSleeps, FirmwareWakes, FirmwarePosts, FirmwareHolds,
       FirmwareAllocates, SwitchTo, vars, history, outcome
  <2>. QED
    BY <1>2, <2>1, <2>2, <2>3 DEF Next
<1>. QED
  BY <1>1, <1>2, Invariance, PTL DEF Spec

\* hif_send touches the chip only while something keeps it awake: what the wake
\* set up, or the held message it was skipped for, outlasts the send.  Only a send
\* whose own write of a wake bit was lost is not promised that.
THEOREM AccessCovered == ASSUME Alone PROVE Spec => []AccessIsCovered
<1>1. IInv /\ ~overlapped => AccessIsCovered
  BY SerialCover DEF IInv
<1>. QED
  BY <1>1, Invariance, NeverOverlaps, PTL

\* Every exit of hif_send, with or without an error, leaves nobody counted.
THEOREM CountReturns == ASSUME Alone PROVE Spec => []CountIsOfSenders
<1>1. IInv /\ ~overlapped => CountIsOfSenders
  BY SerialCount DEF IInv
<1>. QED
  BY <1>1, Invariance, NeverOverlaps, PTL

\* A hif_send that returns success has delivered its packet, whatever failed, was
\* lost or came late before it and however few buffers there are, if its own writes
\* of NMI_STATE_REG, CTRL_2 and CTRL_3 arrived.
THEOREM SuccessDelivers == ASSUME Alone PROVE Spec => []SuccessIsDelivery
<1>1. IInv /\ ~overlapped => SuccessIsDelivery
  BY SerialDelivery DEF IInv
<1>. QED
  BY <1>1, Invariance, NeverOverlaps, PTL
=============================================================================
