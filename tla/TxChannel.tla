----------------------------- MODULE TxChannel -----------------------------
(***************************************************************************)
(* What hif_send promises its callers: it passes on one packet at a time;  *)
(* the firmware takes a packet whole, at most once, and only while its     *)
(* call is under way; a call that fails may have passed its packet on, but *)
(* one that reports success has, unless one of its register writes was     *)
(* lost.  The promise is given to callers that do not overlap.  HifSend is *)
(* the code that has to keep it.                                           *)
(***************************************************************************)
EXTENDS Sequences

CONSTANT NoPacket

VARIABLES packet,      \* of the call under way, or NoPacket
          sent,        \* its error exits are behind it: it will report success,
                       \* if the chip can be let sleep
          lossy,       \* a register write of it was lost
          taken,       \* the packets the firmware took
          overlapped   \* calls have overlapped

vars == <<packet, sent, lossy, taken, overlapped>>

New(p) == \A i \in DOMAIN taken : taken[i] # p

Init == packet = NoPacket /\ ~sent /\ ~lossy /\ taken = <<>> /\ ~overlapped

Call == /\ packet = NoPacket
        /\ packet' # NoPacket /\ New(packet')
        /\ UNCHANGED <<sent, lossy, taken, overlapped>>

Take == /\ packet # NoPacket /\ New(packet)
        /\ taken' = Append(taken, packet)
        /\ sent' = TRUE
        /\ UNCHANGED <<packet, lossy, overlapped>>

Lose == /\ packet # NoPacket
        /\ lossy' = TRUE /\ (sent => sent')
        /\ UNCHANGED <<packet, taken, overlapped>>

Return == /\ packet # NoPacket
          /\ packet' = NoPacket /\ sent' = FALSE /\ lossy' = FALSE
          /\ UNCHANGED <<taken, overlapped>>

Next == overlapped' \/ Call \/ Take \/ Lose \/ Return

Spec == Init /\ [][Next]_vars
=============================================================================
