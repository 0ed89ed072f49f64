----------------------------- MODULE RxChannel -----------------------------
(***************************************************************************)
(* What the host interface promises the application about messages from    *)
(* the WINC1500: the chip posts one message at a time, the host runs the   *)
(* callback of each posted message, in posting order and skipping none,    *)
(* and only then returns the receive buffer to the chip (RX done), which   *)
(* allows the next post.  A callback runs once, unless a write of the      *)
(* claim's registers was lost (lossy): then it may run again, for the      *)
(* message whose buffer is still held.  HifRx is the driver code that has  *)
(* to keep it.                                                             *)
(***************************************************************************)
EXTENDS Naturals

CONSTANT MaxMsgs    \* bound on the messages posted

VARIABLES sent,         \* messages posted by the chip
          dispatched,   \* messages whose callback was run
          repeated,     \* callbacks run again for the same message
          lossy,        \* a register write was lost since the last post
          acked         \* messages whose buffer was handed back

vars == <<sent, dispatched, repeated, lossy, acked>>

Init == sent = 0 /\ dispatched = 0 /\ repeated = 0 /\ ~lossy /\ acked = 0

Post == /\ acked = sent /\ dispatched = sent
        /\ sent < MaxMsgs
        /\ sent' = sent + 1 /\ lossy' = FALSE
        /\ UNCHANGED <<dispatched, repeated, acked>>

Lose == /\ acked < sent
        /\ lossy' = TRUE
        /\ UNCHANGED <<sent, dispatched, repeated, acked>>

Dispatch == /\ dispatched < sent
            /\ dispatched' = dispatched + 1
            /\ UNCHANGED <<sent, repeated, lossy, acked>>

Repeat == /\ lossy /\ dispatched = sent /\ acked < sent
          /\ repeated' = repeated + 1
          /\ UNCHANGED <<sent, dispatched, lossy, acked>>

Ack == /\ acked < dispatched
       /\ acked' = acked + 1
       /\ UNCHANGED <<sent, dispatched, repeated, lossy>>

Next == Post \/ Lose \/ Dispatch \/ Repeat \/ Ack

Spec == Init /\ [][Next]_vars
=============================================================================
