-------------------------------- MODULE Bus --------------------------------
(***************************************************************************)
(* What the drivers above nmspi.c may expect of a register or block        *)
(* transfer: one call at a time; a read that succeeds gives a value the    *)
(* chip held during the call; a block write that succeeds was stored, and  *)
(* one that fails may have been; a register write always succeeds and may  *)
(* have been lost.  Only the address of the call is touched.  The promise  *)
(* is suspended while the chip still has the transaction of an abandoned   *)
(* call open (stale).  Spi is the code that has to keep it.                *)
(***************************************************************************)
CONSTANTS Regs,     \* registers and block addresses of the chip
          Status,   \* those the firmware writes
          Values

VARIABLES mem,      \* contents of the chip's registers and blocks
          call,     \* the call under way, or NoCall
          ret,      \* what the last call returned
          stale

vars == <<mem, call, ret, stale>>

Kinds == {"write_reg", "read", "write_block"}
NoCall == [kind |-> "none"]
Returned(status, value) == [status |-> status, value |-> value]

Init == call = NoCall /\ ~stale

Begin == /\ call = NoCall
         /\ \E k \in Kinds, r \in Regs, v \in Values :
              call' = [kind |-> k, addr |-> r, val |-> v]
         /\ UNCHANGED <<mem, ret>>

WriteReg == /\ call.kind = "write_reg"
            /\ mem' \in {mem, [mem EXCEPT ![call.addr] = call.val]}
            /\ ret' = Returned("ok", call.val)
            /\ call' = NoCall

TakeBlock == /\ call.kind \in {"write_block", "taken"}
             /\ mem' = [mem EXCEPT ![call.addr] = call.val]
             /\ call' = [kind |-> "taken", addr |-> call.addr, val |-> call.val]
             /\ UNCHANGED ret

ReturnBlock == /\ call.kind = "taken"
               /\ ret' = Returned("ok", call.val)
               /\ call' = NoCall /\ UNCHANGED mem

ReturnRead == /\ call.kind = "read"
              /\ ret' = Returned("ok", mem[call.addr])
              /\ call' = NoCall /\ UNCHANGED mem

ReturnFail == /\ call.kind \in {"read", "write_block", "taken"}
              /\ \E v \in Values : ret' = Returned("fail", v)
              /\ call' = NoCall /\ UNCHANGED mem

FirmwareWrites == /\ \E s \in Status, v \in Values : mem' = [mem EXCEPT ![s] = v]
                  /\ UNCHANGED <<call, ret>>

ChipReset == call = NoCall /\ UNCHANGED <<call, ret>>

Next == \/ stale
        \/ Begin \/ WriteReg \/ TakeBlock \/ ReturnBlock \/ ReturnRead \/ ReturnFail
        \/ FirmwareWrites \/ ChipReset

Spec == Init /\ [][Next]_vars
=============================================================================
