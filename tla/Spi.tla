-------------------------------- MODULE Spi --------------------------------
(***************************************************************************)
(* The SPI protocol of the WINC1500 (nmspi.c, built with USE_OLD_SPI_SW):  *)
(* a register write is a command, a read a command and a data phase, a     *)
(* block write a command, a data phase and a data response; whatever fails *)
(* is repeated from the command after CMD_RESET, SPI_RETRY_COUNT times.    *)
(* nm_spi_init switches the CRCs off on both sides with the same calls.    *)
(* The wrapper never reports an error (spi_rw halts on one), so what can   *)
(* go wrong is that the chip misses a frame or the host its answer; bytes  *)
(* are lost, not altered.  The chip's side is external: it ignores what is *)
(* framed with the other CRC setting, and a command it takes starts its    *)
(* protocol over.  The CRC of read data is not verified by the code.       *)
(***************************************************************************)
EXTENDS Naturals

CONSTANTS Blocks,     \* block addresses the drivers write
          Status,     \* registers the firmware writes
          Config,     \* NMI_SPI_PROTOCOL_CONFIG, also SPI_BASE + 0x24
          ChipId,     \* the chip id register
          Values,     \* contents, among them the two of Config
          SPI_RETRY_COUNT,
          MaxFaults   \* bound on the frames and answers missed

ASSUME SpiAssumption ==
  /\ Config \notin Blocks \cup Status \cup {ChipId} /\ ChipId \notin Blocks \cup Status
  /\ Blocks \cap Status = {}
  /\ {0, 1} \subseteq Values
  /\ SPI_RETRY_COUNT \in Nat \ {0} /\ MaxFaults \in Nat

VARIABLES
  gu8Crc_off,  \* the host sends no CRCs
  pc,          \* where the call under way is
  op, retry,   \* its arguments, and the attempts it has left
  stored,      \* the chip took its block
  result,      \* what the last call returned
  stage,       \* the call of nm_spi_init, "client" after it, "off" before
  inited,      \* what nm_spi_init returned
  gaveUp,      \* a read of nm_spi_init failed in all its attempts
  mem,         \* chip: registers and blocks
  open,        \* chip: the transaction it is in
  stale,       \* that transaction belongs to a call that has returned
  faults

vars == <<gu8Crc_off, pc, op, retry, stored, result, stage, inited, gaveUp, mem, open, stale, faults>>
chip == <<mem, open, stale>>
init == <<stage, inited, gaveUp, gu8Crc_off>>

Regs == Blocks \cup Status \cup {Config, ChipId}
Kinds == {"write_reg", "read", "write_block"}
Op(kind, addr, val) == [kind |-> kind, addr |-> addr, val |-> val]
Returned(status, value) == [status |-> status, value |-> value]
Closed == [kind |-> "none", addr |-> Config]

CrcOn == 0    \* contents of Config, its CRC bits
CrcOff == 1

Init ==
  /\ gu8Crc_off = FALSE /\ pc = "idle" /\ op = Op("read", Config, CrcOn)
  /\ retry = SPI_RETRY_COUNT /\ stored = FALSE /\ result = Returned("ok", CrcOn)
  /\ stage = "off" /\ inited = "no" /\ gaveUp = FALSE
  /\ mem = [r \in Regs |-> 0] /\ open = Closed /\ stale = FALSE /\ faults = 0

\* A frame reaches the chip when both use the same CRC setting and it is not missed.
InStep == gu8Crc_off <=> mem[Config] = CrcOff
Reached == InStep /\ UNCHANGED faults
Missed == IF InStep THEN faults < MaxFaults /\ faults' = faults + 1 ELSE UNCHANGED faults

Begin(o) ==
  /\ pc = "idle"
  /\ pc' = "cmd" /\ op' = o /\ retry' = SPI_RETRY_COUNT /\ stored' = FALSE
  /\ UNCHANGED <<result, chip, faults>>

Return(status, value) ==
  /\ pc' = "idle" /\ result' = Returned(status, value)

----------------------------------------------------------------------------
(* One call *)

\* spi_write_reg: the command carries the value, and spi_cmd_rsp returns N_OK
\* also when its polls see no answer.
WriteReg ==
  /\ pc = "cmd" /\ op.kind = "write_reg"
  /\ \/ /\ Reached
        /\ mem' = [mem EXCEPT ![op.addr] = op.val] /\ open' = Closed /\ stale' = FALSE
     \/ Missed /\ UNCHANGED chip
  /\ Return("ok", op.val)
  /\ UNCHANGED <<op, retry, stored, init>>

\* spi_cmd and spi_cmd_rsp of a read or a block write.
Command ==
  /\ pc = "cmd" /\ op.kind # "write_reg"
  /\ \/ /\ Reached
        /\ open' = [kind |-> op.kind, addr |-> op.addr] /\ stale' = FALSE
     \/ Missed /\ UNCHANGED <<open, stale>>
  /\ pc' = "data"
  /\ UNCHANGED <<op, retry, stored, result, init, mem>>

\* The host does not see an answer: the chip did not send it, or sent it unseen.
AnswerMissed(kind) ==
  /\ open.kind = kind => Missed
  /\ open.kind # kind => UNCHANGED faults
  /\ open' = open \/ (InStep /\ open.kind = kind /\ open' = Closed)
  /\ pc' = "reset"
  /\ UNCHANGED <<result, stale>>

\* spi_data_read: header, then data.
ReadData ==
  /\ pc = "data" /\ op.kind = "read"
  /\ \/ /\ Reached /\ open.kind = "read"
        /\ open' = Closed /\ stale' = FALSE
        /\ Return("ok", mem[open.addr])
     \/ AnswerMissed("read")
  /\ UNCHANGED <<op, retry, stored, init, mem>>

\* spi_data_write
WriteData ==
  /\ pc = "data" /\ op.kind = "write_block"
  /\ \/ /\ Reached /\ open.kind = "write_block"
        /\ mem' = [mem EXCEPT ![open.addr] = op.val]
        /\ open' = [open EXCEPT !.kind = "stored"] /\ stored' = TRUE
     \/ /\ IF open.kind = "write_block" THEN Missed ELSE UNCHANGED faults
        /\ UNCHANGED <<mem, open, stored>>
  /\ pc' = "data_rsp"
  /\ UNCHANGED <<op, retry, result, init, stale>>

\* Mutant: the data response is not looked at.
DataResponse_Unchecked ==
  /\ pc = "data_rsp"
  /\ open' = Closed /\ stale' = FALSE /\ Return("ok", op.val)
  /\ UNCHANGED <<op, retry, stored, init, mem, faults>>

\* spi_data_rsp
DataResponse ==
  /\ pc = "data_rsp"
  /\ \/ /\ Reached /\ open.kind = "stored"
        /\ open' = Closed /\ stale' = FALSE
        /\ Return("ok", op.val)
     \/ AnswerMissed("stored")
  /\ UNCHANGED <<op, retry, stored, init, mem>>

\* Mutants: the attempts are tested before they are counted down, or not counted,
\* or follow each other without CMD_RESET.
ResetAndRetry_PostDecrement ==
  /\ pc = "reset" /\ Reached /\ open' = Closed
  /\ retry' = retry - 1 /\ stale' = FALSE
  /\ IF retry # 0 THEN pc' = "cmd" /\ UNCHANGED result
     ELSE \E v \in Values : Return("fail", v)
  /\ UNCHANGED <<op, stored, init, mem>>

ResetAndRetry_Uncounted ==
  /\ pc = "reset" /\ pc' = "cmd"
  /\ (Reached /\ open' = Closed) \/ (Missed /\ UNCHANGED open)
  /\ stale' = (stale /\ open' # Closed)
  /\ UNCHANGED <<op, retry, stored, result, init, mem>>

ResetAndRetry_NoReset ==
  /\ pc = "reset" /\ retry' = retry - 1
  /\ \/ retry' # 0 /\ pc' = "cmd" /\ UNCHANGED <<stale, result>>
     \/ retry' = 0 /\ stale' = (open # Closed) /\ \E v \in Values : Return("fail", v)
  /\ UNCHANGED <<op, stored, init, mem, open, faults>>

\* The _FAIL_ part: CMD_RESET, which the chip may miss too, and the next attempt.
ResetAndRetry ==
  /\ pc = "reset"
  /\ \/ Reached /\ open' = Closed
     \/ Missed /\ UNCHANGED open
  /\ retry' = retry - 1
  /\ \/ /\ retry' # 0 /\ pc' = "cmd"
        /\ stale' = (stale /\ open' # Closed)
        /\ UNCHANGED result
     \/ /\ retry' = 0
        /\ stale' = (open' # Closed)
        /\ \E v \in Values : Return("fail", v)
  /\ UNCHANGED <<op, stored, init, mem>>

----------------------------------------------------------------------------
(* nm_spi_init, between its calls, and nm_spi_deinit *)

\* nm_bus_init resets the chip by its pins.
nm_bus_init ==
  /\ stage = "off" /\ stage' = "reset"
  /\ mem' = [r \in Regs |-> 0] /\ open' = Closed /\ stale' = FALSE
  /\ UNCHANGED <<gu8Crc_off, pc, op, retry, stored, result, inited, gaveUp, faults>>

ProbeWithCrc ==
  /\ stage = "reset"
  /\ Begin(Op("read", Config, CrcOn)) /\ stage' = "crc_on"
  /\ gu8Crc_off' = FALSE /\ gaveUp' = FALSE
  /\ UNCHANGED inited

ProbeWithoutCrc ==
  /\ stage = "crc_on" /\ result.status = "fail"
  /\ Begin(op) /\ stage' = "crc_off" /\ gu8Crc_off' = TRUE /\ gaveUp' = TRUE
  /\ UNCHANGED inited

SwitchCrcOff ==
  /\ stage = "crc_on" /\ result.status = "ok"
  /\ Begin(Op("write_reg", Config, CrcOff)) /\ stage' = "crc_write"
  /\ UNCHANGED <<inited, gaveUp, gu8Crc_off>>

ReadChipId ==
  /\ stage = "crc_write" \/ (stage = "crc_off" /\ result.status = "ok")
  /\ Begin(Op("read", ChipId, CrcOn)) /\ stage' = "chipid" /\ gu8Crc_off' = TRUE
  /\ UNCHANGED <<inited, gaveUp>>

\* spi_init_pkt_sz sets the packet size bits in the register that has the CRC
\* bits, in a variable that a failed read leaves uninitialised.
ReadPktSz ==
  /\ stage = "chipid" /\ result.status = "ok"
  /\ Begin(Op("read", Config, CrcOn)) /\ stage' = "pkt_read"
  /\ UNCHANGED <<inited, gaveUp, gu8Crc_off>>

WritePktSz ==
  /\ stage = "pkt_read"
  /\ \E v \in {CrcOn, CrcOff} : /\ result.status = "ok" => v = result.value
                                /\ Begin(Op("write_reg", Config, v))
  /\ gaveUp' = (gaveUp \/ result.status = "fail") /\ stage' = "pkt_write"
  /\ UNCHANGED <<inited, gu8Crc_off>>

\* Mutant: the result of the chip id's read is not looked at.
nm_spi_init_returns_Unchecked ==
  /\ pc = "idle"
  /\ stage = "pkt_write" \/ (stage \in {"crc_off", "chipid"} /\ result.status = "fail")
  /\ stage' = "client" /\ inited' = "success"
  /\ UNCHANGED <<pc, op, retry, stored, result, gaveUp, gu8Crc_off, chip, faults>>

\* It returns 0, M2M_SUCCESS, also when neither probe was answered.
nm_spi_init_returns ==
  /\ pc = "idle"
  /\ \/ stage = "crc_off" /\ result.status = "fail" /\ inited' = "success"
     \/ stage = "chipid" /\ result.status = "fail" /\ inited' = "bus_fail"
     \/ stage = "pkt_write" /\ inited' = "success"
  /\ stage' = "client"
  /\ UNCHANGED <<pc, op, retry, stored, result, gaveUp, gu8Crc_off, chip, faults>>

nm_spi_deinit ==
  /\ pc = "idle" /\ stage = "client"
  /\ stage' = "off" /\ inited' = "no" /\ gu8Crc_off' = FALSE
  /\ UNCHANGED <<pc, op, retry, stored, result, gaveUp, chip, faults>>

\* The drivers above; their block addresses are not registers they write.
ClientCall ==
  /\ stage = "client"
  /\ \/ \E r \in Blocks, v \in Values, k \in Kinds : Begin(Op(k, r, v))
     \/ \E r \in Status : Begin(Op("read", r, 0))
  /\ UNCHANGED init

FirmwareWrites ==
  /\ \E s \in Status, v \in Values : mem' = [mem EXCEPT ![s] = v]
  /\ UNCHANGED <<pc, op, retry, stored, result, init, open, stale, faults>>

----------------------------------------------------------------------------
OneCall == WriteReg \/ Command \/ ReadData \/ WriteData \/ DataResponse \/ ResetAndRetry
nm_spi_init == \/ ProbeWithCrc \/ ProbeWithoutCrc \/ SwitchCrcOff \/ ReadChipId \/ ReadPktSz
               \/ WritePktSz \/ nm_spi_init_returns

Next == OneCall \/ nm_bus_init \/ nm_spi_init \/ nm_spi_deinit \/ ClientCall \/ FirmwareWrites

Spec == Init /\ [][Next]_vars

\* A call is straight-line code of a task nobody waits for.
FairSpec == Spec /\ WF_vars(OneCall)

----------------------------------------------------------------------------
TypeOK ==
  /\ gu8Crc_off \in BOOLEAN
  /\ pc \in {"idle", "cmd", "data", "data_rsp", "reset"}
  /\ op \in [kind : Kinds, addr : Regs, val : Values]
  /\ retry \in 0..SPI_RETRY_COUNT /\ stored \in BOOLEAN
  /\ result \in [status : {"ok", "fail"}, value : Values]
  /\ stage \in {"off", "reset", "crc_on", "crc_off", "crc_write", "chipid", "pkt_read", "pkt_write", "client"}
  /\ inited \in {"no", "success", "bus_fail"} /\ gaveUp \in BOOLEAN
  /\ mem \in [Regs -> Values]
  /\ open \in [kind : {"none", "read", "write_block", "stored"}, addr : Regs]
  /\ stale \in BOOLEAN /\ faults \in 0..MaxFaults

\* The retries keep the promise of Bus: a block write that returns success was
\* stored by the chip, a read returns the chip's value, nothing else is touched,
\* as long as the chip is not left in the transaction of an abandoned call.
BusCall == IF pc = "idle" THEN [kind |-> "none"]
           ELSE [kind |-> IF stored THEN "taken" ELSE op.kind, addr |-> op.addr, val |-> op.val]
Abstract == INSTANCE Bus WITH call <- BusCall, ret <- result
RefinesBus == Abstract!Spec

\* Host and chip agree on the CRCs once nm_spi_init has read the chip id, and for
\* all later calls when no read of nm_spi_init failed (nmspi.c:1206).
CrcAgrees == stage = "pkt_read" \/ (inited = "success" /\ ~gaveUp) => InStep

\* The chip is left in an abandoned transaction only by a call that failed in
\* all its attempts and whose last CMD_RESET was missed, so never with fewer
\* missed frames than attempts and one more.
StaleTakesExhaustion == stale => faults > SPI_RETRY_COUNT

\* How many phases a call has left at most, in this attempt and in the others.
PhasesLeft == IF pc = "idle" THEN 0
              ELSE 4 * (retry - 1) + CASE pc = "cmd" -> 4 [] pc = "data" -> 3
                                       [] pc = "data_rsp" -> 2 [] pc = "reset" -> 1

\* No call goes through more than 4 * SPI_RETRY_COUNT phases, whatever the chip
\* answers or does not, and whoever uses the bus: the spinning transfers hold the
\* processor for a bounded time.
CallAdvances == [][OneCall => PhasesLeft' \in 0..(PhasesLeft - 1)]_vars

\* Every call returns, the chip dead or out of step included.
CallsReturn == pc # "idle" ~> pc = "idle"

=============================================================================
