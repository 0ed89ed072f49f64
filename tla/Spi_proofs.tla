----------------------------- MODULE Spi_proofs -----------------------------
(***************************************************************************)
(* Proofs about Spi, for every number of attempts, every bound on missed   *)
(* frames and every set of addresses.                                      *)
(***************************************************************************)
EXTENDS Spi, TLAPS

\* The call under way and the transaction the chip is in.  An open transaction
\* that is not stale is that of the call.
PhaseInv ==
  /\ pc \in {"data", "data_rsp", "reset"} => op.kind # "write_reg"
  /\ pc = "data_rsp" => op.kind = "write_block"
  /\ pc # "idle" => retry > 0
  /\ pc # "idle" /\ stored => op.kind = "write_block"
  /\ op.kind = "write_block" => op.addr \in Blocks
  /\ open.kind = "none" => open = Closed
  /\ open.kind \in {"write_block", "stored"} => open.addr \in Blocks
  /\ ~stale /\ open.kind # "none" =>
       /\ pc # "idle" /\ open.addr = op.addr
       /\ open.kind = op.kind \/ (open.kind = "stored" /\ op.kind = "write_block" /\ stored)

\* What the failed attempts of the call under way have cost: one missed frame or
\* answer each, when both sides use the same CRC setting.
CostInv ==
  /\ pc # "idle" /\ InStep =>
       /\ faults >= SPI_RETRY_COUNT - retry
       /\ \/ pc = "reset"
          \/ pc = "data" /\ open.kind # op.kind
          \/ pc = "data_rsp" /\ open.kind # "stored"
          => faults >= SPI_RETRY_COUNT - retry + 1
  /\ ~InStep /\ open.kind # "none" => stale
  /\ stale => faults > SPI_RETRY_COUNT

\* nm_spi_init, call by call.
StageInv ==
  /\ inited # "no" => stage = "client"
  /\ stage = "client" /\ inited = "success" /\ ~gaveUp => InStep
  /\ stage = "client" /\ op.kind = "write_reg" /\ pc # "idle" => op.addr \in Blocks
  /\ stage \in {"off", "reset"} => pc = "idle"
  /\ stage = "crc_on" => op = Op("read", Config, CrcOn)
  /\ stage = "crc_off" => op = Op("read", Config, CrcOn) /\ gaveUp
  /\ stage = "chipid" => op = Op("read", ChipId, CrcOn) /\ gu8Crc_off
  /\ stage = "chipid" /\ pc = "idle" /\ result.status = "ok" => InStep
  /\ stage = "pkt_read" => op = Op("read", Config, CrcOn) /\ gu8Crc_off /\ InStep
  /\ stage = "pkt_read" /\ pc = "idle" /\ result.status = "ok" /\ ~gaveUp => result.value = CrcOff
  /\ stage \in {"crc_write", "pkt_write"} => op.kind = "write_reg"
  /\ stage = "reset" => ~stale
  /\ stage = "pkt_write" /\ ~gaveUp => gu8Crc_off /\ InStep /\ op = Op("write_reg", Config, CrcOff)
  /\ stage \in {"reset", "crc_on", "crc_write", "chipid", "pkt_read", "pkt_write"} /\ ~gaveUp /\ stale =>
       pc = "idle" /\ result.status = "fail" /\ stage \in {"crc_on", "chipid", "pkt_read"}

IInv == TypeOK /\ PhaseInv /\ CostInv /\ StageInv

USE SpiAssumption

----------------------------------------------------------------------------
(* Types *)

LEMMA OpType == ASSUME NEW k \in Kinds, NEW r \in Regs, NEW v \in Values
                PROVE Op(k, r, v) \in [kind : Kinds, addr : Regs, val : Values]
BY DEF Op

LEMMA ReturnedType == ASSUME NEW st \in {"ok", "fail"}, NEW v \in Values
                      PROVE Returned(st, v) \in [status : {"ok", "fail"}, value : Values]
BY DEF Returned

LEMMA MemType == ASSUME NEW f \in [Regs -> Values], NEW r \in Regs, NEW v \in Values
                 PROVE [f EXCEPT ![r] = v] \in [Regs -> Values]
OBVIOUS

LEMMA RegsOf == /\ Config \in Regs /\ ChipId \in Regs /\ Blocks \subseteq Regs /\ Status \subseteq Regs
                /\ CrcOn \in Values /\ CrcOff \in Values /\ CrcOn # CrcOff
BY DEF Regs, CrcOn, CrcOff

\* Every type is kept: in particular a call never has a negative number of
\* attempts left.
THEOREM TypeCorrect == Spec => [](TypeOK /\ (pc # "idle" => retry > 0))
<1> DEFINE Inv == TypeOK /\ (pc # "idle" => retry > 0)
<1>1. Init => Inv
  <2> SUFFICES ASSUME Init PROVE Inv
    OBVIOUS
  <2>1. op \in [kind : Kinds, addr : Regs, val : Values] /\ mem \in [Regs -> Values]
    BY RegsOf, OpType DEF Init, Kinds
  <2>2. result \in [status : {"ok", "fail"}, value : Values]
    BY RegsOf DEF Init, Returned
  <2>3. open \in [kind : {"none", "read", "write_block", "stored"}, addr : Regs]
    BY RegsOf DEF Init, Closed
  <2>4. retry \in 0..SPI_RETRY_COUNT /\ faults \in 0..MaxFaults
    BY DEF Init
  <2>. QED
    BY <2>1, <2>2, <2>3, <2>4 DEF Init, TypeOK
<1>2. Inv /\ [Next]_vars => Inv'
  <2> SUFFICES ASSUME Inv, [Next]_vars PROVE Inv'
    OBVIOUS
  <2> USE RegsOf
  <2>0. /\ op.kind \in Kinds /\ op.addr \in Regs /\ op.val \in Values
        /\ open.addr \in Regs /\ open.kind \in {"none", "read", "write_block", "stored"}
        /\ mem[open.addr] \in Values
        /\ faults \in 0..MaxFaults /\ mem \in [Regs -> Values] /\ stale \in BOOLEAN
        /\ result \in [status : {"ok", "fail"}, value : Values]
    BY DEF TypeOK
  <2>1. ASSUME NEW o \in [kind : Kinds, addr : Regs, val : Values], Begin(o),
               stage' \in {"crc_on", "crc_off", "crc_write", "chipid", "pkt_read", "pkt_write", "client"},
               gu8Crc_off' \in BOOLEAN, gaveUp' \in BOOLEAN, inited' = inited
        PROVE Inv'
    <3>1. /\ pc' = "cmd" /\ op' = o /\ retry' = SPI_RETRY_COUNT /\ stored' = FALSE
          /\ UNCHANGED <<result, mem, open, stale, faults>>
      BY <2>1 DEF Begin, chip
    <3>2. retry' \in 0..SPI_RETRY_COUNT /\ retry' > 0
      BY <3>1
    <3>. QED
      BY <2>1, <3>1, <3>2 DEF TypeOK
  <2>. DEFINE ChipType == /\ mem' \in [Regs -> Values] /\ faults' \in 0..MaxFaults
                          /\ open' \in [kind : {"none", "read", "write_block", "stored"}, addr : Regs]
  <2>a. Closed \in [kind : {"none", "read", "write_block", "stored"}, addr : Regs]
    BY DEF Closed
  <2>b. Reached \/ Missed => faults' \in 0..MaxFaults
    BY <2>0 DEF Reached, Missed
  <2>2. CASE WriteReg
    <3>1. ChipType
      BY <2>2, <2>0, <2>a, <2>b, MemType DEF WriteReg, TypeOK, chip
    <3>2. result' \in [status : {"ok", "fail"}, value : Values] /\ pc' = "idle" /\ stale' \in BOOLEAN
      BY <2>2, <2>0 DEF WriteReg, Return, Returned, TypeOK, chip
    <3>. QED
      BY <2>2, <3>1, <3>2 DEF WriteReg, TypeOK, init
  <2>3. CASE Command
    <3>1. ChipType
      BY <2>3, <2>0, <2>b DEF Command, TypeOK, Kinds
    <3>. QED
      BY <2>3, <3>1 DEF Command, TypeOK, init
  <2>4. CASE ReadData
    <3>1. ChipType
      BY <2>4, <2>0, <2>a, <2>b DEF ReadData, AnswerMissed, TypeOK
    <3>2. pc' \in {"idle", "reset"} /\ stale' \in BOOLEAN /\ result' \in {Returned("ok", mem[open.addr]), result}
      BY <2>4, <2>0 DEF ReadData, AnswerMissed, Return
    <3>3. result' \in [status : {"ok", "fail"}, value : Values]
      BY <3>2, <2>0, ReturnedType
    <3>. QED
      BY <2>4, <3>1, <3>2, <3>3 DEF ReadData, TypeOK, init
  <2>5. CASE WriteData
    <3>1. ChipType
      BY <2>5, <2>0, <2>b, MemType DEF WriteData, TypeOK
    <3>. QED
      BY <2>5, <3>1 DEF WriteData, TypeOK, init
  <2>6. CASE DataResponse
    <3>1. ChipType
      BY <2>6, <2>0, <2>a, <2>b DEF DataResponse, AnswerMissed, TypeOK
    <3>2. pc' \in {"idle", "reset"} /\ stale' \in BOOLEAN /\ result' \in {Returned("ok", op.val), result}
      BY <2>6, <2>0 DEF DataResponse, AnswerMissed, Return
    <3>3. result' \in [status : {"ok", "fail"}, value : Values]
      BY <3>2, <2>0, ReturnedType
    <3>. QED
      BY <2>6, <3>1, <3>2, <3>3 DEF DataResponse, TypeOK, init
  <2>7. CASE ResetAndRetry
    <3>1. ChipType
      BY <2>7, <2>0, <2>a, <2>b DEF ResetAndRetry, TypeOK
    <3>2. result' \in [status : {"ok", "fail"}, value : Values] /\ stale' \in BOOLEAN
      BY <2>7, <2>0, ReturnedType DEF ResetAndRetry, Return
    <3>3. retry' \in 0..SPI_RETRY_COUNT /\ pc' \in {"idle", "cmd"} /\ (pc' # "idle" => retry' > 0)
      BY <2>7 DEF ResetAndRetry, Return, TypeOK
    <3>. QED
      BY <2>7, <3>1, <3>2, <3>3 DEF ResetAndRetry, TypeOK, init
  <2>8. CASE nm_bus_init
    BY <2>8 DEF nm_bus_init, Closed, TypeOK
  <2>9. CASE ProbeWithCrc \/ SwitchCrcOff \/ ReadChipId \/ ReadPktSz
    BY <2>9, <2>1, OpType DEF ProbeWithCrc, SwitchCrcOff, ReadChipId, ReadPktSz, Kinds, TypeOK
  <2>10. CASE ProbeWithoutCrc
    BY <2>10, <2>1 DEF ProbeWithoutCrc, TypeOK
  <2>11. CASE WritePktSz
    BY <2>11, <2>1, OpType DEF WritePktSz, Kinds, TypeOK
  <2>12. CASE nm_spi_init_returns \/ nm_spi_deinit
    BY <2>12 DEF nm_spi_init_returns, nm_spi_deinit, TypeOK, chip
  <2>13. CASE ClientCall
    BY <2>13, <2>1, OpType DEF ClientCall, Kinds, TypeOK, init
  <2>14. CASE FirmwareWrites
    <3>1. mem' \in [Regs -> Values]
      BY <2>14, MemType DEF FirmwareWrites, TypeOK
    <3>. QED
      BY <2>14, <3>1 DEF FirmwareWrites, TypeOK, init
  <2>15. CASE UNCHANGED vars
    BY <2>15 DEF vars, TypeOK
  <2>. QED
    BY <2>2, <2>3, <2>4, <2>5, <2>6, <2>7, <2>8, <2>9, <2>10, <2>11, <2>12, <2>13, <2>14, <2>15
    DEF Next, OneCall, nm_spi_init
<1>. QED
  BY <1>1, <1>2, PTL DEF Spec

----------------------------------------------------------------------------
(* The inductive invariant *)

\* The steps that begin a call of nm_spi_init or of a driver.
Beginning == ProbeWithCrc \/ ProbeWithoutCrc \/ SwitchCrcOff \/ ReadChipId \/ ReadPktSz
             \/ WritePktSz \/ ClientCall

LEMMA BeginningDoes ==
  ASSUME TypeOK, StageInv, Beginning
  PROVE  /\ pc = "idle" /\ pc' = "cmd" /\ retry' = SPI_RETRY_COUNT
         /\ UNCHANGED <<mem, open, stale, faults, result>>
         /\ op'.kind = "write_block" => op'.addr \in Blocks
         /\ ~stored'
<1>1. ASSUME NEW o, Begin(o)
      PROVE pc = "idle" /\ pc' = "cmd" /\ retry' = SPI_RETRY_COUNT /\ op' = o /\ ~stored'
            /\ UNCHANGED <<mem, open, stale, faults, result>>
  BY <1>1 DEF Begin, chip
<1>2. CASE ProbeWithCrc \/ SwitchCrcOff \/ ReadChipId \/ ReadPktSz
  BY <1>2, <1>1 DEF ProbeWithCrc, SwitchCrcOff, ReadChipId, ReadPktSz, Op
<1>3. CASE ProbeWithoutCrc
  BY <1>3, <1>1 DEF ProbeWithoutCrc, StageInv, Op
<1>4. CASE WritePktSz
  <2>1. PICK v : Begin(Op("write_reg", Config, v))
    BY <1>4 DEF WritePktSz
  <2>. QED
    BY <2>1, <1>1 DEF Op
<1>5. CASE ClientCall
  <2>1. CASE \E r \in Blocks, v \in Values, k \in Kinds : Begin(Op(k, r, v))
    <3>1. PICK r \in Blocks, v \in Values, k \in Kinds : Begin(Op(k, r, v))
      BY <2>1
    <3>. QED
      BY <3>1, <1>1 DEF Op
  <2>2. CASE \E r \in Status : Begin(Op("read", r, 0))
    <3>1. PICK r \in Status : Begin(Op("read", r, 0))
      BY <2>2
    <3>. QED
      BY <3>1, <1>1 DEF Op
  <2>. QED
    BY <1>5, <2>1, <2>2 DEF ClientCall
<1>. QED
  BY <1>2, <1>3, <1>4, <1>5 DEF Beginning

LEMMA ResetDoes ==
  ASSUME TypeOK, PhaseInv, ResetAndRetry
  PROVE  /\ pc = "reset" /\ retry > 0 /\ retry' = retry - 1
         /\ UNCHANGED <<op, stored, init, mem>>
         /\ \/ Reached /\ open' = Closed
            \/ Missed /\ open' = open
         /\ \/ retry' > 0 /\ pc' = "cmd" /\ (stale' => stale) /\ (~stale' => ~stale \/ open' = Closed)
               /\ UNCHANGED result
            \/ retry' = 0 /\ pc' = "idle" /\ (stale' => open' # Closed) /\ (~stale' => open' = Closed)
               /\ result'.status = "fail"
<1>1. /\ pc = "reset" /\ retry > 0 /\ retry' = retry - 1 /\ retry \in Nat
      /\ UNCHANGED <<op, stored, init, mem>>
  BY DEF ResetAndRetry, PhaseInv, TypeOK
<1>2. \/ Reached /\ open' = Closed
      \/ Missed /\ open' = open
  BY DEF ResetAndRetry
<1>3. CASE retry' # 0 /\ pc' = "cmd" /\ stale' = (stale /\ open' # Closed) /\ UNCHANGED result
  <2>1. retry' > 0
    BY <1>1, <1>3
  <2>2. (stale' => stale) /\ (~stale' => ~stale \/ open' = Closed)
    BY <1>3, Zenon
  <2>. QED
    BY <1>1, <1>2, <1>3, <2>1, <2>2
<1>4. CASE retry' = 0 /\ stale' = (open' # Closed) /\ \E v \in Values : Return("fail", v)
  <2>1. pc' = "idle" /\ result'.status = "fail"
    BY <1>4 DEF Return, Returned
  <2>2. (stale' => open' # Closed) /\ (~stale' => open' = Closed)
    BY <1>4, Zenon
  <2>. QED
    BY <1>1, <1>2, <1>4, <2>1, <2>2
<1>. QED
  BY <1>3, <1>4 DEF ResetAndRetry

LEMMA PhaseStep == TypeOK /\ PhaseInv /\ StageInv /\ [Next]_vars => PhaseInv'
<1> SUFFICES ASSUME TypeOK, PhaseInv, StageInv, [Next]_vars PROVE PhaseInv'
  OBVIOUS
<1>0. /\ open.addr \in Regs /\ open \in [kind : {"none", "read", "write_block", "stored"}, addr : Regs]
      /\ op.kind \in Kinds
  BY DEF TypeOK
<1> USE <1>0 DEF Closed
<1>1. CASE WriteReg
  BY <1>1 DEF WriteReg, Return, chip, PhaseInv
<1>2. CASE Command
  BY <1>2 DEF Command, PhaseInv, Kinds
<1>3. CASE ReadData
  BY <1>3 DEF ReadData, AnswerMissed, Return, PhaseInv
<1>4. CASE WriteData
  <2>1. CASE open.kind = "write_block" /\ open' = [open EXCEPT !.kind = "stored"] /\ stored'
    <3>1. open'.kind = "stored" /\ open'.addr = open.addr
      BY <2>1
    <3>. QED
      BY <1>4, <2>1, <3>1 DEF WriteData, PhaseInv
  <2>2. CASE UNCHANGED <<mem, open, stored>>
    BY <1>4, <2>2 DEF WriteData, PhaseInv
  <2>. QED
    BY <1>4, <2>1, <2>2 DEF WriteData
<1>5. CASE DataResponse
  BY <1>5 DEF DataResponse, AnswerMissed, Return, PhaseInv
<1>6. CASE ResetAndRetry
  BY <1>6, ResetDoes DEF PhaseInv
<1>7. CASE Beginning
  BY <1>7, BeginningDoes DEF PhaseInv
<1>8. CASE nm_bus_init
  BY <1>8 DEF nm_bus_init, PhaseInv
<1>9. CASE nm_spi_init_returns \/ nm_spi_deinit \/ FirmwareWrites
  BY <1>9 DEF nm_spi_init_returns, nm_spi_deinit, FirmwareWrites, chip, PhaseInv
<1>10. CASE UNCHANGED vars
  BY <1>10 DEF vars, PhaseInv
<1>. QED
  BY <1>1, <1>2, <1>3, <1>4, <1>5, <1>6, <1>7, <1>8, <1>9, <1>10 DEF Next, OneCall, nm_spi_init, Beginning

\* The two sides change their CRC setting only between calls, and by the write of
\* Config, so what one call pays it pays under one setting.
LEMMA CostStep == TypeOK /\ TypeOK' /\ PhaseInv /\ StageInv /\ CostInv /\ [Next]_vars => CostInv'
<1> SUFFICES ASSUME TypeOK, TypeOK', PhaseInv, StageInv, CostInv, [Next]_vars PROVE CostInv'
  OBVIOUS
<1>0. /\ faults \in Nat /\ faults' \in Nat /\ retry \in Nat /\ SPI_RETRY_COUNT \in Nat
      /\ op.kind \in Kinds /\ mem \in [Regs -> Values]
  BY DEF TypeOK
<1> USE <1>0 DEF Closed
<1>a. UNCHANGED <<mem, gu8Crc_off>> => (InStep' <=> InStep)
  BY DEF InStep
<1>b. Reached \/ Missed => faults' >= faults /\ (Missed /\ InStep => faults' = faults + 1) /\ (Reached => InStep)
  BY DEF Reached, Missed
<1>1. CASE WriteReg
  BY <1>1, <1>a, <1>b DEF WriteReg, Return, chip, CostInv, init
<1>2. CASE Command
  BY <1>2, <1>a, <1>b DEF Command, CostInv, init
<1>3. CASE ReadData
  BY <1>3, <1>a, <1>b DEF ReadData, AnswerMissed, Return, CostInv, init
<1>4. CASE WriteData
  <2>1. InStep' <=> InStep
    <3>1. CASE UNCHANGED mem
      BY <3>1, <1>4, <1>a DEF WriteData, init
    <3>2. CASE open.kind = "write_block" /\ mem' = [mem EXCEPT ![open.addr] = op.val]
      <4>1. mem'[Config] = mem[Config]
        BY <3>2 DEF PhaseInv, Regs
      <4>. QED
        BY <4>1, <1>4 DEF WriteData, init, InStep
    <3>. QED
      BY <3>1, <3>2, <1>4 DEF WriteData
  <2>2. CASE /\ IF open.kind = "write_block" THEN Missed ELSE UNCHANGED faults
             /\ UNCHANGED <<mem, open, stored>>
    <3>1. pc = "data" /\ op.kind = "write_block" /\ pc' = "data_rsp" /\ UNCHANGED <<op, retry, stale>>
      BY <1>4 DEF WriteData
    <3>. QED
      BY <2>1, <2>2, <3>1, <1>b DEF CostInv
  <2>3. CASE Reached /\ open' = [open EXCEPT !.kind = "stored"]
    <3>1. open'.kind = "stored"
      BY <2>3 DEF TypeOK
    <3>. QED
      BY <1>4, <2>1, <2>3, <3>1, <1>b DEF WriteData, CostInv, PhaseInv, init
  <2>. QED
    BY <1>4, <2>2, <2>3 DEF WriteData
<1>5. CASE DataResponse
  BY <1>5, <1>a, <1>b DEF DataResponse, AnswerMissed, Return, CostInv, init
<1>6. CASE ResetAndRetry
  <2>1. /\ pc = "reset" /\ retry > 0 /\ retry' = retry - 1 /\ UNCHANGED <<op, mem, gu8Crc_off>>
        /\ \/ Reached /\ open' = Closed
           \/ Missed /\ open' = open
    BY <1>6, ResetDoes DEF init
  <2>2. InStep' <=> InStep
    BY <2>1, <1>a
  <2>3. faults' >= faults /\ (InStep => faults >= SPI_RETRY_COUNT - retry')
    BY <2>1, <1>b DEF CostInv
  <2>4. open' # Closed => open' = open /\ (InStep => faults' = faults + 1)
    BY <2>1, <1>b
  <2>5. open.kind = "none" => open = Closed
    BY DEF PhaseInv
  <2>6. CASE retry' > 0 /\ pc' = "cmd" /\ (stale' => stale) /\ (~stale' => ~stale \/ open' = Closed)
    <3>1. ~InStep /\ open'.kind # "none" => stale'
      BY <2>6, <2>4 DEF CostInv
    <3>2. stale' => faults' > SPI_RETRY_COUNT
      BY <2>6, <2>3 DEF CostInv
    <3>. QED
      BY <2>6, <3>1, <3>2, <2>2, <2>3, <2>1 DEF CostInv
  <2>7. CASE retry' = 0 /\ pc' = "idle" /\ (stale' => open' # Closed) /\ (~stale' => open' = Closed)
    <3>2. ~InStep /\ open'.kind # "none" => stale'
      BY <2>7
    <3>3. ASSUME stale' PROVE faults' > SPI_RETRY_COUNT
      <4>1. open' = open /\ open # Closed
        BY <2>7, <3>3, <2>4
      <4>2. CASE InStep
        BY <4>1, <4>2, <2>3, <2>4, <2>7
      <4>3. CASE ~InStep
        <5>1. stale
          BY <4>1, <4>3, <2>5 DEF CostInv
        <5>. QED
          BY <5>1, <2>3 DEF CostInv
      <4>. QED
        BY <4>2, <4>3
    <3>. QED
      BY <2>7, <3>2, <3>3, <2>2 DEF CostInv
  <2>. QED
    BY <1>6, ResetDoes, <2>6, <2>7
<1>7. CASE Beginning
  <2>1. UNCHANGED mem /\ pc = "idle" /\ pc' = "cmd" /\ retry' = SPI_RETRY_COUNT
        /\ UNCHANGED <<open, stale, faults>>
    BY <1>7, BeginningDoes
  <2>. QED
    BY <2>1 DEF CostInv, PhaseInv
<1>8. CASE nm_bus_init
  BY <1>8 DEF nm_bus_init, CostInv, StageInv
<1>9. CASE nm_spi_init_returns \/ nm_spi_deinit
  BY <1>9 DEF nm_spi_init_returns, nm_spi_deinit, chip, CostInv, PhaseInv
<1>10. CASE FirmwareWrites
  <2>1. PICK st \in Status, v \in Values : mem' = [mem EXCEPT ![st] = v]
    BY <1>10 DEF FirmwareWrites
  <2>2. InStep' <=> InStep
    BY <1>10, <2>1 DEF FirmwareWrites, InStep, init, Regs
  <2>. QED
    BY <1>10, <2>2 DEF FirmwareWrites, CostInv
<1>11. CASE UNCHANGED vars
  BY <1>11, <1>a DEF vars, CostInv
<1>. QED
  BY <1>1, <1>2, <1>3, <1>4, <1>5, <1>6, <1>7, <1>8, <1>9, <1>10, <1>11
  DEF Next, OneCall, nm_spi_init, Beginning

----------------------------------------------------------------------------
LEMMA StageStep == TypeOK /\ TypeOK' /\ PhaseInv /\ StageInv /\ [Next]_vars => StageInv'
<1> SUFFICES ASSUME TypeOK, TypeOK', PhaseInv, StageInv, [Next]_vars PROVE StageInv'
  OBVIOUS
<1>0. /\ op \in [kind : Kinds, addr : Regs, val : Values] /\ mem \in [Regs -> Values]
      /\ gu8Crc_off \in BOOLEAN /\ gaveUp \in BOOLEAN /\ stale \in BOOLEAN /\ result.status \in {"ok", "fail"}
      /\ stage \in {"off", "reset", "crc_on", "crc_off", "crc_write", "chipid", "pkt_read", "pkt_write", "client"}
  BY DEF TypeOK
<1>c. CrcOn # CrcOff /\ Config \in Regs /\ ChipId # Config /\ Config \notin Blocks /\ Config \notin Status
  BY RegsOf
<1> USE <1>0, <1>c
<1>a. UNCHANGED <<mem, gu8Crc_off>> => (InStep' <=> InStep)
  BY DEF InStep
<1>b. Reached => InStep
  BY DEF Reached
<1>1. CASE WriteReg
  <2>1. pc = "cmd" /\ op.kind = "write_reg" /\ pc' = "idle" /\ result'.status = "ok"
        /\ UNCHANGED <<op, stage, inited, gaveUp, gu8Crc_off>>
    BY <1>1 DEF WriteReg, Return, Returned, init
  <2>2. stage \in {"crc_write", "pkt_write", "client"}
    BY <2>1 DEF StageInv, Op
  <2>3. (stale' => stale) /\ mem' \in {mem, [mem EXCEPT ![op.addr] = op.val]}
    BY <1>1 DEF WriteReg, chip
  <2>4. stage = "client" => mem'[Config] = mem[Config]
    BY <2>1, <2>3 DEF StageInv
  <2>5. stage = "client" => (InStep' <=> InStep)
    BY <2>1, <2>4 DEF InStep
  <2>6. stage = "pkt_write" /\ ~gaveUp => InStep'
    <3>1. stage = "pkt_write" /\ ~gaveUp => op.val = CrcOff /\ mem[Config] = CrcOff /\ gu8Crc_off
      BY DEF StageInv, Op, InStep
    <3>2. stage = "pkt_write" /\ ~gaveUp => mem'[Config] = CrcOff
      BY <3>1, <2>3
    <3>. QED
      BY <3>1, <3>2, <2>1 DEF InStep
  <2>. QED
    BY <2>1, <2>2, <2>3, <2>5, <2>6 DEF StageInv
<1>2. CASE Command
  BY <1>2, <1>a DEF Command, StageInv, init
<1>3. CASE ReadData
  <2>1. pc = "data" /\ op.kind = "read" /\ UNCHANGED <<op, stage, inited, gaveUp, gu8Crc_off, mem>>
        /\ (stale' => stale)
    BY <1>3 DEF ReadData, AnswerMissed, init
  <2>2. InStep' <=> InStep
    BY <2>1, <1>a
  <2>3. CASE pc' = "reset"
    BY <2>1, <2>2, <2>3 DEF StageInv
  <2>4. CASE InStep /\ open.kind = "read" /\ ~stale' /\ pc' = "idle" /\ result' = Returned("ok", mem[open.addr])
    <3>1. result'.status = "ok" /\ result'.value = mem[open.addr]
      BY <2>4 DEF Returned
    <3>2. stage = "pkt_read" /\ ~gaveUp => result'.value = CrcOff
      <4>1. stage = "pkt_read" /\ ~gaveUp => ~stale /\ op.addr = Config /\ mem[Config] = CrcOff
        BY <2>1, <2>4 DEF StageInv, Op, InStep
      <4>2. ~stale => open.addr = op.addr
        BY <2>4 DEF PhaseInv
      <4>. QED
        BY <3>1, <4>1, <4>2
    <3>. QED
      BY <2>1, <2>2, <2>4, <3>1, <3>2 DEF StageInv
  <2>. QED
    BY <1>3, <2>3, <2>4, <1>b DEF ReadData, AnswerMissed, Return
<1>4. CASE WriteData
  <2>1. pc = "data" /\ op.kind = "write_block" /\ pc' = "data_rsp"
        /\ UNCHANGED <<op, stage, inited, gaveUp, gu8Crc_off, stale, result>>
    BY <1>4 DEF WriteData, init
  <2>2. stage = "client"
    BY <2>1 DEF StageInv, Op
  <2>3. mem'[Config] = mem[Config]
    BY <1>4 DEF WriteData, PhaseInv
  <2>4. InStep' <=> InStep
    BY <2>1, <2>3 DEF InStep
  <2>. QED
    BY <2>1, <2>2, <2>4 DEF StageInv
<1>5. CASE DataResponse
  <2>1. pc = "data_rsp" /\ op.kind = "write_block"
        /\ UNCHANGED <<op, stage, inited, gaveUp, gu8Crc_off, mem>> /\ (stale' => stale)
    BY <1>5 DEF DataResponse, AnswerMissed, init, PhaseInv
  <2>2. stage = "client"
    BY <2>1 DEF StageInv, Op
  <2>. QED
    BY <2>1, <2>2, <1>a DEF StageInv
<1>6. CASE ResetAndRetry
  <2>1. /\ pc = "reset" /\ UNCHANGED <<op, stage, inited, gaveUp, gu8Crc_off, mem>>
        /\ op.kind # "write_reg"
    BY <1>6, ResetDoes DEF init, PhaseInv
  <2>2. CASE pc' = "cmd" /\ (stale' => stale) /\ UNCHANGED result
    BY <2>1, <2>2, <1>a DEF StageInv
  <2>3. CASE pc' = "idle" /\ result'.status = "fail"
    <3>1. stage \notin {"pkt_write", "crc_write", "reset", "off"}
      BY <2>1 DEF StageInv
    <3>. QED
      BY <2>1, <2>3, <3>1, <1>a DEF StageInv
  <2>. QED
    BY <1>6, ResetDoes, <2>2, <2>3
<1>7. CASE ProbeWithCrc \/ ProbeWithoutCrc
  <2>1. pc = "idle" /\ pc' = "cmd" /\ UNCHANGED <<mem, stale, result>>
    BY <1>7, BeginningDoes DEF Beginning
  <2>2. op' = Op("read", Config, CrcOn)
    BY <1>7 DEF ProbeWithCrc, ProbeWithoutCrc, Begin, StageInv
  <2>. QED
    BY <1>7, <2>1, <2>2 DEF ProbeWithCrc, ProbeWithoutCrc, StageInv, Op
<1>8. CASE SwitchCrcOff \/ ReadChipId
  <2>1. pc = "idle" /\ pc' = "cmd" /\ UNCHANGED <<mem, stale, result>>
    BY <1>8, BeginningDoes DEF Beginning
  <2>. QED
    BY <1>8, <2>1 DEF SwitchCrcOff, ReadChipId, Begin, StageInv, Op
<1>9. CASE ReadPktSz
  <2>1. pc = "idle" /\ pc' = "cmd" /\ UNCHANGED <<mem, stale, result>>
    BY <1>9, BeginningDoes DEF Beginning
  <2>. QED
    BY <1>9, <2>1, <1>a DEF ReadPktSz, Begin, StageInv, Op
<1>10. CASE WritePktSz
  <2>1. pc = "idle" /\ pc' = "cmd" /\ UNCHANGED <<mem, stale, result>>
    BY <1>10, BeginningDoes DEF Beginning
  <2>2. PICK v \in {CrcOn, CrcOff} : (result.status = "ok" => v = result.value) /\ Begin(Op("write_reg", Config, v))
    BY <1>10 DEF WritePktSz
  <2>3. op' = Op("write_reg", Config, v)
    BY <2>2 DEF Begin
  <2>4. stage = "pkt_read" /\ stage' = "pkt_write" /\ UNCHANGED <<inited, gu8Crc_off>>
        /\ (~gaveUp' => ~gaveUp /\ result.status = "ok")
    BY <1>10 DEF WritePktSz
  <2>5. ~gaveUp' => v = CrcOff /\ ~stale
    BY <2>1, <2>2, <2>4 DEF StageInv
  <2>. QED
    BY <2>1, <2>3, <2>4, <2>5, <1>a DEF StageInv, Op
<1>11. CASE ClientCall
  <2>1. pc = "idle" /\ pc' = "cmd" /\ UNCHANGED <<mem, stale, result>> /\ stage = "client"
        /\ UNCHANGED <<stage, inited, gaveUp, gu8Crc_off>>
    BY <1>11, BeginningDoes DEF Beginning, ClientCall, init
  <2>2. op'.kind = "write_reg" => op'.addr \in Blocks
    <3>1. CASE \E r \in Blocks, v \in Values, k \in Kinds : Begin(Op(k, r, v))
      BY <3>1 DEF Begin, Op
    <3>2. CASE \E r \in Status : Begin(Op("read", r, 0))
      BY <3>2 DEF Begin, Op
    <3>. QED
      BY <1>11, <3>1, <3>2 DEF ClientCall
  <2>. QED
    BY <2>1, <2>2, <1>a DEF StageInv
<1>12. CASE nm_bus_init
  BY <1>12 DEF nm_bus_init, StageInv
<1>13. CASE nm_spi_init_returns
  BY <1>13, <1>a DEF nm_spi_init_returns, chip, StageInv
<1>14. CASE nm_spi_deinit
  BY <1>14 DEF nm_spi_deinit, chip, StageInv
<1>15. CASE FirmwareWrites
  <2>1. mem'[Config] = mem[Config]
    BY <1>15 DEF FirmwareWrites
  <2>2. InStep' <=> InStep
    BY <1>15, <2>1 DEF FirmwareWrites, InStep, init
  <2>. QED
    BY <1>15, <2>2 DEF FirmwareWrites, init, StageInv
<1>16. CASE UNCHANGED vars
  BY <1>16, <1>a DEF vars, StageInv
<1>. QED
  BY <1>1, <1>2, <1>3, <1>4, <1>5, <1>6, <1>7, <1>8, <1>9, <1>10, <1>11, <1>12, <1>13, <1>14, <1>15, <1>16
  DEF Next, OneCall, nm_spi_init

THEOREM Invariance == Spec => []IInv
<1>1. Init => PhaseInv /\ CostInv /\ StageInv
  BY DEF Init, PhaseInv, CostInv, StageInv, Closed, Op
<1>2. TypeOK /\ TypeOK' /\ PhaseInv /\ CostInv /\ StageInv /\ [Next]_vars => (PhaseInv /\ CostInv /\ StageInv)'
  BY PhaseStep, CostStep, StageStep
<1>. QED
  BY <1>1, <1>2, TypeCorrect, PTL DEF Spec, IInv

\* After nm_spi_init without a failed read, host and chip frame alike for ever.
THEOREM CrcsAgree == Spec => []CrcAgrees
<1>1. IInv => CrcAgrees
  BY DEF IInv, StageInv, CrcAgrees
<1>. QED
  BY <1>1, Invariance, PTL

\* The chip is never left in an abandoned transaction by fewer missed frames than
\* a whole call's attempts and one.
THEOREM StaleIsRare == Spec => []StaleTakesExhaustion
<1>1. IInv => StaleTakesExhaustion
  BY DEF IInv, CostInv, StaleTakesExhaustion
<1>. QED
  BY <1>1, Invariance, PTL

----------------------------------------------------------------------------
(* The refinement *)

LEMMA BeginRefines ==
  ASSUME NEW o \in [kind : Kinds, addr : Regs, val : Values], Begin(o)
  PROVE  Abstract!Begin
<1>1. /\ pc = "idle" /\ pc' = "cmd" /\ op' = o /\ stored' = FALSE
      /\ UNCHANGED <<mem, result>>
  BY DEF Begin, chip
<1>2. BusCall = Abstract!NoCall
  BY <1>1 DEF BusCall, Abstract!NoCall
<1>3. BusCall' = [kind |-> o.kind, addr |-> o.addr, val |-> o.val]
  BY <1>1 DEF BusCall
<1>4. o.kind \in Abstract!Kinds /\ o.addr \in Regs /\ o.val \in Values
  BY DEF Kinds, Abstract!Kinds
<1>. QED
  BY <1>1, <1>2, <1>3, <1>4 DEF Abstract!Begin

LEMMA StepRefines == IInv /\ TypeOK' /\ [Next]_vars => [Abstract!Next]_(Abstract!vars)
<1> SUFFICES ASSUME IInv, TypeOK', [Next]_vars, ~stale PROVE [Abstract!Next]_(Abstract!vars)
  BY DEF Abstract!Next
<1>0. /\ op \in [kind : Kinds, addr : Regs, val : Values] /\ stale' \in BOOLEAN /\ stale = FALSE
      /\ open.kind # "none" => /\ open.addr = op.addr
                               /\ open.kind = op.kind \/ (open.kind = "stored" /\ stored)
      /\ pc = "data_rsp" => op.kind = "write_block"
      /\ pc \in {"data", "data_rsp", "reset"} => op.kind # "write_reg"
      /\ pc # "idle" /\ stored => op.kind = "write_block"
  BY DEF IInv, TypeOK, PhaseInv
<1> DEFINE Busy == [kind |-> IF stored THEN "taken" ELSE op.kind, addr |-> op.addr, val |-> op.val]
<1>a. pc # "idle" => BusCall = Busy
  BY DEF BusCall
<1>b. pc' = "idle" => BusCall' = Abstract!NoCall
  BY DEF BusCall, Abstract!NoCall
<1>c. UNCHANGED <<op, stored>> /\ (pc' = "idle" <=> pc = "idle") => BusCall' = BusCall
  BY DEF BusCall
<1>d. \A st, v : Returned(st, v) = Abstract!Returned(st, v)
  BY DEF Returned, Abstract!Returned
<1>1. CASE WriteReg
  <2>1. /\ pc = "cmd" /\ op.kind = "write_reg" /\ pc' = "idle" /\ result' = Returned("ok", op.val)
        /\ mem' \in {mem, [mem EXCEPT ![op.addr] = op.val]}
    BY <1>1 DEF WriteReg, Return, chip
  <2>2. BusCall = [kind |-> "write_reg", addr |-> op.addr, val |-> op.val]
    BY <2>1, <1>0, <1>a
  <2>. QED
    BY <2>1, <2>2, <1>b, <1>d DEF Abstract!WriteReg, Abstract!Next
<1>2. CASE Command
  BY <1>2, <1>0, <1>c DEF Command, Abstract!vars
<1>3. CASE ReadData
  <2>1. CASE open.kind = "read" /\ Return("ok", mem[open.addr])
    BY <1>3, <2>1, <1>0, <1>a, <1>b, <1>d DEF ReadData, Return, Abstract!ReturnRead, Abstract!Next
  <2>2. CASE AnswerMissed("read")
    BY <1>3, <2>2, <1>c DEF ReadData, AnswerMissed, Abstract!vars
  <2>. QED
    BY <1>3, <2>1, <2>2 DEF ReadData
<1>4. CASE WriteData
  <2>1. pc = "data" /\ pc' = "data_rsp" /\ op.kind = "write_block" /\ UNCHANGED <<op, result, stale>>
    BY <1>4 DEF WriteData
  <2>2. CASE open.kind = "write_block" /\ stored' = TRUE /\ mem' = [mem EXCEPT ![open.addr] = op.val]
    <3>1. BusCall' = [kind |-> "taken", addr |-> op.addr, val |-> op.val]
      BY <2>1, <2>2 DEF BusCall
    <3>2. BusCall.kind \in {"write_block", "taken"} /\ BusCall.addr = open.addr
          /\ BusCall.addr = op.addr /\ BusCall.val = op.val
      BY <2>1, <2>2, <1>0, <1>a
    <3>. QED
      BY <2>1, <2>2, <3>1, <3>2 DEF Abstract!TakeBlock, Abstract!Next
  <2>3. CASE UNCHANGED <<mem, open, stored>>
    BY <2>1, <2>3, <1>c DEF Abstract!vars
  <2>. QED
    BY <1>4, <2>2, <2>3 DEF WriteData
<1>5. CASE DataResponse
  <2>1. CASE open.kind = "stored" /\ Return("ok", op.val)
    <3>1. pc = "data_rsp" /\ stored /\ op.kind = "write_block" /\ pc' = "idle" /\ UNCHANGED mem
          /\ result' = Returned("ok", op.val)
      BY <1>5, <2>1, <1>0 DEF DataResponse, Return
    <3>. QED
      BY <3>1, <1>a, <1>b, <1>d DEF Abstract!ReturnBlock, Abstract!Next
  <2>2. CASE AnswerMissed("stored")
    BY <1>5, <2>2, <1>c DEF DataResponse, AnswerMissed, Abstract!vars
  <2>. QED
    BY <1>5, <2>1, <2>2 DEF DataResponse
<1>6. CASE ResetAndRetry
  <2>1. pc = "reset" /\ UNCHANGED <<op, stored, mem>>
    BY <1>6 DEF ResetAndRetry
  <2>2. CASE pc' = "cmd" /\ (stale' => stale) /\ UNCHANGED result
    BY <2>1, <2>2, <1>0, <1>c DEF Abstract!vars
  <2>3. CASE pc' = "idle" /\ \E v \in Values : Return("fail", v)
    <3>1. op.kind \in {"read", "write_block"}
      BY <2>1, <1>0 DEF Kinds
    <3>. QED
      BY <2>1, <2>3, <3>1, <1>a, <1>b, <1>d DEF Return, Abstract!ReturnFail, Abstract!Next
  <2>4. \/ pc' = "cmd" /\ (stale' => stale) /\ UNCHANGED result
        \/ pc' = "idle"
    BY <1>6, ResetDoes DEF IInv
  <2>5. pc' = "idle" => \E v \in Values : Return("fail", v)
    BY <1>6 DEF ResetAndRetry
  <2>. QED
    BY <2>2, <2>3, <2>4, <2>5
<1>7. CASE Beginning
  <2>1. ASSUME NEW o \in [kind : Kinds, addr : Regs, val : Values], Begin(o) PROVE Abstract!Next
    BY <2>1, BeginRefines DEF Abstract!Next
  <2>2. {CrcOn, CrcOff} \subseteq Values /\ Config \in Regs /\ ChipId \in Regs
    BY RegsOf
  <2>3. CASE ProbeWithCrc \/ SwitchCrcOff \/ ReadChipId \/ ReadPktSz \/ ProbeWithoutCrc
    BY <2>1, <2>2, <2>3, <1>0, OpType DEF ProbeWithCrc, SwitchCrcOff, ReadChipId, ReadPktSz, ProbeWithoutCrc, Kinds
  <2>4. CASE WritePktSz
    BY <2>1, <2>2, <2>4, OpType DEF WritePktSz, Kinds
  <2>5. CASE ClientCall
    BY <2>1, <2>5, OpType, RegsOf DEF ClientCall, Kinds, CrcOn
  <2>. QED
    BY <1>7, <2>3, <2>4, <2>5 DEF Beginning
<1>8. CASE nm_bus_init
  <2>1. pc = "idle" /\ UNCHANGED <<pc, op, stored, result>>
    BY <1>8 DEF nm_bus_init, IInv, StageInv
  <2>. QED
    BY <2>1, <1>b, <1>c DEF Abstract!ChipReset, Abstract!Next
<1>9. CASE nm_spi_init_returns \/ nm_spi_deinit
  BY <1>9, <1>c DEF nm_spi_init_returns, nm_spi_deinit, chip, Abstract!vars
<1>10. CASE FirmwareWrites
  BY <1>10, <1>c DEF FirmwareWrites, Abstract!FirmwareWrites, Abstract!Next
<1>11. CASE UNCHANGED vars
  BY <1>11, <1>c DEF vars, Abstract!vars
<1>. QED
  BY <1>1, <1>2, <1>3, <1>4, <1>5, <1>6, <1>7, <1>8, <1>9, <1>10, <1>11
  DEF Next, OneCall, nm_spi_init, Beginning

\* The protocol, with its retries, keeps the promise of Bus (nmspi.c:952-1163).
THEOREM Refinement == Spec => RefinesBus
<1>1. Init => Abstract!Init
  BY DEF Init, Abstract!Init, BusCall, Abstract!NoCall
<1>2. IInv => TypeOK
  BY DEF IInv
<1>. QED
  BY <1>1, <1>2, StepRefines, Invariance, PTL DEF Spec, RefinesBus, Abstract!Spec

----------------------------------------------------------------------------
\* The safety half of CallsReturn: no phase of a call is repeated without an
\* attempt being counted, so a call has at most 4 * SPI_RETRY_COUNT of them.
THEOREM CallsAreBounded == Spec => CallAdvances
<1>1. ASSUME IInv, OneCall PROVE PhasesLeft' \in 0..(PhasesLeft - 1)
  <2>1. /\ pc \in {"idle", "cmd", "data", "data_rsp", "reset"} /\ retry \in Nat
        /\ pc # "idle" => retry > 0
    BY <1>1 DEF IInv, TypeOK, PhaseInv
  <2>. USE <2>1 DEF PhasesLeft
  <2>2. CASE WriteReg
    BY <2>2 DEF WriteReg, Return
  <2>3. CASE Command
    BY <2>3 DEF Command
  <2>4. CASE ReadData
    BY <2>4 DEF ReadData, Return, AnswerMissed
  <2>5. CASE WriteData
    BY <2>5 DEF WriteData
  <2>6. CASE DataResponse
    BY <2>6 DEF DataResponse, Return, AnswerMissed
  <2>7. CASE ResetAndRetry
    BY <2>7 DEF ResetAndRetry, Return
  <2>. QED
    BY <1>1, <2>2, <2>3, <2>4, <2>5, <2>6, <2>7 DEF OneCall
<1>2. IInv => [OneCall => PhasesLeft' \in 0..(PhasesLeft - 1)]_vars
  BY <1>1
<1>. QED
  BY <1>2, Invariance, PTL DEF Spec, CallAdvances
=============================================================================
