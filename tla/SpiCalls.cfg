\* Two block addresses, one status register, two attempts a call, missed frames anywhere.
SPECIFICATION FairSpec
CONSTANTS
  a1 = a1
  a2 = a2
  st = st
  config = config
  chipid = chipid
  Blocks = {a1, a2}
  Status = {st}
  Config = config
  ChipId = chipid
  Values = {0, 1}
  SPI_RETRY_COUNT = 2
  MaxFaults = 5
INVARIANTS TypeOK CrcAgrees StaleTakesExhaustion
PROPERTIES RefinesBus CallAdvances CallsReturn
