SPECIFICATION Spec
CONSTANTS
  Start = 3603
  Latency = 2
  MaxTicks = 4
INVARIANT TypeOK
INVARIANT NeverFarAhead
INVARIANT PrintedNotFarAhead
CHECK_DEADLOCK FALSE
