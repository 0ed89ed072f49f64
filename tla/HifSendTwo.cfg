SPECIFICATION FairSpec
CONSTANTS
  wifi = wifi
  none = none
  b1 = b1
  button = button
  Tasks = {wifi, button}
  Wifi = wifi
  Buffers = {b1}
  None = none
  MaxSends = 2
  MaxOthers = 1
  MaxPosts = 1
  MaxFaults = 1
INVARIANT SafeUntilOverlap
PROPERTY SendsReturn
CHECK_DEADLOCK FALSE
