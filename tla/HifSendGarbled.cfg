SPECIFICATION Spec
CONSTANTS
  wifi = wifi
  none = none
  b1 = b1
  button = button
  Tasks = {wifi, button}
  Wifi = wifi
  Buffers = {b1}
  None = none
  MaxSends = 2
  MaxOthers = 1
  MaxPosts = 1
  MaxFaults = 0
INVARIANT SuccessIsDelivery
CHECK_DEADLOCK FALSE
