\* The Wi-Fi task alone, with bus faults and late answers.
SPECIFICATION FairSpec
CONSTANTS
  wifi = wifi
  none = none
  b1 = b1
  b2 = b2
  Tasks = {wifi}
  Wifi = wifi
  Buffers = {b1, b2}
  None = none
  MaxSends = 3
  MaxOthers = 0
  MaxPosts = 2
  MaxFaults = 2
INVARIANTS TypeOK AccessIsCovered CountIsOfSenders SuccessIsDelivery
PROPERTIES RefinesTx SendsAreDelivered
CHECK_DEADLOCK FALSE
