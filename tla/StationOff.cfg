\* Button 2, without faults.
SPECIFICATION Spec
CONSTANTS MaxFaults = 0
          MaxDrops = 0
          MaxPresses = 1
INVARIANT WifiFindsSpiInitialised
CHECK_DEADLOCK FALSE
