\* Two faults, two drops and three presses, at any time; a failed assertion stops it.
SPECIFICATION FairSpec
CONSTANTS MaxFaults = 2
          MaxDrops = 2
          MaxPresses = 3
INVARIANTS TypeOK ConfBeforeStart ChainGoesOn AssertionsNeedAButton OffIsQuiet
PROPERTY ComesBack
CHECK_DEADLOCK FALSE
