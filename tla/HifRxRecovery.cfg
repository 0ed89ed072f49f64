\* One bus fault: reception does not recover.
SPECIFICATION FairSpec
CONSTANTS MaxMsgs = 2
          MaxReads = 1
          MaxFaults = 1
PROPERTY Recovers
CHECK_DEADLOCK FALSE
