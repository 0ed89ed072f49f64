\* Bus faults anywhere; what is promised only until the first one says so.
SPECIFICATION FairSpec
CONSTANTS MaxMsgs = 5
          MaxReads = 2
          MaxFaults = 3
INVARIANTS TypeOK BufferHeld NoLostWakeup EdgePerMessage
PROPERTIES RefinesChannel ServiceAdvances ServesMessages
CHECK_DEADLOCK FALSE
