\* Any interleaving of calls and replies on two slots; session IDs wrap once.
SPECIFICATION Spec
CONSTANTS NSlots = 2
          Sessions = 3
          MaxOpens = 3
          MaxRequests = 3
          MaxChunks = 2
          MaxFaults = 1
          Kinds = {"send", "recv", "listen"}
          ReopensInCallback = FALSE
INVARIANTS TypeOK DataReachesItsConnection PendingIsOwed
CHECK_DEADLOCK FALSE
