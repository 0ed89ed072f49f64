\* A BIND reply after the socket was closed.
SPECIFICATION Spec
CONSTANTS NSlots = 1
          Sessions = 8
          MaxOpens = 2
          MaxRequests = 2
          MaxChunks = 2
          MaxFaults = 0
          Kinds = {"bind", "connect"}
          ReopensInCallback = FALSE
INVARIANT StatusReachesItsConnection
CHECK_DEADLOCK FALSE
