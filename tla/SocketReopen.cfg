\* The callback of a chunk closes its socket, opens another and reads it.
SPECIFICATION Spec
CONSTANTS NSlots = 2
          Sessions = 8
          MaxOpens = 3
          MaxRequests = 2
          MaxChunks = 2
          MaxFaults = 0
          Kinds = {"recv"}
          ReopensInCallback = TRUE
INVARIANT ChunkReachesItsConnection
CHECK_DEADLOCK FALSE
