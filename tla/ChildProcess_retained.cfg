SPECIFICATION Spec
CONSTANTS p1 = p1
          Paths = {p1}
          Chunks = 1
          MaxRequests = 2
          MaxEdits = 0
          MaxTraps = 0
          Faults = {}
          MaxFaults = 0
PROPERTY RetainedUntilEnded
CHECK_DEADLOCK FALSE
