CONSTANTS Fd = {3, 4}
          RequestsPerMinute = 2
          Minute = 2
          MaxRequestSize = 1000
          MaxInputs = 5
          LastTick = 4
SPECIFICATION Spec
INVARIANTS TypeOK BelowTwiceTheLimit RatesOfTheOpen
PROPERTIES RefusedForOwnRequests
CHECK_DEADLOCK FALSE
