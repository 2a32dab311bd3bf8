CONSTANTS BaseDiff = 2
          DiffPerSecond = 1
          Person = {p1, p2, p3}
          Nobody = Nobody
          Rating = {0, 3}
          Fd = {0, 1, 2}
          MaxCalls = 7
          LastSecond = 2
SPECIFICATION Spec
INVARIANTS TypeOK FailsAsAWhole ColoursReachThePlayers
CHECK_DEADLOCK FALSE
