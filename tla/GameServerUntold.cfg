CONSTANTS BaseDiff = 2
          DiffPerSecond = 1
          Person = {p1, p2, p3}
          Nobody = Nobody
          Rating = {0, 1}
          Fd = {0, 1, 2}
          MaxCalls = 5
          LastSecond = 0
SPECIFICATION Spec
INVARIANT BothPlayersTold
CHECK_DEADLOCK FALSE
