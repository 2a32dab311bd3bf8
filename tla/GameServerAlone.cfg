CONSTANTS BaseDiff = 2
          DiffPerSecond = 1
          Person = {p1, p2, p3}
          Nobody = Nobody
          Rating = {0}
          Fd = {0, 1, 2}
          MaxCalls = 5
          LastSecond = 1
SPECIFICATION Spec
INVARIANT NobodyPlaysHimself
CHECK_DEADLOCK FALSE
