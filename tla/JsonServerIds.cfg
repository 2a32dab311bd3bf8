CONSTANTS Fd = {3, 4}
          RequestsPerMinute = 2
          Minute = 2
          MaxRequestSize = 10240
          MaxInputs = 5
          LastTick = 4
SPECIFICATION Spec
INVARIANT RepliesCarryTheId
CHECK_DEADLOCK FALSE
