CONSTANTS NHoles = 2
          Seeds = 3
          Batches <- BatchSizes
          LastId = 100
          Unset = 99
SPECIFICATION Spec
INVARIANTS EveryGameDecided StatisticsAddUp
CHECK_DEADLOCK FALSE
