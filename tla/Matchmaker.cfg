CONSTANTS BaseDiff = 2
          DiffPerSecond = 1
          Client = {c1, c2, c3}
          Rating = {0, 2, 5}
          LastJoin = 1
          LastSecond = 5
SPECIFICATION Spec
INVARIANTS TypeOK MatchedOnce OnlyTiesVanish StatsAddUp NeverSleepsOnAPair
PROPERTIES PairsWithinReach PairsGetMatched ThreadStops
CHECK_DEADLOCK FALSE
