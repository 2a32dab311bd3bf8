CONSTANTS NHoles = 3
          Seeds = 3
SPECIFICATION Spec
INVARIANTS TypeOK Conservation TuzStaysEmpty InProgressPlayable TopForecastIsExact VerdictJustified SowingByDivision
PROPERTIES TuzIsForever ImplementsContest
CHECK_DEADLOCK FALSE
