CONSTANTS Worker = {w1, w2, w3}
          MaxTasks = 4
          MaxGames = 3
SPECIFICATION StudySpec
INVARIANT OneMoreUnit
PROPERTIES ThreadAnswers ImplementsTaskBag ScannerWakes
CHECK_DEADLOCK FALSE
