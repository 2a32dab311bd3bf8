CONSTANTS Client = {a, b}
          Fd = {5,6}
          Worker = {w1, w2}
          MaxSends = 2
          MaxBuffer = 1
SPECIFICATION Spec
INVARIANTS TypeOK NoCommandForgotten OpenHasEntry OnlyOrphansStray InOrderUnlessOvertaken
SYMMETRY Symmetry
CHECK_DEADLOCK FALSE
