SPECIFICATION Spec
CONSTANTS
  Members = {u, v}
  Goroutines = {g1, g2}
  Handlers = {h1}
  Nobody = Nobody
  Day = 3
  NextRound = 4
  MaxFaults = 1
  MaxChecks = 2
  MaxAnswers = 2
SYMMETRY Symmetry
INVARIANTS TypeOK AnswersRecorded
PROPERTIES NotAskedAgain SettledIsSpared
\* The match is over: nothing is left to do, or only after NextRound.
CHECK_DEADLOCK FALSE
