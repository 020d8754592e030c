SPECIFICATION FairSpec
CONSTANTS
  Goroutines = {g1, g2}
  MaxFaults = 4
INVARIANTS ReportedToBoth
PROPERTIES ReportsSent
CHECK_DEADLOCK FALSE
