SPECIFICATION FairSpec
CONSTANTS
  Goroutines = {g1, g2}
  Nobody = Nobody
  Steps <- FewSteps
  Optional <- Hybrid
  Faults = {"error", "event", "shutdown"}
  MaxFaults = 1
  MaxMoves = 2
  MaxOpens = 1
  MaxJobs = 2
INVARIANTS TypeOK Greeted NoAnswerLost
PROPERTIES Converges
