SPECIFICATION Spec
CONSTANTS
  Goroutines = {g1, g2}
  Nobody = Nobody
  Interval = 3
  EndBefore = 1
  Prompt = TRUE
  Rescheduling = "later"
  Membership = FALSE
  Faults = {"error"}
  MaxTime = 6
  MaxRequests = 2
  MaxJobs = 3
  MaxRounds = 4
SYMMETRY Symmetry
INVARIANTS TypeOK
PROPERTIES ImplementsChain
