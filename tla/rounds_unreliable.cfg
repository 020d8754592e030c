SPECIFICATION Spec
CONSTANTS
  Goroutines = {g1, g2}
  Nobody = Nobody
  Interval = 2
  EndBefore = 1
  Prompt = FALSE
  Rescheduling = "any"
  Membership = TRUE
  Faults = {"error", "shutdown"}
  MaxTime = 1
  MaxRequests = 1
  MaxJobs = 2
  MaxRounds = 2
SYMMETRY Symmetry
INVARIANTS RoundWillEnd
