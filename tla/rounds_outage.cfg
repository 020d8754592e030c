SPECIFICATION Spec
CONSTANTS
  Goroutines = {g1, g2}
  Nobody = Nobody
  Interval = 3
  EndBefore = 1
  Prompt = FALSE
  Rescheduling = "never"
  Membership = FALSE
  Faults = {}
  MaxTime = 6
  MaxRequests = 1
  MaxJobs = 3
  MaxRounds = 4
SYMMETRY Symmetry
INVARIANTS RoundsGoOn
