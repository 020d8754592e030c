SPECIFICATION Spec
CONSTANTS
  a = a
  b = b
  c = c
  d = d
  Members = {a, b, c, d}
  LateJoiners = {d}
  Refuses <- Refusals
  Goroutines = {g1, g2}
  Nobody = Nobody
  NoMember = NoMember
  Events = {"onboard", "leave", "update", "block"}
  MaxEvents = 2
  Faults = {"error", "timeout", "shutdown"}
  MaxRounds = 1
SYMMETRY Symmetry
INVARIANTS TypeOK OnePartner PairingsWhole Informed PreferencesKept
CHECK_DEADLOCK FALSE
