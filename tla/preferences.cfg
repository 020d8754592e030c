SPECIFICATION FairSpec
CONSTANTS
  Channels = {c1, c2}
  People = {m}
  Self = Self
  Bots = {}
  Forms <- TwoForms
  Goroutines = {g1, g2}
  Nobody = Nobody
  None = None
  MaxRequests = 3
  MaxMoves = 1
  MaxFaults = 1
INVARIANTS TypeOK LastWordCounts
PROPERTIES BlockedEverywhere RequestsComplete
CHECK_DEADLOCK FALSE
