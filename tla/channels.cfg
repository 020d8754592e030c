SPECIFICATION FairSpec
CONSTANTS
  Goroutines = {g1, g2}
  Nobody = Nobody
  MaxMoves = 3
  MaxFaults = 1
  MaxOpens = 1
  MaxJobs = 3
INVARIANTS TypeOK
PROPERTIES AdminAsked ChannelRemoved
CHECK_DEADLOCK FALSE
