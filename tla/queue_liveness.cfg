SPECIFICATION RestartSpec
CONSTANTS
  Ids = {i1, i2}
  Goroutines = {g1, g2}
  Loops = {l1}
  Channels = {c1}
  Types <- MixedTypes
  MaxOpenConns = 2
  MaxTime = 0
  Faults = {"joberr", "shutdown", "crash"}
  Poison <- LeftParticipant
  NoGoroutine = NoGoroutine
  NoId = NoId
  NoLoop = NoLoop
  NoChannel = NoChannel
INVARIANTS NeverLost
PROPERTIES CompletedIsFinal DueJobCompletes
