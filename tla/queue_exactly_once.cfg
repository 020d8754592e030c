SPECIFICATION Spec
CONSTANTS
  Ids = {i1, i2, i3}
  Goroutines = {g1, g2}
  Loops = {l1}
  Channels = {c1}
  Types <- ChannelTypes
  MaxOpenConns = 2
  MaxTime = 1
  Faults <- NoShutdown
  Poison = {}
  NoGoroutine = NoGoroutine
  NoId = NoId
  NoLoop = NoLoop
  NoChannel = NoChannel
SYMMETRY Symmetry
INVARIANTS TypeOK OneHolder ExactlyOnce
PROPERTIES ImplementsLedger
