SPECIFICATION Spec
CONSTANTS
  Members = {a, b, c, d}
  Profiles <- Crowd
  BlockLists <- OneBlock
  Histories <- OneMet
  Changes <- AllChanges
  MaxChanges = 1
SYMMETRY Symmetry
INVARIANTS TypeOK OnePartnerEach EveryoneOnce PairsSuitable NoPairLeft SearchersContent
CHECK_DEADLOCK FALSE
