CONSTANTS
  Boards <- MCBoards
  Raw <- MCRaw
  ChipK <- K
  Sources <- MCSources
  Nowhere = nowhere
  FifoDepth = 4
  MaxSince = 2
SPECIFICATION Spec
INVARIANT TypeOK
INVARIANT MemoryTrue
INVARIANT RefreshBuildsBoard
INVARIANT BreakBeforeMake
INVARIANT OneSupply
PROPERTY SendsEnd
