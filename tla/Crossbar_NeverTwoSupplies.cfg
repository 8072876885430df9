CONSTANTS
  Boards <- MCBoards
  Raw <- MCRaw
  ChipK <- K
  Sources <- MCSources
  Nowhere = nowhere
  FifoDepth = 4
  MaxSince = 2
SPECIFICATION Spec
INVARIANT NeverTwoSupplies
