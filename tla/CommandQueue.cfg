CONSTANTS
  Depth = 2
  UartSize = 3
  MaxCommands = 4
SPECIFICATION FairSpec
INVARIANT TypeOK
PROPERTY RingsAreQueues
PROPERTY AcceptedLeaves
