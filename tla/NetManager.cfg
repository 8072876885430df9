SPECIFICATION Spec
CONSTANTS
    Rails <- MCRails
    Pins <- MCPins
    Rows <- MCRows
    Connectable <- MCConnectable
    NeverJoined <- MCNeverJoined
    KeptOut <- MCKeptOut
    MaxNodes = 4
    MaxNetBridges = 3
    MaxBridges = 5
    MaxNets = 7
    MaxNames = 1
    MaxEdits = 1
INVARIANTS TypeOK NodesApart RailsApart NetsAreComponents NamesAnchored PathsAreBridges ShortListsFit
