SPECIFICATION Spec
CONSTANTS
  Slots = {s0, s1}
  Guests = {}
  None = None
  Bridges = {b}
  Channels = {c}
  Volts = {0, 1}
  OpCap = 3
  TxnCap = 3
  ArenaCap = 2
  MaxBundle = 2
  MaxRecords = 4
INVARIANTS
  TypeOK
  OpsKept
  CursorsInRing
  BoardAtPlace
PROPERTY
  HistoriesApart
VIEW MCView
SYMMETRY MCSymmetry
