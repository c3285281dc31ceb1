\* Each component on its own small instance; README.md gives the bounds.
CONSTANTS
  NumTx = 3
  Items = {1, 2}
  Limit = 1
  Calls = {c1, c2}
  MaxSocks = 2
  MaxEdits = 2
  MaxDrops = 1
  MaxOuts = 1
  MaxInvokes = 3
  Inputs = {"x", "y"}
  NoInput = "empty"
  MaxCalls = 4
  Kids = {"c1", "c2"}
  RootItem = "root"
  BadItems = {"c2"}
SPECIFICATION RuntimeSpec
INVARIANTS
  LocalSafe
  LiveSound
  HooksSound
  ServedWhole
PROPERTIES
  LocalReturns
  SocketComesBack
  InvokeReturns
  PinReports
CHECK_DEADLOCK FALSE
