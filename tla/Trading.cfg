SPECIFICATION Spec
CONSTANTS
  Checks = {r1, r2, r3}
  Profiles <- MCProfiles
  DefaultProfile <- MCDefault
  One = 100
  Scale = 2
  Absent = Absent
  Corrupt = Corrupt
  MaxCommands = 1
  MaxDamage = 0
  Commands <- MCContended
  Upper <- MCUpper
  Blank = Blank
  VenuePrices = {4}
  Tick = 2
  NoCommand = NoCommand
  NoOrder = NoOrder
  NoRow = NoRow
  NoPrice = NoPrice
  MaxPerSymbol = 3
  MaxFailures = 1
  id1 = id1
  id2 = id2
  id3 = id3
INVARIANTS TypeOK OneOrderPerClientId AcknowledgedIsStored RetriesAreAnswered OrdersWereApproved EventsFollowWrites PositionsAreSumsOfFills
SYMMETRY MCSymmetry
CHECK_DEADLOCK FALSE
