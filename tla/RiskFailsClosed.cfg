SPECIFICATION GateSpec
CONSTANTS
  Checks = {c1, c2}
  Profiles <- MCProfiles
  DefaultProfile <- MCDefault
  One = 1000
  Absent = Absent
  Corrupt = Corrupt
  MaxCommands = 2
  MaxDamage = 1
  OrderNotionals = {10, 105, 120}
  RouteNotionals <- MCRouteNotionals
  Equities <- MCEquities
  RouteLoss = 1
INVARIANTS FailsClosed
CHECK_DEADLOCK FALSE
SYMMETRY MCSymmetry
