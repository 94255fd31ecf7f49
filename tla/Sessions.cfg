SPECIFICATION Spec
CONSTANTS
  Requests = {r1, r2, r3, r4}
  Spellings = {upper, lower}
  Normal <- MCNormal
  Passwords = {first, second, brief}
  Short = {brief}
  AskedRoles = {"admin"}
  Labels = {"Bot"}
  PrefixOf <- MCPrefixOf
  NoCommand = NoCommand
  MaxMishaps = 1
INVARIANTS TypeOK RegistrantsCanLogIn DisabledAreRefused KeysWorkUntilRevoked
SYMMETRY MCSymmetry
CHECK_DEADLOCK FALSE
