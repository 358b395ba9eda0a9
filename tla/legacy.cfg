SPECIFICATION Spec
CONSTANTS
  Users = {a, b}
  Default = a
  Requests = {r1, r2}
  Grants = {g1, g2}
  NoUser = NoUser
  Earlier = Earlier
  MaxSwitches = 3
SYMMETRY Symmetric
INVARIANTS
  TokensKeepToTheirUser
  SavedOnce
CHECK_DEADLOCK FALSE
