SPECIFICATION Spec
CONSTANTS
  Names = {p, q}
  Uses = {u1, u2, u3}
  Removals = {v1}
  Runs = {r1}
  MaxHooks = 4
  Added = {x}
  Late = {leads}
SYMMETRY Symmetric
INVARIANTS
  HooksRunInOrder
  UndisturbedRunsAreComplete
  NoOrphans
  CoreStays
CHECK_DEADLOCK FALSE
