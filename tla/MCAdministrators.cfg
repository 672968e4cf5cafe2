SPECIFICATION MCSpec
CONSTANTS
  Users = {1, 2, 3}
  MaxId = 3
  Requests = {r1, r2}
  None = None
  Reads = {a1, a2}
  Capacity = 2
  MaxBytes = 2
SYMMETRY Symmetry
INVARIANTS
  AdministratorRemains
  OnlyPromotionsDeadlock
  LedgerKeepsCount
PROPERTIES
  RefusalsAreJustified
  NothingWaitsForEver
