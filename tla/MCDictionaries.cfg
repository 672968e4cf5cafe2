SPECIFICATION MCSpec
CONSTANTS
  Ids = {i1, i2, i3}
  Values = {a, b}
  Requests = {t1, t2}
  Blueprints = {b1}
  None = None
  Locked = FALSE
  UsesDefault = TRUE
  MaxItems = 2
SYMMETRY Symmetry
CHECK_DEADLOCK FALSE
INVARIANTS
  HierarchiesStayKnown
  OnlySwapsConflict
PROPERTIES
  HierarchiesStoreTheirDocument
