SPECIFICATION Spec
CONSTANTS
  Ids = {i1, i2, i3}
  Values = {a, b}
  Requests = {t1, t2}
  Blueprints = {}
  None = None
  Locked = FALSE
  UsesDefault = TRUE
  MaxItems = 2
CHECK_DEADLOCK FALSE
INVARIANTS
  ExactlyOneDefault
