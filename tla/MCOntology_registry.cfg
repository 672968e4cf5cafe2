SPECIFICATION Spec
CONSTANTS
  BlueprintIds = {t0, b1, b2}
  EntityIds = {e1, e2}
  Names = {_team, a, b, c}
  EntityNames = {x, y}
  Keys = {parent}
  TeamId = t0
  TeamName = _team
  ParentKey = parent
  None = None
  MaxBlueprints = 3
  MaxEntities = 2
  MaxRevision = 4
  Writers = {w1, w2}
SYMMETRY Symmetry
INVARIANTS
  PlanStillValid
  ReferencesResolve
PROPERTIES
  ImplementsRegistry
  ReferencesFollowTheirTarget
