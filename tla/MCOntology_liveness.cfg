SPECIFICATION FairSpec
CONSTANTS
  BlueprintIds = {t0, b1}
  EntityIds = {e1, e2}
  Names = {_team, a}
  EntityNames = {x, y}
  Keys = {parent}
  TeamId = t0
  TeamName = _team
  ParentKey = parent
  None = None
  MaxBlueprints = 1
  MaxEntities = 1
  MaxRevision = 2
  Writers = {w1, w2, w3}
INVARIANTS
  CapsHold
PROPERTIES
  EveryTransactionEnds
