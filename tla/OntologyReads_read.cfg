SPECIFICATION ReadsSpec
CONSTANTS
  BlueprintIds = {t0, b1}
  EntityIds = {e1, e2}
  Names = {_team, a}
  EntityNames = {x}
  Keys = {parent}
  TeamId = t0
  TeamName = _team
  ParentKey = parent
  None = None
  MaxBlueprints = 2
  MaxEntities = 2
  MaxRevision = 4
  Writers = {w1}
  Readers = {r1}
INVARIANTS
  ReadsNeverFail
