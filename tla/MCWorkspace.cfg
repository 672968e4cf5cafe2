SPECIFICATION MCSpec
CONSTANTS
  BlueprintIds = {t0, b1}
  EntityIds = {e1, e2}
  Names = {_team, a}
  EntityNames = {x}
  Keys = {parent}
  TeamId = t0
  TeamName = _team
  ParentKey = parent
  None = None
  Absent = Absent
  MaxBlueprints = 2
  MaxEntities = 2
  MaxRevision = 4
  Writers = {w1}
  Readers = {r1}
  Systems = {s1, s2}
  Components = {c1}
  Spellings = {1, 2}
  Rows = {1, 2, 3, 4, 5}
  MaxTotal = 3
  MaxDocuments = 3
  Edits <- SomeEdits
  MaxDisturbances = 2
  Clients = {c2, c3}
  FileNames = {f1, f2}
  Nil = Nil
  Ids = {1, 2}
  Bodies = {d1, d2}
  Orders = {o1, o2}
  Sources = {u1}
  MaxWrites = 2
INVARIANTS
  ReportsAreTrue
  HistoryAccountsForFiles
PROPERTIES
  ListsAreSnapshots
  NothingOverwritten
  RevisionsGuard
