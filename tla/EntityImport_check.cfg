SPECIFICATION ImportSpec
CONSTANTS
  Systems = {s1}
  Components = {c1}
  Spellings = {1}
  Rows = {1, 2, 3}
  MaxTotal = 2
  MaxDocuments = 2
  Edits = {}
  MaxDisturbances = 0
  Absent = Absent
INVARIANTS
  OnlyMandatoryCyclesRefused
