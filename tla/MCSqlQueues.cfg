SPECIFICATION SqlSpec
CONSTANTS
  Mysql = {m1, m2}
  Script = script
  NoOne = NoOne
  MaxQueries = 3
INVARIANTS
  SqlTypeOK
  QueriesInOrder
PROPERTIES
  CallsReturn
