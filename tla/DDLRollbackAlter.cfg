SPECIFICATION Spec
CONSTANTS
  s1 = s1
  s2 = s2
  a = a
  b = b
  x = x
  y = y
  z = z
  i = i
  NoSchema = NoSchema
  Absent = Absent
  Schemas <- MCSchemas
  Names <- MCNames
  Columns <- MCColumns
  IndexNames <- MCIndexes
  Sources <- MCSources
  Statements <- MCAlters
  MaxStatements = 1
INVARIANTS
  RollbackRestores
