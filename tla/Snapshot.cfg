SPECIFICATION Spec
CONSTANTS
  s1 = s1
  s2 = s2
  a = a
  b = b
  x = x
  y = y
  i = i
  j = j
  Absent = Absent
  NoSchema = NoSchema
  Schemas <- MCSchemas
  Names <- MCNames
  Columns <- MCColumns
  IndexNames <- MCIndexes
  Sources <- MCSources
  Statements <- MCStatements
  MaxStatements = 3
INVARIANTS
  TypeOK
  ViewMatchesTarget
  AdmittedDMLRuns
  IndexRulesJudgeResult
PROPERTIES
  RejectedChangesNothing
