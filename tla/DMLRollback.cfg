SPECIFICATION Spec
CONSTANTS
  k = k
  v = v
  Null = Null
  Expression = Expression
  Columns <- MCColumns
  Half = 1
  Tables <- MCTables
  Sources <- MCSources
  MaxChanges = 3
INVARIANTS
  RowsRestored
  AdmittedHasRollback
