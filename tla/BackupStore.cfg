SPECIFICATION Spec
CONSTANTS
  Operations <- MCOperations
  backupDBName <- MCBackupDBName
  NoTable = "NoTable"
INVARIANTS
  InfoRowMeansComplete
  RowsInOrder
PROPERTIES
  KeepsPromise
