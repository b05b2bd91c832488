--------------------------- MODULE MCBackupStore ---------------------------
(* Statements of at most three rollback records over three schemas, two of  *)
(* which share a backup database (backupDBName is not injective: it folds   *)
(* '-' and '.' into '_' and keeps 64 bytes).                                *)
EXTENDS BackupStore

MCBackupDBName == [a_b |-> "h_a_b", a_dash_b |-> "h_a_b", c |-> "h_c"]

MCRecords == [schema : {"a_b", "a_dash_b", "c"}, table : {"t", "u"}, hasSQL : {TRUE}]

MCOperations ==
  [schema : {"a_b"}, table : {"t", "NoTable"},
   rollbacks : UNION {[1 .. n -> MCRecords] : n \in 0 .. 3}]
=============================================================================
