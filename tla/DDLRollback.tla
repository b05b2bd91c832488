---------------------------- MODULE DDLRollback ----------------------------
(***************************************************************************)
(* DDL on the backup path: prepareDDLRollback writes the inverse of a       *)
(* statement before it is executed, and the inverses are kept in the backup *)
(* store.  To undo a batch an operator replays them as                      *)
(* testcases/manual-regression/MANUAL_TEST_GUIDE.md:176 says: the last      *)
(* statement first, and the records of one statement last first as well.    *)
(***************************************************************************)
EXTENDS Catalog

CONSTANTS Sources,      \* catalogs the target may start with
          Statements,   \* the DDL statements a batch may contain
          MaxStatements \* longest batch

ASSUME SourcesAssumption == Sources \subseteq Catalogs
ASSUME LengthAssumption == MaxStatements \in Nat

VARIABLES catalog,   \* the target
          origin,    \* the target before the batch (history)
          length,    \* statements executed
          undo,      \* the stored inverses still to be replayed
          phase      \* "run", then "undo", then "done"

vars == <<catalog, origin, length, undo, phase>>

Init ==
  /\ catalog \in Sources
  /\ origin = catalog
  /\ length = 0
  /\ undo = <<>>
  /\ phase = "run"

----------------------------------------------------------------------------
(* The audit that admitted the batch.  Module Snapshot shows that its view  *)
(* is, at each statement, the catalog the server has by then, but for       *)
(* indexes the parser does not project; no statement with an inverse uses   *)
(* one of those by name.                                                    *)
Audit == INSTANCE Snapshot
           WITH view <- catalog, target <- catalog, rejected <- FALSE, refused <- "none",
                database <- NoSchema, current <- NoSchema, doubt <- {}, hidden <- {}
Admitted(s) == Audit!PrepareDDL(catalog, s) /\ Audit!ApplyDDL(catalog, s).ok

(* No inverse: the statement is refused before it is executed.              *)
None == <<>>

(* The inverse of one ALTER operation.                                      *)
InverseOpForward(r, o) ==
  AlterTable(r, <<IF o.op = "ADD_COLUMN" THEN [op |-> "DROP_COLUMN", column |-> o.column] ELSE o>>)
InverseOp(r, o) ==
  AlterTable(r, <<
    CASE o.op = "ADD_COLUMN" -> [op |-> "DROP_COLUMN", column |-> o.column]
      [] o.op = "ADD_INDEX" -> [op |-> "DROP_INDEX", index |-> o.index]
      [] o.op = "RENAME_COLUMN" ->
           [op |-> "RENAME_COLUMN", column |-> o.newName, newName |-> o.column]>>)

Invertible(o) == o.op \in {"ADD_COLUMN", "ADD_INDEX", "RENAME_COLUMN"}

(* The operations DDLSpec has: the key of a column definition is not one.   *)
Projected(ops) == SelectSeq(ops, LAMBDA o : o.op # "COLUMN_KEY")

InverseOps(r, ops) == [i \in DOMAIN ops |-> InverseOp(r, ops[Len(ops) + 1 - i])]

(* SHOW CREATE TABLE names no schema; an operator replays its text in the   *)
(* schema of the record.                                                    *)
prepareDDLRollback(cat, s) ==
  CASE s.action = "CREATE_DATABASE" -> <<DropDatabase(s.schema, FALSE)>>
    [] s.action \in {"CREATE_TABLE", "CREATE_TABLE_LIKE"} -> <<DropTable(<<s.table>>, FALSE)>>
    [] s.action = "DROP_TABLE" /\ \A i \in DOMAIN s.tables : IsTable(cat, s.tables[i]) ->
         [i \in DOMAIN s.tables |->
            LET o == cat.objects[s.tables[i]]
            IN  CreateTable(s.tables[i], o.columns, o.indexes, NoIndexes, FALSE)]
    [] s.action = "RENAME_TABLE" ->
         [i \in DOMAIN s.pairs |->
            RenameTable(<<[from |-> s.pairs[i].to, to |-> s.pairs[i].from]>>)]
    [] s.action = "CREATE_INDEX" -> <<DropIndex(s.table, s.ops[1].index)>>
    [] s.action = "ALTER_TABLE" /\ \A i \in DOMAIN Projected(s.ops) : Invertible(Projected(s.ops)[i]) ->
         InverseOps(s.table, Projected(s.ops))
    [] OTHER -> None

----------------------------------------------------------------------------
(* One statement: its inverse is prepared, it is executed, and the inverse  *)
(* is saved.                                                                *)
Execute(s) ==
  /\ phase = "run"
  /\ length < MaxStatements
  /\ Admitted(s)
  /\ prepareDDLRollback(catalog, s) # None
  /\ Accepts(catalog, s)
  /\ catalog' = Effect(catalog, s)
  /\ undo' = undo \o prepareDDLRollback(catalog, s)
  /\ length' = length + 1
  /\ UNCHANGED <<origin, phase>>

(* prepareDDLRollback or the server refuses: the batch ends there, and what *)
(* was executed before it may be undone at any later time.                  *)
BatchEnds ==
  /\ phase = "run"
  /\ phase' = "undo"
  /\ UNCHANGED <<catalog, origin, length, undo>>

Replay ==
  /\ phase = "undo"
  /\ undo # <<>>
  /\ Accepts(catalog, Last(undo))
  /\ catalog' = Effect(catalog, Last(undo))
  /\ undo' = Front(undo)
  /\ UNCHANGED <<origin, length, phase>>

Undone ==
  /\ phase = "undo"
  /\ undo = <<>>
  /\ phase' = "done"
  /\ UNCHANGED <<catalog, origin, length, undo>>

Over ==
  /\ phase = "done"
  /\ UNCHANGED vars

Next == (\E s \in Statements : Execute(s)) \/ BatchEnds \/ Replay \/ Undone \/ Over

Spec == Init /\ [][Next]_vars

----------------------------------------------------------------------------
(* docs/PHASE_1_5: a rollback is generated only for DDL whose lossless      *)
(* inverse can be determined.  Hence the replay of a batch goes through and *)
(* leaves every object, with its columns, indexes and rows, as it was.      *)
RollbackRestores ==
  /\ phase = "undo" /\ undo # <<>> => Accepts(catalog, Last(undo))
  /\ phase = "done" => catalog = origin
=============================================================================
