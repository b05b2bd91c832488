---------------------------- MODULE BackupStore ----------------------------
(***************************************************************************)
(* Store.Save: the rollback records of one statement are grouped by backup  *)
(* database and each group is written in what the code opens as one         *)
(* transaction.  saveGroup creates its table inside that transaction, which *)
(* MySQL commits implicitly: the inserts that follow commit one by one.     *)
(* Any call may fail and the process may stop between any two.              *)
(***************************************************************************)
EXTENDS Naturals, Sequences, FiniteSetsExt

CONSTANTS Operations,   \* the backup.Operation values considered
          backupDBName, \* backup database of a source schema
          NoTable       \* the empty table name

(* Source schemas and backup databases; of SQL, Save only looks whether it  *)
(* is empty.                                                                *)
Schema == DOMAIN backupDBName
BackupDB == {backupDBName[s] : s \in Schema}
Record == [schema : Schema, table : STRING, hasSQL : BOOLEAN]

(* The engine names a table in every rollback record it makes (engine.go    *)
(* 147 and prepareDDLRollback); the statement itself may have none.         *)
ASSUME OperationsAssumption ==
  /\ Operations \subseteq [schema : Schema, table : STRING, rollbacks : Seq(Record)]
  /\ \A o \in Operations : \A k \in DOMAIN o.rollbacks : o.rollbacks[k].table # NoTable

VARIABLES
  op,       \* the Operation given to Save
  pc,       \* where Save stands
  todo,     \* groups of byDB not yet iterated
  db,       \* the group being written
  next,     \* records of the group before this position are handled
  first,    \* the first group iterated, returned on success
  inTx,     \* the server still has the transaction open
  pending,  \* its uncommitted writes
  rows,     \* rollback rows, in auto-increment order
  info,     \* rows of the information tables
  answer    \* what Save returned

vars == <<op, pc, todo, db, next, first, inTx, pending, rows, info, answer>>
callVars == <<op, todo, db, next, first>>
storeVars == <<rows, info>>

NoDB == "none"
NoWrites == [rows |-> <<>>, info |-> {}]

(* A statement without rollback records is saved as one record without SQL. *)
Rollbacks ==
  IF op.rollbacks = <<>>
  THEN <<[schema |-> op.schema, table |-> op.table, hasSQL |-> FALSE]>>
  ELSE op.rollbacks

Groups == {backupDBName[Rollbacks[k].schema] : k \in DOMAIN Rollbacks}

(* byDB[d], as positions in Rollbacks: append keeps their order.            *)
Group(d) == {k \in DOMAIN Rollbacks : backupDBName[Rollbacks[k].schema] = d}

(* The table of the group's first record that names one. *)
storageTable(d) ==
  LET named == {k \in Group(d) : Rollbacks[k].table # NoTable}
  IN  IF named = {} THEN NoTable ELSE Rollbacks[Min(named)].table

RollbackRow(d, k) == [db |-> d, table |-> storageTable(d), record |-> k]
InfoRow(d) == [db |-> d, table |-> Rollbacks[Min(Group(d))].table]

Init ==
  /\ op \in Operations
  /\ pc = "iterate"
  /\ todo = Groups
  /\ db = NoDB
  /\ next = 1
  /\ first = NoDB
  /\ inTx = FALSE
  /\ pending = NoWrites
  /\ rows = <<>>
  /\ info = {}
  /\ answer = "none"

----------------------------------------------------------------------------
(* The backup server. *)

CommitPending ==
  /\ rows' = rows \o pending.rows
  /\ info' = info \cup pending.info
  /\ pending' = NoWrites
  /\ inTx' = FALSE

WriteRow(r) ==
  IF inTx
  THEN pending' = [pending EXCEPT !.rows = Append(@, r)] /\ UNCHANGED storeVars
  ELSE rows' = Append(rows, r) /\ UNCHANGED <<pending, info>>

WriteInfo(r) ==
  IF inTx
  THEN pending' = [pending EXCEPT !.info = @ \cup {r}] /\ UNCHANGED storeVars
  ELSE info' = info \cup {r} /\ UNCHANGED <<pending, rows>>

DropPending == pending' = NoWrites /\ inTx' = FALSE /\ UNCHANGED storeVars

----------------------------------------------------------------------------
(* Save. *)

Return(a) == answer' = a /\ pc' = "done"

(* range byDB: Go iterates a map in any order. *)
NextGroupKeepsIndex ==
  /\ pc = "iterate"
  /\ \/ \E d \in todo :
           /\ todo' = todo \ {d}
           /\ db' = d
           /\ first' = IF first = NoDB THEN d ELSE first
           /\ pc' = "ensure"
           /\ UNCHANGED <<next, answer>>
     \/ /\ todo = {}
        /\ Return("ok")
        /\ UNCHANGED <<todo, db, first, next>>
  /\ UNCHANGED <<op, inTx, pending, storeVars>>
NextGroup ==
  /\ pc = "iterate"
  /\ \/ \E d \in todo :
           /\ todo' = todo \ {d}
           /\ db' = d
           /\ first' = IF first = NoDB THEN d ELSE first
           /\ next' = 1
           /\ pc' = "ensure"
           /\ UNCHANGED answer
     \/ /\ todo = {}
        /\ Return("ok")
        /\ UNCHANGED <<todo, db, first, next>>
  /\ UNCHANGED <<op, inTx, pending, storeVars>>

(* ensureSchema: both statements are IF NOT EXISTS. *)
ensureSchema ==
  /\ pc = "ensure"
  /\ \/ pc' = "begin" /\ UNCHANGED answer
     \/ Return("error")
  /\ UNCHANGED <<callVars, inTx, pending, storeVars>>

BeginTx ==
  /\ pc = "begin"
  /\ \/ /\ pc' = "table"
        /\ inTx' = TRUE
        /\ UNCHANGED answer
     \/ /\ Return("error")
        /\ UNCHANGED inTx
  /\ UNCHANGED <<callVars, pending, storeVars>>

(* CREATE TABLE IF NOT EXISTS, skipped when no record names a table.        *)
CreateTable ==
  /\ pc = "table"
  /\ pc' = "rows"
  /\ IF storageTable(db) = NoTable
     THEN UNCHANGED <<inTx, pending, storeVars>>
     ELSE CommitPending
  /\ UNCHANGED <<callVars, answer>>

(* range records: the next one of the group. *)
Remaining == {k \in Group(db) : k >= next}
InsertRowStep(n) ==
  /\ pc = "rows"
  /\ Remaining # {}
  /\ LET k == Min(Remaining)
     IN  /\ Rollbacks[k].hasSQL => storageTable(db) # NoTable
         /\ IF Rollbacks[k].hasSQL THEN WriteRow(RollbackRow(db, k))
            ELSE UNCHANGED <<pending, storeVars>>
         /\ next' = k + n
  /\ UNCHANGED <<op, pc, todo, db, first, inTx, answer>>
InsertRowRetried == \E n \in 0 .. 1 : InsertRowStep(n)
InsertRow == InsertRowStep(1)

InsertInfoEarly ==
  /\ pc = "rows"
  /\ WriteInfo(InfoRow(db))
  /\ pc' = "commit"
  /\ UNCHANGED <<callVars, inTx, answer>>
InsertInfo ==
  /\ pc = "rows"
  /\ Remaining = {}
  /\ WriteInfo(InfoRow(db))
  /\ pc' = "commit"
  /\ UNCHANGED <<callVars, inTx, answer>>

(* Any statement of saveGroup fails (its effect may still have happened),   *)
(* and Save rolls back whatever transaction is left.                        *)
saveGroupFails ==
  /\ pc \in {"table", "rows"}
  /\ DropPending
  /\ Return("error")
  /\ UNCHANGED callVars

Commit ==
  /\ pc = "commit"
  /\ CommitPending
  /\ \/ pc' = "iterate" /\ UNCHANGED answer
     \/ Return("error")
  /\ UNCHANGED callVars

(* The commit is lost with the connection. *)
CommitFails ==
  /\ pc = "commit"
  /\ DropPending
  /\ Return("error")
  /\ UNCHANGED callVars

(* The process ends; the server rolls an open transaction back.             *)
Crash ==
  /\ pc # "done"
  /\ DropPending
  /\ Return("crashed")
  /\ UNCHANGED callVars

Returned == pc = "done" /\ UNCHANGED vars

Next ==
  \/ NextGroup \/ ensureSchema \/ BeginTx \/ CreateTable \/ InsertRow \/ InsertInfo
  \/ saveGroupFails \/ Commit \/ CommitFails \/ Crash \/ Returned

Spec == Init /\ [][Next]_vars

----------------------------------------------------------------------------
StoredRow(r) == \E i \in DOMAIN rows : rows[i] = r

(* The group can be found through its information row and is all there.     *)
Retrievable(d) ==
  /\ InfoRow(d) \in info
  /\ \A k \in Group(d) :
       Rollbacks[k].hasSQL => StoredRow([db |-> d, table |-> InfoRow(d).table, record |-> k])

TypeOK ==
  /\ op \in Operations
  /\ pc \in {"iterate", "ensure", "begin", "table", "rows", "commit", "done"}
  /\ todo \subseteq BackupDB
  /\ db \in BackupDB \cup {NoDB}
  /\ first \in BackupDB \cup {NoDB}
  /\ next \in 1 .. Len(Rollbacks) + 1
  /\ inTx \in BOOLEAN
  /\ answer \in {"none", "ok", "error", "crashed"}

(* However the save ends, and at every moment in between, a reader who      *)
(* finds an information row finds the whole rollback of its group in the    *)
(* table that row names: rows come first, although nothing but their order  *)
(* protects them once CREATE TABLE has ended the transaction.               *)
InfoRowMeansComplete ==
  \A r \in info : Retrievable(r.db)

(* The rows of one statement are stored once and in the order the engine    *)
(* produced them, which is the order a replay relies on.                    *)
RowsInOrder ==
  \A i, j \in DOMAIN rows :
     (i < j /\ rows[i].db = rows[j].db) => rows[i].record < rows[j].record

(* Save keeps the promise the engine relies on.                             *)
complete == \A d \in Groups : Retrievable(d)
Promise == INSTANCE SavePromise
KeepsPromise == Promise!Spec
=============================================================================
