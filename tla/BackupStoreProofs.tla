------------------------- MODULE BackupStoreProofs -------------------------
(***************************************************************************)
(* Proofs about BackupStore, for statements with any number of rollback     *)
(* records over any schemas, and for any mapping of schemas to backup       *)
(* databases: its invariants, and that it implements SavePromise.           *)
(***************************************************************************)
EXTENDS BackupStore, TLAPS, SequenceTheorems, WellFoundedInduction

Row == [db : BackupDB, table : STRING, record : Nat]

(* Between NextGroup and the return of Commit. *)
Busy == {"ensure", "begin", "table", "rows", "commit"}

(* The records of a group before a position, or all of them, are stored.    *)
WrittenTo(d, n) ==
  \A k \in Group(d) : k < n /\ Rollbacks[k].hasSQL => StoredRow(RollbackRow(d, k))
Written(d) ==
  \A k \in Group(d) : Rollbacks[k].hasSQL => StoredRow(RollbackRow(d, k))

(* Rows belong to groups that have been started, and to records already     *)
(* handled; an information row has the whole group before it.               *)
StoreInv ==
  /\ rows \in Seq(Row)
  /\ \A i \in DOMAIN rows :
       /\ rows[i].db \notin todo
       /\ pc \in Busy /\ rows[i].db = db => rows[i].record < next
  /\ \A r \in info : r = InfoRow(r.db) /\ Written(r.db)

(* A transaction is open in the table step, and later only in a group that  *)
(* has no table, and so no row to write; all it can hold is the information *)
(* row.                                                                     *)
TxInv ==
  /\ inTx => pc \in {"table", "rows", "commit"}
  /\ pc \in {"rows", "commit"} /\ inTx => storageTable(db) = NoTable
  /\ \/ pending = NoWrites
     \/ pc = "commit" /\ inTx /\ pending = [rows |-> <<>>, info |-> {InfoRow(db)}]

(* The groups iterated are retrievable, the current one up to next.         *)
CallInv ==
  /\ todo \subseteq Groups
  /\ pc # "done" => answer = "none"
  /\ pc \in Busy => db \in Groups \ todo /\ WrittenTo(db, next)
  /\ pc = "commit" => Remaining = {} /\ InfoRow(db) \in info \cup pending.info
  /\ pc # "done" => \A d \in Groups \ todo : (pc \in Busy /\ d = db) \/ Retrievable(d)
  /\ answer = "ok" => complete

IInv == TypeOK /\ StoreInv /\ TxInv /\ CallInv /\ RowsInOrder

----------------------------------------------------------------------------
(* The first of some positions.                                             *)
LEMMA MinFacts ==
  ASSUME NEW S, S \subseteq Nat, S # {}
  PROVE  Min(S) \in S /\ \A y \in S : Min(S) <= y
<1>1. PICK x \in S : \A y \in S : ~ (<<y, x>> \in OpToRel(<, Nat))
  BY WFMin, NatLessThanWellFounded
<1>2. \A y \in S : x <= y
  <2> TAKE y \in S
  <2>1. x \in Nat /\ y \in Nat
    OBVIOUS
  <2>2. ~ (y < x)
    BY <1>1, <2>1 DEF OpToRel
  <2> QED  BY <2>1, <2>2
<1> QED  BY <1>2 DEF Min

(* The records Save writes, and the groups they form.                       *)
LEMMA RecordFacts ==
  ASSUME op \in Operations
  PROVE  /\ Rollbacks \in Seq(Record) /\ Len(Rollbacks) \in Nat \ {0}
         /\ \A k \in DOMAIN Rollbacks :
              Rollbacks[k] \in Record /\ (Rollbacks[k].hasSQL => Rollbacks[k].table # NoTable)
         /\ op.rollbacks # <<>> => \A k \in DOMAIN Rollbacks : Rollbacks[k].table # NoTable
         /\ op.rollbacks = <<>> => \A k \in DOMAIN Rollbacks : Rollbacks[k].hasSQL = FALSE
<1>1. /\ op.schema \in Schema /\ op.table \in STRING /\ op.rollbacks \in Seq(Record)
      /\ \A k \in DOMAIN op.rollbacks : op.rollbacks[k].table # NoTable
  BY OperationsAssumption
<1>2. CASE op.rollbacks = <<>>
  <2> DEFINE r == [schema |-> op.schema, table |-> op.table, hasSQL |-> FALSE]
  <2>1. r \in Record /\ r.hasSQL = FALSE
    BY <1>1 DEF Record
  <2>2. Rollbacks = <<r>>
    BY <1>2 DEF Rollbacks
  <2> HIDE DEF r
  <2> QED  BY <1>2, <2>1, <2>2
<1>3. CASE op.rollbacks # <<>>
  <2>1. Rollbacks = op.rollbacks
    BY <1>3 DEF Rollbacks
  <2> QED  BY <1>1, <1>3, <2>1
<1> QED  BY <1>2, <1>3

LEMMA GroupFacts ==
  ASSUME op \in Operations, NEW d
  PROVE  /\ Group(d) \subseteq 1 .. Len(Rollbacks) /\ Group(d) \subseteq Nat
         /\ d \in Groups <=> Group(d) # {}
         /\ Groups \subseteq BackupDB /\ Groups # {}
<1>1. DOMAIN Rollbacks = 1 .. Len(Rollbacks) /\ Len(Rollbacks) \in Nat \ {0}
  BY RecordFacts
<1>2. Group(d) \subseteq 1 .. Len(Rollbacks) /\ Group(d) \subseteq Nat
  BY <1>1 DEF Group
<1>3. d \in Groups <=> Group(d) # {}
  BY DEF Group, Groups
<1>4. \A k \in DOMAIN Rollbacks : Rollbacks[k].schema \in Schema
  BY RecordFacts DEF Record
<1>5. Groups \subseteq BackupDB
  BY <1>4 DEF Groups, BackupDB
<1>6. 1 \in DOMAIN Rollbacks
  BY <1>1
<1>7. Groups # {}
  BY <1>6 DEF Groups
<1> QED  BY <1>2, <1>3, <1>5, <1>7

(* The rows of a group are stored in the table its information row names.   *)
LEMMA TableFacts ==
  ASSUME op \in Operations, NEW d, NEW k \in Group(d), Rollbacks[k].hasSQL
  PROVE  /\ storageTable(d) = InfoRow(d).table
         /\ storageTable(d) # NoTable
         /\ RollbackRow(d, k) \in Row
         /\ RollbackRow(d, k) = [db |-> d, table |-> InfoRow(d).table, record |-> k]
<1> DEFINE named == {j \in Group(d) : Rollbacks[j].table # NoTable}
<1>1. \A j \in DOMAIN Rollbacks : Rollbacks[j].table # NoTable
  <2>1. k \in DOMAIN Rollbacks
    BY DEF Group
  <2> QED  BY <2>1, RecordFacts
<1>2. named = Group(d)
  BY <1>1 DEF Group
<1>3. storageTable(d) = Rollbacks[Min(Group(d))].table
  BY <1>2 DEF storageTable
<1>4. Min(Group(d)) \in Group(d)
  BY GroupFacts, MinFacts
<1>5. Min(Group(d)) \in DOMAIN Rollbacks /\ Rollbacks[Min(Group(d))] \in Record
  BY <1>4, RecordFacts DEF Group
<1>6. storageTable(d) \in STRING /\ d \in BackupDB /\ k \in Nat
  BY <1>3, <1>5, GroupFacts DEF Record
<1> QED  BY <1>1, <1>3, <1>5, <1>6 DEF RollbackRow, InfoRow, Row

LEMMA RetrievableFacts ==
  ASSUME op \in Operations, NEW d
  PROVE  Retrievable(d) <=> InfoRow(d) \in info /\ Written(d)
<1>1. \A k \in Group(d) : Rollbacks[k].hasSQL =>
        RollbackRow(d, k) = [db |-> d, table |-> InfoRow(d).table, record |-> k]
  BY TableFacts
<1> QED  BY <1>1 DEF Retrievable, Written

(* The statement does not change while it is saved.                         *)
LEMMA SameOperation ==
  ASSUME op' = op
  PROVE  /\ Rollbacks' = Rollbacks /\ Groups' = Groups
         /\ \A d : /\ Group(d)' = Group(d) /\ storageTable(d)' = storageTable(d)
                   /\ InfoRow(d)' = InfoRow(d) /\ \A k : RollbackRow(d, k)' = RollbackRow(d, k)
<1>1. Rollbacks' = Rollbacks
  BY DEF Rollbacks
<1>2. Groups' = Groups /\ \A d : Group(d)' = Group(d)
  BY <1>1 DEF Groups, Group
<1>3. \A d : storageTable(d)' = storageTable(d) /\ InfoRow(d)' = InfoRow(d)
  BY <1>1, <1>2 DEF storageTable, InfoRow
<1> QED  BY <1>1, <1>2, <1>3 DEF RollbackRow

(* What is stored stays stored.                                             *)
LEMMA StoreGrows ==
  ASSUME op \in Operations, op' = op, rows \in Seq(Row),
         rows' = rows \/ (\E r \in Row : rows' = Append(rows, r)), info \subseteq info'
  PROVE  /\ rows' \in Seq(Row)
         /\ \A r : StoredRow(r) => StoredRow(r)'
         /\ \A d : Written(d) => Written(d)'
         /\ \A d, n : WrittenTo(d, n) => WrittenTo(d, n)'
         /\ \A d : Retrievable(d) => Retrievable(d)'
         /\ complete => complete'
<1>1. rows' \in Seq(Row) /\ \A i \in DOMAIN rows : i \in DOMAIN rows' /\ rows'[i] = rows[i]
  <2>1. CASE rows' = rows
    BY <2>1
  <2>2. CASE \E r \in Row : rows' = Append(rows, r)
    <3>1. PICK r \in Row : rows' = Append(rows, r)
      BY <2>2
    <3> QED  BY <3>1
  <2> QED  BY <2>1, <2>2
<1>2. \A r : StoredRow(r) => StoredRow(r)'
  BY <1>1 DEF StoredRow
<1>3. \A d : Written(d) => Written(d)'
  BY <1>2, SameOperation DEF Written
<1>4. \A d, n : WrittenTo(d, n) => WrittenTo(d, n)'
  BY <1>2, SameOperation DEF WrittenTo
<1>5. \A d : Retrievable(d) => Retrievable(d)'
  <2> SUFFICES ASSUME NEW d, Retrievable(d) PROVE Retrievable(d)'
    OBVIOUS
  <2>1. InfoRow(d)' \in info' /\ InfoRow(d)' = InfoRow(d)
    BY SameOperation DEF Retrievable
  <2>2. \A k \in Group(d) : Rollbacks[k].hasSQL =>
          \E i \in DOMAIN rows' : rows'[i] = [db |-> d, table |-> InfoRow(d).table, record |-> k]
    BY <1>1 DEF Retrievable, StoredRow
  <2>3. Group(d)' = Group(d) /\ Rollbacks' = Rollbacks
    BY SameOperation
  <2> QED  BY <2>1, <2>2, <2>3 DEF Retrievable, StoredRow
<1>6. complete => complete'
  BY <1>5, SameOperation DEF complete
<1> QED  BY <1>1, <1>2, <1>3, <1>4, <1>5, <1>6

LEMMA InitInv == Init => IInv
<1> SUFFICES ASSUME Init PROVE IInv
  OBVIOUS
<1>1. op \in Operations /\ Groups \subseteq BackupDB /\ Len(Rollbacks) \in Nat \ {0}
  BY GroupFacts, RecordFacts DEF Init
<1>2. TypeOK
  <2>1. 1 \in 1 .. Len(Rollbacks) + 1
    BY <1>1
  <2> QED  BY <1>1, <2>1 DEF Init, TypeOK
<1>3. StoreInv /\ TxInv /\ RowsInOrder
  BY DEF Init, StoreInv, TxInv, RowsInOrder, Busy
<1>4. CallInv
  BY DEF Init, CallInv, Busy
<1> QED  BY <1>2, <1>3, <1>4 DEF IInv

(* Every way in which Save ends without success.                            *)
LEMMA FailStep ==
  ASSUME IInv, UNCHANGED <<callVars, storeVars>>, pc' = "done", answer' \in {"error", "crashed"},
         inTx' = FALSE, pending' = NoWrites
  PROVE  IInv'
<1>1. /\ UNCHANGED <<op, todo, db, next, first, rows, info>>
      /\ op \in Operations /\ Rollbacks' = Rollbacks /\ Groups' = Groups /\ \A d : InfoRow(d)' = InfoRow(d)
  BY SameOperation DEF callVars, storeVars, IInv, TypeOK
<1>2. TypeOK'
  BY <1>1 DEF IInv, TypeOK
<1>3. \A d : Written(d) => Written(d)'
  BY <1>1, StoreGrows DEF IInv, StoreInv
<1>4. StoreInv'
  BY <1>1, <1>3 DEF IInv, StoreInv, Busy
<1>5. TxInv'
  BY DEF TxInv
<1>6. CallInv'
  BY <1>1 DEF IInv, CallInv, Busy
<1>7. RowsInOrder'
  BY <1>1 DEF IInv, RowsInOrder
<1> QED  BY <1>2, <1>4, <1>5, <1>6, <1>7 DEF IInv

(* Save goes on to its next group, or has written them all.                 *)
LEMMA NextGroupStep ==
  ASSUME IInv, NextGroup
  PROVE  IInv'
<1>1. /\ pc = "iterate" /\ UNCHANGED <<op, inTx, pending, rows, info>> /\ op \in Operations
      /\ Rollbacks' = Rollbacks /\ Groups' = Groups /\ \A d : InfoRow(d)' = InfoRow(d)
      /\ \A d : Group(d)' = Group(d)
  BY SameOperation DEF NextGroup, storeVars, IInv, TypeOK
<1>2. /\ \A d : Written(d) => Written(d)'
      /\ \A d : Retrievable(d) => Retrievable(d)'
      /\ complete => complete'
  BY <1>1, StoreGrows DEF IInv, StoreInv
<1>3. Len(Rollbacks) \in Nat \ {0} /\ Groups \subseteq BackupDB /\ \A d : Group(d) \subseteq 1 .. Len(Rollbacks)
  BY <1>1, RecordFacts, GroupFacts
<1>4. ~inTx /\ pending = NoWrites /\ \A d \in Groups \ todo : Retrievable(d)
  BY <1>1 DEF IInv, TxInv, CallInv, TypeOK, Busy
<1>5. TxInv'
  BY <1>1, <1>4 DEF TxInv
<1>6. RowsInOrder'
  BY <1>1 DEF IInv, RowsInOrder
<1>7. CASE todo = {} /\ Return("ok") /\ UNCHANGED <<todo, db, first, next>>
  <2>1. TypeOK' /\ StoreInv'
    BY <1>1, <1>2, <1>7 DEF IInv, TypeOK, StoreInv, Return, Busy
  <2>2. complete
    BY <1>4, <1>7 DEF complete
  <2>3. CallInv'
    BY <1>1, <1>2, <1>7, <2>2 DEF IInv, CallInv, Return, Busy
  <2> QED  BY <1>5, <1>6, <2>1, <2>3 DEF IInv
<1>8. ASSUME NEW d \in todo, todo' = todo \ {d}, db' = d, first' = IF first = NoDB THEN d ELSE first,
             next' = 1, pc' = "ensure", answer' = answer
      PROVE  IInv'
  <2>1. d \in Groups /\ d \in BackupDB
    BY <1>3 DEF IInv, CallInv
  <2>2. TypeOK'
    BY <1>1, <1>3, <1>8, <2>1 DEF IInv, TypeOK
  <2>3. StoreInv'
    <3>1. \A i \in DOMAIN rows : rows[i].db \notin todo
      BY DEF IInv, StoreInv
    <3> QED  BY <1>1, <1>2, <1>8, <3>1 DEF IInv, StoreInv
  <2>4. WrittenTo(db, next)'
    BY <1>1, <1>3, <1>8 DEF WrittenTo
  <2>5. CallInv'
    BY <1>1, <1>2, <1>4, <1>8, <2>1, <2>4 DEF IInv, CallInv, Busy
  <2> QED  BY <1>5, <1>6, <2>2, <2>3, <2>5 DEF IInv
<1> QED  BY <1>7, <1>8 DEF NextGroup

(* Save moves on within its group and writes nothing.                       *)
LEMMA MoveStep ==
  ASSUME IInv, UNCHANGED <<callVars, storeVars, answer>>, inTx' \in BOOLEAN, TxInv',
         pc \in {"ensure", "begin", "table"}, pc' \in {"begin", "table", "rows"}
  PROVE  IInv'
<1>1. /\ UNCHANGED <<op, todo, db, next, first, rows, info, answer>> /\ op \in Operations
      /\ Rollbacks' = Rollbacks /\ Groups' = Groups /\ \A d : InfoRow(d)' = InfoRow(d)
  BY SameOperation DEF callVars, storeVars, IInv, TypeOK
<1>2. TypeOK'
  BY <1>1 DEF IInv, TypeOK
<1>3. /\ \A d : Written(d) => Written(d)'
      /\ \A d, n : WrittenTo(d, n) => WrittenTo(d, n)'
      /\ \A d : Retrievable(d) => Retrievable(d)'
  BY <1>1, StoreGrows DEF IInv, StoreInv
<1>4. StoreInv'
  BY <1>1, <1>3 DEF IInv, StoreInv, Busy
<1>5. WrittenTo(db, next)'
  BY <1>1, <1>3 DEF IInv, CallInv, Busy, WrittenTo
<1>6. CallInv'
  BY <1>1, <1>3, <1>5 DEF IInv, CallInv, Busy
<1>7. RowsInOrder'
  BY <1>1 DEF IInv, RowsInOrder
<1> QED  BY <1>2, <1>4, <1>6, <1>7 DEF IInv

LEMMA ensureSchemaStep ==
  ASSUME IInv, ensureSchema
  PROVE  IInv'
<1>1. pc = "ensure" /\ UNCHANGED <<callVars, storeVars, inTx, pending>> /\ ~inTx /\ inTx \in BOOLEAN /\ pending = NoWrites
  BY DEF ensureSchema, IInv, TypeOK, TxInv
<1>2. CASE pc' = "begin" /\ UNCHANGED answer
  <2>1. TxInv'
    BY <1>1, <1>2 DEF TxInv
  <2> QED  BY <1>1, <1>2, <2>1, MoveStep
<1>3. CASE Return("error")
  BY <1>1, <1>3, FailStep DEF Return
<1> QED  BY <1>2, <1>3 DEF ensureSchema

LEMMA BeginTxStep ==
  ASSUME IInv, BeginTx
  PROVE  IInv'
<1>1. pc = "begin" /\ UNCHANGED <<callVars, storeVars, pending>> /\ ~inTx /\ inTx \in BOOLEAN /\ pending = NoWrites
  BY DEF BeginTx, IInv, TypeOK, TxInv
<1>2. CASE pc' = "table" /\ inTx' = TRUE /\ UNCHANGED answer
  <2>1. TxInv'
    BY <1>1, <1>2 DEF TxInv
  <2> QED  BY <1>1, <1>2, <2>1, MoveStep
<1>3. CASE Return("error") /\ UNCHANGED inTx
  BY <1>1, <1>3, FailStep DEF Return
<1> QED  BY <1>2, <1>3 DEF BeginTx

(* The implicit commit finds nothing to commit.                             *)
LEMMA CreateTableStep ==
  ASSUME IInv, CreateTable
  PROVE  IInv'
<1>1. /\ pc = "table" /\ pc' = "rows" /\ UNCHANGED <<callVars, answer>> /\ pending = NoWrites
      /\ rows \in Seq(Row) /\ inTx \in BOOLEAN
  BY DEF CreateTable, IInv, TypeOK, TxInv, StoreInv
<1>2. db' = db /\ storageTable(db)' = storageTable(db)
  BY <1>1, SameOperation DEF callVars
<1>3. CASE storageTable(db) = NoTable
  <2>1. UNCHANGED <<inTx, pending, storeVars>>
    BY <1>3 DEF CreateTable
  <2>2. TxInv'
    BY <1>1, <1>2, <1>3, <2>1 DEF TxInv
  <2> QED  BY <1>1, <2>1, <2>2, MoveStep
<1>4. CASE storageTable(db) # NoTable
  <2>1. rows' = rows \o <<>> /\ info' = info \cup {} /\ pending' = NoWrites /\ inTx' = FALSE
    BY <1>1, <1>4 DEF CreateTable, CommitPending, NoWrites
  <2>2. UNCHANGED storeVars
    BY <1>1, <2>1, ConcatEmptySeq DEF storeVars
  <2>3. TxInv'
    BY <2>1 DEF TxInv
  <2> QED  BY <1>1, <2>1, <2>2, <2>3, MoveStep
<1> QED  BY <1>3, <1>4

(* One record of the group: its row goes behind those of the records before *)
(* it.                                                                      *)
LEMMA InsertRowFacts ==
  ASSUME IInv, InsertRow
  PROVE  \E k \in Remaining :
           /\ \A j \in Remaining : k <= j
           /\ next' = k + 1
           /\ UNCHANGED <<op, pc, todo, db, first, inTx, pending, info, answer>>
           /\ \/ ~Rollbacks[k].hasSQL /\ rows' = rows
              \/ Rollbacks[k].hasSQL /\ ~inTx /\ RollbackRow(db, k) \in Row /\ rows' = Append(rows, RollbackRow(db, k))
<1> DEFINE k == Min(Remaining)
<1>1. op \in Operations /\ pc = "rows" /\ Remaining # {}
  BY DEF InsertRow, InsertRowStep, IInv, TypeOK
<1>2. Remaining \subseteq Nat /\ Remaining \subseteq Group(db)
  BY <1>1, GroupFacts DEF Remaining
<1>3. k \in Remaining /\ \A j \in Remaining : k <= j
  BY <1>1, <1>2, MinFacts
<1>4. /\ Rollbacks[k].hasSQL => storageTable(db) # NoTable
      /\ IF Rollbacks[k].hasSQL THEN WriteRow(RollbackRow(db, k)) ELSE UNCHANGED <<pending, storeVars>>
      /\ next' = k + 1 /\ UNCHANGED <<op, pc, todo, db, first, inTx, answer>>
  BY DEF InsertRow, InsertRowStep
<1> HIDE DEF k
<1>5. CASE ~Rollbacks[k].hasSQL
  BY <1>3, <1>4, <1>5 DEF storeVars
<1>6. CASE Rollbacks[k].hasSQL
  <2>1. ~inTx
    BY <1>1, <1>4, <1>6 DEF IInv, TxInv
  <2>2. rows' = Append(rows, RollbackRow(db, k)) /\ UNCHANGED <<pending, info>>
    BY <1>4, <1>6, <2>1 DEF WriteRow
  <2>3. RollbackRow(db, k) \in Row
    BY <1>1, <1>2, <1>3, <1>6, TableFacts
  <2> QED  BY <1>3, <1>4, <1>6, <2>1, <2>2, <2>3
<1> QED  BY <1>5, <1>6

LEMMA InsertRowInv ==
  ASSUME IInv, InsertRow
  PROVE  IInv'
<1>1. PICK k \in Remaining :
           /\ \A j \in Remaining : k <= j
           /\ next' = k + 1
           /\ UNCHANGED <<op, pc, todo, db, first, inTx, pending, info, answer>>
           /\ \/ ~Rollbacks[k].hasSQL /\ rows' = rows
              \/ Rollbacks[k].hasSQL /\ ~inTx /\ RollbackRow(db, k) \in Row /\ rows' = Append(rows, RollbackRow(db, k))
  BY InsertRowFacts
<1>2. op \in Operations /\ pc = "rows" /\ rows \in Seq(Row) /\ Len(Rollbacks) \in Nat /\ next \in Nat
  BY RecordFacts DEF InsertRow, InsertRowStep, IInv, TypeOK, StoreInv
<1>3. /\ Rollbacks' = Rollbacks /\ Groups' = Groups
      /\ \A d : Group(d)' = Group(d) /\ InfoRow(d)' = InfoRow(d) /\ storageTable(d)' = storageTable(d)
      /\ \A d, j : RollbackRow(d, j)' = RollbackRow(d, j)
  BY <1>1, SameOperation
<1>4. k \in Group(db) /\ k >= next /\ k \in 1 .. Len(Rollbacks) /\ k \in Nat
  BY <1>2, GroupFacts DEF Remaining
<1>5. /\ rows' \in Seq(Row)
      /\ \A r : StoredRow(r) => StoredRow(r)'
      /\ \A d : Written(d) => Written(d)'
      /\ \A d : Retrievable(d) => Retrievable(d)'
      /\ complete => complete'
  BY <1>1, <1>2, StoreGrows
<1>6. ASSUME NEW i \in DOMAIN rows'
      PROVE  \/ i \in DOMAIN rows /\ rows'[i] = rows[i]
             \/ i = Len(rows) + 1 /\ rows'[i] = RollbackRow(db, k)
  <2>1. CASE rows' = rows
    BY <2>1
  <2>2. CASE RollbackRow(db, k) \in Row /\ rows' = Append(rows, RollbackRow(db, k))
    BY <1>2, <2>2
  <2> QED  BY <1>1, <2>1, <2>2
<1>7. ASSUME NEW i \in DOMAIN rows
      PROVE  rows[i].db \notin todo /\ rows[i].record \in Nat /\ (rows[i].db = db => rows[i].record < next)
  <2>1. rows[i] \in Row
    BY <1>2
  <2>2. rows[i].db \notin todo /\ (rows[i].db = db => rows[i].record < next)
    BY <1>2 DEF IInv, StoreInv, Busy
  <2> QED  BY <2>1, <2>2 DEF Row
<1>8. RollbackRow(db, k).db = db /\ RollbackRow(db, k).record = k
  BY DEF RollbackRow
<1>9. TypeOK'
  BY <1>1, <1>2, <1>3, <1>4 DEF IInv, TypeOK
<1>10. StoreInv'
  <2>1. ASSUME NEW i \in DOMAIN rows' PROVE rows'[i].db \notin todo /\ (rows'[i].db = db => rows'[i].record < k + 1)
    <3>1. db \notin todo
      BY <1>2 DEF IInv, CallInv, Busy
    <3> QED  BY <1>2, <1>4, <1>6, <1>7, <1>8, <3>1
  <2>2. \A r \in info : r = InfoRow(r.db)' /\ Written(r.db)'
    <3>1. \A r \in info : r = InfoRow(r.db) /\ Written(r.db)
      BY DEF IInv, StoreInv
    <3> QED  BY <1>3, <1>5, <3>1
  <2> QED  BY <1>1, <1>5, <2>1, <2>2 DEF StoreInv
<1>11. TxInv'
  BY <1>1, <1>2, <1>3 DEF IInv, TxInv
<1>12. WrittenTo(db, next)'
  <2> SUFFICES ASSUME NEW j \in Group(db), j < k + 1, Rollbacks[j].hasSQL PROVE StoredRow(RollbackRow(db, j))'
    BY <1>1, <1>3 DEF WrittenTo
  <2>1. j \in Nat
    BY <1>2, GroupFacts
  <2>2. CASE j < next
    <3>1. StoredRow(RollbackRow(db, j))
      BY <1>2, <2>2 DEF IInv, CallInv, Busy, WrittenTo
    <3> QED  BY <1>1, <1>3, <1>5, <3>1 DEF StoredRow
  <2>3. CASE j >= next
    <3>1. j = k
      BY <1>1, <1>4, <2>1, <2>3 DEF Remaining
    <3>2. Len(rows) + 1 \in DOMAIN rows' /\ rows'[Len(rows) + 1] = RollbackRow(db, j)
      BY <1>1, <1>2, <3>1
    <3> QED  BY <1>1, <1>3, <3>2 DEF StoredRow
  <2> QED  BY <1>2, <2>1, <2>2, <2>3
<1>13. CallInv'
  BY <1>1, <1>2, <1>3, <1>5, <1>12 DEF IInv, CallInv, Busy
<1>14. RowsInOrder'
  <2> SUFFICES ASSUME NEW i \in DOMAIN rows', NEW j \in DOMAIN rows', i < j, rows'[i].db = rows'[j].db
               PROVE  rows'[i].record < rows'[j].record
    BY DEF RowsInOrder
  <2>1. i \in DOMAIN rows /\ rows'[i] = rows[i]
    BY <1>2, <1>5, <1>6
  <2>2. CASE j \in DOMAIN rows /\ rows'[j] = rows[j]
    BY <2>1, <2>2 DEF IInv, RowsInOrder
  <2>3. CASE rows'[j] = RollbackRow(db, k)
    <3>1. rows[i].record \in Nat /\ rows[i].record < next
      BY <1>7, <1>8, <2>1, <2>3
    <3> QED  BY <1>2, <1>4, <1>8, <2>1, <2>3, <3>1
  <2> QED  BY <1>6, <2>2, <2>3
<1> QED  BY <1>9, <1>10, <1>11, <1>13, <1>14 DEF IInv

(* The information row is written once the whole group is.                  *)
LEMMA InsertInfoStep ==
  ASSUME IInv, InsertInfo
  PROVE  IInv'
<1>1. /\ pc = "rows" /\ pc' = "commit" /\ Remaining = {} /\ WriteInfo(InfoRow(db))
      /\ UNCHANGED <<op, todo, db, next, first, inTx, answer>>
      /\ op \in Operations /\ next \in Nat /\ pending = NoWrites
  BY RecordFacts DEF InsertInfo, callVars, IInv, TypeOK, TxInv
<1>2. /\ Rollbacks' = Rollbacks /\ Groups' = Groups
      /\ \A d : Group(d)' = Group(d) /\ InfoRow(d)' = InfoRow(d) /\ storageTable(d)' = storageTable(d)
  BY <1>1, SameOperation
<1>3. /\ rows' = rows
      /\ \/ inTx /\ info' = info /\ pending' = [rows |-> <<>>, info |-> {InfoRow(db)}]
         \/ ~inTx /\ info' = info \cup {InfoRow(db)} /\ pending' = NoWrites
  <2>1. CASE inTx
    <3>1. pending' = [pending EXCEPT !.info = @ \cup {InfoRow(db)}] /\ UNCHANGED storeVars
      BY <1>1, <2>1 DEF WriteInfo
    <3> QED  BY <1>1, <2>1, <3>1 DEF NoWrites, storeVars
  <2>2. CASE ~inTx
    BY <1>1, <2>2 DEF WriteInfo
  <2> QED  BY <2>1, <2>2
<1>4. /\ \A d : Written(d) => Written(d)'
      /\ \A d, n : WrittenTo(d, n) => WrittenTo(d, n)'
      /\ \A d : Retrievable(d) => Retrievable(d)'
  <2>1. info \subseteq info' /\ rows \in Seq(Row)
    BY <1>3 DEF IInv, StoreInv
  <2> QED  BY <1>1, <1>3, <2>1, StoreGrows
<1>5. Written(db)
  <2> SUFFICES ASSUME NEW k \in Group(db), Rollbacks[k].hasSQL PROVE StoredRow(RollbackRow(db, k))
    BY DEF Written
  <2>1. k \in Nat /\ ~(k >= next)
    BY <1>1, GroupFacts DEF Remaining
  <2> QED  BY <1>1, <2>1 DEF IInv, CallInv, Busy, WrittenTo
<1>6. TypeOK'
  BY <1>1, <1>2 DEF IInv, TypeOK
<1>7. StoreInv'
  <2>1. \A r \in info' : r = InfoRow(r.db) /\ Written(r.db)
    <3>1. InfoRow(db).db = db
      BY DEF InfoRow
    <3> QED  BY <1>3, <1>5, <3>1 DEF IInv, StoreInv
  <2>2. \A r \in info' : r = InfoRow(r.db)' /\ Written(r.db)'
    BY <1>2, <1>4, <2>1
  <2> QED  BY <1>1, <1>3, <2>2 DEF IInv, StoreInv, Busy
<1>8. TxInv'
  BY <1>1, <1>2, <1>3 DEF IInv, TxInv
<1>9. Remaining' = {} /\ InfoRow(db)' \in info' \cup pending'.info /\ WrittenTo(db, next)'
  <2>1. Remaining' = {}
    BY <1>1, <1>2 DEF Remaining
  <2>2. InfoRow(db)' \in info' \cup pending'.info
    BY <1>1, <1>2, <1>3
  <2>3. WrittenTo(db, next)'
    BY <1>1, <1>4 DEF IInv, CallInv, Busy, WrittenTo
  <2> QED  BY <2>1, <2>2, <2>3
<1>10. CallInv'
  BY <1>1, <1>2, <1>4, <1>9 DEF IInv, CallInv, Busy
<1>11. RowsInOrder'
  BY <1>3 DEF IInv, RowsInOrder
<1> QED  BY <1>6, <1>7, <1>8, <1>10, <1>11 DEF IInv

(* The commit makes the information row visible, if it is not yet.          *)
LEMMA CommitFacts ==
  ASSUME IInv, Commit
  PROVE  /\ pc = "commit" /\ op' = op /\ rows' = rows /\ info \subseteq info' /\ info' \subseteq info \cup {InfoRow(db)}
         /\ InfoRow(db) \in info' /\ pending' = NoWrites /\ inTx' = FALSE /\ Written(db)
         /\ UNCHANGED <<todo, db, next, first>>
<1>1. /\ pc = "commit" /\ UNCHANGED <<op, todo, db, next, first>> /\ rows \in Seq(Row) /\ op \in Operations /\ next \in Nat
      /\ rows' = rows \o pending.rows /\ info' = info \cup pending.info /\ pending' = NoWrites /\ inTx' = FALSE
  BY RecordFacts DEF Commit, CommitPending, callVars, IInv, TypeOK, StoreInv
<1>2. pending.rows = <<>> /\ pending.info \subseteq {InfoRow(db)}
  BY DEF IInv, TxInv, NoWrites
<1>3. rows' = rows
  BY <1>1, <1>2, ConcatEmptySeq
<1>4. InfoRow(db) \in info'
  BY <1>1 DEF IInv, CallInv
<1>5. Written(db)
  <2> SUFFICES ASSUME NEW k \in Group(db), Rollbacks[k].hasSQL PROVE StoredRow(RollbackRow(db, k))
    BY DEF Written
  <2>1. k \in Nat /\ ~(k >= next)
    BY <1>1, GroupFacts DEF IInv, CallInv, Remaining
  <2> QED  BY <1>1, <2>1 DEF IInv, CallInv, Busy, WrittenTo
<1> QED  BY <1>1, <1>2, <1>3, <1>4, <1>5

LEMMA CommitStep ==
  ASSUME IInv, Commit
  PROVE  IInv'
<1>1. /\ pc = "commit" /\ op' = op /\ rows' = rows /\ info \subseteq info' /\ info' \subseteq info \cup {InfoRow(db)}
      /\ InfoRow(db) \in info' /\ pending' = NoWrites /\ inTx' = FALSE /\ Written(db)
      /\ UNCHANGED <<todo, db, next, first>>
  BY CommitFacts
<1>2. op \in Operations /\ rows \in Seq(Row)
  BY DEF IInv, TypeOK, StoreInv
<1>3. /\ Rollbacks' = Rollbacks /\ Groups' = Groups /\ \A d : InfoRow(d)' = InfoRow(d)
  BY <1>1, SameOperation
<1>4. /\ \A d : Written(d) => Written(d)'
      /\ \A d : Retrievable(d) => Retrievable(d)'
  BY <1>1, <1>2, StoreGrows
<1>5. \/ pc' = "iterate" /\ answer' = answer
      \/ pc' = "done" /\ answer' = "error"
  BY DEF Commit, Return
<1>6. TypeOK'
  BY <1>1, <1>3, <1>5 DEF IInv, TypeOK
<1>7. StoreInv'
  <2>1. \A r \in info' : r = InfoRow(r.db) /\ Written(r.db)
    <3>1. InfoRow(db).db = db
      BY DEF InfoRow
    <3> QED  BY <1>1, <3>1 DEF IInv, StoreInv
  <2>2. \A r \in info' : r = InfoRow(r.db)' /\ Written(r.db)'
    BY <1>3, <1>4, <2>1
  <2> QED  BY <1>1, <1>5, <2>2 DEF IInv, StoreInv, Busy
<1>8. TxInv'
  BY <1>1 DEF TxInv
<1>9. \A d \in Groups \ todo : Retrievable(d)'
  <2> SUFFICES ASSUME NEW d \in Groups \ todo PROVE Retrievable(d)'
    OBVIOUS
  <2>1. CASE Retrievable(d)
    BY <1>4, <2>1
  <2>2. CASE d = db
    <3>1. InfoRow(d)' \in info' /\ Written(d)' /\ op' \in Operations
      BY <1>1, <1>2, <1>3, <1>4, <2>2
    <3>2. \A k \in Group(d)' : Rollbacks'[k].hasSQL =>
            RollbackRow(d, k)' = [db |-> d, table |-> InfoRow(d)'.table, record |-> k]
      BY <1>1, <1>2, SameOperation, TableFacts
    <3> QED  BY <3>1, <3>2 DEF Retrievable, Written, StoredRow
  <2> QED  BY <1>1, <2>1, <2>2 DEF IInv, CallInv
<1>10. CallInv'
  BY <1>1, <1>3, <1>5, <1>9 DEF IInv, CallInv, Busy
<1>11. RowsInOrder'
  BY <1>1 DEF IInv, RowsInOrder
<1> QED  BY <1>6, <1>7, <1>8, <1>10, <1>11 DEF IInv

LEMMA StutterStep ==
  ASSUME IInv, UNCHANGED vars
  PROVE  IInv'
<1>1. /\ UNCHANGED <<op, pc, todo, db, next, first, inTx, pending, rows, info, answer>>
      /\ Rollbacks' = Rollbacks /\ Groups' = Groups
      /\ \A d : Group(d)' = Group(d) /\ InfoRow(d)' = InfoRow(d) /\ storageTable(d)' = storageTable(d)
  BY SameOperation DEF vars
<1>2. /\ \A d : Written(d) => Written(d)'
      /\ \A d, n : WrittenTo(d, n) => WrittenTo(d, n)'
      /\ \A d : Retrievable(d) => Retrievable(d)'
      /\ complete => complete'
  BY <1>1, StoreGrows DEF IInv, TypeOK, StoreInv
<1>3. TypeOK' /\ TxInv' /\ RowsInOrder'
  BY <1>1 DEF IInv, TypeOK, TxInv, RowsInOrder
<1>4. StoreInv'
  <2>1. \A r \in info : r = InfoRow(r.db)' /\ Written(r.db)'
    BY <1>1, <1>2 DEF IInv, StoreInv
  <2> QED  BY <1>1, <2>1 DEF IInv, StoreInv
<1>5. Remaining' = Remaining /\ (WrittenTo(db, next) => WrittenTo(db, next)')
  BY <1>1, <1>2 DEF Remaining, WrittenTo
<1>6. CallInv'
  BY <1>1, <1>2, <1>5 DEF IInv, CallInv
<1> QED  BY <1>3, <1>4, <1>6 DEF IInv

LEMMA NextInv ==
  ASSUME IInv, [Next]_vars
  PROVE  IInv'
<1>1. CASE NextGroup
  BY <1>1, NextGroupStep
<1>2. CASE ensureSchema
  BY <1>2, ensureSchemaStep
<1>3. CASE BeginTx
  BY <1>3, BeginTxStep
<1>4. CASE CreateTable
  BY <1>4, CreateTableStep
<1>5. CASE InsertRow
  BY <1>5, InsertRowInv
<1>6. CASE InsertInfo
  BY <1>6, InsertInfoStep
<1>7. CASE saveGroupFails \/ CommitFails \/ Crash
  BY <1>7, FailStep DEF saveGroupFails, CommitFails, Crash, DropPending, Return
<1>8. CASE Commit
  BY <1>8, CommitStep
<1>9. CASE Returned \/ UNCHANGED vars
  BY <1>9, StutterStep DEF Returned
<1> QED  BY <1>1, <1>2, <1>3, <1>4, <1>5, <1>6, <1>7, <1>8, <1>9 DEF Next

LEMMA Invariance == Spec => []IInv
<1>1. Init => IInv
  BY InitInv
<1>2. IInv /\ [Next]_vars => IInv'
  BY NextInv
<1> QED  BY <1>1, <1>2, PTL DEF Spec

----------------------------------------------------------------------------
(* Types, for every statement and every mapping of schemas to backup        *)
(* databases.                                                               *)
THEOREM TypeCorrect == Spec => []TypeOK
<1>1. IInv => TypeOK
  BY DEF IInv
<1> QED  BY <1>1, Invariance, PTL

(* Whoever finds an information row finds the whole rollback of its group,  *)
(* wherever Save fails or the process stops.                                *)
THEOREM InfoRowCorrect == Spec => []InfoRowMeansComplete
<1>1. IInv => InfoRowMeansComplete
  <2> SUFFICES ASSUME IInv, NEW r \in info PROVE Retrievable(r.db)
    BY DEF InfoRowMeansComplete
  <2>1. op \in Operations /\ r = InfoRow(r.db) /\ Written(r.db)
    BY DEF IInv, TypeOK, StoreInv
  <2> QED  BY <2>1, RetrievableFacts
<1> QED  BY <1>1, Invariance, PTL

(* Rows are stored once and in the order of the engine's records.           *)
THEOREM RowsInOrderCorrect == Spec => []RowsInOrder
<1>1. IInv => RowsInOrder
  BY DEF IInv
<1> QED  BY <1>1, Invariance, PTL

(* No step takes back what is stored ...                                    *)
LEMMA StoreStep ==
  ASSUME IInv, [Next]_vars
  PROVE  op' = op /\ info \subseteq info' /\ (rows' = rows \/ \E r \in Row : rows' = Append(rows, r))
<1>1. CASE NextGroup \/ ensureSchema \/ BeginTx
  BY <1>1 DEF NextGroup, ensureSchema, BeginTx, callVars, storeVars
<1>2. CASE CreateTable
  <2>1. op' = op /\ pending = NoWrites /\ rows \in Seq(Row)
    BY <1>2 DEF CreateTable, callVars, IInv, TxInv, StoreInv
  <2>2. (rows' = rows \/ rows' = rows \o <<>>) /\ info \subseteq info'
    BY <1>2, <2>1 DEF CreateTable, CommitPending, NoWrites, storeVars
  <2> QED  BY <2>1, <2>2, ConcatEmptySeq
<1>3. CASE InsertRow
  BY <1>3, InsertRowFacts
<1>4. CASE InsertInfo
  BY <1>4 DEF InsertInfo, WriteInfo, callVars, storeVars
<1>5. CASE saveGroupFails \/ CommitFails \/ Crash
  BY <1>5 DEF saveGroupFails, CommitFails, Crash, DropPending, callVars, storeVars
<1>6. CASE Commit
  BY <1>6, CommitFacts
<1>7. CASE Returned \/ UNCHANGED vars
  BY <1>7 DEF Returned, vars
<1> QED  BY <1>1, <1>2, <1>3, <1>4, <1>5, <1>6, <1>7 DEF Next

(* ... and success is answered once every group is retrievable.             *)
LEMMA AnswerStep ==
  ASSUME IInv, [Next]_vars
  PROVE  answer' = answer \/ (answer = "none" /\ (answer' \in {"error", "crashed"} \/ (answer' = "ok" /\ complete)))
<1>1. pc # "done" => answer = "none"
  BY DEF IInv, CallInv
<1>2. CASE NextGroup
  <2>1. todo = {} => complete
    BY <1>2 DEF NextGroup, IInv, CallInv, Busy, complete
  <2> QED  BY <1>1, <1>2, <2>1 DEF NextGroup, Return
<1>3. CASE ensureSchema \/ BeginTx \/ CreateTable \/ InsertRow \/ InsertInfo
  BY <1>1, <1>3 DEF ensureSchema, BeginTx, CreateTable, InsertRow, InsertRowStep, InsertInfo, Return
<1>4. CASE saveGroupFails \/ Commit \/ CommitFails \/ Crash
  BY <1>1, <1>4 DEF saveGroupFails, Commit, CommitFails, Crash, Return
<1>5. CASE Returned \/ UNCHANGED vars
  BY <1>5 DEF Returned, vars
<1> QED  BY <1>2, <1>3, <1>4, <1>5 DEF Next

(* Save implements its promise: the rollback becomes complete at most once, *)
(* stays so, and success is only answered for a complete one.               *)
THEOREM PromiseKept == Spec => KeepsPromise
<1>1. Init => Promise!Init
  <2> SUFFICES ASSUME Init PROVE complete = FALSE /\ answer = "none"
    BY DEF Promise!Init
  <2>1. Groups # {}
    BY GroupFacts DEF Init
  <2>2. PICK d \in Groups : ~Retrievable(d)
    BY <2>1 DEF Init, Retrievable
  <2>3. ~complete
    BY <2>2 DEF complete
  <2> QED  BY <2>3 DEF Init, complete
<1>2. IInv /\ IInv' /\ [Next]_vars => [Promise!Next]_(Promise!vars)
  <2> SUFFICES ASSUME IInv, IInv', [Next]_vars
               PROVE  \/ Promise!Next
                      \/ complete' = complete /\ answer' = answer
    BY DEF Promise!vars
  <2>1. complete \in BOOLEAN /\ complete' \in BOOLEAN
    BY DEF complete
  <2>2. complete => complete'
    BY StoreStep, StoreGrows DEF IInv, TypeOK, StoreInv
  <2>3. answer' = answer \/ (answer = "none" /\ (answer' \in {"error", "crashed"} \/ (answer' = "ok" /\ complete)))
    BY AnswerStep
  <2> HIDE DEF complete
  <2> QED  BY <2>1, <2>2, <2>3 DEF Promise!Next, Promise!BecomeComplete, Promise!Succeed, Promise!Fail
<1> QED  BY <1>1, <1>2, Invariance, PTL DEF Spec, KeepsPromise, Promise!Spec

=============================================================================
