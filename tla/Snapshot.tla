------------------------------ MODULE Snapshot ------------------------------
(***************************************************************************)
(* The audit of one request: Session.Audit walks the batch, resolves names  *)
(* against the current database, asks PrepareDDL whether a DDL statement    *)
(* fits the schema snapshot, and lays an admitted one over it with ApplyDDL,*)
(* so that later statements are audited against the catalog the batch will  *)
(* have produced by then.                                                   *)
(*                                                                          *)
(* view is what LoadSchema and LoadTable answer: the overlay, or else the   *)
(* source.  target and current are where the server and the default         *)
(* database of its connection get by executing what was admitted so far.    *)
(***************************************************************************)
EXTENDS Catalog

CONSTANTS Sources,      \* catalogs the target may start with
          Statements,   \* the statements a batch may contain
          MaxStatements \* longest batch

(* No table has two columns of one name.                                    *)
DistinctColumns(cat) == \A r \in Ref : IsTable(cat, r) => IsInjective(cat.objects[r].columns)

ASSUME SourcesAssumption == Sources \subseteq Catalogs /\ \A cat \in Sources : DistinctColumns(cat)
ASSUME LengthAssumption == MaxStatements \in Nat
ASSUME StatementsAssumption == Statements \subseteq Statement

VARIABLES view, target,
          database,  \* auditCtx.Database
          current,   \* the default database of the connection
          rejected,  \* a statement of the batch got an Error record
          refused,   \* the admitted statement the server refuses first, by action
          doubt,     \* tables that a statement left in doubt (history)
          hidden,    \* tables with indexes the parser kept from the view (history)
          length     \* statements audited

vars == <<view, target, database, current, rejected, refused, doubt, hidden, length>>

Nothing == "none"
Doubtful == "doubtful"

(* The request names a database that is there, or none; the same one opens  *)
(* the connection.                                                          *)
Init ==
  /\ view \in Sources
  /\ target = view
  /\ database \in view.schemas \cup {NoSchema}
  /\ current = database
  /\ rejected = FALSE
  /\ refused = Nothing
  /\ doubt = {}
  /\ hidden = {}
  /\ length = 0

----------------------------------------------------------------------------
(* resolveStatementDatabase.  A statement about one table belongs to the    *)
(* schema of that table; DROP and RENAME, and names without a schema, to    *)
(* the current database.                                                    *)
HasTable(s) == "table" \in DOMAIN s
Database(s, d) ==
  CASE "schema" \in DOMAIN s -> s.schema
    [] HasTable(s) -> defaultSchema(s.table, d)[1]
    [] OTHER -> d

ResolvePair(p, d) == [from |-> defaultSchema(p.from, d), to |-> defaultSchema(p.to, d)]

resolveStatementDatabase(s, d) ==
  LET own == Database(s, d)
  IN  [f \in DOMAIN s |->
         CASE f = "table"  -> defaultSchema(s.table, own)
           [] f = "reference" -> defaultSchema(s.reference, own)
           [] f = "tables" -> [i \in DOMAIN s.tables |-> defaultSchema(s.tables[i], own)]
           [] f = "pairs"  -> [i \in DOMAIN s.pairs |-> ResolvePair(s.pairs[i], own)]
           [] OTHER -> s[f]]

(* The server takes the default database of the connection for every name   *)
(* without a schema.                                                        *)
ResolveOps(ops, d) ==
  [i \in DOMAIN ops |->
     IF ops[i].op = "RENAME_TABLE" THEN [ops[i] EXCEPT !.newTable = defaultSchema(@, d)] ELSE ops[i]]
ServerResolves(s, d) ==
  [f \in DOMAIN s |->
     CASE f \in {"table", "reference"} -> defaultSchema(s[f], d)
       [] f = "tables" -> [i \in DOMAIN s.tables |-> defaultSchema(s.tables[i], d)]
       [] f = "pairs"  -> [i \in DOMAIN s.pairs |-> ResolvePair(s.pairs[i], d)]
       [] f = "ops"    -> ResolveOps(s.ops, d)
       [] OTHER -> s[f]]

requiresDatabase(s) == s.action \notin {"USE", "CREATE_DATABASE", "DROP_DATABASE"}

(* The names of the statement that must be known before it is audited.      *)
Resolved(s, d) == requiresDatabase(s) => Database(s, d) # NoSchema

----------------------------------------------------------------------------
(* affectedTables: what PrepareDDL requires to exist, unless IF EXISTS.     *)
affectedTables(s) ==
  CASE Alters(s) \/ s.action = "TRUNCATE_TABLE" -> {s.table}
    [] s.action \in {"DROP_TABLE", "DROP_VIEW"} -> ToSet(s.tables)
    [] s.action = "RENAME_TABLE" -> {s.pairs[i].from : i \in DOMAIN s.pairs}
    [] OTHER -> {}

ifExists(s) == s.action \in {"DROP_TABLE", "DROP_VIEW"} /\ s.ifExists
Creates(s)  == s.action \in {"CREATE_TABLE", "CREATE_TABLE_LIKE", "CREATE_VIEW"}

(* d.Noop: CREATE TABLE IF NOT EXISTS of something that is there.           *)
Noop(v, s) == Creates(s) /\ s.action # "CREATE_VIEW" /\ s.ifNotExists /\ Exists(v, s.table)

(* PrepareDDL returns no error.  It looks at names only: whether a table is *)
(* a view and whether a schema exists is not asked.                         *)
PrepareDDLWithoutSource(v, s) ==
  \/ Noop(v, s)
  \/ /\ Creates(s) => ~Exists(v, s.table)
     /\ s.action = "CREATE_TABLE_LIKE" => Exists(v, s.reference)
     /\ s.action = "RENAME_TABLE" => \A i \in DOMAIN s.pairs : ~Exists(v, s.pairs[i].to)
     /\ Alters(s) => Exists(v, s.table)
PrepareDDL(v, s) ==
  \/ Noop(v, s)
  \/ /\ Creates(s) => ~Exists(v, s.table)
     /\ s.action = "CREATE_TABLE_LIKE" => Exists(v, s.reference)
     /\ s.action = "RENAME_TABLE" => \A i \in DOMAIN s.pairs : ~Exists(v, s.pairs[i].to)
     /\ ~ifExists(s) => \A r \in affectedTables(s) : Exists(v, r)

----------------------------------------------------------------------------
(* One table of the view.  findColumn takes the first of that name.         *)
findColumn(o, c) == SelectInSeq(o.columns, LAMBDA d : d = c)
HasColumn(o, c)  == findColumn(o, c) # 0
HasIndex(o, i)   == o.indexes[i] # <<>>

renameColumnInIndexes(is, old, new) == [i \in IndexNames |-> ReplaceAll(is[i], old, new)]
dropColumnFromIndexes(is, c) ==
  [i \in IndexNames |-> Through(is[i], [d \in Columns |-> IF d = c THEN Absent ELSE d])]

RenamedColumn(o, c, new) ==
  [o EXCEPT !.columns = ReplaceAt(@, findColumn(o, c), new),
            !.indexes = renameColumnInIndexes(@, c, new)]

(* applyTableDDL, on a copy of the table: the operations one after the      *)
(* other, the first that does not fit is an error.  CHANGE COLUMN does not  *)
(* ask whether the new name is free.  The key a column definition makes is  *)
(* not laid over the view.                                                  *)
ApplyTo(o, op) ==
  CASE op.op = "ADD_COLUMN" /\ ~HasColumn(o, op.column) ->
         [o EXCEPT !.columns = Append(@, op.column)]
    [] op.op = "DROP_COLUMN" /\ HasColumn(o, op.column) ->
         [o EXCEPT !.columns = RemoveAt(@, findColumn(o, op.column)),
                   !.indexes = dropColumnFromIndexes(@, op.column)]
    [] op.op = "MODIFY_COLUMN" /\ HasColumn(o, op.column) -> o
    [] op.op = "CHANGE_COLUMN" /\ HasColumn(o, op.column) ->
         RenamedColumn(o, op.column, op.newName)
    [] op.op = "RENAME_COLUMN" /\ HasColumn(o, op.column) /\ ~HasColumn(o, op.newName) ->
         RenamedColumn(o, op.column, op.newName)
    [] op.op = "ADD_INDEX" /\ ~HasIndex(o, op.index) ->
         [o EXCEPT !.indexes[op.index] = op.columns]
    [] op.op = "DROP_INDEX" /\ HasIndex(o, op.index) ->
         [o EXCEPT !.indexes[op.index] = <<>>]
    [] op.op = "RENAME_INDEX" /\ HasIndex(o, op.index) /\ ~HasIndex(o, op.newName) ->
         [o EXCEPT !.indexes = [@ EXCEPT ![op.index] = <<>>, ![op.newName] = o.indexes[op.index]]]
    [] op.op \in {"RENAME_TABLE", "TABLE_OPTIONS", "COLUMN_KEY"} -> o
    [] OTHER -> Absent

applyOpAddsSpec(t, op) ==
  IF t # Absent /\ op.op = "ADD_COLUMN"
  THEN [t EXCEPT !.object.columns = Append(@, op)]
  ELSE Absent
applyOp(t, op) ==
  IF t = Absent \/ ApplyTo(t.object, op) = Absent THEN Absent
  ELSE [ref    |-> IF op.op = "RENAME_TABLE" THEN defaultSchema(op.newTable, t.ref[1]) ELSE t.ref,
        object |-> ApplyTo(t.object, op)]

applyTableDDL(t, ops) ==
  LET applied[n \in 0 .. Len(ops)] == IF n = 0 THEN t ELSE applyOp(applied[n - 1], ops[n])
  IN  applied[Len(ops)]

Applied(v) == [view |-> v, ok |-> TRUE]

(* renameLoaded over the pairs: it stops at a source that is gone, keeping  *)
(* what the earlier pairs did to the view.                                  *)
renameLoadedKeepsOld(acc, pair) ==
  IF acc.ok /\ Exists(acc.view, pair.from)
  THEN [acc EXCEPT !.view = With(acc.view, pair.to, acc.view.objects[pair.from])]
  ELSE [acc EXCEPT !.ok = FALSE]
renameLoaded(acc, pair) ==
  IF acc.ok /\ Exists(acc.view, pair.from)
  THEN [acc EXCEPT !.view = Moved(@, pair.from, pair.to)]
  ELSE [acc EXCEPT !.ok = FALSE]

renamePairs(v, pairs) ==
  LET renamed[n \in 0 .. Len(pairs)] ==
        IF n = 0 THEN Applied(v) ELSE renameLoaded(renamed[n - 1], pairs[n])
  IN  renamed[Len(pairs)]

(* The indexes DDLSpec has, and no others; CREATE TABLE ... LIKE takes      *)
(* columns and indexes of its source.                                       *)
tableFromSpec(v, s) ==
  IF s.action = "CREATE_TABLE" THEN aTable(s.columns, s.indexes)
  ELSE aTable(v.objects[s.reference].columns, v.objects[s.reference].indexes)

(* ApplyDDL: the view after it, and whether it returned nil.                *)
ApplyDDL(v, s) ==
  IF Noop(v, s) THEN Applied(v) ELSE
  CASE s.action = "CREATE_DATABASE" -> Applied([v EXCEPT !.schemas = @ \cup {s.schema}])
    [] s.action = "DROP_DATABASE" -> Applied([v EXCEPT !.schemas = @ \ {s.schema}])
    [] s.action \in {"CREATE_TABLE", "CREATE_TABLE_LIKE"} ->
         Applied(With(v, s.table, tableFromSpec(v, s)))
    [] s.action = "CREATE_VIEW" -> Applied(With(v, s.table, aView))
    [] s.action \in {"DROP_TABLE", "DROP_VIEW"} -> Applied(Without(v, ToSet(s.tables)))
    [] s.action = "RENAME_TABLE" -> renamePairs(v, s.pairs)
    [] s.action = "TRUNCATE_TABLE" -> Applied(v)
    [] Alters(s) ->
         LET t == applyTableDDL([ref |-> s.table, object |-> v.objects[s.table]], s.ops)
         IN  IF t = Absent THEN [view |-> v, ok |-> FALSE]
             ELSE Applied(With(Without(v, {s.table}), t.ref, t.object))

(* DMLSafety: the tables load and have the columns.                         *)
Check(v, s) == Exists(v, s.table) /\ \A c \in s.columns : HasColumn(v.objects[s.table], c)

(* checkIndexes: the indexes an ALTER, CREATE INDEX or DROP INDEX is judged *)
(* by, before it is laid over the view.  Those of the statement are new,    *)
(* the one a DROP INDEX names among them, those of column definitions not;  *)
(* those of the table stay, unless an operation of the ALTER drops one of   *)
(* that name.                                                               *)
NewIndexes(s) ==
  CASE s.action = "DROP_INDEX" -> {[origin |-> "new", nth |-> 1, columns |-> <<>>]}
    [] OTHER -> {[origin |-> "new", nth |-> n, columns |-> s.ops[n].columns] : n \in OpsOf(s.ops, {"ADD_INDEX"})}
KeptByAny(v, s) ==
  {[origin |-> "table", nth |-> n, columns |-> v.objects[s.table].indexes[n]] :
     n \in {m \in IndexNames : HasIndex(v.objects[s.table], m)}}
Kept(v, s) ==
  LET dropped == {s.ops[n].index : n \in OpsOf(s.ops, IF s.action = "ALTER_TABLE" THEN {"DROP_INDEX"} ELSE {})}
  IN  {[origin |-> "table", nth |-> n, columns |-> v.objects[s.table].indexes[n]] :
         n \in {m \in IndexNames : HasIndex(v.objects[s.table], m)} \ dropped}
checkIndexes(v, s) == NewIndexes(s) \cup Kept(v, s)

leadingColumnsOverlap(c, d) == c # <<>> /\ d # <<>> /\ (IsPrefix(c, d) \/ IsPrefix(d, c))
Redundant(indexes) ==
  \E p, q \in indexes : p # q /\ leadingColumnsOverlap(p.columns, q.columns)

----------------------------------------------------------------------------
More == length < MaxStatements /\ length' = length + 1

(* What is known to lead the view astray.  After DROP DATABASE the view     *)
(* keeps the tables of the database; DROP TABLE IF EXISTS drops a view in   *)
(* it; a name without schema, beside one that has it, is taken for one in   *)
(* the same schema; and an ALTER may name a column or index by the name     *)
(* that an operation before it gave to another one.  A table is in doubt    *)
(* from then on, and so is every table named together with one in doubt.    *)
Named(s) ==
  {s[f] : f \in DOMAIN s \cap {"table", "reference"}}
    \cup (IF "tables" \in DOMAIN s THEN ToSet(s.tables) ELSE {})
    \cup (IF "pairs" \in DOMAIN s THEN UNION {{p.from, p.to} : p \in ToSet(s.pairs)} ELSE {})
    \cup (IF Alters(s) THEN {s.ops[n].newTable : n \in OpsOf(s.ops, {"RENAME_TABLE"})} ELSE {})

MixedNames(s) ==
  /\ s.action = "CREATE_TABLE_LIKE" \/ Alters(s)
  /\ NoSchema \in {r[1] : r \in Named(s)} /\ \E r \in Named(s) : r[1] # NoSchema

(* The names an operation of an ALTER gives or uses, and those it takes     *)
(* away.  MySQL takes the latter for names of the old definition, the view  *)
(* for names as the operations before left them.  A column dropped and      *)
(* added again may, in MySQL, keep its indexes.                             *)
NewColumns(o) == CASE o.op \in RenamesColumn -> {o.newName}
                   [] o.op = "ADD_COLUMN"    -> {o.column}
                   [] o.op = "ADD_INDEX"     -> ToSet(o.columns)
                   [] OTHER                  -> {}
OldColumns(o) == IF o.op \in RenamesColumn \cup {"DROP_COLUMN"} THEN {o.column} ELSE {}
NewIndex(o) == CASE o.op = "ADD_INDEX"    -> {o.index}
                 [] o.op = "RENAME_INDEX" -> {o.newName}
                 [] OTHER                 -> {}
OldIndex(o) == IF o.op \in {"DROP_INDEX", "RENAME_INDEX"} THEN {o.index} ELSE {}
ReusesNames(s) ==
  /\ Alters(s)
  /\ \E m, n \in DOMAIN s.ops :
       /\ m < n
       /\ \/ NewColumns(s.ops[m]) \cap OldColumns(s.ops[n]) # {}
          \/ NewIndex(s.ops[m]) \cap OldIndex(s.ops[n]) # {}
          \/ s.ops[m].op = "DROP_COLUMN" /\ s.ops[n].op = "ADD_COLUMN" /\ s.ops[m].column = s.ops[n].column

NamedByServer(s) == {defaultSchema(r, current) : r \in Named(s)}
NamedByAudit(s)  == {defaultSchema(r, Database(s, database)) : r \in Named(s)}
NamedByEither(s) == NamedByServer(s) \cup NamedByAudit(s)

PutsInDoubt(s) ==
  CASE s.action = "DROP_DATABASE" -> {s.schema} \X Names
    [] s.action = "DROP_TABLE" /\ s.ifExists -> {r \in NamedByAudit(s) : Exists(view, r) /\ view.objects[r].kind = "view"}
    [] MixedNames(s) -> {<<q[1], r[2]>> : q, r \in NamedByEither(s)}
    [] OTHER -> {}
InDoubt(s) == doubt \cap NamedByEither(s) # {} \/ MixedNames(s) \/ ReusesNames(s)
DoubtAfter(s) ==
  IF refused # Nothing THEN doubt
  ELSE (doubt \cup PutsInDoubt(s) \cup (IF InDoubt(s) THEN NamedByEither(s) ELSE {})) \cap Ref

(* The server makes indexes of clauses that the parser does not project.    *)
(* The view does not know all indexes of the table from then on, nor of a   *)
(* table named together with one of those.                                  *)
HidesIndexes(s) ==
  \/ s.action = "CREATE_TABLE" /\ s.unprojected # NoIndexes
  \/ Alters(s) /\ OpsOf(s.ops, {"COLUMN_KEY"}) # {}
NamesHidden(s) == HidesIndexes(s) \/ hidden \cap NamedByEither(s) # {}
HiddenAfter(s) ==
  IF refused # Nothing THEN hidden
  ELSE hidden \cup (IF NamesHidden(s) THEN NamedByEither(s) \cap Ref ELSE {})

(* The server comes to an admitted statement; nothing is executed after one *)
(* it refuses.                                                              *)
ServerTakes(s) ==
  LET t == ServerResolves(s, current)
      known == current # NoSchema \/ t = ServerResolves(s, CHOOSE x \in Schemas : TRUE)
  IN  /\ doubt' = DoubtAfter(s)
      /\ hidden' = HiddenAfter(s)
      /\ IF refused # Nothing THEN UNCHANGED <<target, current, refused>>
         ELSE IF known /\ Accepts(target, t)
         THEN /\ target' = Effect(target, t)
              /\ current' = CASE t.action = "USE" -> t.schema
                              [] t.action = "DROP_DATABASE" /\ t.schema = current -> NoSchema
                              [] OTHER -> current
              /\ UNCHANGED refused
         ELSE /\ refused' = IF InDoubt(s) THEN Doubtful ELSE s.action
              /\ UNCHANGED <<target, current>>

(* No database, PrepareDDL or a rule gives the statement an Error: the view *)
(* is left as it was and the audit goes on with the next statement.         *)
Reject ==
  /\ More
  /\ rejected' = TRUE
  /\ UNCHANGED <<view, target, database, current, refused, doubt, hidden>>

(* USE of a schema the view has.                                            *)
AdmitUseIgnored(s) ==
  /\ More
  /\ s.action = "USE" /\ s.schema \in view.schemas
  /\ ServerTakes(s)
  /\ UNCHANGED <<view, database, rejected>>
AdmitUse(s) ==
  /\ More
  /\ s.action = "USE" /\ s.schema \in view.schemas
  /\ database' = s.schema
  /\ ServerTakes(s)
  /\ UNCHANGED <<view, rejected>>

AdmitDML(s) ==
  /\ More
  /\ s.action = "DML" /\ Resolved(s, database)
  /\ Check(view, resolveStatementDatabase(s, database))
  /\ ServerTakes(s)
  /\ UNCHANGED <<view, database, rejected>>

(* No Error so far: ApplyDDL, whose own failure becomes an Error.           *)
AdmitDDL(s) ==
  /\ More
  /\ s.action \notin {"USE", "DML"} /\ Resolved(s, database)
  /\ LET d == resolveStatementDatabase(s, database)
         r == ApplyDDL(view, d)
     IN  /\ PrepareDDL(view, d)
         /\ view' = r.view
         /\ rejected' = (rejected \/ ~r.ok)
         /\ IF r.ok THEN ServerTakes(s) ELSE UNCHANGED <<target, current, refused, doubt, hidden>>
  /\ UNCHANGED database

BatchAudited ==
  /\ length = MaxStatements
  /\ UNCHANGED vars

Admit(s) == AdmitUse(s) \/ AdmitDML(s) \/ AdmitDDL(s)
Next == Reject \/ (\E s \in Statements : Admit(s)) \/ BatchAudited

Spec == Init /\ [][Next]_vars

----------------------------------------------------------------------------
(* Every name of the audit and of the server stays within the catalog: in   *)
(* particular ApplyDDL never leaves a table under a name without a schema.  *)
TypeOK ==
  /\ view \in Catalogs
  /\ target \in Catalogs
  /\ {database, current} \subseteq Schemas \cup {NoSchema}
  /\ rejected \in BOOLEAN
  /\ refused \in {Nothing, Doubtful} \cup {s.action : s \in Statements}
  /\ doubt \subseteq Ref
  /\ hidden \subseteq Ref
  /\ length \in 0 .. MaxStatements

(* What a later statement is audited against, but for the indexes of a      *)
(* hidden table.                                                            *)
Shape(cat) ==
  [schemas |-> cat.schemas,
   objects |-> [r \in Ref |->
                  CASE IsTable(cat, r) ->
                         <<"table", cat.objects[r].columns,
                           IF r \in hidden THEN NoIndexes ELSE cat.objects[r].indexes>>
                    [] IsView(cat, r) -> <<"view", <<>>, NoIndexes>>
                    [] OTHER -> <<"none", <<>>, NoIndexes>>]]

(* docs/PROJECT_MAP.md: DDL of the batch updates the snapshot before later  *)
(* SQL is audited.  While the batch can still be executed, the view is the  *)
(* catalog the server will have when it comes to the next statement, and    *)
(* the audit resolves names in the database the connection will be in; only *)
(* the tables in doubt may differ, and the indexes of a hidden table.       *)
ViewMatchesTarget ==
  ~rejected /\ refused = Nothing =>
    /\ Shape(view).schemas = Shape(target).schemas
    /\ \A r \in Ref \ doubt : Shape(view).objects[r] = Shape(target).objects[r]
    /\ database = current \/ (current = NoSchema /\ {database} \X Names \subseteq doubt)

(* legacy_ddl.go judges a statement before it is laid over the view.  Of a  *)
(* table the server will then have, the number of indexes (max_keys) is     *)
(* never taken for less than it is, and is exact unless an index goes with  *)
(* its columns; that two of them are redundant is noticed exactly if no     *)
(* column is dropped or renamed.  DROP INDEX is out: it is judged as if it  *)
(* added the index it drops.  So are a statement that gives a column a key  *)
(* in its definition and one on a hidden table: those indexes are counted   *)
(* neither as new nor as there, and the number is taken for too small.      *)
IndexesAfter(cat, s) ==
  LET o == Effect(cat, s).objects[NewTable(s.table, s.ops)]
  IN  {[name |-> n, columns |-> o.indexes[n]] : n \in {m \in IndexNames : HasIndex(o, m)}}
JudgedByResult(s, d, t) ==
  LET judged == checkIndexes(view, d)
      after  == IndexesAfter(target, t)
      drops  == OpsOf(s.ops, {"DROP_COLUMN"}) # {}
  IN  /\ Cardinality(judged) >= Cardinality(after)
      /\ ~drops => Cardinality(judged) = Cardinality(after)
      /\ OpsOf(s.ops, {"DROP_COLUMN"} \cup RenamesColumn) = {} => Redundant(judged) = Redundant(after)
IndexRulesJudgeResult ==
  ~rejected /\ refused = Nothing /\ length < MaxStatements =>
    \A s \in {u \in Statements : Alters(u) /\ u.action # "DROP_INDEX" /\ Resolved(u, database)} :
      LET d == resolveStatementDatabase(s, database)
          t == ServerResolves(s, current)
      IN  (/\ ~InDoubt(s) /\ ~NamesHidden(s) /\ PrepareDDL(view, d) /\ ApplyDDL(view, d).ok
           /\ current # NoSchema /\ Accepts(target, t)) => JudgedByResult(s, d, t)

(* snapshot.go: mutations happen after admission, so a step that makes the  *)
(* batch fail the audit leaves the view alone.  The exception is a RENAME   *)
(* that names a source twice: its first pairs stay applied.                 *)
NamesSourceTwice(s) ==
  s.action = "RENAME_TABLE" /\ \E m, n \in DOMAIN s.pairs : m # n /\ s.pairs[m].from = s.pairs[n].from
RejectedChangesNothing ==
  [][(~rejected /\ rejected') =>
       \/ view' = view
       \/ \E s \in Statements : AdmitDDL(s) /\ NamesSourceTwice(resolveStatementDatabase(s, database))]_vars

(* dml.go: a DML on a table or a column that is not there is an Error.  So  *)
(* no DML of a batch that passes the audit is refused for an unknown table  *)
(* or column, whatever USE and DDL came before it, unless it names a table  *)
(* in doubt.                                                                *)
AdmittedDMLRuns == ~rejected => refused # "DML"
=============================================================================
