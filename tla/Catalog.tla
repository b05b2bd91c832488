------------------------------ MODULE Catalog ------------------------------
(***************************************************************************)
(* The statements the parser projects (model.DDLSpec, and as much of a DML  *)
(* as names tables and columns) over a small catalog, and what the target   *)
(* MySQL server does with them.  The server is not part of this repository: *)
(* Accepts and Effect state the behaviour internal/metadata and             *)
(* internal/execution rely on.  Options, column attributes but for the keys *)
(* they make, and positions are left out, and so are refusals that depend   *)
(* on the data.                                                             *)
(***************************************************************************)
EXTENDS Naturals, FiniteSets, Sequences, SequencesExt

CONSTANTS Schemas, Names, Columns, IndexNames,
          NoSchema, \* an empty schema name
          Absent    \* the answer for an object or a column that does not exist

Ref == Schemas \X Names

(* A table with rows to lose, or without; a view has none of its own.  An   *)
(* index with no columns is one the table does not have.                    *)
Object == [kind : {"table", "view"}, columns : Seq(Columns),
           indexes : [IndexNames -> Seq(Columns)], rows : BOOLEAN]
NoIndexes == [i \in IndexNames |-> <<>>]
aTable(cs, is) == [kind |-> "table", columns |-> cs, indexes |-> is, rows |-> FALSE]
aView == [kind |-> "view", columns |-> <<>>, indexes |-> NoIndexes, rows |-> FALSE]

Catalogs == [schemas : SUBSET Schemas, objects : [Ref -> Object \cup {Absent}]]

ASSUME AbsentAssumption == Absent \notin Object \cup Columns
ASSUME NoSchemaAssumption == NoSchema \notin Schemas
ASSUME IndexNamesAssumption == IsFiniteSet(IndexNames)

Exists(cat, r)  == cat.objects[r] # Absent
IsTable(cat, r) == Exists(cat, r) /\ cat.objects[r].kind = "table"
IsView(cat, r)  == Exists(cat, r) /\ cat.objects[r].kind = "view"

With(cat, r, o) ==
  [schemas |-> cat.schemas, objects |-> [q \in Ref |-> IF q = r THEN o ELSE cat.objects[q]]]
Without(cat, rs) ==
  [schemas |-> cat.schemas, objects |-> [q \in Ref |-> IF q \in rs THEN Absent ELSE cat.objects[q]]]
Moved(cat, from, to) == With(Without(cat, {from}), to, cat.objects[from])

(* A list of columns under their new names, without those that have none.   *)
Through(cs, name) ==
  LET through[n \in 0 .. Len(cs)] ==
        IF n = 0 THEN <<>>
        ELSE IF name[cs[n]] = Absent THEN through[n - 1] ELSE Append(through[n - 1], name[cs[n]])
  IN  through[Len(cs)]

----------------------------------------------------------------------------
(* TableRef: a name with or without its schema.                             *)
TableRef == (Schemas \cup {NoSchema}) \X Names
defaultSchema(r, s) == IF r[1] = NoSchema THEN <<s, r[2]>> ELSE r

(* An ALTER TABLE is a sequence of these.  COLUMN_KEY stands beside the     *)
(* operation that adds, modifies or changes a column: the UNIQUE or PRIMARY *)
(* KEY written in the definition of that column, of which the server makes  *)
(* an index.                                                                *)
AlterOperation ==
  [op : {"ADD_COLUMN", "DROP_COLUMN", "MODIFY_COLUMN"}, column : Columns]
    \cup [op : {"RENAME_COLUMN", "CHANGE_COLUMN"}, column : Columns, newName : Columns]
    \cup [op : {"ADD_INDEX", "COLUMN_KEY"}, index : IndexNames, columns : Seq(Columns) \ {<<>>}]
    \cup [op : {"DROP_INDEX"}, index : IndexNames]
    \cup [op : {"RENAME_INDEX"}, index : IndexNames, newName : IndexNames]
    \cup [op : {"RENAME_TABLE"}, newTable : TableRef]
    \cup [op : {"TABLE_OPTIONS"}]

Use(s) == [action |-> "USE", schema |-> s]
DML(r, cs) == [action |-> "DML", table |-> r, columns |-> cs]
CreateDatabase(s, ifNotExists) ==
  [action |-> "CREATE_DATABASE", schema |-> s, ifNotExists |-> ifNotExists]
DropDatabase(s, ifExists) ==
  [action |-> "DROP_DATABASE", schema |-> s, ifExists |-> ifExists]
(* The indexes as DDLSpec has them, and those it does not have, because     *)
(* projectCreateTable skips the clause the server makes them of: UNIQUE in  *)
(* the definition of a column, FULLTEXT, SPATIAL, FOREIGN KEY.              *)
CreateTable(r, cs, is, unprojected, ifNotExists) ==
  [action |-> "CREATE_TABLE", table |-> r, columns |-> cs, indexes |-> is,
   unprojected |-> unprojected, ifNotExists |-> ifNotExists]
CreateTableLike(r, ref, ifNotExists) ==
  [action |-> "CREATE_TABLE_LIKE", table |-> r, reference |-> ref, ifNotExists |-> ifNotExists]
CreateView(r) == [action |-> "CREATE_VIEW", table |-> r]
DropTable(rs, ifExists) == [action |-> "DROP_TABLE", tables |-> rs, ifExists |-> ifExists]
DropView(rs, ifExists)  == [action |-> "DROP_VIEW", tables |-> rs, ifExists |-> ifExists]
RenameTable(pairs)      == [action |-> "RENAME_TABLE", pairs |-> pairs]
TruncateTable(r)        == [action |-> "TRUNCATE_TABLE", table |-> r]
AlterTable(r, ops)      == [action |-> "ALTER_TABLE", table |-> r, ops |-> ops]
CreateIndex(r, i, cs) ==
  [action |-> "CREATE_INDEX", table |-> r,
   ops |-> <<[op |-> "ADD_INDEX", index |-> i, columns |-> cs]>>]
DropIndex(r, i) ==
  [action |-> "DROP_INDEX", table |-> r, ops |-> <<[op |-> "DROP_INDEX", index |-> i]>>]

Alters(s) == s.action \in {"ALTER_TABLE", "CREATE_INDEX", "DROP_INDEX"}

(* What the parser makes of a text is one of these; a CREATE INDEX and a    *)
(* DROP INDEX have one operation.                                           *)
Single(kind) == {ops \in Seq(AlterOperation) : Len(ops) = 1 /\ ops[1].op = kind}
Statement ==
  [action : {"USE"}, schema : Schemas]
    \cup [action : {"DML"}, table : TableRef, columns : SUBSET Columns]
    \cup [action : {"CREATE_DATABASE"}, schema : Schemas, ifNotExists : BOOLEAN]
    \cup [action : {"DROP_DATABASE"}, schema : Schemas, ifExists : BOOLEAN]
    \cup [action : {"CREATE_TABLE"}, table : TableRef, columns : Seq(Columns),
          indexes : [IndexNames -> Seq(Columns)],
          unprojected : [IndexNames -> Seq(Columns)], ifNotExists : BOOLEAN]
    \cup [action : {"CREATE_TABLE_LIKE"}, table : TableRef, reference : TableRef, ifNotExists : BOOLEAN]
    \cup [action : {"CREATE_VIEW", "TRUNCATE_TABLE"}, table : TableRef]
    \cup [action : {"DROP_TABLE", "DROP_VIEW"}, tables : Seq(TableRef), ifExists : BOOLEAN]
    \cup [action : {"RENAME_TABLE"}, pairs : Seq([from : TableRef, to : TableRef])]
    \cup [action : {"ALTER_TABLE"}, table : TableRef, ops : Seq(AlterOperation)]
    \cup [action : {"CREATE_INDEX"}, table : TableRef, ops : Single("ADD_INDEX")]
    \cup [action : {"DROP_INDEX"}, table : TableRef, ops : Single("DROP_INDEX")]

----------------------------------------------------------------------------
(* MySQL renames pair by pair from the left; a view stays in its schema.    *)
RenameStep(cat, pair) ==
  IF /\ cat # Absent
     /\ Exists(cat, pair.from) /\ ~Exists(cat, pair.to)
     /\ pair.to[1] \in cat.schemas
     /\ IsView(cat, pair.from) => pair.to[1] = pair.from[1]
  THEN Moved(cat, pair.from, pair.to)
  ELSE Absent
Renamed(cat, pairs) ==
  LET renamed[n \in 0 .. Len(pairs)] ==
        IF n = 0 THEN cat ELSE RenameStep(renamed[n - 1], pairs[n])
  IN  renamed[Len(pairs)]

(* MySQL applies the operations of one ALTER together: they name columns    *)
(* and indexes of the old definition, an added index those of the new one.  *)
OpsOf(ops, kinds) == {i \in DOMAIN ops : ops[i].op \in kinds}
RenamesColumn == {"RENAME_COLUMN", "CHANGE_COLUMN"}
MakesIndex == {"ADD_INDEX", "COLUMN_KEY"}

Survives(c, ops) == \A i \in OpsOf(ops, {"DROP_COLUMN"}) : ops[i].column # c
NameAfter(c, ops) ==
  LET renames == {i \in OpsOf(ops, RenamesColumn) : ops[i].column = c}
  IN  IF renames = {} THEN c ELSE ops[CHOOSE i \in renames : TRUE].newName
Becomes(ops) == [c \in Columns |-> IF Survives(c, ops) THEN NameAfter(c, ops) ELSE Absent]
Surviving(cs, ops) == Through(cs, Becomes(ops))
AddedColumns(ops) ==
  LET added[n \in 0 .. Len(ops)] ==
        IF n = 0 THEN <<>>
        ELSE IF ops[n].op = "ADD_COLUMN" THEN Append(added[n - 1], ops[n].column) ELSE added[n - 1]
  IN  added[Len(ops)]
AlteredColumns(old, ops) == Surviving(old, ops) \o AddedColumns(ops)

(* The indexes that are there afterwards: the kept ones as <<name, old      *)
(* name>>, and the operations that add one.                                 *)
KeptIndexes(old, ops) ==
  {p \in IndexNames \X IndexNames :
     /\ Surviving(old[p[2]], ops) # <<>>
     /\ \A i \in OpsOf(ops, {"DROP_INDEX"}) : ops[i].index # p[2]
     /\ IF \E i \in OpsOf(ops, {"RENAME_INDEX"}) : ops[i].index = p[2]
        THEN \E i \in OpsOf(ops, {"RENAME_INDEX"}) : ops[i].index = p[2] /\ ops[i].newName = p[1]
        ELSE p[1] = p[2]}
AlteredIndexes(old, ops) ==
  [n \in IndexNames |->
     LET kept  == {p \in KeptIndexes(old, ops) : p[1] = n}
         added == {i \in OpsOf(ops, MakesIndex) : ops[i].index = n}
     IN  IF kept # {} THEN Surviving(old[(CHOOSE p \in kept : TRUE)[2]], ops)
         ELSE IF added # {} THEN ops[CHOOSE i \in added : TRUE].columns
         ELSE <<>>]

AltersColumns(old, ops) ==
  LET named == OpsOf(ops, RenamesColumn \cup {"DROP_COLUMN", "MODIFY_COLUMN"})
      new   == AlteredColumns(old, ops)
  IN  /\ \A i \in named : /\ Contains(old, ops[i].column)
                          /\ \A j \in named \ {i} : ops[j].column # ops[i].column
      /\ new # <<>> /\ IsInjective(new)
      /\ \A i \in OpsOf(ops, MakesIndex) : ToSet(ops[i].columns) \subseteq ToSet(new)
AltersIndexes(old, ops) ==
  LET named == OpsOf(ops, {"DROP_INDEX", "RENAME_INDEX"})
      kept  == KeptIndexes(old, ops)
      added == OpsOf(ops, MakesIndex)
  IN  /\ \A i \in named : /\ old[ops[i].index] # <<>>
                          /\ \A j \in named \ {i} : ops[j].index # ops[i].index
      /\ \A p, q \in kept : p[1] = q[1] => p = q
      /\ \A i \in added : /\ \A p \in kept : p[1] # ops[i].index
                          /\ \A j \in added \ {i} : ops[j].index # ops[i].index

NewTable(r, ops) ==
  LET renames == OpsOf(ops, {"RENAME_TABLE"})
  IN  IF renames = {} THEN r
      ELSE ops[CHOOSE i \in renames : \A j \in renames : j <= i].newTable

Accepts(cat, s) ==
  CASE s.action = "USE"               -> s.schema \in cat.schemas
    [] s.action = "DML"               -> \/ IsView(cat, s.table)
                                         \/ /\ IsTable(cat, s.table)
                                            /\ s.columns \subseteq ToSet(cat.objects[s.table].columns)
    [] s.action = "CREATE_DATABASE"   -> s.ifNotExists \/ s.schema \notin cat.schemas
    [] s.action = "DROP_DATABASE"     -> s.ifExists \/ s.schema \in cat.schemas
    [] s.action = "CREATE_TABLE"      -> /\ s.table[1] \in cat.schemas /\ IsInjective(s.columns)
                                         /\ \A i \in IndexNames : s.indexes[i] = <<>> \/ s.unprojected[i] = <<>>
                                         /\ s.ifNotExists \/ ~Exists(cat, s.table)
    [] s.action = "CREATE_TABLE_LIKE" -> /\ s.table[1] \in cat.schemas
                                         /\ IsTable(cat, s.reference)
                                         /\ s.ifNotExists \/ ~Exists(cat, s.table)
    [] s.action = "CREATE_VIEW"       -> s.table[1] \in cat.schemas /\ ~Exists(cat, s.table)
    [] s.action = "DROP_TABLE"        -> /\ IsInjective(s.tables)
                                         /\ s.ifExists \/ \A i \in DOMAIN s.tables : IsTable(cat, s.tables[i])
    [] s.action = "DROP_VIEW"         -> /\ IsInjective(s.tables)
                                         /\ \A i \in DOMAIN s.tables :
                                              IsView(cat, s.tables[i]) \/ (s.ifExists /\ ~Exists(cat, s.tables[i]))
    [] s.action = "RENAME_TABLE"      -> Renamed(cat, s.pairs) # Absent
    [] s.action = "TRUNCATE_TABLE"    -> IsTable(cat, s.table)
    [] Alters(s)                      ->
         /\ IsTable(cat, s.table)
         /\ AltersColumns(cat.objects[s.table].columns, s.ops)
         /\ AltersIndexes(cat.objects[s.table].indexes, s.ops)
         /\ LET to == NewTable(s.table, s.ops)
            IN  to = s.table \/ (to[1] \in cat.schemas /\ ~Exists(cat, to))

(* The catalog after an accepted statement.                                 *)
AllIndexes(s) == [i \in IndexNames |-> IF s.indexes[i] = <<>> THEN s.unprojected[i] ELSE s.indexes[i]]
Effect(cat, s) ==
  CASE s.action \in {"USE", "DML"} -> cat
    [] s.action = "CREATE_DATABASE" -> [cat EXCEPT !.schemas = @ \cup {s.schema}]
    [] s.action = "DROP_DATABASE" ->
         [schemas |-> cat.schemas \ {s.schema},
          objects |-> Without(cat, {s.schema} \X Names).objects]
    [] s.action = "CREATE_TABLE" ->
         IF Exists(cat, s.table) THEN cat ELSE With(cat, s.table, aTable(s.columns, AllIndexes(s)))
    [] s.action = "CREATE_TABLE_LIKE" ->
         IF Exists(cat, s.table) THEN cat
         ELSE With(cat, s.table, [cat.objects[s.reference] EXCEPT !.rows = FALSE])
    [] s.action = "CREATE_VIEW" -> With(cat, s.table, aView)
    [] s.action = "DROP_TABLE" -> Without(cat, {r \in ToSet(s.tables) : IsTable(cat, r)})
    [] s.action = "DROP_VIEW" -> Without(cat, ToSet(s.tables))
    [] s.action = "RENAME_TABLE" -> Renamed(cat, s.pairs)
    [] s.action = "TRUNCATE_TABLE" -> With(cat, s.table, [cat.objects[s.table] EXCEPT !.rows = FALSE])
    [] Alters(s) ->
         LET old == cat.objects[s.table]
         IN  With(Without(cat, {s.table}), NewTable(s.table, s.ops),
                  [old EXCEPT !.columns = AlteredColumns(old.columns, s.ops),
                              !.indexes = AlteredIndexes(old.indexes, s.ops)])
=============================================================================
