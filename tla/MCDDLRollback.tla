--------------------------- MODULE MCDDLRollback ---------------------------
(* Two schemas, two names, three columns, one index; the source has table a *)
(* (column x), without rows unless the run is about data: the CREATE that   *)
(* undoes a DROP TABLE does not bring rows back.                            *)
EXTENDS DDLRollback

CONSTANTS s1, s2, a, b, x, y, z, i

MCSchemas == {s1, s2}
MCNames   == {a, b}
MCColumns == {x, y, z}
MCIndexes == {i}

Empty == [schemas |-> {s1}, objects |-> [r \in Ref |-> Absent]]
EmptyTable == With(Empty, <<s1, a>>, aTable(<<x>>, NoIndexes))
FullTable  == With(Empty, <<s1, a>>, [aTable(<<x>>, NoIndexes) EXCEPT !.rows = TRUE])
MCSources == {Empty, EmptyTable, FullTable}
MCEmptySources == {Empty, EmptyTable}

Pair(from, to) == [from |-> from, to |-> to]
AlterOps ==
  [op : {"ADD_COLUMN", "DROP_COLUMN"}, column : Columns]
    \cup [op : {"RENAME_COLUMN"}, column : {x, y}, newName : {x, y}]
    \cup [op : {"ADD_INDEX"}, index : {i}, columns : {<<x>>, <<y>>}]
    \cup [op : {"RENAME_TABLE"}, newTable : {<<s1, b>>}]
ColumnsOf(o) ==
  {o[f] : f \in DOMAIN o \cap {"column", "newName"}}
    \cup (IF o.op = "ADD_INDEX" THEN ToSet(o.columns) ELSE {})
OneOp  == [1 .. 1 -> AlterOps]
TwoOps == [1 .. 2 -> AlterOps]
(* A column added with a key of its own, alone or beside another column.    *)
Key(c) == [op |-> "COLUMN_KEY", index |-> i, columns |-> <<c>>]
Keyed  == {<<[op |-> "ADD_COLUMN", column |-> y], Key(y)>>,
           <<[op |-> "ADD_COLUMN", column |-> z], [op |-> "ADD_COLUMN", column |-> y], Key(y)>>,
           <<[op |-> "DROP_COLUMN", column |-> x], [op |-> "ADD_COLUMN", column |-> y], Key(y)>>}
Apart  == {ops \in TwoOps : ColumnsOf(ops[1]) \cap ColumnsOf(ops[2]) = {}}

(* Every kind but CREATE ... IF NOT EXISTS and an ALTER whose operations    *)
(* share a column, which have runs of their own, unless they share it as a  *)
(* column and its key.                                                      *)
Lossless ==
  {CreateDatabase(s, FALSE) : s \in Schemas}
    \cup {DropDatabase(s, n) : s \in Schemas, n \in BOOLEAN}
    \cup {CreateTable(r, <<x>>, n, NoIndexes, FALSE) : r \in Ref, n \in {NoIndexes, [NoIndexes EXCEPT ![i] = <<x>>]}}
    \cup {CreateTableLike(r, <<s1, a>>, FALSE) : r \in Ref}
    \cup {CreateView(r) : r \in Ref}
    \cup {TruncateTable(r) : r \in Ref}
    \cup {CreateIndex(r, i, <<x>>) : r \in {<<s1, a>>, <<s1, b>>}}
    \cup {DropIndex(<<s1, a>>, i)}
    \cup {RenameTable(<<Pair(r, q)>>) : r \in Ref, q \in Ref}
    \cup {RenameTable(<<Pair(<<s1, a>>, q), Pair(<<s1, b>>, r)>>) :
            q \in Ref, r \in Ref}
    \cup {AlterTable(r, ops) : r \in {<<s1, a>>, <<s1, b>>}, ops \in OneOp \cup Apart \cup Keyed}
Drops == {DropTable(rs, FALSE) : rs \in [1 .. 1 -> Ref] \cup {<<<<s1, a>>, r>> : r \in Ref}}

MCStatements == Lossless \cup Drops
(* Beside harmless ones, an ALTER that adds a column and an index on it.    *)
AddsIndexed == {ops \in TwoOps : ops[1].op = "ADD_COLUMN" /\ ops[2].op = "ADD_INDEX"}
MCAlters == {AlterTable(<<s1, a>>, ops) : ops \in Apart \cup AddsIndexed}
MCIfNotExists == {CreateTable(r, <<x>>, NoIndexes, NoIndexes, TRUE) : r \in Ref}
=============================================================================
