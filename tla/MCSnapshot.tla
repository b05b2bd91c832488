----------------------------- MODULE MCSnapshot -----------------------------
(* Two schemas, two names, two columns, two indexes.  The source has table  *)
(* a (columns x and y, an index on x, with rows) and, in one variant, a     *)
(* view b.                                                                  *)
EXTENDS Snapshot

CONSTANTS s1, s2, a, b, x, y, i, j

MCSchemas == {s1, s2}
MCNames   == {a, b}
MCColumns == {x, y}
MCIndexes == {i, j}

IndexOn(n, cs) == [NoIndexes EXCEPT ![n] = cs]
Empty == [schemas |-> {s1}, objects |-> [r \in Ref |-> Absent]]
OneTable == With(Empty, <<s1, a>>, [aTable(<<x, y>>, IndexOn(i, <<x, y>>)) EXCEPT !.rows = TRUE])
TableAndView == With(OneTable, <<s1, b>>, [aView EXCEPT !.columns = <<x>>])
MCSources == {Empty, OneTable, TableAndView}

(* Table a of either schema, and of the current one.                        *)
Tables == {<<s1, a>>, <<s2, a>>, <<NoSchema, a>>}
Others == {<<s1, b>>, <<NoSchema, b>>}
Pair(from, to) == [from |-> from, to |-> to]

AlterOps ==
  [op : {"ADD_COLUMN", "DROP_COLUMN"}, column : Columns]
    \cup [op : {"MODIFY_COLUMN"}, column : {x}]
    \cup [op : {"RENAME_COLUMN", "CHANGE_COLUMN"}, column : {x}, newName : {y}]
    \cup [op : {"ADD_INDEX"}, index : {j}, columns : {<<x>>, <<y>>}]
    \cup [op : {"DROP_INDEX"}, index : IndexNames]
    \cup [op : {"RENAME_INDEX"}, index : {i}, newName : {j}]
    \cup [op : {"RENAME_TABLE"}, newTable : {<<s1, b>>}]
    \cup [op : {"TABLE_OPTIONS"}]
(* A column added, modified or changed with a key of its own.               *)
Key(c) == [op |-> "COLUMN_KEY", index |-> j, columns |-> <<c>>]
Keyed ==
  {<<[op |-> "ADD_COLUMN", column |-> y], Key(y)>>,
   <<[op |-> "MODIFY_COLUMN", column |-> x], Key(x)>>,
   <<[op |-> "CHANGE_COLUMN", column |-> x, newName |-> y], Key(y)>>,
   <<[op |-> "DROP_COLUMN", column |-> y], [op |-> "MODIFY_COLUMN", column |-> x], Key(x)>>}
OneOp  == [1 .. 1 -> AlterOps]
TwoOps == [1 .. 2 -> AlterOps]

Creating ==
  {CreateDatabase(s, n) : s \in Schemas, n \in BOOLEAN}
    \cup {CreateTable(r, <<x>>, IndexOn(j, <<x>>), NoIndexes, n) : r \in Tables \cup Others, n \in BOOLEAN}
    \cup {CreateTable(r, <<x>>, IndexOn(j, <<x>>), IndexOn(n, <<x>>), FALSE) :
             r \in {<<s1, a>>, <<NoSchema, b>>}, n \in IndexNames}
    \cup {CreateTableLike(r, <<s1, a>>, n) : r \in Tables, n \in BOOLEAN}
    \cup {CreateTableLike(r, <<NoSchema, a>>, FALSE) : r \in {<<NoSchema, b>>, <<s2, b>>}}
    \cup {CreateView(r) : r \in Tables \cup Others}
Renaming ==
  {RenameTable(<<Pair(r, q)>>) : r \in Tables, q \in TableRef}
    \cup {RenameTable(<<Pair(<<s1, a>>, q), Pair(<<s1, b>>, r)>>) : q \in Ref, r \in Ref}
    \cup {RenameTable(<<Pair(<<s1, a>>, <<s2, b>>), Pair(<<s1, a>>, r)>>) : r \in Ref}
Altering ==
  {AlterTable(r, ops) : r \in Tables, ops \in OneOp}
    \cup {AlterTable(<<s1, a>>, ops) : ops \in TwoOps \cup Keyed}
    \cup {AlterTable(r, <<[op |-> "RENAME_TABLE", newTable |-> <<NoSchema, b>>]>>) :
             r \in {<<NoSchema, a>>, <<s2, a>>}}
    \cup {TruncateTable(r) : r \in Tables \cup Others}
    \cup {CreateIndex(r, j, <<y>>) : r \in Tables}
    \cup {DropIndex(r, n) : r \in Tables, n \in IndexNames}
Dropping ==
  {DropTable(rs, FALSE) : rs \in [1 .. 1 -> TableRef] \cup {<<<<s1, a>>, r>> : r \in Ref}}
    \cup {DropTable(<<r>>, TRUE) : r \in Tables \cup Others}
    \cup {DropDatabase(s, n) : s \in Schemas, n \in BOOLEAN}
    \cup {DropView(rs, n) : rs \in [1 .. 1 -> Others \cup Tables], n \in BOOLEAN}
Using == {Use(s) : s \in Schemas} \cup {DML(r, {c}) : r \in Tables \cup Others, c \in Columns}

MCStatements == Creating \cup Renaming \cup Altering \cup Dropping \cup Using
=============================================================================
