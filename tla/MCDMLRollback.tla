--------------------------- MODULE MCDMLRollback ---------------------------
(* Two columns k and v of one bit.  Tables with no index, a primary key     *)
(* that comes after another index, unique indexes on one and on both        *)
(* columns, on an expression, and one that is not unique; any column that   *)
(* the primary key leaves free may be nullable, and v may be generated from *)
(* k; tables with a key and unsigned or text columns.  Before the statement *)
(* the table holds no row, one row or two.                                  *)
EXTENDS DMLRollback

CONSTANTS k, v

MCColumns == {k, v}

Ix(cs, unique, primary) == [columns |-> cs, unique |-> unique, primary |-> primary]
PrimaryK == Ix(<<k>>, TRUE, TRUE)
IndexLists ==
  {<<>>,
   <<Ix(<<v>>, FALSE, FALSE), PrimaryK>>,
   <<Ix(<<v>>, TRUE, FALSE), Ix(<<k>>, TRUE, FALSE)>>,
   <<Ix(<<v, k>>, TRUE, FALSE)>>,
   <<Ix(<<Expression>>, TRUE, FALSE)>>}
MCTables ==
  {t \in [nullable : SUBSET MCColumns, indexes : IndexLists,
         types : {[c \in MCColumns |-> "signed"]}, generated : {<<>>, v :> k}] :
     PrimaryK \in ToSet(t.indexes) => k \notin t.nullable}
  \cup [nullable : {{v}}, indexes : {<<PrimaryK>>, <<Ix(<<k>>, TRUE, FALSE)>>},
        types : [MCColumns -> {"unsigned", "text"}], generated : {<<>>}]
Both(x) == [c \in MCColumns |-> x]
MCSources == {{}, {Both(0)}, {Both(0), Both(1)}, {Both(Null), (k :> Null @@ v :> 0)}}
=============================================================================
