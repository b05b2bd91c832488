---------------------------- MODULE DMLRollback ----------------------------
(***************************************************************************)
(* Undoing DML from its row images: rollback.Generate turns every captured  *)
(* change of a backed-up statement into one inverse statement, addressed by *)
(* the key keyWhere picks; the DMLSafety rule admits the statement only if  *)
(* the table has such a key.  The stored statements are replayed last first *)
(* (testcases/manual-regression/MANUAL_TEST_GUIDE.md:176).                  *)
(*                                                                          *)
(* A table is a set of rows: where two rows may be equal in every column    *)
(* there is no key, and Generate refuses.                                   *)
(***************************************************************************)
EXTENDS Integers, SequencesExt

CONSTANTS Columns,    \* the columns of the table
          Half,       \* 2^(w-1), where w is the width of an integer column
          Null,
          Expression, \* the nameless part of a functional index
          Tables,     \* table definitions considered
          Sources,    \* contents considered before the statement
          MaxChanges  \* most rows changed

Index == [columns : Seq(Columns \cup {Expression}), unique : BOOLEAN, primary : BOOLEAN]
(* A column holds NULL, an integer without sign of w bits (a column with    *)
(* sign differs by the reading of the top bit), or a text, numbered the     *)
(* same way: an odd one contains a backslash.                               *)
Values == 0 .. 2 * Half - 1

(* generated maps a generated column to the column it copies. *)
Table == [nullable : SUBSET Columns, indexes : Seq(Index),
          types : [Columns -> {"signed", "unsigned", "text"}],
          generated : UNION {[G -> Columns \ G] : G \in SUBSET Columns}]
Row   == [Columns -> Values \cup {Null}]

(* What MySQL itself sees to: a primary key names columns, is unique and    *)
(* not nullable.                                                            *)
ASSUME TablesAssumption ==
  /\ Tables \subseteq Table
  /\ \A t \in Tables : \A i \in DOMAIN t.indexes :
       t.indexes[i].primary =>
         /\ t.indexes[i].unique
         /\ t.indexes[i].columns # <<>>
         /\ ToSet(t.indexes[i].columns) \subseteq Columns \ t.nullable
ASSUME HalfAssumption == Half \in Nat \ {0}
ASSUME NullAssumption == Null \notin Int /\ Expression \notin Columns
ASSUME SourcesAssumption == Sources \subseteq SUBSET Row

VARIABLES
  table,      \* the table's definition
  requireKey, \* policy.RequireBackupKey
  noEscapes,  \* NO_BACKSLASH_ESCAPES is in the sql_mode of whoever replays
  origin,     \* its rows before the statement
  rows,       \* its rows now
  changes,    \* []RowChange, in binlog order
  undo,       \* the generated statements not yet replayed
  phase       \* where the statement, and later its rollback, stands

vars == <<table, requireKey, noEscapes, origin, rows, changes, undo, phase>>

----------------------------------------------------------------------------
(* MySQL (external): which contents a table admits.  NULLs never collide,   *)
(* and nothing is known of what an expression evaluates to.                 *)
Collide(ix, r, s) ==
  /\ ix.unique
  /\ \A i \in DOMAIN ix.columns :
       LET c == ix.columns[i] IN c # Expression /\ r[c] = s[c] /\ r[c] # Null
Admits(t, rs) ==
  /\ \A r \in rs, c \in Columns : r[c] = Null => c \in t.nullable
  /\ \A r \in rs, g \in DOMAIN t.generated : r[g] = r[t.generated[g]]
  /\ \A i \in DOMAIN t.indexes : \A r, s \in rs : Collide(t.indexes[i], r, s) => r = s

Init ==
  /\ table \in Tables
  /\ requireKey \in BOOLEAN
  /\ noEscapes \in BOOLEAN
  /\ noEscapes => \E c \in Columns : table.types[c] = "text"
  /\ rows \in {s \in Sources : Admits(table, s)}
  /\ origin = rows
  /\ changes = <<>>
  /\ undo = <<>>
  /\ phase = "audit"

----------------------------------------------------------------------------
(* hasReliableKey of the DMLSafety rule.                                    *)
hasReliableKey(t) ==
  \E i \in DOMAIN t.indexes :
     LET ix == t.indexes[i]
     IN  /\ ix.columns # <<>>
         /\ \/ ix.primary
            \/ ix.unique /\ ToSet(ix.columns) \subseteq Columns \ t.nullable

(* The audit of a statement with backup=1: without a key it is an Error,    *)
(* unless the policy does not ask for one.                                  *)
AuditedByAnyUnique(t) ==
  requireKey => \E i \in DOMAIN t.indexes : t.indexes[i].primary \/ t.indexes[i].unique
Audited(t) == requireKey => hasReliableKey(t)

Audit ==
  /\ phase = "audit"
  /\ phase' = IF Audited(table) THEN "execute" ELSE "rejected"
  /\ UNCHANGED <<table, requireKey, noEscapes, origin, rows, changes, undo>>

(* The target (external) changes one row; the binlog holds its images.      *)
Change(type, before, after, rs) ==
  /\ phase = "execute"
  /\ Len(changes) < MaxChanges
  /\ Admits(table, rs)
  /\ rows' = rs
  /\ changes' = Append(changes, [type |-> type, before |-> before, after |-> after])
  /\ UNCHANGED <<table, requireKey, noEscapes, origin, undo, phase>>

Insert(r) == r \notin rows /\ Change("INSERT", r, r, rows \cup {r})
Delete(r) == r \in rows /\ Change("DELETE", r, r, rows \ {r})
Update(r, s) ==
  /\ r \in rows /\ s \notin rows
  /\ Change("UPDATE", r, s, (rows \ {r}) \cup {s})

----------------------------------------------------------------------------
NamedIndex(t, ix) == ix.columns # <<>> /\ ToSet(ix.columns) \subseteq Columns
nonNullIndex(t, ix) == ix.columns # <<>> /\ ToSet(ix.columns) \subseteq Columns \ t.nullable

(* The index keyWhere picks, 0 if none: the primary key, else the first     *)
(* unique index without a nullable column.                                  *)
Primary(t) == SelectInSeq(t.indexes, LAMBDA ix : ix.primary)
NonNullUnique(t) == SelectInSeq(t.indexes, LAMBDA ix : ix.unique /\ nonNullIndex(t, ix))
Key(t) == IF Primary(t) # 0 THEN Primary(t) ELSE NonNullUnique(t)

(* The value a server reads out of the literal that literalColumn writes.   *)
(* The binlog reader (a library) hands integers out with a sign, and        *)
(* Column.Unsigned is not looked at.  A backslash is doubled, which a       *)
(* session without escapes takes for two, and so for another text.          *)
literalColumn(t, c, v) ==
  CASE v = Null -> Null
    [] v # Null /\ t.types[c] = "unsigned" -> IF v >= Half THEN v - 2 * Half ELSE v
    [] v # Null /\ t.types[c] = "text" -> IF noEscapes /\ v % 2 = 1 THEN v + 2 * Half ELSE v
    [] OTHER -> v
Rendered(t, row) == [c \in DOMAIN row |-> literalColumn(t, c, row[c])]

(* keyWhere succeeds, and the condition it builds: a value per key column.  *)
HasWhere(t) == Key(t) # 0 /\ ToSet(t.indexes[Key(t)].columns) \subseteq Columns
keyWhere(t, row) == [c \in ToSet(t.indexes[Key(t)].columns) |-> literalColumn(t, c, row[c])]

(* rollback.Generate of one change: deleteSQL, insertSQL or updateSQL.      *)
NeedsWhere(ch) == ch.type # "DELETE"
Generate(t, ch) ==
  CASE ch.type = "INSERT" -> [do |-> "DELETE", where |-> keyWhere(t, ch.after)]
    [] ch.type = "DELETE" -> [do |-> "INSERT", row |-> Rendered(t, ch.before)]
    [] ch.type = "UPDATE" -> [do |-> "UPDATE", where |-> keyWhere(t, ch.after),
                              row |-> Rendered(t, ch.before)]

(* The engine, after the statement: the rollback of every captured change   *)
(* in capture order, or BackupFailed if one cannot be generated.            *)
GenerateRollback ==
  /\ phase = "execute"
  /\ \/ /\ \A k \in DOMAIN changes : NeedsWhere(changes[k]) => HasWhere(table)
        /\ undo' = [k \in DOMAIN changes |-> Generate(table, changes[k])]
        /\ phase' = "backedUp"
     \/ /\ \E k \in DOMAIN changes : NeedsWhere(changes[k]) /\ ~HasWhere(table)
        /\ phase' = "backupFailed"
        /\ UNCHANGED undo
  /\ UNCHANGED <<table, requireKey, noEscapes, origin, rows, changes>>

----------------------------------------------------------------------------
(* Replay (external): the last stored statement first; LIMIT 1 takes any    *)
(* row that the condition fits, and a statement that assigns a generated    *)
(* column is refused (error 3105), as is a negative value for an unsigned   *)
(* column; insertSQL and updateSQL assign all columns.                      *)
Matching(where) == {r \in rows : \A c \in DOMAIN where : r[c] = where[c]}

OutOfRange(v) == v # Null /\ v < 0
Refused(u) == u.do # "DELETE" /\ (DOMAIN table.generated # {} \/ \E c \in Columns : OutOfRange(u.row[c]))
Outcomes(u) ==
  IF Refused(u) THEN {}
  ELSE CASE u.do = "INSERT" -> {rows \cup {u.row}}
         [] u.do = "DELETE" -> {rows \ {r} : r \in Matching(u.where)}
         [] u.do = "UPDATE" -> {(rows \ {r}) \cup {u.row} : r \in Matching(u.where)}

Replay ==
  /\ phase = "backedUp"
  /\ undo # <<>>
  /\ LET possible == {rs \in Outcomes(Last(undo)) : Admits(table, rs)}
     IN  /\ rows' \in IF possible = {} THEN {rows} ELSE possible
         /\ phase' = IF possible = {} THEN "stuck" ELSE phase
  /\ undo' = Front(undo)
  /\ UNCHANGED <<table, requireKey, noEscapes, origin, changes>>

Undone ==
  /\ phase = "backedUp"
  /\ undo = <<>>
  /\ phase' = "undone"
  /\ UNCHANGED <<table, requireKey, noEscapes, origin, rows, changes, undo>>

Over == phase \in {"rejected", "backupFailed", "stuck", "undone"} /\ UNCHANGED vars

Next ==
  \/ Audit
  \/ \E r \in Row : Insert(r) \/ Delete(r) \/ \E s \in Row : Update(r, s)
  \/ GenerateRollback \/ Replay \/ Undone \/ Over

Spec == Init /\ [][Next]_vars

----------------------------------------------------------------------------
(* docs/ROADMAP.md:106: after DML and its rollback the data is what it was, *)
(* row by row and column by column, and no stored statement fails or hits   *)
(* no row; also when the statement changed key columns, reused a key or     *)
(* changed one row several times.  Exceptions: in a table with a generated  *)
(* column the rollback of a DELETE or an UPDATE fails; a value of an        *)
(* unsigned column that needs its top bit makes it fail, too, but never     *)
(* restores something else; and a text with a backslash is safe only if the *)
(* rollback is replayed with backslash escapes.                             *)
Images(ch) == {ch.before, ch.after}
Holds(type, vs) ==
  \E i \in DOMAIN changes : \E r \in Images(changes[i]), c \in Columns :
     table.types[c] = type /\ r[c] \in vs
TopBit == {x \in Values : x >= Half}
Backslashed == {x \in Values : x % 2 = 1}
RowsRestored ==
  /\ phase = "undone" => rows = origin \/ (noEscapes /\ Holds("text", Backslashed))
  /\ phase = "stuck" =>
       \/ DOMAIN table.generated # {} /\ changes[Len(undo) + 1].type # "INSERT"
       \/ Holds("unsigned", TopBit)
       \/ noEscapes /\ Holds("text", Backslashed)

(* The audit rule and the generator agree on what a reliable key is: a      *)
(* statement admitted under RequireBackupKey is never executed and then     *)
(* left without a rollback for want of a key.                               *)
AdmittedHasRollback == requireKey => phase # "backupFailed"
=============================================================================
