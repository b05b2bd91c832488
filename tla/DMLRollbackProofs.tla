------------------------- MODULE DMLRollbackProofs -------------------------
(***************************************************************************)
(* Proofs about DMLRollback, for every table, every number of columns,      *)
(* every width of an integer and statements that change any number of rows. *)
(***************************************************************************)
EXTENDS DMLRollback, TLAPS, SequenceTheorems, WellFoundedInduction

ChangeType == {"INSERT", "DELETE", "UPDATE"}
RowChange == [type : ChangeType, before : Row, after : Row]

(* A captured change leads from one content of the table to the next.       *)
Leads(ch, rs, rt) ==
  \/ ch.type = "INSERT" /\ ch.after \notin rs /\ rt = rs \cup {ch.after}
  \/ ch.type = "DELETE" /\ ch.before \in rs /\ rt = rs \ {ch.before}
  \/ ch.type = "UPDATE" /\ ch.before \in rs /\ ch.after \notin rs /\ rt = (rs \ {ch.before}) \cup {ch.after}

(* h[k] is the content after k changes.                                     *)
History(h) ==
  /\ h \in [Nat -> SUBSET Row]
  /\ h[0] = origin
  /\ \A k \in 0 .. Len(changes) : Admits(table, h[k])
  /\ \A k \in 1 .. Len(changes) : Leads(changes[k], h[k - 1], h[k])

(* What is replayed may be another text than what was captured.             *)
Garbled == noEscapes /\ Holds("text", Backslashed)

(* While the rollback is replayed the table goes back through the contents  *)
(* it had while the statement ran.                                          *)
RowsInv ==
  \E h : /\ History(h)
         /\ phase \in {"audit", "execute"} => rows = h[Len(changes)]
         /\ phase = "backedUp" => rows = h[Len(undo)] \/ Garbled

Undoable(k) == NeedsWhere(changes[k]) => HasWhere(table)
StateInv ==
  /\ table \in Tables
  /\ changes \in Seq(RowChange)
  /\ phase = "audit" => changes = <<>>
  /\ phase = "execute" => Audited(table)
  /\ phase = "backedUp" =>
       /\ undo \in Seq({Generate(table, changes[k]) : k \in DOMAIN changes})
       /\ Len(undo) <= Len(changes)
       /\ \A k \in 1 .. Len(undo) : undo[k] = Generate(table, changes[k]) /\ Undoable(k)

IInv == StateInv /\ RowsInv /\ RowsRestored /\ AdmittedHasRollback

----------------------------------------------------------------------------
LEMMA MinFacts ==
  ASSUME NEW S, S \subseteq Nat, S # {}
  PROVE  Min(S) \in S /\ \A y \in S : Min(S) <= y
<1>1. PICK x \in S : \A y \in S : ~ (<<y, x>> \in OpToRel(<, Nat))
  BY WFMin, NatLessThanWellFounded
<1>2. \A y \in S : x <= y
  <2> TAKE y \in S
  <2>1. x \in Nat /\ y \in Nat
    OBVIOUS
  <2>2. ~ (y < x)
    BY <1>1, <2>1 DEF OpToRel
  <2> QED  BY <2>1, <2>2
<1> QED  BY <1>2 DEF Min

(* The index keyWhere picks is a key, and there is one if the audit rule    *)
(* says so.                                                                 *)
LEMMA KeyFacts ==
  ASSUME NEW t \in Tables
  PROVE  /\ Key(t) # 0 =>
              /\ Key(t) \in DOMAIN t.indexes
              /\ t.indexes[Key(t)].unique
              /\ t.indexes[Key(t)].columns # <<>>
              /\ ToSet(t.indexes[Key(t)].columns) \subseteq Columns \ t.nullable
         /\ hasReliableKey(t) => HasWhere(t)
<1> DEFINE P == {i \in 1 .. Len(t.indexes) : t.indexes[i].primary}
           N == {i \in 1 .. Len(t.indexes) : t.indexes[i].unique /\ nonNullIndex(t, t.indexes[i])}
<1>1. t.indexes \in Seq(Index) /\ DOMAIN t.indexes = 1 .. Len(t.indexes) /\ Len(t.indexes) \in Nat
  BY TablesAssumption DEF Table
<1>2. Primary(t) = IF P # {} THEN Min(P) ELSE 0
  BY DEF Primary, SelectInSeq
<1>3. NonNullUnique(t) = IF N # {} THEN Min(N) ELSE 0
  BY DEF NonNullUnique, SelectInSeq
<1>4. P \subseteq Nat /\ N \subseteq Nat /\ 0 \notin P /\ 0 \notin N
  BY <1>1
<1>5. P # {} => Min(P) \in P
  BY <1>4, MinFacts
<1>6. N # {} => Min(N) \in N
  BY <1>4, MinFacts
<1>7. Key(t) # 0 => Key(t) \in P \/ Key(t) \in N
  BY <1>2, <1>3, <1>5, <1>6 DEF Key
<1>8. P # {} \/ N # {} => Key(t) # 0
  BY <1>2, <1>3, <1>4, <1>5, <1>6 DEF Key
<1>9. \A i \in P \cup N :
        /\ i \in DOMAIN t.indexes /\ t.indexes[i].unique /\ t.indexes[i].columns # <<>>
        /\ ToSet(t.indexes[i].columns) \subseteq Columns \ t.nullable
  BY <1>1, TablesAssumption DEF nonNullIndex
<1>10. hasReliableKey(t) => P # {} \/ N # {}
  BY <1>1 DEF hasReliableKey, nonNullIndex
<1> HIDE DEF P, N
<1>11. Key(t) # 0 => /\ Key(t) \in DOMAIN t.indexes /\ t.indexes[Key(t)].unique /\ t.indexes[Key(t)].columns # <<>>
                     /\ ToSet(t.indexes[Key(t)].columns) \subseteq Columns \ t.nullable
  BY <1>7, <1>9
<1> QED  BY <1>8, <1>10, <1>11 DEF HasWhere

(* A literal is the value, or makes the server refuse the statement, unless *)
(* the value is a text that is read back as another one.                    *)
LEMMA LiteralFacts ==
  ASSUME NEW t, NEW c \in Columns, NEW v \in Values \cup {Null},
         ~(noEscapes /\ t.types[c] = "text" /\ v \in Backslashed)
  PROVE  \/ literalColumn(t, c, v) = v
         \/ t.types[c] = "unsigned" /\ v \in TopBit /\ literalColumn(t, c, v) \in Int /\ literalColumn(t, c, v) < 0
<1>1. CASE v = Null
  BY <1>1 DEF literalColumn
<1>2. CASE v # Null /\ t.types[c] = "unsigned"
  <2>1. v \in Int /\ v < 2 * Half /\ 2 * Half \in Int
    BY <1>2, HalfAssumption DEF Values
  <2> QED  BY <1>2, <2>1, HalfAssumption DEF literalColumn, TopBit, Values
<1>3. CASE v # Null /\ t.types[c] = "text"
  BY <1>3 DEF literalColumn, Backslashed
<1>4. CASE v # Null /\ t.types[c] # "unsigned" /\ t.types[c] # "text"
  BY <1>4 DEF literalColumn
<1> QED  BY <1>1, <1>2, <1>3, <1>4

(* Two rows of an admitted content that agree on the key are one row.       *)
LEMMA KeyIdentifies ==
  ASSUME NEW t \in Tables, HasWhere(t), NEW rs \in SUBSET Row, Admits(t, rs), NEW r \in rs, NEW s \in rs,
         \A c \in ToSet(t.indexes[Key(t)].columns) : r[c] = s[c]
  PROVE  r = s
<1> DEFINE ix == t.indexes[Key(t)]
<1>1. Key(t) # 0 /\ Key(t) \in DOMAIN t.indexes /\ ix.unique /\ ToSet(ix.columns) \subseteq Columns \ t.nullable
  BY KeyFacts DEF HasWhere
<1>2. ASSUME NEW i \in DOMAIN ix.columns
      PROVE  ix.columns[i] # Expression /\ r[ix.columns[i]] = s[ix.columns[i]] /\ r[ix.columns[i]] # Null
  <2>1. ix.columns[i] \in ToSet(ix.columns)
    BY DEF ToSet
  <2>2. ix.columns[i] \in Columns /\ ix.columns[i] \notin t.nullable
    BY <1>1, <2>1
  <2> QED  BY <2>1, <2>2, NullAssumption DEF Admits
<1>3. Collide(ix, r, s)
  BY <1>1, <1>2 DEF Collide
<1> QED  BY <1>1, <1>3 DEF Admits

(* The condition keyWhere writes for a row of the table finds that row, or  *)
(* no row at all.                                                           *)
LEMMA WhereFacts ==
  ASSUME table \in Tables, HasWhere(table), rows \in SUBSET Row, Admits(table, rows), NEW r \in rows,
         \A c \in Columns : ~(noEscapes /\ table.types[c] = "text" /\ r[c] \in Backslashed)
  PROVE  \/ Matching(keyWhere(table, r)) = {r}
         \/ Matching(keyWhere(table, r)) = {} /\ \E c \in Columns : table.types[c] = "unsigned" /\ r[c] \in TopBit
<1> DEFINE K == ToSet(table.indexes[Key(table)].columns)
           w == keyWhere(table, r)
<1>1. K \subseteq Columns \ table.nullable
  BY KeyFacts DEF HasWhere
<1>2. w = [c \in K |-> literalColumn(table, c, r[c])]
  BY DEF keyWhere
<1> HIDE DEF K, w
<1>3. \A s \in rows, c \in K : s[c] \in Values
  BY <1>1 DEF Admits, Row
<1>4. CASE \A c \in K : literalColumn(table, c, r[c]) = r[c]
  <2>1. r \in Matching(w)
    BY <1>2, <1>4 DEF Matching
  <2>2. ASSUME NEW s \in Matching(w) PROVE s = r
    <3>1. s \in rows /\ \A c \in K : r[c] = s[c]
      BY <1>2, <1>4, <2>2 DEF Matching
    <3> QED  BY <3>1, KeyIdentifies DEF K
  <2> QED  BY <2>1, <2>2 DEF w
<1>5. CASE \E c \in K : literalColumn(table, c, r[c]) # r[c]
  <2>1. PICK c \in K : literalColumn(table, c, r[c]) # r[c]
    BY <1>5
  <2>2. c \in Columns /\ r[c] \in Values
    BY <1>1, <1>3, <2>1
  <2>3. /\ table.types[c] = "unsigned" /\ r[c] \in TopBit
        /\ literalColumn(table, c, r[c]) \in Int /\ literalColumn(table, c, r[c]) < 0
    BY <2>1, <2>2, LiteralFacts
  <2>4. \A s \in rows : s[c] # w[c]
    <3> TAKE s \in rows
    <3>1. s[c] \in Int /\ s[c] >= 0
      BY <1>3, HalfAssumption DEF Values
    <3> QED  BY <1>2, <2>3, <3>1
  <2>5. Matching(w) = {}
    BY <1>2, <2>4 DEF Matching
  <2> QED  BY <2>2, <2>3, <2>5 DEF w
<1> QED  BY <1>4, <1>5

(* The row insertSQL and updateSQL write is the captured one, or the server *)
(* refuses it.                                                              *)
LEMMA RenderedFacts ==
  ASSUME NEW t, NEW r \in Row, \A c \in Columns : ~(noEscapes /\ t.types[c] = "text" /\ r[c] \in Backslashed)
  PROVE  \/ Rendered(t, r) = r /\ \A c \in Columns : ~OutOfRange(Rendered(t, r)[c])
         \/ \E c \in Columns : OutOfRange(Rendered(t, r)[c]) /\ t.types[c] = "unsigned" /\ r[c] \in TopBit
<1>1. DOMAIN r = Columns /\ \A c \in Columns : r[c] \in Values \cup {Null}
  BY DEF Row
<1>2. Rendered(t, r) = [c \in Columns |-> literalColumn(t, c, r[c])]
  BY <1>1 DEF Rendered
<1>3. CASE \A c \in Columns : literalColumn(t, c, r[c]) = r[c]
  <2>1. Rendered(t, r) = r
    <3>1. r = [c \in Columns |-> r[c]]
      BY DEF Row
    <3>2. [c \in Columns |-> literalColumn(t, c, r[c])] = [c \in Columns |-> r[c]]
      BY <1>3
    <3> QED  BY <1>2, <3>1, <3>2
  <2>2. \A c \in Columns : ~OutOfRange(r[c])
    BY <1>1, HalfAssumption DEF OutOfRange, Values
  <2> QED  BY <2>1, <2>2
<1>4. CASE \E c \in Columns : literalColumn(t, c, r[c]) # r[c]
  <2>1. PICK c \in Columns : literalColumn(t, c, r[c]) # r[c]
    BY <1>4
  <2>2. /\ t.types[c] = "unsigned" /\ r[c] \in TopBit
        /\ literalColumn(t, c, r[c]) \in Int /\ literalColumn(t, c, r[c]) < 0
    BY <1>1, <2>1, LiteralFacts
  <2>3. OutOfRange(Rendered(t, r)[c])
    BY <1>2, <2>2, NullAssumption DEF OutOfRange
  <2> QED  BY <2>2, <2>3
<1> QED  BY <1>3, <1>4

(* The statement generated for a change takes the table back to what it was *)
(* before it, or is refused for one of two reasons.                         *)
LEMMA UndoFacts ==
  ASSUME table \in Tables, NEW ch \in RowChange, NEW rs \in SUBSET Row, rows \in SUBSET Row,
         Leads(ch, rs, rows), Admits(table, rs), Admits(table, rows), NeedsWhere(ch) => HasWhere(table),
         \A r \in Images(ch), c \in Columns : ~(noEscapes /\ table.types[c] = "text" /\ r[c] \in Backslashed)
  PROVE  LET possible == {x \in Outcomes(Generate(table, ch)) : Admits(table, x)}
         IN  \/ possible = {rs}
             \/ /\ possible = {}
                /\ \/ DOMAIN table.generated # {} /\ ch.type # "INSERT"
                   \/ \E r \in Images(ch), c \in Columns : table.types[c] = "unsigned" /\ r[c] \in TopBit
<1> DEFINE possible == {x \in Outcomes(Generate(table, ch)) : Admits(table, x)}
           refused == DOMAIN table.generated # {} \/ \E c \in Columns : OutOfRange(Rendered(table, ch.before)[c])
           u == Generate(table, ch)
<1>1. ch.type \in ChangeType /\ ch.before \in Row /\ ch.after \in Row /\ Images(ch) = {ch.before, ch.after}
  BY DEF RowChange, Images
<1>3. Outcomes(u) = {rs} => possible = {rs}
  OBVIOUS
<1>4. Outcomes(u) = {} => possible = {}
  OBVIOUS
<1>5. ASSUME ch.type # "INSERT", refused
      PROVE  \/ DOMAIN table.generated # {} /\ ch.type # "INSERT"
             \/ \E r \in Images(ch), c \in Columns : table.types[c] = "unsigned" /\ r[c] \in TopBit
  BY <1>1, <1>5, RenderedFacts
<1>6. ASSUME ch.type # "INSERT", ~refused PROVE Rendered(table, ch.before) = ch.before
  BY <1>1, <1>6, RenderedFacts
<1> HIDE DEF possible, refused, u
<1>7. CASE ch.type = "INSERT"
  <2>1. u.do = "DELETE" /\ u.where = keyWhere(table, ch.after)
    BY <1>7 DEF Generate, u
  <2>2. Outcomes(u) = {rows \ {r} : r \in Matching(keyWhere(table, ch.after))}
    BY <2>1 DEF Outcomes, Refused
  <2>3. ch.after \in rows /\ rows \ {ch.after} = rs /\ HasWhere(table)
    BY <1>7 DEF Leads, NeedsWhere
  <2>4. CASE Matching(keyWhere(table, ch.after)) = {ch.after}
    <3>1. Outcomes(u) = {rs}
      BY <2>2, <2>3, <2>4
    <3> QED  BY <1>3, <3>1 DEF possible
  <2>5. CASE /\ Matching(keyWhere(table, ch.after)) = {}
             /\ \E c \in Columns : table.types[c] = "unsigned" /\ ch.after[c] \in TopBit
    <3>1. Outcomes(u) = {}
      BY <2>2, <2>5
    <3> QED  BY <1>1, <1>4, <2>5, <3>1 DEF possible
  <2> QED  BY <1>1, <2>3, <2>4, <2>5, WhereFacts
<1>8. CASE ch.type = "DELETE"
  <2>1. u.do = "INSERT" /\ u.row = Rendered(table, ch.before)
    BY <1>8 DEF Generate, u
  <2>2. rows \cup {ch.before} = rs
    BY <1>8 DEF Leads
  <2>3. CASE refused
    <3>1. Outcomes(u) = {}
      BY <2>1, <2>3 DEF Outcomes, Refused, refused
    <3> QED  BY <1>4, <1>5, <1>8, <2>3, <3>1 DEF possible
  <2>4. CASE ~refused
    <3>1. Outcomes(u) = {rs}
      BY <1>6, <1>8, <2>1, <2>2, <2>4 DEF Outcomes, Refused, refused
    <3> QED  BY <1>3, <3>1 DEF possible
  <2> QED  BY <2>3, <2>4
<1>9. CASE ch.type = "UPDATE"
  <2>1. u.do = "UPDATE" /\ u.where = keyWhere(table, ch.after) /\ u.row = Rendered(table, ch.before)
    BY <1>9 DEF Generate, u
  <2>2. ch.after \in rows /\ (rows \ {ch.after}) \cup {ch.before} = rs /\ HasWhere(table)
    BY <1>9 DEF Leads, NeedsWhere
  <2>3. CASE refused
    <3>1. Outcomes(u) = {}
      BY <2>1, <2>3 DEF Outcomes, Refused, refused
    <3> QED  BY <1>4, <1>5, <1>9, <2>3, <3>1 DEF possible
  <2>4. CASE ~refused
    <3>1. Outcomes(u) = {(rows \ {r}) \cup {ch.before} : r \in Matching(keyWhere(table, ch.after))}
      BY <1>6, <1>9, <2>1, <2>4 DEF Outcomes, Refused, refused
    <3>2. CASE Matching(keyWhere(table, ch.after)) = {ch.after}
      <4>1. Outcomes(u) = {rs}
        BY <2>2, <3>1, <3>2
      <4> QED  BY <1>3, <4>1 DEF possible
    <3>3. CASE /\ Matching(keyWhere(table, ch.after)) = {}
               /\ \E c \in Columns : table.types[c] = "unsigned" /\ ch.after[c] \in TopBit
      <4>1. Outcomes(u) = {}
        BY <3>1, <3>3
      <4> QED  BY <1>1, <1>4, <3>3, <4>1 DEF possible
    <3> QED  BY <1>1, <2>2, <3>2, <3>3, WhereFacts
  <2> QED  BY <2>3, <2>4
<1> QED  BY <1>1, <1>7, <1>8, <1>9 DEF ChangeType, possible

----------------------------------------------------------------------------
LEMMA InitInv == Init => IInv
<1> SUFFICES ASSUME Init PROVE IInv
  OBVIOUS
<1>1. table \in Tables /\ changes = <<>> /\ phase = "audit" /\ origin = rows /\ Admits(table, rows) /\ rows \in SUBSET Row
  BY SourcesAssumption DEF Init
<1>2. StateInv /\ RowsRestored /\ AdmittedHasRollback
  BY <1>1 DEF StateInv, RowsRestored, AdmittedHasRollback
<1>3. RowsInv
  <2> DEFINE h == [k \in Nat |-> rows]
  <2>1. h \in [Nat -> SUBSET Row] /\ \A k \in Nat : h[k] = rows
    BY <1>1
  <2> HIDE DEF h
  <2>2. Len(changes) = 0
    BY <1>1
  <2>3. History(h) /\ rows = h[Len(changes)]
    BY <1>1, <2>1, <2>2 DEF History
  <2> QED  BY <1>1, <2>3 DEF RowsInv
<1> QED  BY <1>2, <1>3 DEF IInv

LEMMA AuditStep ==
  ASSUME IInv, Audit
  PROVE  IInv'
<1>1. /\ phase = "audit" /\ UNCHANGED <<table, requireKey, noEscapes, origin, rows, changes, undo>>
      /\ phase' = (IF Audited(table) THEN "execute" ELSE "rejected") /\ Audited(table)' = Audited(table)
  BY DEF Audit, Audited
<1>2. StateInv' /\ RowsRestored' /\ AdmittedHasRollback'
  BY <1>1 DEF IInv, StateInv, RowsRestored, AdmittedHasRollback
<1>3. PICK h : History(h) /\ rows = h[Len(changes)]
  BY <1>1 DEF IInv, RowsInv
<1>4. History(h)'
  BY <1>1, <1>3 DEF History
<1>5. RowsInv'
  BY <1>1, <1>3, <1>4 DEF RowsInv
<1> QED  BY <1>2, <1>5 DEF IInv

(* A row changes, and the history grows by the new content.                 *)
LEMMA ChangeStep ==
  ASSUME IInv, NEW type \in ChangeType, NEW before \in Row, NEW after \in Row, NEW rs \in SUBSET Row,
         Change(type, before, after, rs), Leads([type |-> type, before |-> before, after |-> after], rows, rs)
  PROVE  IInv'
<1> DEFINE ch == [type |-> type, before |-> before, after |-> after]
<1>1. /\ phase = "execute" /\ phase' = phase /\ UNCHANGED <<table, requireKey, noEscapes, origin, undo>>
      /\ rows' = rs /\ Admits(table, rs) /\ changes' = Append(changes, ch)
  BY DEF Change
<1>2. ch \in RowChange /\ changes \in Seq(RowChange) /\ Len(changes) \in Nat
  BY DEF RowChange, IInv, StateInv
<1> HIDE DEF ch
<1>3. /\ changes' \in Seq(RowChange) /\ Len(changes') = Len(changes) + 1 /\ changes'[Len(changes) + 1] = ch
      /\ \A k \in 1 .. Len(changes) : changes'[k] = changes[k]
  BY <1>1, <1>2
<1>4. StateInv' /\ RowsRestored' /\ AdmittedHasRollback'
  BY <1>1, <1>3 DEF IInv, StateInv, RowsRestored, AdmittedHasRollback, Audited
<1>5. PICK h : History(h) /\ rows = h[Len(changes)]
  BY <1>1 DEF IInv, RowsInv
<1>6. PICK g : /\ g \in [Nat -> SUBSET Row] /\ g[Len(changes) + 1] = rs
               /\ \A k \in Nat : k <= Len(changes) => g[k] = h[k]
  <2> DEFINE f == [k \in Nat |-> IF k = Len(changes) + 1 THEN rs ELSE h[k]]
  <2>1. /\ f \in [Nat -> SUBSET Row] /\ f[Len(changes) + 1] = rs
        /\ \A k \in Nat : k <= Len(changes) => f[k] = h[k]
    BY <1>2, <1>5 DEF History
  <2> HIDE DEF f
  <2> QED  BY <2>1
<1>7. \A k \in 0 .. Len(changes') : Admits(table, g[k])
  BY <1>1, <1>2, <1>3, <1>5, <1>6 DEF History
<1>8. \A k \in 1 .. Len(changes') : Leads(changes'[k], g[k - 1], g[k])
  <2> TAKE k \in 1 .. Len(changes')
  <2>1. CASE k <= Len(changes)
    <3>1. g[k] = h[k] /\ g[k - 1] = h[k - 1] /\ changes'[k] = changes[k] /\ k \in 1 .. Len(changes)
      BY <1>2, <1>3, <1>6, <2>1
    <3> QED  BY <1>5, <3>1 DEF History
  <2>2. CASE k = Len(changes) + 1
    <3>1. g[k] = rs /\ g[k - 1] = rows /\ changes'[k] = ch
      BY <1>2, <1>3, <1>5, <1>6, <2>2
    <3> QED  BY <3>1 DEF ch
  <2> QED  BY <1>2, <1>3, <2>1, <2>2
<1>9. History(g)'
  <2>1. g[0] = origin
    BY <1>2, <1>5, <1>6 DEF History
  <2> QED  BY <1>1, <1>6, <1>7, <1>8, <2>1 DEF History
<1>10. RowsInv'
  BY <1>1, <1>3, <1>6, <1>9 DEF RowsInv
<1> QED  BY <1>4, <1>10 DEF IInv

LEMMA ExecuteStep ==
  ASSUME IInv, NEW r \in Row, Insert(r) \/ Delete(r) \/ \E s \in Row : Update(r, s)
  PROVE  IInv'
<1>1. rows \in SUBSET Row
  <2>1. PICK h : History(h) /\ rows = h[Len(changes)]
    BY DEF IInv, RowsInv, Insert, Delete, Update, Change
  <2>2. Len(changes) \in Nat
    BY DEF IInv, StateInv
  <2> QED  BY <2>1, <2>2 DEF History
<1>2. CASE Insert(r)
  <2>1. r \notin rows /\ Change("INSERT", r, r, rows \cup {r}) /\ rows \cup {r} \in SUBSET Row
    BY <1>1, <1>2 DEF Insert
  <2>2. Leads([type |-> "INSERT", before |-> r, after |-> r], rows, rows \cup {r})
    BY <2>1 DEF Leads
  <2>3. "INSERT" \in ChangeType
    BY DEF ChangeType
  <2> QED  BY <2>1, <2>2, <2>3, ChangeStep
<1>3. CASE Delete(r)
  <2>1. r \in rows /\ Change("DELETE", r, r, rows \ {r}) /\ rows \ {r} \in SUBSET Row
    BY <1>1, <1>3 DEF Delete
  <2>2. Leads([type |-> "DELETE", before |-> r, after |-> r], rows, rows \ {r})
    BY <2>1 DEF Leads
  <2>3. "DELETE" \in ChangeType
    BY DEF ChangeType
  <2> QED  BY <2>1, <2>2, <2>3, ChangeStep
<1>4. CASE \E s \in Row : Update(r, s)
  <2>1. PICK s \in Row : Update(r, s)
    BY <1>4
  <2>2. /\ r \in rows /\ s \notin rows /\ Change("UPDATE", r, s, (rows \ {r}) \cup {s})
        /\ (rows \ {r}) \cup {s} \in SUBSET Row
    BY <1>1, <2>1 DEF Update
  <2>3. Leads([type |-> "UPDATE", before |-> r, after |-> s], rows, (rows \ {r}) \cup {s})
    BY <2>2 DEF Leads
  <2>4. "UPDATE" \in ChangeType
    BY DEF ChangeType
  <2> QED  BY <2>2, <2>3, <2>4, ChangeStep
<1> QED  BY <1>2, <1>3, <1>4

(* Every change gets its inverse; for want of a key only if the policy did  *)
(* not ask for one.                                                         *)
LEMMA GenerateStep ==
  ASSUME IInv, GenerateRollback
  PROVE  IInv'
<1>1. /\ phase = "execute" /\ UNCHANGED <<table, requireKey, noEscapes, origin, rows, changes>>
      /\ table \in Tables /\ changes \in Seq(RowChange) /\ Len(changes) \in Nat /\ Audited(table)
  BY DEF GenerateRollback, IInv, StateInv
<1>2. PICK h : History(h) /\ rows = h[Len(changes)]
  BY <1>1 DEF IInv, RowsInv
<1>3. History(h)'
  BY <1>1, <1>2 DEF History
<1>4. \A t, ch : Generate(t, ch)' = Generate(t, ch)
  BY <1>1 DEF Generate, keyWhere, Rendered, literalColumn
<1>5. CASE /\ \A k \in DOMAIN changes : NeedsWhere(changes[k]) => HasWhere(table)
           /\ undo' = [k \in DOMAIN changes |-> Generate(table, changes[k])] /\ phase' = "backedUp"
  <2> DEFINE S == {Generate(table, changes[k]) : k \in DOMAIN changes}
  <2>1. undo' = [k \in 1 .. Len(changes) |-> Generate(table, changes[k])] /\ DOMAIN changes = 1 .. Len(changes)
    BY <1>1, <1>5
  <2>2. undo' \in Seq(S)
    BY <1>1, <2>1, IsASeq
  <2>3. Len(undo') = Len(changes)
    BY <1>1, <2>1
  <2>4. StateInv'
    <3>1. S = {Generate(table, changes[k]) : k \in DOMAIN changes}'
      BY <1>1, <1>4
    <3>2. \A k \in 1 .. Len(undo') : undo'[k] = Generate(table, changes[k])' /\ Undoable(k)'
      BY <1>1, <1>4, <1>5, <2>1, <2>3 DEF Undoable
    <3> HIDE DEF S
    <3> QED  BY <1>1, <1>5, <2>2, <2>3, <3>1, <3>2 DEF StateInv
  <2>5. RowsInv'
    BY <1>1, <1>2, <1>3, <1>5, <2>3 DEF RowsInv
  <2> QED  BY <1>5, <2>4, <2>5 DEF IInv, RowsRestored, AdmittedHasRollback
<1>6. CASE (\E k \in DOMAIN changes : NeedsWhere(changes[k]) /\ ~HasWhere(table)) /\ phase' = "backupFailed"
  <2>1. ~requireKey
    BY <1>1, <1>6, KeyFacts DEF Audited
  <2>2. StateInv' /\ RowsRestored' /\ AdmittedHasRollback'
    BY <1>1, <1>6, <2>1 DEF StateInv, RowsRestored, AdmittedHasRollback
  <2>3. RowsInv'
    BY <1>3, <1>6 DEF RowsInv
  <2> QED  BY <2>2, <2>3 DEF IInv
<1> QED  BY <1>5, <1>6 DEF GenerateRollback

(* One stored statement is replayed: the table goes back by one change.     *)
LEMMA ReplayStep ==
  ASSUME IInv, Replay
  PROVE  IInv'
<1> DEFINE n == Len(undo)
           possible == {rs \in Outcomes(Last(undo)) : Admits(table, rs)}
           Undos == {Generate(table, changes[k]) : k \in DOMAIN changes}
<1>1. /\ phase = "backedUp" /\ undo # <<>> /\ undo' = Front(undo)
      /\ UNCHANGED <<table, requireKey, noEscapes, origin, changes>>
      /\ rows' \in (IF possible = {} THEN {rows} ELSE possible)
      /\ phase' = IF possible = {} THEN "stuck" ELSE "backedUp"
  BY DEF Replay
<1>2. /\ table \in Tables /\ changes \in Seq(RowChange) /\ Len(changes) \in Nat
      /\ undo \in Seq(Undos) /\ n <= Len(changes) /\ n \in Nat \ {0}
      /\ \A k \in 1 .. n : undo[k] = Generate(table, changes[k]) /\ Undoable(k)
  BY <1>1 DEF IInv, StateInv
<1>3. Last(undo) = Generate(table, changes[n]) /\ Undoable(n) /\ n \in 1 .. Len(changes) /\ changes[n] \in RowChange
  BY <1>2 DEF Last
<1> HIDE DEF Undos
<1>4. /\ undo' \in Seq(Undos) /\ Len(undo') = n - 1
      /\ \A k \in 1 .. n - 1 : undo'[k] = undo[k]
  <2>1. \A i \in 1 .. n - 1 : undo[i] \in Undos
    BY <1>2
  <2>2. 1 \in Int /\ n - 1 \in Int
    BY <1>2
  <2>3. /\ SubSeq(undo, 1, n - 1) \in Seq(Undos)
        /\ Len(SubSeq(undo, 1, n - 1)) = IF 1 <= n - 1 THEN n - 1 - 1 + 1 ELSE 0
        /\ \A i \in 1 .. n - 1 - 1 + 1 : SubSeq(undo, 1, n - 1)[i] = undo[1 + i - 1]
    BY <2>1, <2>2, SubSeqProperties
  <2>4. undo' = SubSeq(undo, 1, n - 1)
    BY <1>1 DEF Front
  <2> HIDE DEF n
  <2> QED  BY <1>2, <2>3, <2>4
<1> HIDE DEF n
<1>5. \A t, ch : Generate(t, ch)' = Generate(t, ch)
  BY <1>1 DEF Generate, keyWhere, Rendered, literalColumn
<1>6. Garbled' = Garbled
  BY <1>1 DEF Garbled, Holds
<1>7. PICK h : History(h) /\ (rows = h[n] \/ Garbled)
  BY <1>1 DEF IInv, RowsInv, n
<1>8. History(h)'
  BY <1>1, <1>7 DEF History
<1>9. ASSUME ~Garbled
      PROVE  \/ possible = {h[n - 1]}
             \/ /\ possible = {}
                /\ \/ DOMAIN table.generated # {} /\ changes[n].type # "INSERT"
                   \/ Holds("unsigned", TopBit)
  <2>1. /\ rows = h[n] /\ h[n] \in SUBSET Row /\ h[n - 1] \in SUBSET Row /\ Leads(changes[n], h[n - 1], h[n])
        /\ Admits(table, h[n]) /\ Admits(table, h[n - 1])
    BY <1>2, <1>3, <1>7, <1>9 DEF History
  <2>2. \A r \in Images(changes[n]), c \in Columns : ~(noEscapes /\ table.types[c] = "text" /\ r[c] \in Backslashed)
    BY <1>2, <1>3, <1>9 DEF Garbled, Holds
  <2>3. \/ possible = {h[n - 1]}
        \/ /\ possible = {}
           /\ \/ DOMAIN table.generated # {} /\ changes[n].type # "INSERT"
              \/ \E r \in Images(changes[n]), c \in Columns : table.types[c] = "unsigned" /\ r[c] \in TopBit
    BY <1>2, <1>3, <2>1, <2>2, UndoFacts DEF Undoable
  <2> QED  BY <1>2, <1>3, <2>3 DEF Holds
<1> HIDE DEF possible
<1>10. StateInv'
  <2>1. Undos = {Generate(table, changes[k]) : k \in DOMAIN changes}'
    BY <1>1, <1>5 DEF Undos
  <2>2. \A k \in 1 .. n - 1 : undo'[k] = Generate(table, changes[k])' /\ Undoable(k)'
    BY <1>1, <1>2, <1>4, <1>5 DEF Undoable
  <2> QED  BY <1>1, <1>2, <1>4, <2>1, <2>2 DEF StateInv
<1>11. RowsInv'
  <2>1. phase' = "backedUp" => rows' = h[Len(undo')] \/ Garbled'
    BY <1>1, <1>4, <1>6, <1>9
  <2>2. phase' \notin {"audit", "execute"}
    BY <1>1
  <2> QED  BY <1>8, <2>1, <2>2 DEF RowsInv
<1>12. RowsRestored'
  <2>1. n - 1 + 1 = n /\ Len(undo') + 1 = n
    BY <1>2, <1>4
  <2>2. phase' = "stuck" => \/ DOMAIN table.generated # {} /\ changes[n].type # "INSERT"
                            \/ Holds("unsigned", TopBit)
                            \/ Garbled
    BY <1>1, <1>9
  <2>3. Holds("unsigned", TopBit)' = Holds("unsigned", TopBit)
    BY <1>1 DEF Holds
  <2>4. phase' # "undone"
    BY <1>1
  <2> QED  BY <1>1, <1>6, <2>1, <2>2, <2>3, <2>4 DEF RowsRestored, Garbled
<1>13. AdmittedHasRollback'
  BY <1>1 DEF AdmittedHasRollback
<1> QED  BY <1>10, <1>11, <1>12, <1>13 DEF IInv

LEMMA UndoneStep ==
  ASSUME IInv, Undone
  PROVE  IInv'
<1>1. /\ phase = "backedUp" /\ phase' = "undone" /\ undo = <<>>
      /\ UNCHANGED <<table, requireKey, noEscapes, origin, rows, changes, undo>>
  BY DEF Undone
<1>2. PICK h : History(h) /\ (rows = h[Len(undo)] \/ Garbled)
  BY <1>1 DEF IInv, RowsInv
<1>3. rows = origin \/ Garbled
  BY <1>1, <1>2 DEF History
<1>4. RowsRestored'
  BY <1>1, <1>3 DEF RowsRestored, Garbled, Holds
<1>5. History(h)'
  BY <1>1, <1>2 DEF History
<1>6. StateInv' /\ RowsInv' /\ AdmittedHasRollback'
  BY <1>1, <1>5 DEF IInv, StateInv, RowsInv, AdmittedHasRollback
<1> QED  BY <1>4, <1>6 DEF IInv

LEMMA StutterStep ==
  ASSUME IInv, UNCHANGED vars
  PROVE  IInv'
<1>1. UNCHANGED <<table, requireKey, noEscapes, origin, rows, changes, undo, phase>>
  BY DEF vars
<1>2. \A t, ch : Generate(t, ch)' = Generate(t, ch)
  BY <1>1 DEF Generate, keyWhere, Rendered, literalColumn
<1>3. {Generate(table, changes[k]) : k \in DOMAIN changes}' = {Generate(table, changes[k]) : k \in DOMAIN changes}
  BY <1>1, <1>2
<1>4. StateInv'
  <2>1. \A k : Undoable(k)' = Undoable(k) /\ Generate(table, changes[k])' = Generate(table, changes[k])
    BY <1>1, <1>2 DEF Undoable
  <2>2. Audited(table)' = Audited(table)
    BY <1>1 DEF Audited
  <2> QED  BY <1>1, <1>3, <2>1, <2>2 DEF IInv, StateInv
<1>5. Garbled' = Garbled /\ Holds("unsigned", TopBit)' = Holds("unsigned", TopBit)
  BY <1>1 DEF Garbled, Holds
<1>6. RowsInv'
  BY <1>1, <1>5 DEF IInv, RowsInv, History
<1>7. RowsRestored' /\ AdmittedHasRollback'
  BY <1>1, <1>5 DEF IInv, RowsRestored, AdmittedHasRollback, Garbled
<1> QED  BY <1>4, <1>6, <1>7 DEF IInv

LEMMA Invariance == Spec => []IInv
<1>1. Init => IInv
  BY InitInv
<1>2. IInv /\ [Next]_vars => IInv'
  <2> SUFFICES ASSUME IInv, [Next]_vars PROVE IInv'
    OBVIOUS
  <2>1. CASE Audit
    BY <2>1, AuditStep
  <2>2. CASE \E r \in Row : Insert(r) \/ Delete(r) \/ \E s \in Row : Update(r, s)
    BY <2>2, ExecuteStep
  <2>3. CASE GenerateRollback
    BY <2>3, GenerateStep
  <2>4. CASE Replay
    BY <2>4, ReplayStep
  <2>5. CASE Undone
    BY <2>5, UndoneStep
  <2>6. CASE Over \/ UNCHANGED vars
    BY <2>6, StutterStep DEF Over
  <2> QED  BY <2>1, <2>2, <2>3, <2>4, <2>5, <2>6 DEF Next
<1> QED  BY <1>1, <1>2, PTL DEF Spec

----------------------------------------------------------------------------
(* Replaying the stored inverses last first restores every row, whatever    *)
(* the statement did to keys and however often it changed a row, but for    *)
(* the exceptions the property names; a wrong restoration needs a text with *)
(* a backslash.                                                             *)
THEOREM RowsRestoredCorrect == Spec => []RowsRestored
<1>1. IInv => RowsRestored
  BY DEF IInv
<1> QED  BY <1>1, Invariance, PTL

(* hasReliableKey of the audit implies that keyWhere finds a key.           *)
THEOREM AdmittedCorrect == Spec => []AdmittedHasRollback
<1>1. IInv => AdmittedHasRollback
  BY DEF IInv
<1> QED  BY <1>1, Invariance, PTL
=============================================================================
