--------------------------- MODULE SnapshotProofs ---------------------------
(***************************************************************************)
(* Proofs about Snapshot and the statements of Catalog, for any schemas,    *)
(* names, columns and indexes, batches of any length, and an ALTER or a     *)
(* RENAME with any number of operations or pairs.                           *)
(***************************************************************************)
EXTENDS Snapshot, TLAPS, SequenceTheorems, FiniteSetTheorems, WellFoundedInduction

----------------------------------------------------------------------------
(* Induction over the positions of a list: a set of positions with the      *)
(* first one, and with the next of each, has them all.                      *)
LEMMA Induction ==
  ASSUME NEW N \in Nat, NEW P, 0 \in P, \A n \in 0 .. N - 1 : n \in P => n + 1 \in P
  PROVE  \A n \in 0 .. N : n \in P
<1> SUFFICES ASSUME NEW x \in 0 .. N, x \notin P PROVE FALSE
  OBVIOUS
<1> DEFINE S == {n \in Nat : n <= N /\ n \notin P}
<1>1. x \in S /\ S \subseteq Nat
  OBVIOUS
<1>2. PICK m \in S : \A n \in S : ~(<<n, m>> \in OpToRel(<, Nat))
  BY <1>1, NatLessThanWellFounded, WFMin
<1>3. \A n \in S : ~(n < m)
  BY <1>1, <1>2 DEF OpToRel
<1>4. m # 0 /\ m - 1 \in 0 .. N - 1
  OBVIOUS
<1>5. m - 1 \in P
  BY <1>3, <1>4
<1> QED  BY <1>4, <1>5

(* f is defined from each position to the next by the steps g.              *)
StepFunctions(N, S) == [1 .. N -> [S -> S]]
Follows(N, S, base, g, f) ==
  /\ f \in [0 .. N -> S]
  /\ f[0] = base
  /\ \A n \in 1 .. N : f[n] = g[n][f[n - 1]]

(* There is such a function.                                                *)
LEMMA Recursion ==
  ASSUME NEW N \in Nat, NEW S, NEW base \in S, NEW g \in StepFunctions(N, S)
  PROVE  \E f : Follows(N, S, base, g, f)
<1> USE DEF StepFunctions
<1> DEFINE Upto(n, f) == /\ f \in [0 .. n -> S]
                         /\ f[0] = base
                         /\ \A i \in 1 .. n : f[i] = g[i][f[i - 1]]
           P == {n \in 0 .. N : \E f : Upto(n, f)}
<1>1. 0 \in P
  <2> DEFINE f == [i \in 0 .. 0 |-> base]
  <2>1. Upto(0, f)
    OBVIOUS
  <2> HIDE DEF f, Upto
  <2> QED  BY <2>1
<1>2. ASSUME NEW n \in 0 .. N - 1, n \in P PROVE n + 1 \in P
  <2>1. PICK f : Upto(n, f)
    BY <1>2
  <2> DEFINE h == [i \in 0 .. n + 1 |-> IF i = n + 1 THEN g[n + 1][f[n]] ELSE f[i]]
  <2>2. g[n + 1][f[n]] \in S
    BY <2>1
  <2>3. h \in [0 .. n + 1 -> S]
    BY <2>1, <2>2
  <2>4. h[0] = base
    BY <2>1
  <2>5. ASSUME NEW i \in 1 .. n + 1 PROVE h[i] = g[i][h[i - 1]]
    <3>1. CASE i = n + 1
      BY <3>1
    <3>2. CASE i \in 1 .. n
      BY <2>1, <3>2
    <3> QED  BY <3>1, <3>2
  <2>6. Upto(n + 1, h)
    BY <2>3, <2>4, <2>5
  <2>7. n + 1 \in 0 .. N
    OBVIOUS
  <2> HIDE DEF h, Upto
  <2> QED  BY <2>6, <2>7
<1> HIDE DEF P
<1>3. N \in P
  <2>1. \A n \in 0 .. N : n \in P
    BY <1>1, <1>2, Induction
  <2> QED  BY <2>1
<1> QED  BY <1>3 DEF P, Follows

(* ... and no other.                                                        *)
LEMMA RecursionUnique ==
  ASSUME NEW N \in Nat, NEW S, NEW base, NEW g, NEW f, Follows(N, S, base, g, f),
         NEW h, h[0] = base, \A n \in 1 .. N : h[n - 1] \in S => h[n] = g[n][h[n - 1]]
  PROVE  \A n \in 0 .. N : h[n] = f[n]
<1> DEFINE P == {n \in 0 .. N : h[n] = f[n]}
<1>1. 0 \in P
  BY DEF Follows
<1>2. ASSUME NEW n \in 0 .. N - 1, n \in P PROVE n + 1 \in P
  <2>1. n + 1 \in 1 .. N /\ (n + 1) - 1 = n /\ n \in 0 .. N
    OBVIOUS
  <2>2. f[n] \in S /\ f[n + 1] = g[n + 1][f[n]]
    BY <2>1 DEF Follows
  <2>3. h[n] = f[n]
    BY <1>2
  <2>4. h[n + 1] = g[n + 1][h[n]]
    BY <2>1, <2>2, <2>3
  <2> QED  BY <2>1, <2>2, <2>3, <2>4
<1> HIDE DEF P
<1>3. \A n \in 0 .. N : n \in P
  BY <1>1, <1>2, Induction
<1> QED  BY <1>3 DEF P

----------------------------------------------------------------------------
Naming == [Columns -> Columns \cup {Absent}]
ThroughStep(cs, name, n, t) == IF name[cs[n]] = Absent THEN t ELSE Append(t, name[cs[n]])

(* Through satisfies its own equation.                                      *)
LEMMA ThroughDef ==
  ASSUME NEW cs \in Seq(Columns), NEW name \in Naming
  PROVE  \E f \in [0 .. Len(cs) -> Seq(Columns)] :
           /\ f[0] = <<>>
           /\ \A n \in 1 .. Len(cs) : f[n] = ThroughStep(cs, name, n, f[n - 1])
           /\ Through(cs, name) = f[Len(cs)]
<1> DEFINE N == Len(cs)
           G == [n \in 1 .. N |-> [t \in Seq(Columns) |-> ThroughStep(cs, name, n, t)]]
           Is(f) == f = [n \in 0 .. N |-> IF n = 0 THEN <<>> ELSE ThroughStep(cs, name, n, f[n - 1])]
           h == CHOOSE f : Is(f)
<1>1. N \in Nat /\ \A n \in 1 .. N : cs[n] \in Columns
  OBVIOUS
<1>2. \A n \in 1 .. N, t \in Seq(Columns) : ThroughStep(cs, name, n, t) \in Seq(Columns)
  BY <1>1 DEF Naming, ThroughStep
<1> HIDE DEF N
<1>3. G \in StepFunctions(N, Seq(Columns))
  BY <1>2 DEF StepFunctions
<1>4. <<>> \in Seq(Columns)
  OBVIOUS
<1>5. PICK f : Follows(N, Seq(Columns), <<>>, G, f)
  BY <1>1, <1>3, <1>4, Recursion
<1>6. ASSUME NEW n \in 1 .. N PROVE f[n] = ThroughStep(cs, name, n, f[n - 1])
  <2>1. f[n - 1] \in Seq(Columns) /\ f[n] = G[n][f[n - 1]]
    <3> HIDE DEF G
    <3> QED  BY <1>1, <1>5 DEF Follows
  <2> QED  BY <2>1
<1>7. f \in [0 .. N -> Seq(Columns)] /\ f[0] = <<>>
  BY <1>5 DEF Follows
<1>8. Is(f)
  BY <1>1, <1>6, <1>7
<1>9. Is(h)
  BY <1>8
<1>10. Through(cs, name) = h[N]
  BY DEF Through, ThroughStep, N
<1> HIDE DEF h
<1>11. h[0] = <<>> /\ \A n \in 1 .. N : h[n] = ThroughStep(cs, name, n, h[n - 1])
  BY <1>1, <1>9
<1>12. \A n \in 1 .. N : h[n - 1] \in Seq(Columns) => h[n] = G[n][h[n - 1]]
  BY <1>11
<1>13. \A n \in 0 .. N : h[n] = f[n]
  <2> HIDE DEF G
  <2> QED  BY <1>1, <1>5, <1>11, <1>12, RecursionUnique
<1>14. Through(cs, name) = f[N]
  BY <1>1, <1>10, <1>13
<1> QED  BY <1>6, <1>7, <1>14 DEF N

(* Induction over a list: by its last element.                              *)
LEMMA ListInduction ==
  ASSUME NEW S, NEW P, <<>> \in P, \A s \in Seq(S), e \in S : s \in P => Append(s, e) \in P
  PROVE  \A s \in Seq(S) : s \in P
<1> DEFINE Q == {n \in Nat : \A s \in Seq(S) : Len(s) = n => s \in P}
<1>1. 0 \in Q
  OBVIOUS
<1>2. ASSUME NEW n \in Nat, n \in Q PROVE n + 1 \in Q
  <2> SUFFICES ASSUME NEW s \in Seq(S), Len(s) = n + 1 PROVE s \in P
    OBVIOUS
  <2> DEFINE f == SubSeq(s, 1, n)
  <2>1. f \in Seq(S) /\ Len(f) = n /\ s[n + 1] \in S
    OBVIOUS
  <2>2. s = Append(f, s[n + 1])
    OBVIOUS
  <2>3. f \in P
    BY <1>2, <2>1
  <2> HIDE DEF f
  <2> QED  BY <2>1, <2>2, <2>3
<1> SUFFICES ASSUME NEW s \in Seq(S) PROVE s \in P
  OBVIOUS
<1>3. Len(s) \in Q
  <2>1. Len(s) \in Nat
    OBVIOUS
  <2> HIDE DEF Q
  <2> DEFINE N == Len(s)
  <2> HIDE DEF N
  <2>2. N \in Nat
    BY <2>1 DEF N
  <2>3. \A n \in 0 .. N - 1 : n \in Q => n + 1 \in Q
    BY <1>2, <2>2
  <2>4. \A n \in 0 .. N : n \in Q
    BY <1>1, <2>2, <2>3, Induction
  <2> QED  BY <2>2, <2>4 DEF N
<1> QED  BY <1>3

(* What Through makes of a list and one more column.                        *)
LEMMA ThroughAppend ==
  ASSUME NEW cs \in Seq(Columns), NEW c \in Columns, NEW name \in Naming
  PROVE  Through(Append(cs, c), name)
           = IF name[c] = Absent THEN Through(cs, name) ELSE Append(Through(cs, name), name[c])
<1> DEFINE N == Len(cs)
           ds == Append(cs, c)
<1>1. N \in Nat /\ ds \in Seq(Columns) /\ Len(ds) = N + 1 /\ ds[N + 1] = c
  OBVIOUS
<1>2. \A n \in 1 .. N : ds[n] = cs[n]
  OBVIOUS
<1> HIDE DEF ds
<1>3. PICK f \in [0 .. N -> Seq(Columns)] :
        /\ f[0] = <<>>
        /\ \A n \in 1 .. N : f[n] = ThroughStep(cs, name, n, f[n - 1])
        /\ Through(cs, name) = f[N]
  BY ThroughDef
<1>4. PICK g \in [0 .. N + 1 -> Seq(Columns)] :
        /\ g[0] = <<>>
        /\ \A n \in 1 .. N + 1 : g[n] = ThroughStep(ds, name, n, g[n - 1])
        /\ Through(ds, name) = g[N + 1]
  BY <1>1, ThroughDef
<1> HIDE DEF N
<1> DEFINE P == {n \in 0 .. N : g[n] = f[n]}
<1>5. 0 \in P
  BY <1>1, <1>3, <1>4
<1>6. ASSUME NEW n \in 0 .. N - 1, n \in P PROVE n + 1 \in P
  <2>1. n + 1 \in 1 .. N /\ n + 1 \in 1 .. N + 1 /\ (n + 1) - 1 = n
    BY <1>1
  <2>2. ThroughStep(ds, name, n + 1, g[n]) = ThroughStep(cs, name, n + 1, f[n])
    BY <1>2, <1>6, <2>1 DEF ThroughStep
  <2>3. g[n + 1] = ThroughStep(ds, name, n + 1, g[n]) /\ f[n + 1] = ThroughStep(cs, name, n + 1, f[n])
    BY <1>3, <1>4, <2>1
  <2> QED  BY <2>1, <2>2, <2>3
<1>7. g[N] = f[N]
  <2> HIDE DEF P
  <2>1. \A n \in 0 .. N : n \in P
    BY <1>1, <1>5, <1>6, Induction
  <2> QED  BY <1>1, <2>1 DEF P
<1>8. g[N + 1] = ThroughStep(ds, name, N + 1, g[N])
  BY <1>1, <1>4
<1> QED  BY <1>1, <1>3, <1>4, <1>7, <1>8 DEF ThroughStep, ds

(* ... of none, and that it is a list of columns again.                     *)
LEMMA ThroughEmpty ==
  ASSUME NEW name \in Naming
  PROVE  Through(<<>>, name) = <<>>
<1>1. <<>> \in Seq(Columns) /\ Len(<<>>) = 0
  OBVIOUS
<1> DEFINE e == <<>>
<1> HIDE DEF e
<1>2. e \in Seq(Columns) /\ Len(e) = 0
  BY <1>1 DEF e
<1>3. PICK f \in [0 .. Len(e) -> Seq(Columns)] : f[0] = <<>> /\ Through(e, name) = f[Len(e)]
  BY <1>2, ThroughDef
<1> QED  BY <1>2, <1>3 DEF e

LEMMA ThroughType ==
  ASSUME NEW cs \in Seq(Columns), NEW name \in Naming
  PROVE  Through(cs, name) \in Seq(Columns)
<1>1. PICK f \in [0 .. Len(cs) -> Seq(Columns)] : Through(cs, name) = f[Len(cs)]
  BY ThroughDef
<1> QED  BY <1>1

(* Names given twice over are names given at once.                          *)
After(f, g) == [c \in Columns |-> IF f[c] = Absent THEN Absent ELSE g[f[c]]]
LEMMA ThroughTwice ==
  ASSUME NEW cs \in Seq(Columns), NEW f \in Naming, NEW g \in Naming
  PROVE  Through(Through(cs, f), g) = Through(cs, After(f, g))
<1>1. After(f, g) \in Naming
  BY DEF After, Naming
<1> DEFINE P == {s \in Seq(Columns) : Through(Through(s, f), g) = Through(s, After(f, g))}
<1>2. <<>> \in P
  BY <1>1, ThroughEmpty
<1>3. ASSUME NEW s \in Seq(Columns), NEW e \in Columns, s \in P PROVE Append(s, e) \in P
  <2> DEFINE t == Append(s, e)
  <2>0. t \in Seq(Columns)
    OBVIOUS
  <2> HIDE DEF t
  <2> SUFFICES Through(Through(t, f), g) = Through(t, After(f, g))
    BY <2>0 DEF t
  <2>1. Through(s, f) \in Seq(Columns)
    BY ThroughType
  <2>2. CASE f[e] = Absent
    <3>1. After(f, g)[e] = Absent
      BY <2>2 DEF After
    <3>2. Through(t, f) = Through(s, f)
      BY <2>2, ThroughAppend DEF t
    <3>3. Through(t, After(f, g)) = Through(s, After(f, g))
      BY <1>1, <3>1, ThroughAppend DEF t
    <3> QED  BY <1>3, <3>2, <3>3
  <2>3. CASE f[e] # Absent
    <3>1. f[e] \in Columns /\ After(f, g)[e] = g[f[e]]
      BY <2>3 DEF After, Naming
    <3>2. Through(t, f) = Append(Through(s, f), f[e])
      BY <2>3, ThroughAppend DEF t
    <3>3. Through(Append(Through(s, f), f[e]), g)
            = IF g[f[e]] = Absent THEN Through(Through(s, f), g) ELSE Append(Through(Through(s, f), g), g[f[e]])
      BY <2>1, <3>1, ThroughAppend
    <3>4. Through(t, After(f, g))
            = IF g[f[e]] = Absent THEN Through(s, After(f, g)) ELSE Append(Through(s, After(f, g)), g[f[e]])
      BY <1>1, <3>1, ThroughAppend DEF t
    <3> QED  BY <1>3, <3>2, <3>3, <3>4
  <2> QED  BY <2>2, <2>3
<1> HIDE DEF P
<1>4. \A s \in Seq(Columns) : s \in P
  BY <1>2, <1>3, ListInduction
<1> QED  BY <1>4 DEF P

(* Through takes a list piece by piece.                                     *)
LEMMA ThroughConcat ==
  ASSUME NEW cs \in Seq(Columns), NEW ds \in Seq(Columns), NEW f \in Naming
  PROVE  Through(cs \o ds, f) = Through(cs, f) \o Through(ds, f)
<1> DEFINE P == {s \in Seq(Columns) : Through(cs \o s, f) = Through(cs, f) \o Through(s, f)}
<1>1. <<>> \in P
  <2>1. cs \o <<>> = cs
    OBVIOUS
  <2>2. Through(cs, f) \o <<>> = Through(cs, f)
    BY ThroughType
  <2>3. <<>> \in Seq(Columns)
    OBVIOUS
  <2> QED  BY <2>1, <2>2, <2>3, ThroughEmpty
<1>2. ASSUME NEW s \in Seq(Columns), NEW e \in Columns, s \in P PROVE Append(s, e) \in P
  <2> DEFINE t == Append(s, e)
  <2>1. /\ t \in Seq(Columns) /\ cs \o s \in Seq(Columns)
        /\ cs \o t = Append(cs \o s, e)
    OBVIOUS
  <2> HIDE DEF t
  <2> SUFFICES Through(cs \o t, f) = Through(cs, f) \o Through(t, f)
    BY <2>1 DEF t
  <2>2. Through(cs, f) \in Seq(Columns) /\ Through(s, f) \in Seq(Columns)
    BY ThroughType
  <2>3. CASE f[e] = Absent
    <3>1. Through(t, f) = Through(s, f)
      BY <2>3, ThroughAppend DEF t
    <3>2. Through(Append(cs \o s, e), f) = Through(cs \o s, f)
      BY <2>1, <2>3, ThroughAppend
    <3> QED  BY <1>2, <2>1, <3>1, <3>2
  <2>4. CASE f[e] # Absent
    <3>1. f[e] \in Columns
      BY <2>4 DEF Naming
    <3>2. Through(cs, f) \o Append(Through(s, f), f[e]) = Append(Through(cs, f) \o Through(s, f), f[e])
      BY <2>2, <3>1
    <3>3. Through(t, f) = Append(Through(s, f), f[e])
      BY <2>4, ThroughAppend DEF t
    <3>4. Through(Append(cs \o s, e), f) = Append(Through(cs \o s, f), f[e])
      BY <2>1, <2>4, ThroughAppend
    <3> QED  BY <1>2, <2>1, <3>2, <3>3, <3>4
  <2> QED  BY <2>3, <2>4
<1> HIDE DEF P
<1>3. \A s \in Seq(Columns) : s \in P
  BY <1>1, <1>2, ListInduction
<1> QED  BY <1>3 DEF P

(* Where every column has a name, the list is renamed position by position. *)
LEMMA ThroughAll ==
  ASSUME NEW cs \in Seq(Columns), NEW f \in Naming, \A i \in DOMAIN cs : f[cs[i]] # Absent
  PROVE  Through(cs, f) = [i \in DOMAIN cs |-> f[cs[i]]]
<1> DEFINE R(s) == [i \in 1 .. Len(s) |-> f[s[i]]]
           P == {s \in Seq(Columns) : (\A i \in 1 .. Len(s) : f[s[i]] # Absent) => Through(s, f) = R(s)}
<1>1. <<>> \in P
  <2>1. R(<<>>) = <<>> /\ <<>> \in Seq(Columns)
    OBVIOUS
  <2> HIDE DEF R
  <2> QED  BY <2>1, ThroughEmpty
<1>2. ASSUME NEW s \in Seq(Columns), NEW e \in Columns, s \in P PROVE Append(s, e) \in P
  <2> DEFINE t == Append(s, e)
  <2>0. t \in Seq(Columns)
    OBVIOUS
  <2>1. Len(t) = Len(s) + 1 /\ t[Len(s) + 1] = e
    OBVIOUS
  <2>2. \A i \in 1 .. Len(s) : t[i] = s[i]
    OBVIOUS
  <2> HIDE DEF t
  <2> SUFFICES ASSUME \A i \in 1 .. Len(t) : f[t[i]] # Absent PROVE Through(t, f) = R(t)
    BY <2>0 DEF t
  <2>3. Len(s) \in Nat
    OBVIOUS
  <2>4. f[e] # Absent /\ f[e] \in Columns
    BY <2>1, <2>3 DEF Naming
  <2>5. \A i \in 1 .. Len(s) : f[s[i]] # Absent /\ f[s[i]] \in Columns
    BY <2>1, <2>2, <2>3 DEF Naming
  <2>6. Through(s, f) = R(s)
    BY <1>2, <2>5
  <2>7. R(s) \in Seq(Columns) /\ Len(R(s)) = Len(s)
    BY <2>3, <2>5
  <2>8. R(t) = Append(R(s), f[e])
    BY <2>1, <2>2, <2>3, <2>4, <2>5, <2>7
  <2>9. Through(t, f) = Append(Through(s, f), f[e])
    BY <2>4, ThroughAppend DEF t
  <2> HIDE DEF R
  <2> QED  BY <2>6, <2>8, <2>9
<1> HIDE DEF P
<1>3. cs \in P
  BY <1>1, <1>2, ListInduction
<1>4. DOMAIN cs = 1 .. Len(cs)
  OBVIOUS
<1> QED  BY <1>3, <1>4 DEF P

(* No column of the new list is one that no name leads to.                  *)
LEMMA ThroughAvoids ==
  ASSUME NEW cs \in Seq(Columns), NEW f \in Naming, NEW a, \A i \in DOMAIN cs : f[cs[i]] # a
  PROVE  \A i \in DOMAIN Through(cs, f) : Through(cs, f)[i] # a
<1> DEFINE Avoids(s) == \A i \in 1 .. Len(s) : s[i] # a
           P == {s \in Seq(Columns) : (\A i \in 1 .. Len(s) : f[s[i]] # a) => Avoids(Through(s, f))}
<1>1. <<>> \in P
  <2>1. Avoids(<<>>) /\ <<>> \in Seq(Columns)
    OBVIOUS
  <2> HIDE DEF Avoids
  <2> QED  BY <2>1, ThroughEmpty
<1>2. ASSUME NEW s \in Seq(Columns), NEW e \in Columns, s \in P PROVE Append(s, e) \in P
  <2> DEFINE t == Append(s, e)
             u == Through(s, f)
  <2>0. t \in Seq(Columns) /\ u \in Seq(Columns)
    BY ThroughType
  <2>1. Len(s) \in Nat /\ Len(t) = Len(s) + 1 /\ t[Len(s) + 1] = e
    OBVIOUS
  <2>2. \A i \in 1 .. Len(s) : t[i] = s[i]
    OBVIOUS
  <2> HIDE DEF t
  <2> SUFFICES ASSUME \A i \in 1 .. Len(t) : f[t[i]] # a PROVE Avoids(Through(t, f))
    BY <2>0 DEF t
  <2>3. f[e] # a
    BY <2>1
  <2>4. Avoids(u)
    BY <1>2, <2>1, <2>2
  <2>5. CASE f[e] = Absent
    <3>1. Through(t, f) = u
      BY <2>5, ThroughAppend DEF t
    <3> QED  BY <2>4, <3>1
  <2>6. CASE f[e] # Absent
    <3>1. Through(t, f) = Append(u, f[e]) /\ f[e] \in Columns
      BY <2>6, ThroughAppend DEF t, Naming
    <3> HIDE DEF u
    <3>2. Avoids(Append(u, f[e]))
      BY <2>0, <2>3, <2>4, <3>1
    <3> HIDE DEF Avoids
    <3> QED  BY <3>1, <3>2
  <2> QED  BY <2>5, <2>6
<1>3. cs \in P
  <2> HIDE DEF P
  <2> QED  BY <1>1, <1>2, ListInduction
<1>4. DOMAIN cs = 1 .. Len(cs) /\ DOMAIN Through(cs, f) = 1 .. Len(Through(cs, f))
  BY ThroughType
<1> QED  BY <1>3, <1>4

----------------------------------------------------------------------------
(* The names one operation gives.                                           *)
Without1(a)    == [d \in Columns |-> IF d = a THEN Absent ELSE d]
Renaming(a, b) == [d \in Columns |-> IF d = a THEN b ELSE d]

(* cs has a in one place, between A and B.                                  *)
Once(cs, a, A, B) ==
  /\ A \in Seq(Columns) /\ B \in Seq(Columns) /\ a \in Columns
  /\ cs = A \o <<a>> \o B
  /\ \A i \in DOMAIN A : A[i] # a
  /\ \A i \in DOMAIN B : B[i] # a

LEMMA NamingTypes ==
  ASSUME NEW a \in Columns, NEW b \in Columns
  PROVE  Without1(a) \in Naming /\ Renaming(a, b) \in Naming
BY DEF Without1, Renaming, Naming

(* A list around one column.                                                *)
Around(c, A, a, B) ==
  /\ c \in Seq(Columns)
  /\ Len(c) = Len(A) + 1 + Len(B)
  /\ \A i \in 1 .. Len(A) : c[i] = A[i]
  /\ c[Len(A) + 1] = a
  /\ \A i \in 1 .. Len(B) : c[Len(A) + 1 + i] = B[i]

LEMMA AroundFacts ==
  ASSUME NEW A \in Seq(Columns), NEW B \in Seq(Columns), NEW a \in Columns
  PROVE  Around(A \o <<a>> \o B, A, a, B)
<1> DEFINE d == A \o <<a>>
           c == d \o B
<1>1. d \in Seq(Columns) /\ Len(d) = Len(A) + 1
  OBVIOUS
<1>2. (\A i \in 1 .. Len(A) : d[i] = A[i]) /\ d[Len(A) + 1] = a
  OBVIOUS
<1> HIDE DEF d
<1>3. c \in Seq(Columns) /\ Len(c) = Len(d) + Len(B)
  BY <1>1
<1>4. \A i \in 1 .. Len(d) : c[i] = d[i]
  BY <1>1
<1>5. \A i \in 1 .. Len(B) : c[Len(d) + i] = B[i]
  BY <1>1
<1>6. Len(A) \in Nat /\ Len(B) \in Nat
  OBVIOUS
<1> HIDE DEF c
<1>7. \A i \in 1 .. Len(A) : c[i] = A[i]
  BY <1>1, <1>2, <1>4, <1>6
<1>8. c[Len(A) + 1] = a
  BY <1>1, <1>2, <1>4, <1>6
<1>9. \A i \in 1 .. Len(B) : c[Len(A) + 1 + i] = B[i]
  BY <1>1, <1>5
<1>10. Len(c) = Len(A) + 1 + Len(B)
  BY <1>1, <1>3
<1> QED  BY <1>3, <1>7, <1>8, <1>9, <1>10 DEF Around, c, d

(* Two lists are the same if they have the same columns in the same places. *)
LEMMA SameList ==
  ASSUME NEW c \in Seq(Columns), NEW d \in Seq(Columns), Len(c) = Len(d),
         \A i \in 1 .. Len(c) : c[i] = d[i]
  PROVE  c = d
OBVIOUS

(* Of distinct columns, each is in one place.                               *)
LEMMA OnceFacts ==
  ASSUME NEW cs \in Seq(Columns), IsInjective(cs), NEW a, Contains(cs, a)
  PROVE  \E A, B : Once(cs, a, A, B)
<1>1. PICK p \in 1 .. Len(cs) : cs[p] = a
  BY DEF Contains
<1> DEFINE A == SubSeq(cs, 1, p - 1)
           B == SubSeq(cs, p + 1, Len(cs))
<1>2. A \in Seq(Columns) /\ Len(A) = p - 1 /\ \A i \in 1 .. p - 1 : A[i] = cs[i]
  OBVIOUS
<1>3. B \in Seq(Columns) /\ Len(B) = Len(cs) - p /\ \A i \in 1 .. Len(cs) - p : B[i] = cs[i + p]
  OBVIOUS
<1>4. a \in Columns
  BY <1>1
<1> DEFINE c == A \o <<a>> \o B
<1> HIDE DEF A, B, c
<1>5. /\ c \in Seq(Columns) /\ Len(c) = Len(A) + 1 + Len(B)
      /\ \A i \in 1 .. Len(A) : c[i] = A[i]
      /\ c[Len(A) + 1] = a
      /\ \A i \in 1 .. Len(B) : c[Len(A) + 1 + i] = B[i]
  <2>1. Around(c, A, a, B)
    BY <1>2, <1>3, <1>4, AroundFacts DEF c
  <2> QED  BY <2>1 DEF Around
<1>6. Len(cs) \in Nat
  OBVIOUS
<1>7. Len(c) = Len(cs)
  BY <1>2, <1>3, <1>5, <1>6
<1>8. ASSUME NEW i \in 1 .. Len(c) PROVE c[i] = cs[i]
  <2>1. CASE i < p
    BY <1>2, <1>5, <2>1
  <2>2. CASE i = p
    BY <1>1, <1>2, <1>5, <2>2
  <2>3. CASE i > p
    <3>1. i - p \in 1 .. Len(B) /\ Len(A) + 1 + (i - p) = i /\ i - p + p = i
      BY <1>2, <1>3, <1>6, <1>7, <2>3
    <3>2. B[i - p] = cs[i]
      BY <1>3, <3>1
    <3> QED  BY <1>5, <3>1, <3>2
  <2> QED  BY <1>6, <1>7, <2>1, <2>2, <2>3
<1>9. cs = A \o <<a>> \o B
  BY <1>5, <1>7, <1>8, SameList DEF c
<1>10. \A i \in 1 .. Len(cs) : cs[i] = a => i = p
  BY <1>1 DEF IsInjective
<1>11. DOMAIN A = 1 .. p - 1 /\ DOMAIN B = 1 .. Len(cs) - p
  BY <1>2, <1>3, <1>6
<1>12. \A i \in DOMAIN A : A[i] # a
  BY <1>2, <1>6, <1>10, <1>11
<1>13. ASSUME NEW i \in DOMAIN B PROVE B[i] # a
  <2>1. i + p \in 1 .. Len(cs) /\ i + p # p
    BY <1>6, <1>11
  <2> QED  BY <1>3, <1>10, <1>11, <2>1
<1>14. Once(cs, a, A, B)
  BY <1>2, <1>3, <1>4, <1>9, <1>12, <1>13 DEF Once
<1> QED  BY <1>14

(* findColumn finds that place.                                             *)
LEMMA FindOnce ==
  ASSUME NEW o, NEW a, NEW A, NEW B, Once(o.columns, a, A, B)
  PROVE  findColumn(o, a) = Len(A) + 1 /\ HasColumn(o, a)
<1> DEFINE c == o.columns
           I == {i \in 1 .. Len(c) : c[i] = a}
           p == Len(A) + 1
<1>1. A \in Seq(Columns) /\ B \in Seq(Columns) /\ a \in Columns /\ c = A \o <<a>> \o B
  BY DEF Once
<1>2. DOMAIN A = 1 .. Len(A) /\ Len(A) \in Nat /\ Len(B) \in Nat
  BY <1>1
<1> HIDE DEF c
<1>3. /\ c \in Seq(Columns) /\ Len(c) = Len(A) + 1 + Len(B)
      /\ \A i \in 1 .. Len(A) : c[i] = A[i]
      /\ c[Len(A) + 1] = a
  BY <1>1, AroundFacts DEF Around
<1>4. p \in I
  BY <1>2, <1>3
<1>5. ASSUME NEW i \in I PROVE p <= i
  <2>1. i \in 1 .. Len(A) => A[i] # a
    BY <1>2 DEF Once
  <2> QED  BY <1>2, <1>3, <2>1
<1>6. Min(I) = p
  <2>1. I \subseteq Nat
    BY <1>2, <1>3
  <2> HIDE DEF I, p
  <2> DEFINE Least(x) == x \in I /\ \A y \in I : x <= y
  <2>2. Least(p)
    BY <1>4, <1>5
  <2>3. ASSUME NEW x, Least(x) PROVE x = p
    <3>1. x \in Nat /\ p \in Nat /\ x <= p /\ p <= x
      BY <1>4, <1>5, <2>1, <2>3
    <3> QED  BY <3>1
  <2>4. Min(I) = CHOOSE x : Least(x)
    BY DEF Min
  <2> HIDE DEF Least
  <2> QED  BY <2>2, <2>3, <2>4
<1>7. findColumn(o, a) = IF I # {} THEN Min(I) ELSE 0
  BY DEF findColumn, SelectInSeq, c
<1> QED  BY <1>2, <1>4, <1>6, <1>7 DEF HasColumn

(* Columns that keep their names.                                           *)
LEMMA ThroughSame ==
  ASSUME NEW cs \in Seq(Columns), NEW f \in Naming, \A i \in DOMAIN cs : f[cs[i]] = cs[i]
  PROVE  Through(cs, f) = cs
<1>1. \A i \in DOMAIN cs : cs[i] \in Columns /\ f[cs[i]] # Absent
  BY AbsentAssumption
<1>2. Through(cs, f) = [i \in DOMAIN cs |-> f[cs[i]]]
  BY <1>1, ThroughAll
<1>3. Through(cs, f) \in Seq(Columns) /\ Len(Through(cs, f)) = Len(cs)
  BY <1>2, ThroughType
<1>4. \A i \in 1 .. Len(cs) : Through(cs, f)[i] = cs[i]
  BY <1>2
<1> QED  BY <1>3, <1>4, SameList

LEMMA ThroughOne ==
  ASSUME NEW a \in Columns, NEW f \in Naming
  PROVE  Through(<<a>>, f) = IF f[a] = Absent THEN <<>> ELSE <<f[a]>>
<1>1. <<>> \in Seq(Columns) /\ <<a>> = Append(<<>>, a)
  OBVIOUS
<1>2. Through(Append(<<>>, a), f) = IF f[a] = Absent THEN Through(<<>>, f) ELSE Append(Through(<<>>, f), f[a])
  BY <1>1, ThroughAppend
<1>3. Append(<<>>, f[a]) = <<f[a]>>
  OBVIOUS
<1> QED  BY <1>1, <1>2, <1>3, ThroughEmpty

(* ... around one that need not.                                            *)
InThree(A, a, B, f) ==
  Through(A \o <<a>> \o B, f)
    = Through(A, f) \o (IF f[a] = Absent THEN <<>> ELSE <<f[a]>>) \o Through(B, f)

LEMMA ThroughAround ==
  ASSUME NEW A \in Seq(Columns), NEW B \in Seq(Columns), NEW a \in Columns, NEW f \in Naming
  PROVE  InThree(A, a, B, f)
<1>1. A \o <<a>> \in Seq(Columns) /\ <<a>> \in Seq(Columns)
  OBVIOUS
<1>2. Through(A \o <<a>> \o B, f) = Through(A \o <<a>>, f) \o Through(B, f)
  BY <1>1, ThroughConcat
<1>3. Through(A \o <<a>>, f) = Through(A, f) \o Through(<<a>>, f)
  BY <1>1, ThroughConcat
<1> QED  BY <1>2, <1>3, ThroughOne DEF InThree

(* What DROP COLUMN makes of the columns.                                   *)
LEMMA DropOnce ==
  ASSUME NEW cs, NEW a, NEW A, NEW B, Once(cs, a, A, B)
  PROVE  RemoveAt(cs, Len(A) + 1) = Through(cs, Without1(a))
<1>1. A \in Seq(Columns) /\ B \in Seq(Columns) /\ a \in Columns /\ cs = A \o <<a>> \o B
  BY DEF Once
<1>2. Without1(a) \in Naming /\ Without1(a)[a] = Absent
  BY <1>1, NamingTypes DEF Without1
<1>3. Through(A, Without1(a)) = A
  <2>1. \A i \in DOMAIN A : Without1(a)[A[i]] = A[i]
    BY <1>1 DEF Once, Without1
  <2> QED  BY <1>1, <1>2, <2>1, ThroughSame
<1>4. Through(B, Without1(a)) = B
  <2>1. \A i \in DOMAIN B : Without1(a)[B[i]] = B[i]
    BY <1>1 DEF Once, Without1
  <2> QED  BY <1>1, <1>2, <2>1, ThroughSame
<1>5. Through(cs, Without1(a)) = A \o <<>> \o B
  <2> DEFINE f == Without1(a)
  <2> HIDE DEF f
  <2>1. f \in Naming /\ f[a] = Absent /\ Through(A, f) = A /\ Through(B, f) = B
    BY <1>2, <1>3, <1>4 DEF f
  <2>2. Through(A \o <<a>> \o B, f)
          = Through(A, f) \o (IF f[a] = Absent THEN <<>> ELSE <<f[a]>>) \o Through(B, f)
    <3>1. InThree(A, a, B, f)
      BY <1>1, <2>1, ThroughAround
    <3> QED  BY <3>1 DEF InThree
  <2>3. (IF f[a] = Absent THEN <<>> ELSE <<f[a]>>) = <<>>
    BY <2>1
  <2> QED  BY <1>1, <2>1, <2>2, <2>3 DEF f
<1>6. A \o <<>> = A
  BY <1>1
<1>7. /\ cs \in Seq(Columns) /\ Len(cs) = Len(A) + 1 + Len(B)
      /\ \A i \in 1 .. Len(A) : cs[i] = A[i]
      /\ \A i \in 1 .. Len(B) : cs[Len(A) + 1 + i] = B[i]
  BY <1>1, AroundFacts DEF Around
<1>8. Len(A) \in Nat /\ Len(B) \in Nat
  BY <1>1
<1>9. SubSeq(cs, 1, Len(A)) = A
  BY <1>1, <1>7, <1>8
<1>10. SubSeq(cs, Len(A) + 2, Len(cs)) = B
  BY <1>1, <1>7, <1>8
<1>11. RemoveAt(cs, Len(A) + 1) = SubSeq(cs, 1, Len(A)) \o SubSeq(cs, Len(A) + 2, Len(cs))
  <2>1. (Len(A) + 1) - 1 = Len(A) /\ (Len(A) + 1) + 1 = Len(A) + 2
    BY <1>8
  <2> QED  BY <2>1 DEF RemoveAt
<1> QED  BY <1>5, <1>6, <1>9, <1>10, <1>11

(* What renaming one makes of them.                                         *)
LEMMA RenameOnce ==
  ASSUME NEW cs, NEW a, NEW A, NEW B, Once(cs, a, A, B), NEW b \in Columns
  PROVE  ReplaceAt(cs, Len(A) + 1, b) = Through(cs, Renaming(a, b))
<1>1. A \in Seq(Columns) /\ B \in Seq(Columns) /\ a \in Columns /\ cs = A \o <<a>> \o B
  BY DEF Once
<1>2. Renaming(a, b) \in Naming /\ Renaming(a, b)[a] = b /\ b # Absent
  BY <1>1, NamingTypes, AbsentAssumption DEF Renaming
<1>3. Through(A, Renaming(a, b)) = A
  <2>1. \A i \in DOMAIN A : Renaming(a, b)[A[i]] = A[i]
    BY <1>1 DEF Once, Renaming
  <2> QED  BY <1>1, <1>2, <2>1, ThroughSame
<1>4. Through(B, Renaming(a, b)) = B
  <2>1. \A i \in DOMAIN B : Renaming(a, b)[B[i]] = B[i]
    BY <1>1 DEF Once, Renaming
  <2> QED  BY <1>1, <1>2, <2>1, ThroughSame
<1> DEFINE d == A \o <<b>> \o B
<1>5. Through(cs, Renaming(a, b)) = d
  <2> DEFINE f == Renaming(a, b)
  <2> HIDE DEF f
  <2>1. f \in Naming /\ f[a] = b /\ Through(A, f) = A /\ Through(B, f) = B
    BY <1>2, <1>3, <1>4 DEF f
  <2>2. Through(A \o <<a>> \o B, f)
          = Through(A, f) \o (IF f[a] = Absent THEN <<>> ELSE <<f[a]>>) \o Through(B, f)
    <3>1. InThree(A, a, B, f)
      BY <1>1, <2>1, ThroughAround
    <3> QED  BY <3>1 DEF InThree
  <2>3. (IF f[a] = Absent THEN <<>> ELSE <<f[a]>>) = <<b>>
    BY <1>2, <2>1
  <2> QED  BY <1>1, <2>1, <2>2, <2>3 DEF f
<1>6. /\ cs \in Seq(Columns) /\ Len(cs) = Len(A) + 1 + Len(B)
      /\ \A i \in 1 .. Len(A) : cs[i] = A[i]
      /\ \A i \in 1 .. Len(B) : cs[Len(A) + 1 + i] = B[i]
  BY <1>1, AroundFacts DEF Around
<1>7. /\ d \in Seq(Columns) /\ Len(d) = Len(A) + 1 + Len(B)
      /\ \A i \in 1 .. Len(A) : d[i] = A[i]
      /\ d[Len(A) + 1] = b
      /\ \A i \in 1 .. Len(B) : d[Len(A) + 1 + i] = B[i]
  BY <1>1, AroundFacts DEF Around
<1>8. Len(A) \in Nat /\ Len(B) \in Nat
  BY <1>1
<1> DEFINE e == ReplaceAt(cs, Len(A) + 1, b)
<1>9. e \in Seq(Columns) /\ Len(e) = Len(cs) /\ e[Len(A) + 1] = b
  BY <1>6, <1>8 DEF ReplaceAt
<1>10. \A i \in 1 .. Len(cs) : i # Len(A) + 1 => e[i] = cs[i]
  BY <1>6, <1>8 DEF ReplaceAt
<1> HIDE DEF d, e
<1>11. ASSUME NEW i \in 1 .. Len(e) PROVE e[i] = d[i]
  <2>1. CASE i \in 1 .. Len(A)
    BY <1>6, <1>7, <1>8, <1>9, <1>10, <2>1
  <2>2. CASE i = Len(A) + 1
    BY <1>7, <1>9, <2>2
  <2>3. CASE i > Len(A) + 1
    <3> DEFINE k == i - (Len(A) + 1)
    <3>1. k \in 1 .. Len(B) /\ Len(A) + 1 + k = i
      BY <1>6, <1>8, <1>9, <2>3
    <3>2. cs[i] = B[k] /\ d[i] = B[k]
      BY <1>6, <1>7, <3>1
    <3> QED  BY <1>9, <1>10, <2>3, <3>2
  <2> QED  BY <1>8, <2>1, <2>2, <2>3
<1>12. e = d
  BY <1>6, <1>7, <1>9, <1>11, SameList
<1> QED  BY <1>5, <1>12 DEF e

(* What it makes of an index.                                               *)
LEMMA ReplaceAllFacts ==
  ASSUME NEW cs \in Seq(Columns), NEW a \in Columns, NEW b \in Columns
  PROVE  ReplaceAll(cs, a, b) = Through(cs, Renaming(a, b))
<1>1. Renaming(a, b) \in Naming
  BY NamingTypes
<1>2. \A i \in DOMAIN cs : cs[i] \in Columns /\ Renaming(a, b)[cs[i]] = IF cs[i] = a THEN b ELSE cs[i]
  BY DEF Renaming
<1>3. Through(cs, Renaming(a, b)) = [i \in DOMAIN cs |-> Renaming(a, b)[cs[i]]]
  BY <1>1, <1>2, ThroughAll, AbsentAssumption
<1>4. DOMAIN cs = 1 .. Len(cs)
  OBVIOUS
<1> QED  BY <1>2, <1>3, <1>4 DEF ReplaceAll

----------------------------------------------------------------------------
(* The operations of an ALTER, by kind.                                     *)
LEMMA OperationKinds ==
  ASSUME NEW op \in AlterOperation
  PROVE  /\ op.op \in {"ADD_COLUMN", "DROP_COLUMN", "MODIFY_COLUMN", "RENAME_COLUMN", "CHANGE_COLUMN",
                       "ADD_INDEX", "COLUMN_KEY", "DROP_INDEX", "RENAME_INDEX", "RENAME_TABLE", "TABLE_OPTIONS"}
         /\ op.op \in RenamesColumn \cup {"ADD_COLUMN", "DROP_COLUMN", "MODIFY_COLUMN"} => op.column \in Columns
         /\ op.op \in RenamesColumn => op.newName \in Columns
         /\ op.op \in {"ADD_INDEX", "COLUMN_KEY", "DROP_INDEX", "RENAME_INDEX"} => op.index \in IndexNames
         /\ op.op \in {"ADD_INDEX", "COLUMN_KEY"} => op.columns \in Seq(Columns) /\ op.columns # <<>>
         /\ op.op = "RENAME_INDEX" => op.newName \in IndexNames
         /\ op.op = "RENAME_TABLE" => op.newTable \in TableRef
BY DEF AlterOperation, RenamesColumn

LEMMA ObjectFields ==
  ASSUME NEW o \in Object
  PROVE  /\ o.kind \in {"table", "view"}
         /\ o.columns \in Seq(Columns)
         /\ o.indexes \in [IndexNames -> Seq(Columns)]
BY DEF Object

(* findColumn finds a column that is there.                                 *)
LEMMA HasColumnFacts ==
  ASSUME NEW o \in Object, NEW c
  PROVE  /\ HasColumn(o, c) <=> \E i \in DOMAIN o.columns : o.columns[i] = c
         /\ HasColumn(o, c) => findColumn(o, c) \in 1 .. Len(o.columns)
<1> DEFINE I == {i \in 1 .. Len(o.columns) : o.columns[i] = c}
<1>1. findColumn(o, c) = IF I # {} THEN Min(I) ELSE 0
  BY DEF findColumn, SelectInSeq
<1>2. DOMAIN o.columns = 1 .. Len(o.columns) /\ I \subseteq Nat \ {0}
  BY ObjectFields
<1>3. I # {} => Min(I) \in I
  <2> HIDE DEF I
  <2> SUFFICES ASSUME I # {} PROVE Min(I) \in I
    OBVIOUS
  <2>1. PICK x \in I : \A y \in I : ~ (<<y, x>> \in OpToRel(<, Nat))
    BY <1>2, WFMin, NatLessThanWellFounded
  <2>2. ASSUME NEW y \in I PROVE x <= y
    <3>1. x \in Nat /\ y \in Nat
      BY <1>2
    <3>2. ~ (y < x)
      BY <2>1, <3>1 DEF OpToRel
    <3> QED  BY <3>1, <3>2
  <2> QED  BY <2>2 DEF Min
<1>4. HasColumn(o, c) <=> I # {}
  BY <1>1, <1>2, <1>3 DEF HasColumn
<1>5. HasColumn(o, c) => findColumn(o, c) \in 1 .. Len(o.columns)
  BY <1>1, <1>3, <1>4
<1> QED  BY <1>2, <1>4, <1>5

(* What an operation that fits makes of a table.                            *)
LEMMA AddColumnFacts ==
  ASSUME NEW o \in Object, NEW op \in AlterOperation, op.op = "ADD_COLUMN", ApplyTo(o, op) # Absent
  PROVE  /\ ApplyTo(o, op) \in Object
         /\ ApplyTo(o, op).kind = o.kind
         /\ ApplyTo(o, op).columns = Append(o.columns, op.column)
         /\ ApplyTo(o, op).indexes = o.indexes
<1> DEFINE cs == Append(o.columns, op.column)
<1>1. ApplyTo(o, op) = [o EXCEPT !.columns = cs]
  BY DEF ApplyTo
<1>2. op.column \in Columns
  BY OperationKinds DEF RenamesColumn
<1>3. cs \in Seq(Columns)
  BY <1>2, ObjectFields
<1> HIDE DEF cs
<1>4. LET q == [o EXCEPT !.columns = cs]
      IN  q \in Object /\ q.kind = o.kind /\ q.columns = cs /\ q.indexes = o.indexes
  BY <1>3 DEF Object
<1> QED  BY <1>1, <1>4 DEF cs

LEMMA DropColumnFacts ==
  ASSUME NEW o \in Object, NEW op \in AlterOperation, op.op = "DROP_COLUMN", ApplyTo(o, op) # Absent
  PROVE  /\ ApplyTo(o, op) \in Object
         /\ ApplyTo(o, op).kind = o.kind
         /\ HasColumn(o, op.column)
         /\ ApplyTo(o, op).columns = RemoveAt(o.columns, findColumn(o, op.column))
         /\ ApplyTo(o, op).indexes = [i \in IndexNames |-> Through(o.indexes[i], Without1(op.column))]
<1> DEFINE c == op.column
           cs == RemoveAt(o.columns, findColumn(o, c))
           is == dropColumnFromIndexes(o.indexes, c)
<1>1. HasColumn(o, c)
  BY DEF ApplyTo
<1>2. ApplyTo(o, op) = [o EXCEPT !.columns = cs, !.indexes = is]
  BY <1>1 DEF ApplyTo
<1>3. c \in Columns
  BY OperationKinds DEF RenamesColumn
<1>4. is = [i \in IndexNames |-> Through(o.indexes[i], Without1(c))]
  BY DEF dropColumnFromIndexes, Without1
<1>5. is \in [IndexNames -> Seq(Columns)]
  <2>1. \A i \in IndexNames : Through(o.indexes[i], Without1(c)) \in Seq(Columns)
    BY <1>3, NamingTypes, ThroughType, ObjectFields
  <2> QED  BY <1>4, <2>1
<1>6. cs \in Seq(Columns)
  BY <1>1, HasColumnFacts, ObjectFields DEF RemoveAt
<1> HIDE DEF cs, is
<1>7. [o EXCEPT !.columns = cs, !.indexes = is] \in Object
  BY <1>5, <1>6 DEF Object
<1>8. LET q == [o EXCEPT !.columns = cs, !.indexes = is] IN q.kind = o.kind /\ q.columns = cs /\ q.indexes = is
  BY DEF Object
<1> QED  BY <1>1, <1>2, <1>4, <1>7, <1>8 DEF cs

LEMMA RenameColumnFacts ==
  ASSUME NEW o \in Object, NEW op \in AlterOperation, op.op \in RenamesColumn, ApplyTo(o, op) # Absent
  PROVE  /\ ApplyTo(o, op) \in Object
         /\ ApplyTo(o, op).kind = o.kind
         /\ HasColumn(o, op.column)
         /\ ApplyTo(o, op).columns = ReplaceAt(o.columns, findColumn(o, op.column), op.newName)
         /\ ApplyTo(o, op).indexes
              = [i \in IndexNames |-> Through(o.indexes[i], Renaming(op.column, op.newName))]
<1> DEFINE c == op.column
           new == op.newName
           cs == ReplaceAt(o.columns, findColumn(o, c), new)
           is == renameColumnInIndexes(o.indexes, c, new)
<1>1. HasColumn(o, c)
  BY DEF ApplyTo, RenamesColumn
<1>2. ApplyTo(o, op) = [o EXCEPT !.columns = cs, !.indexes = is]
  BY <1>1 DEF ApplyTo, RenamesColumn, RenamedColumn
<1>3. c \in Columns /\ new \in Columns
  BY OperationKinds DEF RenamesColumn
<1>4. is = [i \in IndexNames |-> Through(o.indexes[i], Renaming(c, new))]
  <2>1. \A i \in IndexNames : ReplaceAll(o.indexes[i], c, new) = Through(o.indexes[i], Renaming(c, new))
    BY <1>3, ReplaceAllFacts, ObjectFields
  <2> QED  BY <2>1 DEF renameColumnInIndexes
<1>5. is \in [IndexNames -> Seq(Columns)]
  <2>1. \A i \in IndexNames : Through(o.indexes[i], Renaming(c, new)) \in Seq(Columns)
    BY <1>3, NamingTypes, ThroughType, ObjectFields
  <2> QED  BY <1>4, <2>1
<1>6. cs \in Seq(Columns)
  BY <1>1, <1>3, HasColumnFacts, ObjectFields DEF ReplaceAt
<1> HIDE DEF cs, is
<1>7. [o EXCEPT !.columns = cs, !.indexes = is] \in Object
  BY <1>5, <1>6 DEF Object
<1>8. LET q == [o EXCEPT !.columns = cs, !.indexes = is] IN q.kind = o.kind /\ q.columns = cs /\ q.indexes = is
  BY DEF Object
<1> QED  BY <1>1, <1>2, <1>4, <1>7, <1>8 DEF cs

LEMMA IndexFacts ==
  ASSUME NEW o \in Object, NEW op \in AlterOperation, ApplyTo(o, op) # Absent,
         op.op \in {"ADD_INDEX", "DROP_INDEX", "RENAME_INDEX"}
  PROVE  /\ ApplyTo(o, op) \in Object
         /\ ApplyTo(o, op).kind = o.kind
         /\ ApplyTo(o, op).columns = o.columns
         /\ op.op = "ADD_INDEX" =>
              /\ ~HasIndex(o, op.index)
              /\ ApplyTo(o, op).indexes = [o.indexes EXCEPT ![op.index] = op.columns]
         /\ op.op = "DROP_INDEX" =>
              /\ HasIndex(o, op.index)
              /\ ApplyTo(o, op).indexes = [o.indexes EXCEPT ![op.index] = <<>>]
         /\ op.op = "RENAME_INDEX" =>
              /\ HasIndex(o, op.index) /\ ~HasIndex(o, op.newName)
              /\ ApplyTo(o, op).indexes
                   = [o.indexes EXCEPT ![op.index] = <<>>, ![op.newName] = o.indexes[op.index]]
<1>1. CASE op.op = "ADD_INDEX"
  <2>1. ~HasIndex(o, op.index) /\ ApplyTo(o, op) = [o EXCEPT !.indexes[op.index] = op.columns]
    BY <1>1 DEF ApplyTo
  <2>2. op.index \in IndexNames /\ op.columns \in Seq(Columns)
    BY <1>1, OperationKinds
  <2> QED  BY <1>1, <2>1, <2>2 DEF Object
<1>2. CASE op.op = "DROP_INDEX"
  <2>1. HasIndex(o, op.index) /\ ApplyTo(o, op) = [o EXCEPT !.indexes[op.index] = <<>>]
    BY <1>2 DEF ApplyTo
  <2>2. op.index \in IndexNames /\ <<>> \in Seq(Columns)
    BY <1>2, OperationKinds
  <2> QED  BY <1>2, <2>1, <2>2 DEF Object
<1>3. CASE op.op = "RENAME_INDEX"
  <2> DEFINE is == [o.indexes EXCEPT ![op.index] = <<>>, ![op.newName] = o.indexes[op.index]]
  <2>1. /\ HasIndex(o, op.index) /\ ~HasIndex(o, op.newName)
        /\ ApplyTo(o, op) = [o EXCEPT !.indexes = is]
    BY <1>3 DEF ApplyTo
  <2>2. is \in [IndexNames -> Seq(Columns)]
    <3>1. op.index \in IndexNames /\ op.newName \in IndexNames
      BY <1>3, OperationKinds
    <3>2. <<>> \in Seq(Columns) /\ o.indexes[op.index] \in Seq(Columns)
      BY <3>1, ObjectFields
    <3> QED  BY <3>1, <3>2, ObjectFields
  <2> HIDE DEF is
  <2>3. LET q == [o EXCEPT !.indexes = is]
        IN  q \in Object /\ q.kind = o.kind /\ q.columns = o.columns /\ q.indexes = is
    BY <2>2 DEF Object
  <2> QED  BY <1>3, <2>1, <2>3 DEF is
<1> QED  BY <1>1, <1>2, <1>3

LEMMA OtherFacts ==
  ASSUME NEW o \in Object, NEW op \in AlterOperation, ApplyTo(o, op) # Absent,
         op.op \in {"MODIFY_COLUMN", "RENAME_TABLE", "TABLE_OPTIONS", "COLUMN_KEY"}
  PROVE  ApplyTo(o, op) = o
BY DEF ApplyTo

(* Of whatever kind: a table stays a table.                                 *)
LEMMA ApplyToType ==
  ASSUME NEW o \in Object, NEW op \in AlterOperation, ApplyTo(o, op) # Absent
  PROVE  ApplyTo(o, op) \in Object /\ ApplyTo(o, op).kind = o.kind
<1>1. CASE op.op = "ADD_COLUMN"
  BY <1>1, AddColumnFacts
<1>2. CASE op.op = "DROP_COLUMN"
  BY <1>2, DropColumnFacts
<1>3. CASE op.op \in RenamesColumn
  BY <1>3, RenameColumnFacts
<1>4. CASE op.op \in {"ADD_INDEX", "DROP_INDEX", "RENAME_INDEX"}
  BY <1>4, IndexFacts
<1>5. CASE op.op \in {"MODIFY_COLUMN", "RENAME_TABLE", "TABLE_OPTIONS", "COLUMN_KEY"}
  BY <1>5, OtherFacts
<1> QED  BY <1>1, <1>2, <1>3, <1>4, <1>5, OperationKinds DEF RenamesColumn

----------------------------------------------------------------------------
(* The columns an ALTER adds, operation by operation.                       *)
AddedStep(ops, n, t) == IF ops[n].op = "ADD_COLUMN" THEN Append(t, ops[n].column) ELSE t

LEMMA AddedDef ==
  ASSUME NEW ops \in Seq(AlterOperation)
  PROVE  \E f \in [0 .. Len(ops) -> Seq(Columns)] :
           /\ f[0] = <<>>
           /\ \A n \in 1 .. Len(ops) : f[n] = AddedStep(ops, n, f[n - 1])
           /\ AddedColumns(ops) = f[Len(ops)]
<1> DEFINE N == Len(ops)
           G == [n \in 1 .. N |-> [t \in Seq(Columns) |-> AddedStep(ops, n, t)]]
           Is(f) == f = [n \in 0 .. N |-> IF n = 0 THEN <<>> ELSE AddedStep(ops, n, f[n - 1])]
           h == CHOOSE f : Is(f)
<1>1. N \in Nat /\ \A n \in 1 .. N : ops[n] \in AlterOperation
  OBVIOUS
<1> HIDE DEF N
<1>2. ASSUME NEW n \in 1 .. N, NEW t \in Seq(Columns) PROVE AddedStep(ops, n, t) \in Seq(Columns)
  <2>1. ops[n].op = "ADD_COLUMN" => ops[n].column \in Columns
    BY <1>1, OperationKinds
  <2> QED  BY <2>1 DEF AddedStep
<1>3. G \in StepFunctions(N, Seq(Columns))
  BY <1>2 DEF StepFunctions
<1>4. <<>> \in Seq(Columns)
  OBVIOUS
<1>5. PICK f : Follows(N, Seq(Columns), <<>>, G, f)
  BY <1>1, <1>3, <1>4, Recursion
<1>6. ASSUME NEW n \in 1 .. N PROVE f[n] = AddedStep(ops, n, f[n - 1])
  <2>1. f[n - 1] \in Seq(Columns) /\ f[n] = G[n][f[n - 1]]
    <3> HIDE DEF G
    <3> QED  BY <1>1, <1>5 DEF Follows
  <2> QED  BY <2>1
<1>7. f \in [0 .. N -> Seq(Columns)] /\ f[0] = <<>>
  BY <1>5 DEF Follows
<1>8. Is(f)
  BY <1>1, <1>6, <1>7
<1>9. Is(h)
  BY <1>8
<1>10. AddedColumns(ops) = h[N]
  BY DEF AddedColumns, AddedStep, N
<1> HIDE DEF h
<1>11. h[0] = <<>> /\ \A n \in 1 .. N : h[n] = AddedStep(ops, n, h[n - 1])
  BY <1>1, <1>9
<1>12. \A n \in 1 .. N : h[n - 1] \in Seq(Columns) => h[n] = G[n][h[n - 1]]
  BY <1>11
<1>13. \A n \in 0 .. N : h[n] = f[n]
  <2> HIDE DEF G
  <2> QED  BY <1>1, <1>5, <1>11, <1>12, RecursionUnique
<1>14. AddedColumns(ops) = f[N]
  BY <1>1, <1>10, <1>13
<1> QED  BY <1>6, <1>7, <1>14 DEF N

(* A table on its way through an ALTER.                                     *)
Tables == [ref : Ref, object : Object]

LEMMA applyOpType ==
  ASSUME NEW t \in Tables \cup {Absent}, NEW op \in AlterOperation
  PROVE  applyOp(t, op) \in Tables \cup {Absent}
<1>1. CASE t = Absent \/ ApplyTo(t.object, op) = Absent
  BY <1>1 DEF applyOp
<1>2. CASE t # Absent /\ ApplyTo(t.object, op) # Absent
  <2>1. t.ref \in Ref /\ t.object \in Object
    BY <1>2 DEF Tables
  <2>2. ApplyTo(t.object, op) \in Object
    BY <1>2, <2>1, ApplyToType
  <2>3. op.op = "RENAME_TABLE" => defaultSchema(op.newTable, t.ref[1]) \in Ref
    BY <2>1, OperationKinds DEF Ref, TableRef, defaultSchema
  <2> QED  BY <1>2, <2>1, <2>2, <2>3 DEF applyOp, Tables
<1> QED  BY <1>1, <1>2

LEMMA applyTableDDLDef ==
  ASSUME NEW t \in Tables, NEW ops \in Seq(AlterOperation)
  PROVE  \E f \in [0 .. Len(ops) -> Tables \cup {Absent}] :
           /\ f[0] = t
           /\ \A n \in 1 .. Len(ops) : f[n] = applyOp(f[n - 1], ops[n])
           /\ applyTableDDL(t, ops) = f[Len(ops)]
<1> DEFINE N == Len(ops)
           S == Tables \cup {Absent}
           G == [n \in 1 .. N |-> [u \in S |-> applyOp(u, ops[n])]]
           Is(f) == f = [n \in 0 .. N |-> IF n = 0 THEN t ELSE applyOp(f[n - 1], ops[n])]
           h == CHOOSE f : Is(f)
<1>1. N \in Nat /\ \A n \in 1 .. N : ops[n] \in AlterOperation
  OBVIOUS
<1> HIDE DEF N
<1>2. ASSUME NEW n \in 1 .. N, NEW u \in S PROVE applyOp(u, ops[n]) \in S
  BY <1>1, applyOpType
<1>3. t \in S
  OBVIOUS
<1> HIDE DEF S
<1>4. G \in StepFunctions(N, S)
  BY <1>2 DEF StepFunctions
<1>5. PICK f : Follows(N, S, t, G, f)
  BY <1>1, <1>3, <1>4, Recursion
<1>6. ASSUME NEW n \in 1 .. N PROVE f[n] = applyOp(f[n - 1], ops[n])
  <2>1. f[n - 1] \in S /\ f[n] = G[n][f[n - 1]]
    <3> HIDE DEF G
    <3> QED  BY <1>1, <1>5 DEF Follows
  <2> QED  BY <2>1
<1>7. f \in [0 .. N -> S] /\ f[0] = t
  BY <1>5 DEF Follows
<1>8. Is(f)
  BY <1>1, <1>6, <1>7
<1>9. Is(h)
  BY <1>8
<1>10. applyTableDDL(t, ops) = h[N]
  BY DEF applyTableDDL, N
<1> HIDE DEF h
<1>11. h[0] = t /\ \A n \in 1 .. N : h[n] = applyOp(h[n - 1], ops[n])
  BY <1>1, <1>9
<1>12. \A n \in 1 .. N : h[n - 1] \in S => h[n] = G[n][h[n - 1]]
  BY <1>11
<1>13. \A n \in 0 .. N : h[n] = f[n]
  <2> HIDE DEF G
  <2> QED  BY <1>1, <1>5, <1>11, <1>12, RecursionUnique
<1>14. applyTableDDL(t, ops) = f[N]
  BY <1>1, <1>10, <1>13
<1> QED  BY <1>6, <1>7, <1>14 DEF N, S

----------------------------------------------------------------------------
(* What the first k operations of an ALTER make of the column names, read   *)
(* as MySQL reads them: all at once, by the names of the old definition.    *)
DropsAt(ops, k, c)   == \E i \in 1 .. k : ops[i].op = "DROP_COLUMN" /\ ops[i].column = c
RenamesAt(ops, k, c) == {i \in 1 .. k : ops[i].op \in RenamesColumn /\ ops[i].column = c}
MapAt(ops, k) ==
  [c \in Columns |->
     IF DropsAt(ops, k, c) THEN Absent
     ELSE IF RenamesAt(ops, k, c) = {} THEN c
     ELSE ops[CHOOSE i \in RenamesAt(ops, k, c) : TRUE].newName]

(* No column is named twice: what MySQL requires of an ALTER.               *)
NamesColumnsOnce(old, ops) ==
  LET named == OpsOf(ops, RenamesColumn \cup {"DROP_COLUMN", "MODIFY_COLUMN"})
  IN  \A i \in named : /\ Contains(old, ops[i].column)
                       /\ \A j \in named \ {i} : ops[j].column # ops[i].column

(* No operation names what one before it brought in.                        *)
NoReuse(ops) ==
  \A m, n \in DOMAIN ops : m < n =>
    NewColumns(ops[m]) \cap OldColumns(ops[n]) = {} /\ NewIndex(ops[m]) \cap OldIndex(ops[n]) = {}

LEMMA MapType ==
  ASSUME NEW ops \in Seq(AlterOperation), NEW k \in 0 .. Len(ops)
  PROVE  MapAt(ops, k) \in Naming
<1> SUFFICES ASSUME NEW c \in Columns PROVE MapAt(ops, k)[c] \in Columns \cup {Absent}
  BY DEF MapAt, Naming
<1>1. ASSUME NEW i \in RenamesAt(ops, k, c) PROVE ops[i].newName \in Columns
  <2>1. ops[i] \in AlterOperation /\ ops[i].op \in RenamesColumn
    BY DEF RenamesAt
  <2> QED  BY <2>1, OperationKinds
<1> QED  BY <1>1 DEF MapAt

LEMMA MapFirst ==
  ASSUME NEW ops \in Seq(AlterOperation), NEW c \in Columns
  PROVE  MapAt(ops, 0)[c] = c
BY DEF MapAt, DropsAt, RenamesAt

LEMMA MapLast ==
  ASSUME NEW ops \in Seq(AlterOperation)
  PROVE  MapAt(ops, Len(ops)) = Becomes(ops)
<1>1. DOMAIN ops = 1 .. Len(ops)
  OBVIOUS
<1> SUFFICES ASSUME NEW c \in Columns PROVE MapAt(ops, Len(ops))[c] = Becomes(ops)[c]
  BY DEF MapAt, Becomes
<1>2. Survives(c, ops) <=> ~DropsAt(ops, Len(ops), c)
  BY <1>1 DEF Survives, DropsAt, OpsOf
<1>3. RenamesAt(ops, Len(ops), c) = {i \in OpsOf(ops, RenamesColumn) : ops[i].column = c}
  BY <1>1 DEF RenamesAt, OpsOf
<1>4. NameAfter(c, ops) = IF RenamesAt(ops, Len(ops), c) = {} THEN c
                          ELSE ops[CHOOSE i \in RenamesAt(ops, Len(ops), c) : TRUE].newName
  BY <1>3 DEF NameAfter
<1> QED  BY <1>2, <1>4 DEF MapAt, Becomes

(* A column that an operation still to come takes away is as it was, and no *)
(* other has got its name.                                                  *)
LEMMA MapOld ==
  ASSUME NEW old, NEW ops \in Seq(AlterOperation), NamesColumnsOnce(old, ops), NoReuse(ops),
         NEW j \in 1 .. Len(ops), NEW k \in 0 .. j - 1,
         ops[j].op \in RenamesColumn \cup {"DROP_COLUMN"}
  PROVE  /\ ops[j].column \in Columns
         /\ MapAt(ops, k)[ops[j].column] = ops[j].column
         /\ \A c \in Columns : c # ops[j].column => MapAt(ops, k)[c] # ops[j].column
<1> DEFINE a == ops[j].column
           kinds == RenamesColumn \cup {"DROP_COLUMN", "MODIFY_COLUMN"}
<1>1. DOMAIN ops = 1 .. Len(ops) /\ j \in Nat /\ Len(ops) \in Nat
  OBVIOUS
<1>2. a \in Columns
  <2>1. ops[j] \in AlterOperation
    OBVIOUS
  <2> QED  BY <2>1, OperationKinds
<1>3. ASSUME NEW i \in 1 .. k, ops[i].op \in kinds PROVE ops[i].column # a
  <2>1. i \in OpsOf(ops, kinds) /\ j \in OpsOf(ops, kinds) \ {i}
    BY <1>1, <1>3 DEF OpsOf
  <2> QED  BY <2>1 DEF NamesColumnsOnce
<1>4. MapAt(ops, k)[a] = a
  <2>1. ~DropsAt(ops, k, a)
    BY <1>3 DEF DropsAt
  <2>2. RenamesAt(ops, k, a) = {}
    BY <1>3 DEF RenamesAt
  <2> QED  BY <1>2, <2>1, <2>2 DEF MapAt
<1>5. ASSUME NEW c \in Columns, c # a PROVE MapAt(ops, k)[c] # a
  <2>1. ASSUME NEW i \in RenamesAt(ops, k, c) PROVE ops[i].newName # a
    <3>1. i \in DOMAIN ops /\ j \in DOMAIN ops /\ i < j /\ ops[i].op \in RenamesColumn
      BY <1>1 DEF RenamesAt
    <3>2. NewColumns(ops[i]) \cap OldColumns(ops[j]) = {}
      BY <3>1 DEF NoReuse
    <3>3. OldColumns(ops[j]) = {a}
      BY DEF OldColumns
    <3>4. NewColumns(ops[i]) = {ops[i].newName}
      BY <3>1 DEF NewColumns, RenamesColumn
    <3> QED  BY <3>2, <3>3, <3>4
  <2>2. Absent # a
    BY <1>2, AbsentAssumption
  <2> QED  BY <1>5, <2>1, <2>2 DEF MapAt
<1> QED  BY <1>2, <1>4, <1>5

(* The names after one operation more: the names it gives, after those the  *)
(* operations before gave.                                                  *)
LEMMA MapStep ==
  ASSUME NEW old, NEW ops \in Seq(AlterOperation), NamesColumnsOnce(old, ops), NoReuse(ops),
         NEW k \in 0 .. Len(ops) - 1
  PROVE  /\ ops[k + 1].op = "DROP_COLUMN" =>
              MapAt(ops, k + 1) = After(MapAt(ops, k), Without1(ops[k + 1].column))
         /\ ops[k + 1].op \in RenamesColumn =>
              MapAt(ops, k + 1) = After(MapAt(ops, k), Renaming(ops[k + 1].column, ops[k + 1].newName))
         /\ ops[k + 1].op \notin RenamesColumn \cup {"DROP_COLUMN"} =>
              MapAt(ops, k + 1) = MapAt(ops, k)
<1> DEFINE j == k + 1
           o == ops[j]
           a == ops[j].column
<1>1. j \in 1 .. Len(ops) /\ k \in 0 .. j - 1 /\ 1 .. j = (1 .. k) \cup {j}
  OBVIOUS
<1>2. MapAt(ops, k) \in Naming
  BY MapType
<1>3. "DROP_COLUMN" \notin RenamesColumn
  BY DEF RenamesColumn
<1>4. ASSUME NEW c \in Columns, ~(o.op \in RenamesColumn \cup {"DROP_COLUMN"} /\ a = c)
      PROVE  MapAt(ops, j)[c] = MapAt(ops, k)[c]
  <2>1. DropsAt(ops, j, c) <=> DropsAt(ops, k, c)
    BY <1>1, <1>4 DEF DropsAt
  <2>2. RenamesAt(ops, j, c) = RenamesAt(ops, k, c)
    BY <1>1, <1>4 DEF RenamesAt
  <2> DEFINE Given(R) == IF R = {} THEN c ELSE ops[CHOOSE i \in R : TRUE].newName
  <2>3. MapAt(ops, j)[c] = IF DropsAt(ops, j, c) THEN Absent ELSE Given(RenamesAt(ops, j, c))
    BY DEF MapAt
  <2>4. MapAt(ops, k)[c] = IF DropsAt(ops, k, c) THEN Absent ELSE Given(RenamesAt(ops, k, c))
    BY DEF MapAt
  <2> HIDE DEF Given, j
  <2> QED  BY <2>1, <2>2, <2>3, <2>4
<1>5. CASE o.op = "DROP_COLUMN"
  <2>1. /\ a \in Columns /\ MapAt(ops, k)[a] = a
        /\ \A c \in Columns : c # a => MapAt(ops, k)[c] # a
    BY <1>1, <1>5, MapOld
  <2>2. MapAt(ops, j)[a] = Absent
    BY <1>1, <1>5, <2>1 DEF MapAt, DropsAt
  <2>3. ASSUME NEW c \in Columns PROVE MapAt(ops, j)[c] = After(MapAt(ops, k), Without1(a))[c]
    <3>1. CASE c = a
      BY <2>1, <2>2, <3>1 DEF After, Without1
    <3>2. CASE c # a
      <4>1. MapAt(ops, j)[c] = MapAt(ops, k)[c]
        BY <1>4, <3>2
      <4> QED  BY <1>2, <2>1, <3>2, <4>1 DEF After, Without1, Naming
    <3> QED  BY <3>1, <3>2
  <2>4. MapAt(ops, j) = After(MapAt(ops, k), Without1(a))
    BY <2>3 DEF MapAt, After
  <2> QED  BY <1>3, <1>5, <2>4
<1>6. CASE o.op \in RenamesColumn
  <2> DEFINE b == o.newName
  <2>1. /\ a \in Columns /\ MapAt(ops, k)[a] = a
        /\ \A c \in Columns : c # a => MapAt(ops, k)[c] # a
    BY <1>1, <1>6, MapOld
  <2>2. MapAt(ops, j)[a] = b
    <3> DEFINE kinds == RenamesColumn \cup {"DROP_COLUMN", "MODIFY_COLUMN"}
    <3>1. ASSUME NEW i \in 1 .. k, ops[i].op \in kinds PROVE ops[i].column # a
      <4>1. i \in OpsOf(ops, kinds) /\ j \in OpsOf(ops, kinds) \ {i}
        BY <1>1, <1>6, <3>1 DEF OpsOf
      <4> QED  BY <4>1 DEF NamesColumnsOnce
    <3>2. ~DropsAt(ops, j, a)
      BY <1>1, <1>3, <1>6, <3>1 DEF DropsAt
    <3>3. RenamesAt(ops, j, a) = {j}
      BY <1>1, <1>6, <3>1 DEF RenamesAt
    <3>4. (CHOOSE i \in {j} : TRUE) = j
      OBVIOUS
    <3> QED  BY <2>1, <3>2, <3>3, <3>4 DEF MapAt
  <2>3. ASSUME NEW c \in Columns PROVE MapAt(ops, j)[c] = After(MapAt(ops, k), Renaming(a, b))[c]
    <3>1. CASE c = a
      <4>1. a # Absent
        BY <2>1, AbsentAssumption
      <4> QED  BY <2>1, <2>2, <3>1, <4>1 DEF After, Renaming
    <3>2. CASE c # a
      <4>1. MapAt(ops, j)[c] = MapAt(ops, k)[c]
        BY <1>4, <3>2
      <4> QED  BY <1>2, <2>1, <3>2, <4>1 DEF After, Renaming, Naming
    <3> QED  BY <3>1, <3>2
  <2>4. MapAt(ops, j) = After(MapAt(ops, k), Renaming(a, b))
    BY <2>3 DEF MapAt, After
  <2> QED  BY <1>3, <1>6, <2>4
<1>7. CASE o.op \notin RenamesColumn \cup {"DROP_COLUMN"}
  <2>1. \A c \in Columns : MapAt(ops, j)[c] = MapAt(ops, k)[c]
    BY <1>4, <1>7
  <2>2. MapAt(ops, j) = MapAt(ops, k)
    BY <2>1 DEF MapAt
  <2> QED  BY <1>7, <2>2
<1> QED  BY <1>5, <1>6, <1>7

----------------------------------------------------------------------------
(* The table after each operation of an ALTER that fits.                    *)
Altering(o, ops, g) ==
  /\ g \in [0 .. Len(ops) -> Object]
  /\ g[0] = o
  /\ \A n \in 1 .. Len(ops) : ApplyTo(g[n - 1], ops[n]) # Absent /\ g[n] = ApplyTo(g[n - 1], ops[n])

(* ... and its name.                                                        *)
Renames(r, ops, q) ==
  /\ q \in [0 .. Len(ops) -> Ref]
  /\ q[0] = r
  /\ \A n \in 1 .. Len(ops) :
       q[n] = IF ops[n].op = "RENAME_TABLE" THEN defaultSchema(ops[n].newTable, q[n - 1][1]) ELSE q[n - 1]

(* An ALTER that fits, fits operation by operation.                         *)
LEMMA AlteringExists ==
  ASSUME NEW t \in Tables, NEW ops \in Seq(AlterOperation), applyTableDDL(t, ops) # Absent
  PROVE  /\ applyTableDDL(t, ops) \in Tables
         /\ \E g : Altering(t.object, ops, g) /\ applyTableDDL(t, ops).object = g[Len(ops)]
         /\ \E q : Renames(t.ref, ops, q) /\ applyTableDDL(t, ops).ref = q[Len(ops)]
<1> DEFINE N == Len(ops)
<1>1. N \in Nat
  OBVIOUS
<1>2. PICK f \in [0 .. N -> Tables \cup {Absent}] :
        /\ f[0] = t
        /\ \A n \in 1 .. N : f[n] = applyOp(f[n - 1], ops[n])
        /\ applyTableDDL(t, ops) = f[N]
  BY applyTableDDLDef
<1> HIDE DEF N
<1>3. ASSUME NEW m \in 0 .. N PROVE f[m] # Absent
  <2> SUFFICES ASSUME f[m] = Absent PROVE FALSE
    OBVIOUS
  <2> DEFINE P == {n \in Nat : m <= n => f[n] = Absent}
  <2>1. 0 \in P
    BY <1>1
  <2>2. ASSUME NEW n \in 0 .. N - 1, n \in P PROVE n + 1 \in P
    <3>1. n + 1 \in 1 .. N /\ (n + 1) - 1 = n
      BY <1>1
    <3>2. CASE m <= n
      <4>1. f[n + 1] = applyOp(f[n], ops[n + 1]) /\ f[n] = Absent
        BY <1>2, <2>2, <3>1, <3>2
      <4> QED  BY <3>1, <4>1 DEF applyOp
    <3>3. CASE ~(m <= n)
      BY <1>1, <3>1, <3>3
    <3> QED  BY <3>2, <3>3
  <2>3. N \in P
    <3> HIDE DEF P
    <3>1. \A n \in 0 .. N : n \in P
      BY <1>1, <2>1, <2>2, Induction
    <3> QED  BY <1>1, <3>1
  <2> QED  BY <1>1, <1>2, <2>3
<1>4. ASSUME NEW n \in 0 .. N PROVE f[n] \in Tables /\ f[n].ref \in Ref /\ f[n].object \in Object
  BY <1>2, <1>3 DEF Tables
<1>5. ASSUME NEW n \in 1 .. N
      PROVE  /\ ApplyTo(f[n - 1].object, ops[n]) # Absent
             /\ f[n].object = ApplyTo(f[n - 1].object, ops[n])
             /\ f[n].ref = IF ops[n].op = "RENAME_TABLE"
                           THEN defaultSchema(ops[n].newTable, f[n - 1].ref[1]) ELSE f[n - 1].ref
  <2>1. f[n] = applyOp(f[n - 1], ops[n]) /\ f[n] # Absent
    BY <1>1, <1>2, <1>3
  <2> QED  BY <2>1 DEF applyOp
<1> DEFINE g == [n \in 0 .. N |-> f[n].object]
           q == [n \in 0 .. N |-> f[n].ref]
<1>6. Altering(t.object, ops, g)
  <2>1. g \in [0 .. N -> Object] /\ g[0] = t.object
    BY <1>1, <1>2, <1>4
  <2>2. ASSUME NEW n \in 1 .. N PROVE g[n] = f[n].object /\ g[n - 1] = f[n - 1].object
    BY <1>1
  <2> HIDE DEF g
  <2>3. \A n \in 1 .. N : ApplyTo(g[n - 1], ops[n]) # Absent /\ g[n] = ApplyTo(g[n - 1], ops[n])
    BY <1>5, <2>2
  <2> QED  BY <2>1, <2>3 DEF Altering, N
<1>7. Renames(t.ref, ops, q)
  <2>1. q \in [0 .. N -> Ref] /\ q[0] = t.ref
    BY <1>1, <1>2, <1>4
  <2>2. ASSUME NEW n \in 1 .. N PROVE q[n] = f[n].ref /\ q[n - 1] = f[n - 1].ref
    BY <1>1
  <2> HIDE DEF q
  <2>3. ASSUME NEW n \in 1 .. N
        PROVE  q[n] = IF ops[n].op = "RENAME_TABLE"
                      THEN defaultSchema(ops[n].newTable, q[n - 1][1]) ELSE q[n - 1]
    BY <1>5, <2>2
  <2> QED  BY <2>1, <2>3 DEF Renames, N
<1>8. g[N] = f[N].object /\ q[N] = f[N].ref
  BY <1>1
<1> HIDE DEF g, q
<1>9. f[N] \in Tables
  BY <1>1, <1>4
<1> QED  BY <1>2, <1>6, <1>7, <1>8, <1>9 DEF N

(* The columns added by the first operations.                               *)
Adding(ops, add) ==
  /\ add \in [0 .. Len(ops) -> Seq(Columns)]
  /\ add[0] = <<>>
  /\ \A n \in 1 .. Len(ops) : add[n] = AddedStep(ops, n, add[n - 1])
  /\ AddedColumns(ops) = add[Len(ops)]

LEMMA AddingExists ==
  ASSUME NEW ops \in Seq(AlterOperation)
  PROVE  \E add : Adding(ops, add)
BY AddedDef DEF Adding

(* They are columns that an operation names.                                *)
AddsOthers(ops, k, a) ==
  \A i \in 1 .. k : ops[i].op = "ADD_COLUMN" => ops[i].column # a
Lacks(cs, a) ==
  \A i \in DOMAIN cs : cs[i] # a

LEMMA AddingNamed ==
  ASSUME NEW ops \in Seq(AlterOperation), NEW add, Adding(ops, add), NEW k \in 0 .. Len(ops), NEW a,
         AddsOthers(ops, k, a)
  PROVE  Lacks(add[k], a)
<1> USE DEF AddsOthers, Lacks
<1> DEFINE Avoids(s) == \A i \in 1 .. Len(s) : s[i] # a
           P == {n \in 0 .. k : Avoids(add[n])}
<1>1. k \in Nat /\ Len(ops) \in Nat /\ k <= Len(ops)
  OBVIOUS
<1>2. 0 \in P
  <2>1. add[0] = <<>> /\ Avoids(<<>>)
    BY DEF Adding
  <2> HIDE DEF Avoids
  <2> QED  BY <1>1, <2>1
<1>3. ASSUME NEW n \in 0 .. k - 1, n \in P PROVE n + 1 \in P
  <2> DEFINE s == add[n]
             c == ops[n + 1].column
  <2>1. n + 1 \in 1 .. Len(ops) /\ (n + 1) - 1 = n /\ n + 1 \in 1 .. k /\ n \in 0 .. Len(ops)
    BY <1>1
  <2>2. add[n + 1] = AddedStep(ops, n + 1, s) /\ s \in Seq(Columns)
    BY <2>1 DEF Adding
  <2>3. Avoids(s)
    BY <1>3
  <2> HIDE DEF s
  <2>4. CASE ops[n + 1].op = "ADD_COLUMN"
    <3>1. c # a /\ add[n + 1] = Append(s, c)
      BY <2>1, <2>2, <2>4 DEF AddedStep
    <3> HIDE DEF c
    <3>2. Avoids(Append(s, c))
      BY <2>2, <2>3, <3>1
    <3> HIDE DEF Avoids
    <3>3. Avoids(add[n + 1])
      BY <3>1, <3>2, Zenon
    <3>4. n + 1 \in 0 .. k
      BY <1>1, <2>1
    <3> QED  BY <3>3, <3>4
  <2>5. CASE ops[n + 1].op # "ADD_COLUMN"
    <3>1. add[n + 1] = s
      BY <2>2, <2>5 DEF AddedStep
    <3> HIDE DEF Avoids
    <3> QED  BY <1>1, <2>1, <2>3, <3>1
  <2> QED  BY <2>4, <2>5
<1>4. k \in P
  <2> HIDE DEF P
  <2>1. \A n \in 0 .. k : n \in P
    BY <1>1, <1>2, <1>3, Induction
  <2> QED  BY <1>1, <2>1
<1>5. add[k] \in Seq(Columns)
  BY <1>1 DEF Adding
<1> QED  BY <1>4, <1>5

(* The columns after the first operations: those of the old definition by   *)
(* their new names, then the added ones.                                    *)
ColumnsAt(old, ops, add, k) == Through(old, MapAt(ops, k)) \o add[k]

LEMMA ConcatColumns ==
  ASSUME NEW s \in Seq(Columns), NEW t \in Seq(Columns), NEW u \in Seq(Columns)
  PROVE  (s \o t) \o u = s \o (t \o u)
<1> DEFINE x == (s \o t) \o u
           y == s \o (t \o u)
<1>1. x \in Seq(Columns) /\ y \in Seq(Columns) /\ Len(x) = Len(y)
  OBVIOUS
<1>2. \A i \in 1 .. Len(x) : x[i] = y[i]
  OBVIOUS
<1> HIDE DEF x, y
<1>3. x = y
  BY <1>1, <1>2, SameList
<1> QED  BY <1>3 DEF x, y

LEMMA ConcatAppend ==
  ASSUME NEW s \in Seq(Columns), NEW t \in Seq(Columns), NEW c \in Columns
  PROVE  s \o Append(t, c) = Append(s \o t, c)
OBVIOUS

(* A column that the next operation takes away is there in one place.       *)
LEMMA ColumnsOnce ==
  ASSUME NEW old \in Seq(Columns), IsInjective(old), NEW ops \in Seq(AlterOperation),
         NamesColumnsOnce(old, ops), NoReuse(ops), NEW add, Adding(ops, add),
         NEW k \in 0 .. Len(ops) - 1, ops[k + 1].op \in RenamesColumn \cup {"DROP_COLUMN"}
  PROVE  /\ \E A, B : Once(ColumnsAt(old, ops, add, k), ops[k + 1].column, A, B)
         /\ \A i \in DOMAIN add[k] : add[k][i] # ops[k + 1].column
<1> DEFINE j == k + 1
           a == ops[j].column
           M == MapAt(ops, k)
<1>1. j \in 1 .. Len(ops) /\ k \in 0 .. j - 1 /\ k \in 0 .. Len(ops) /\ DOMAIN ops = 1 .. Len(ops)
  OBVIOUS
<1>2. M \in Naming
  BY <1>1, MapType
<1>3. a \in Columns /\ M[a] = a /\ \A c \in Columns : c # a => M[c] # a
  BY <1>1, MapOld
<1>4. \A i \in DOMAIN add[k] : add[k][i] # a
  <2>1. ASSUME NEW i \in 1 .. k, ops[i].op = "ADD_COLUMN" PROVE ops[i].column # a
    <3>1. i \in DOMAIN ops /\ j \in DOMAIN ops /\ i < j
      BY <1>1
    <3>2. NewColumns(ops[i]) = {ops[i].column}
      BY <2>1 DEF NewColumns, RenamesColumn
    <3>3. OldColumns(ops[j]) = {a}
      BY DEF OldColumns
    <3> QED  BY <3>1, <3>2, <3>3 DEF NoReuse
  <2>2. k \in 0 .. Len(ops)
    BY <1>1
  <2>3. AddsOthers(ops, k, a)
    BY <2>1 DEF AddsOthers
  <2> HIDE DEF a
  <2>4. Lacks(add[k], a)
    BY <2>2, <2>3, AddingNamed
  <2> QED  BY <2>4 DEF Lacks
<1>5. add[k] \in Seq(Columns)
  BY <1>1 DEF Adding
<1>6. Contains(old, a)
  <2>1. j \in OpsOf(ops, RenamesColumn \cup {"DROP_COLUMN", "MODIFY_COLUMN"})
    BY <1>1 DEF OpsOf
  <2> QED  BY <2>1 DEF NamesColumnsOnce
<1> HIDE DEF a, j, M
<1>7. PICK A, B : Once(old, a, A, B)
  BY <1>6, OnceFacts
<1>8. A \in Seq(Columns) /\ B \in Seq(Columns) /\ old = A \o <<a>> \o B
  BY <1>7 DEF Once
<1> DEFINE TA == Through(A, M)
           TB == Through(B, M)
           C  == TB \o add[k]
<1>9. TA \in Seq(Columns) /\ TB \in Seq(Columns)
  BY <1>2, <1>8, ThroughType
<1>10. \A i \in DOMAIN TA : TA[i] # a
  <2>1. \A i \in DOMAIN A : A[i] \in Columns /\ A[i] # a
    BY <1>7, <1>8 DEF Once
  <2>2. \A i \in DOMAIN A : M[A[i]] # a
    BY <1>3, <2>1
  <2> QED  BY <1>2, <1>8, <2>2, ThroughAvoids
<1>11. \A i \in DOMAIN TB : TB[i] # a
  <2>1. \A i \in DOMAIN B : B[i] \in Columns /\ B[i] # a
    BY <1>7, <1>8 DEF Once
  <2>2. \A i \in DOMAIN B : M[B[i]] # a
    BY <1>3, <2>1
  <2> QED  BY <1>2, <1>8, <2>2, ThroughAvoids
<1>12. Through(old, M) = TA \o <<a>> \o TB
  <2>1. a # Absent
    BY <1>3, AbsentAssumption
  <2>2. Through(A \o <<a>> \o B, M) = TA \o (IF M[a] = Absent THEN <<>> ELSE <<M[a]>>) \o TB
    <3>1. InThree(A, a, B, M)
      BY <1>2, <1>3, <1>8, ThroughAround
    <3> QED  BY <3>1 DEF InThree
  <2>3. (IF M[a] = Absent THEN <<>> ELSE <<M[a]>>) = <<a>>
    BY <1>3, <2>1
  <2> QED  BY <1>8, <2>2, <2>3
<1> HIDE DEF TA, TB
<1>13. C \in Seq(Columns) /\ \A i \in DOMAIN C : C[i] # a
  BY <1>4, <1>5, <1>9, <1>11
<1>14. (TA \o <<a>> \o TB) \o add[k] = TA \o <<a>> \o C
  <2> DEFINE D == TA \o <<a>>
  <2>1. D \in Seq(Columns)
    BY <1>3, <1>9
  <2> HIDE DEF D
  <2>2. (D \o TB) \o add[k] = D \o (TB \o add[k])
    BY <1>5, <1>9, <2>1, ConcatColumns
  <2> QED  BY <2>2 DEF D
<1> HIDE DEF C
<1>15. ColumnsAt(old, ops, add, k) = TA \o <<a>> \o C
  BY <1>12, <1>14 DEF ColumnsAt, M
<1>16. Once(ColumnsAt(old, ops, add, k), a, TA, C)
  BY <1>3, <1>9, <1>10, <1>13, <1>15 DEF Once
<1> QED  BY <1>4, <1>16 DEF a, j

(* A naming that only concerns a column applies to the old columns alone.   *)
LEMMA ColumnsNamed ==
  ASSUME NEW old \in Seq(Columns), NEW ops \in Seq(AlterOperation), NEW add, Adding(ops, add),
         NEW k \in 0 .. Len(ops) - 1, NEW g \in Naming,
         \A i \in DOMAIN add[k] : g[add[k][i]] = add[k][i],
         MapAt(ops, k + 1) = After(MapAt(ops, k), g), add[k + 1] = add[k]
  PROVE  Through(ColumnsAt(old, ops, add, k), g) = ColumnsAt(old, ops, add, k + 1)
<1> DEFINE M == MapAt(ops, k)
<1>1. k \in 0 .. Len(ops)
  OBVIOUS
<1>2. M \in Naming /\ add[k] \in Seq(Columns)
  BY <1>1, MapType DEF Adding
<1> HIDE DEF M
<1>3. Through(old, M) \in Seq(Columns)
  BY <1>2, ThroughType
<1>4. Through(Through(old, M) \o add[k], g) = Through(Through(old, M), g) \o Through(add[k], g)
  BY <1>2, <1>3, ThroughConcat
<1>5. Through(add[k], g) = add[k]
  BY <1>2, ThroughSame
<1>6. Through(Through(old, M), g) = Through(old, After(M, g))
  BY <1>2, ThroughTwice
<1> QED  BY <1>4, <1>5, <1>6 DEF ColumnsAt, M

(* Operation by operation, as the view applies them, the columns are those  *)
(* that MySQL gives the table at once.                                      *)
LEMMA AlteringColumns ==
  ASSUME NEW o \in Object, IsInjective(o.columns), NEW ops \in Seq(AlterOperation),
         NamesColumnsOnce(o.columns, ops), NoReuse(ops),
         NEW add, Adding(ops, add), NEW g, Altering(o, ops, g)
  PROVE  \A k \in 0 .. Len(ops) : g[k].columns = ColumnsAt(o.columns, ops, add, k)
<1> DEFINE old == o.columns
           N == Len(ops)
           P == {k \in 0 .. N : g[k].columns = ColumnsAt(old, ops, add, k)}
<1>1. N \in Nat /\ old \in Seq(Columns) /\ \A n \in 1 .. N : ops[n] \in AlterOperation
  BY ObjectFields
<1>2. 0 \in P
  <2>1. MapAt(ops, 0) \in Naming /\ \A i \in DOMAIN old : MapAt(ops, 0)[old[i]] = old[i]
    BY <1>1, MapType, MapFirst
  <2>2. Through(old, MapAt(ops, 0)) = old
    BY <1>1, <2>1, ThroughSame
  <2>3. add[0] = <<>> /\ g[0] = o
    BY DEF Adding, Altering
  <2>4. old \o <<>> = old
    BY <1>1
  <2>5. g[0].columns = ColumnsAt(old, ops, add, 0)
    BY <2>2, <2>3, <2>4 DEF ColumnsAt
  <2> QED  BY <1>1, <2>5
<1>3. ASSUME NEW k \in 0 .. N - 1, k \in P PROVE k + 1 \in P
  <2> DEFINE j == k + 1
             op == ops[j]
             p == g[k]
             cs == ColumnsAt(old, ops, add, k)
  <2>1. j \in 1 .. N /\ j - 1 = k /\ k \in 0 .. N /\ j \in 0 .. N
    BY <1>1
  <2>2. p \in Object /\ op \in AlterOperation /\ ApplyTo(p, op) # Absent /\ g[j] = ApplyTo(p, op)
    BY <1>1, <2>1 DEF Altering
  <2>3. p.columns = cs
    BY <1>3
  <2>4. add[j] = AddedStep(ops, j, add[k]) /\ add[k] \in Seq(Columns)
    BY <2>1 DEF Adding
  <2>5. Through(old, MapAt(ops, k)) \in Seq(Columns)
    BY <1>1, <2>1, MapType, ThroughType
  <2>6. /\ op.op = "DROP_COLUMN" => MapAt(ops, j) = After(MapAt(ops, k), Without1(op.column))
        /\ op.op \in RenamesColumn =>
             MapAt(ops, j) = After(MapAt(ops, k), Renaming(op.column, op.newName))
        /\ op.op \notin RenamesColumn \cup {"DROP_COLUMN"} => MapAt(ops, j) = MapAt(ops, k)
    BY MapStep
  <2>7. op.op \in RenamesColumn \cup {"DROP_COLUMN"} =>
          /\ \E A, B : Once(cs, op.column, A, B)
          /\ \A i \in DOMAIN add[k] : add[k][i] # op.column
    BY <1>1, ColumnsOnce
  <2>8. ASSUME NEW f \in Naming, \A i \in DOMAIN add[k] : f[add[k][i]] = add[k][i],
               MapAt(ops, j) = After(MapAt(ops, k), f), add[j] = add[k]
        PROVE  Through(cs, f) = ColumnsAt(old, ops, add, j)
    BY <1>1, <2>8, ColumnsNamed
  <2> SUFFICES g[j].columns = ColumnsAt(old, ops, add, j)
    BY <2>1
  <2>9. op.op = "ADD_COLUMN" => add[j] = Append(add[k], op.column)
    BY <2>4 DEF AddedStep
  <2>10. op.op # "ADD_COLUMN" => add[j] = add[k]
    BY <2>4 DEF AddedStep
  <2> HIDE DEF P, j, op, p, old
  <2>11. CASE op.op = "ADD_COLUMN"
    <3> DEFINE c == op.column
               T == Through(old, MapAt(ops, k))
    <3>1. g[j].columns = Append(cs, c) /\ c \in Columns
      BY <2>2, <2>3, <2>11, AddColumnFacts, OperationKinds
    <3>2. MapAt(ops, j) = MapAt(ops, k)
      BY <2>6, <2>11 DEF RenamesColumn
    <3>3. T \in Seq(Columns)
      BY <2>5
    <3> HIDE DEF c, T
    <3>4. T \o Append(add[k], c) = Append(T \o add[k], c)
      <4>1. add[k] \in Seq(Columns)
        BY <2>4
      <4> QED  BY <3>1, <3>3, <4>1, ConcatAppend
    <3> QED  BY <2>9, <2>11, <3>1, <3>2, <3>4 DEF ColumnsAt, T, c
  <2> HIDE DEF cs
  <2>12. CASE op.op = "DROP_COLUMN"
    <3> DEFINE a == op.column
               f == Without1(a)
    <3> HIDE DEF a
    <3>1. PICK A, B : Once(cs, a, A, B)
      BY <2>7, <2>12 DEF a
    <3>2. a \in Columns /\ \A i \in DOMAIN add[k] : add[k][i] # a
      BY <2>7, <2>12, <3>1 DEF a, Once
    <3>3. g[j].columns = RemoveAt(cs, findColumn(p, a))
      BY <2>2, <2>3, <2>12, DropColumnFacts DEF a
    <3>4. findColumn(p, a) = Len(A) + 1
      BY <2>3, <3>1, FindOnce
    <3>5. g[j].columns = Through(cs, f)
      BY <3>1, <3>3, <3>4, DropOnce
    <3>6. f \in Naming /\ \A i \in DOMAIN add[k] : f[add[k][i]] = add[k][i]
      BY <2>4, <3>2, NamingTypes DEF Without1
    <3>7. MapAt(ops, j) = After(MapAt(ops, k), f)
      BY <2>6, <2>12 DEF a
    <3> HIDE DEF f
    <3> QED  BY <2>8, <2>10, <2>12, <3>5, <3>6, <3>7
  <2>13. CASE op.op \in RenamesColumn
    <3> DEFINE a == op.column
               b == op.newName
               f == Renaming(a, b)
    <3>1. b \in Columns
      BY <2>2, <2>13, OperationKinds
    <3> HIDE DEF a, b
    <3>2. PICK A, B : Once(cs, a, A, B)
      BY <2>7, <2>13 DEF a
    <3>3. a \in Columns /\ \A i \in DOMAIN add[k] : add[k][i] # a
      BY <2>7, <2>13, <3>2 DEF a, Once
    <3>4. g[j].columns = ReplaceAt(cs, findColumn(p, a), b)
      BY <2>2, <2>3, <2>13, RenameColumnFacts DEF a, b
    <3>5. findColumn(p, a) = Len(A) + 1
      BY <2>3, <3>2, FindOnce
    <3>6. g[j].columns = Through(cs, f)
      BY <3>1, <3>2, <3>4, <3>5, RenameOnce
    <3>7. f \in Naming
      BY <3>1, <3>3, NamingTypes
    <3>8. \A i \in DOMAIN add[k] : f[add[k][i]] = add[k][i]
      BY <2>4, <3>3 DEF Renaming
    <3>9. MapAt(ops, j) = After(MapAt(ops, k), f)
      BY <2>6, <2>13 DEF a, b
    <3>10. add[j] = add[k]
      BY <2>10, <2>13 DEF RenamesColumn
    <3> HIDE DEF f
    <3> QED  BY <2>8, <3>6, <3>7, <3>8, <3>9, <3>10
  <2>14. CASE op.op \notin RenamesColumn \cup {"ADD_COLUMN", "DROP_COLUMN"}
    <3>1. g[j].columns = cs
      <4>1. CASE op.op \in {"ADD_INDEX", "DROP_INDEX", "RENAME_INDEX"}
        <5>1. ApplyTo(p, op).columns = p.columns
          BY <2>2, <4>1, IndexFacts, Zenon
        <5> QED  BY <2>2, <2>3, <5>1
      <4>2. CASE op.op \in {"MODIFY_COLUMN", "RENAME_TABLE", "TABLE_OPTIONS", "COLUMN_KEY"}
        BY <2>2, <2>3, <4>2, OtherFacts
      <4> QED  BY <2>2, <2>14, <4>1, <4>2, OperationKinds DEF RenamesColumn
    <3>2. MapAt(ops, j) = MapAt(ops, k) /\ add[j] = add[k]
      BY <2>6, <2>10, <2>14
    <3> QED  BY <3>1, <3>2 DEF ColumnsAt, cs
  <2> QED  BY <2>11, <2>12, <2>13, <2>14
<1> HIDE DEF P
<1>4. \A k \in 0 .. N : k \in P
  BY <1>1, <1>2, <1>3, Induction
<1> QED  BY <1>4 DEF P

----------------------------------------------------------------------------
(* The same for the indexes.  After the first k operations p is still there *)
(* if no operation dropped it or its last column; it may have a new name.   *)
KeptAt(old, ops, k, p) ==
  /\ Through(old[p], MapAt(ops, k)) # <<>>
  /\ \A i \in 1 .. k : ops[i].op = "DROP_INDEX" => ops[i].index # p
RenamedAt(ops, k, p, n) == \E i \in 1 .. k : ops[i].op = "RENAME_INDEX" /\ ops[i].index = p /\ ops[i].newName = n
StaysAt(ops, k, p) == \A i \in 1 .. k : ops[i].op = "RENAME_INDEX" => ops[i].index # p
NameAt(ops, k, p, n) == RenamedAt(ops, k, p, n) \/ (StaysAt(ops, k, p) /\ n = p)
AddsAt(ops, k, n) == \E i \in 1 .. k : ops[i].op = "ADD_INDEX" /\ ops[i].index = n

(* x has the kept indexes, the added ones, and no others.                   *)
HasKept(old, ops, k, x) ==
  \A p, n \in IndexNames : KeptAt(old, ops, k, p) /\ NameAt(ops, k, p, n) => x[n] = Through(old[p], MapAt(ops, k))
HasAdded(ops, k, x) == \A i \in 1 .. k : ops[i].op = "ADD_INDEX" => x[ops[i].index] = ops[i].columns
HasOnly(old, ops, k, x) ==
  \A n \in IndexNames : x[n] # <<>> =>
    AddsAt(ops, k, n) \/ \E p \in IndexNames : KeptAt(old, ops, k, p) /\ NameAt(ops, k, p, n)
IndexesAt(old, ops, k, x) == HasKept(old, ops, k, x) /\ HasAdded(ops, k, x) /\ HasOnly(old, ops, k, x)

Indexes == [IndexNames -> Seq(Columns)]

LEMMA IndexesFirst ==
  ASSUME NEW old \in Indexes, NEW ops \in Seq(AlterOperation)
  PROVE  IndexesAt(old, ops, 0, old)
<1>1. ASSUME NEW p \in IndexNames PROVE Through(old[p], MapAt(ops, 0)) = old[p]
  <2>1. old[p] \in Seq(Columns)
    BY DEF Indexes
  <2>2. MapAt(ops, 0) \in Naming /\ \A i \in DOMAIN old[p] : MapAt(ops, 0)[old[p][i]] = old[p][i]
    BY <2>1, MapType, MapFirst
  <2> QED  BY <2>1, <2>2, ThroughSame
<1>2. \A p, n \in IndexNames : NameAt(ops, 0, p, n) <=> n = p
  BY DEF NameAt, RenamedAt, StaysAt
<1>3. \A p \in IndexNames : KeptAt(old, ops, 0, p) <=> old[p] # <<>>
  BY <1>1 DEF KeptAt
<1>4. HasKept(old, ops, 0, old)
  BY <1>1, <1>2 DEF HasKept
<1>5. HasAdded(ops, 0, old)
  BY DEF HasAdded
<1>6. HasOnly(old, ops, 0, old)
  BY <1>2, <1>3 DEF HasOnly
<1> QED  BY <1>4, <1>5, <1>6 DEF IndexesAt

(* An index that the next operation names is the one of that name in the    *)
(* old definition, and no other has the name.                               *)
LEMMA IndexOld ==
  ASSUME NEW old \in Indexes, NEW ops \in Seq(AlterOperation), NoReuse(ops),
         NEW k \in 0 .. Len(ops) - 1, ops[k + 1].op \in {"DROP_INDEX", "RENAME_INDEX"},
         NEW x \in Indexes, HasOnly(old, ops, k, x), x[ops[k + 1].index] # <<>>
  PROVE  LET a == ops[k + 1].index
         IN  /\ a \in IndexNames
             /\ KeptAt(old, ops, k, a) /\ StaysAt(ops, k, a)
             /\ \A p \in IndexNames : NameAt(ops, k, p, a) => p = a
<1> DEFINE a == ops[k + 1].index
<1>1. k + 1 \in DOMAIN ops /\ k \in Nat /\ ops[k + 1] \in AlterOperation
  OBVIOUS
<1>2. a \in IndexNames
  BY <1>1, OperationKinds
<1>3. OldIndex(ops[k + 1]) = {a}
  BY DEF OldIndex
<1>4. ASSUME NEW i \in 1 .. k PROVE NewIndex(ops[i]) \cap {a} = {}
  <2>1. i \in DOMAIN ops /\ i < k + 1
    BY <1>1
  <2> QED  BY <1>1, <1>3, <2>1 DEF NoReuse
<1> HIDE DEF a
<1>5. ~AddsAt(ops, k, a)
  <2>1. ASSUME NEW i \in 1 .. k, ops[i].op = "ADD_INDEX" PROVE ops[i].index # a
    <3>1. NewIndex(ops[i]) = {ops[i].index}
      BY <2>1 DEF NewIndex
    <3> QED  BY <1>4, <3>1
  <2> QED  BY <2>1 DEF AddsAt
<1>6. ASSUME NEW p PROVE ~RenamedAt(ops, k, p, a)
  <2>1. ASSUME NEW i \in 1 .. k, ops[i].op = "RENAME_INDEX" PROVE ops[i].newName # a
    <3>1. NewIndex(ops[i]) = {ops[i].newName}
      BY <2>1 DEF NewIndex
    <3> QED  BY <1>4, <3>1
  <2> QED  BY <2>1 DEF RenamedAt
<1>7. \A p \in IndexNames : NameAt(ops, k, p, a) => p = a /\ StaysAt(ops, k, a)
  BY <1>6 DEF NameAt
<1>8. \E p \in IndexNames : KeptAt(old, ops, k, p) /\ NameAt(ops, k, p, a)
  BY <1>2, <1>5 DEF HasOnly, a
<1> QED  BY <1>2, <1>7, <1>8 DEF a

(* CREATE INDEX, or ADD INDEX.                                              *)
LEMMA IndexesAdd ==
  ASSUME NEW old \in Indexes, NEW ops \in Seq(AlterOperation),
         NEW k \in 0 .. Len(ops) - 1, ops[k + 1].op = "ADD_INDEX",
         MapAt(ops, k + 1) = MapAt(ops, k),
         NEW x \in Indexes, IndexesAt(old, ops, k, x), x[ops[k + 1].index] = <<>>
  PROVE  IndexesAt(old, ops, k + 1, [x EXCEPT ![ops[k + 1].index] = ops[k + 1].columns])
<1> DEFINE j == k + 1
           a == ops[j].index
           cs == ops[j].columns
           y == [x EXCEPT ![a] = cs]
<1>1. k \in Nat /\ 1 .. j = (1 .. k) \cup {j} /\ ops[j] \in AlterOperation
  OBVIOUS
<1>2. a \in IndexNames /\ cs # <<>>
  BY <1>1, OperationKinds
<1>3. \A p, n : NameAt(ops, j, p, n) <=> NameAt(ops, k, p, n)
  BY <1>1 DEF NameAt, RenamedAt, StaysAt
<1>4. \A p : KeptAt(old, ops, j, p) <=> KeptAt(old, ops, k, p)
  BY <1>1 DEF KeptAt
<1>5. y[a] = cs /\ \A n \in IndexNames : n # a => y[n] = x[n]
  BY <1>2 DEF Indexes
<1>6. x[a] = <<>>
  OBVIOUS
<1> HIDE DEF a, cs, y
<1>7. HasKept(old, ops, j, y)
  <2> SUFFICES ASSUME NEW p \in IndexNames, NEW n \in IndexNames,
                      KeptAt(old, ops, j, p), NameAt(ops, j, p, n)
               PROVE  y[n] = Through(old[p], MapAt(ops, j))
    BY DEF HasKept
  <2>1. x[n] = Through(old[p], MapAt(ops, k)) /\ Through(old[p], MapAt(ops, k)) # <<>>
    BY <1>3, <1>4 DEF IndexesAt, HasKept, KeptAt
  <2>2. n # a
    BY <1>6, <2>1
  <2> QED  BY <1>5, <2>1, <2>2
<1>8. HasAdded(ops, j, y)
  <2> SUFFICES ASSUME NEW i \in 1 .. j, ops[i].op = "ADD_INDEX" PROVE y[ops[i].index] = ops[i].columns
    BY DEF HasAdded
  <2>1. CASE i = j
    BY <1>5, <2>1 DEF a, cs
  <2>2. CASE i \in 1 .. k
    <3>1. ops[i] \in AlterOperation
      BY <2>2
    <3>2. x[ops[i].index] = ops[i].columns /\ ops[i].columns # <<>> /\ ops[i].index \in IndexNames
      BY <2>2, <3>1, OperationKinds DEF IndexesAt, HasAdded
    <3> QED  BY <1>5, <1>6, <3>2
  <2> QED  BY <1>1, <2>1, <2>2
<1>9. HasOnly(old, ops, j, y)
  <2> SUFFICES ASSUME NEW n \in IndexNames, y[n] # <<>>
               PROVE  AddsAt(ops, j, n) \/ \E p \in IndexNames : KeptAt(old, ops, j, p) /\ NameAt(ops, j, p, n)
    BY DEF HasOnly
  <2>1. CASE n = a
    BY <1>1, <2>1 DEF AddsAt, a
  <2>2. CASE n # a
    <3>1. AddsAt(ops, k, n) \/ \E p \in IndexNames : KeptAt(old, ops, k, p) /\ NameAt(ops, k, p, n)
      BY <1>5, <2>2 DEF IndexesAt, HasOnly
    <3>2. AddsAt(ops, k, n) => AddsAt(ops, j, n)
      BY <1>1 DEF AddsAt
    <3> QED  BY <1>3, <1>4, <3>1, <3>2
  <2> QED  BY <2>1, <2>2
<1> QED  BY <1>7, <1>8, <1>9 DEF IndexesAt, y, a, cs

(* DROP INDEX.                                                              *)
LEMMA IndexesDrop ==
  ASSUME NEW old \in Indexes, NEW ops \in Seq(AlterOperation), NoReuse(ops),
         NEW k \in 0 .. Len(ops) - 1, ops[k + 1].op = "DROP_INDEX",
         MapAt(ops, k + 1) = MapAt(ops, k),
         NEW x \in Indexes, IndexesAt(old, ops, k, x), x[ops[k + 1].index] # <<>>
  PROVE  IndexesAt(old, ops, k + 1, [x EXCEPT ![ops[k + 1].index] = <<>>])
<1> DEFINE j == k + 1
           a == ops[j].index
           y == [x EXCEPT ![a] = <<>>]
<1>1. k \in Nat /\ 1 .. j = (1 .. k) \cup {j} /\ j \in DOMAIN ops /\ DOMAIN ops = 1 .. Len(ops)
  OBVIOUS
<1>2. /\ a \in IndexNames
      /\ KeptAt(old, ops, k, a) /\ StaysAt(ops, k, a)
      /\ \A p \in IndexNames : NameAt(ops, k, p, a) => p = a
  BY IndexOld DEF IndexesAt
<1>3. \A p, n : NameAt(ops, j, p, n) <=> NameAt(ops, k, p, n)
  BY <1>1 DEF NameAt, RenamedAt, StaysAt
<1>4. \A p : KeptAt(old, ops, j, p) <=> KeptAt(old, ops, k, p) /\ p # a
  BY <1>1 DEF KeptAt
<1>5. y[a] = <<>> /\ \A n \in IndexNames : n # a => y[n] = x[n]
  BY <1>2 DEF Indexes
<1>6. OldIndex(ops[j]) = {a}
  BY DEF OldIndex
<1> HIDE DEF a, y
<1>7. HasKept(old, ops, j, y)
  <2> SUFFICES ASSUME NEW p \in IndexNames, NEW n \in IndexNames,
                      KeptAt(old, ops, j, p), NameAt(ops, j, p, n)
               PROVE  y[n] = Through(old[p], MapAt(ops, j))
    BY DEF HasKept
  <2>1. KeptAt(old, ops, k, p) /\ p # a /\ NameAt(ops, k, p, n)
    BY <1>3, <1>4
  <2>2. x[n] = Through(old[p], MapAt(ops, k))
    BY <2>1 DEF IndexesAt, HasKept
  <2>3. n # a
    BY <1>2, <2>1
  <2> QED  BY <1>5, <2>2, <2>3
<1>8. HasAdded(ops, j, y)
  <2> SUFFICES ASSUME NEW i \in 1 .. j, ops[i].op = "ADD_INDEX" PROVE y[ops[i].index] = ops[i].columns
    BY DEF HasAdded
  <2>1. i \in 1 .. k
    BY <1>1
  <2>2. i \in DOMAIN ops /\ i < j /\ ops[i] \in AlterOperation
    BY <1>1, <2>1
  <2>3. x[ops[i].index] = ops[i].columns /\ ops[i].index \in IndexNames
    BY <2>1, <2>2, OperationKinds DEF IndexesAt, HasAdded
  <2>4. NewIndex(ops[i]) = {ops[i].index}
    BY DEF NewIndex
  <2>5. ops[i].index # a
    BY <1>1, <1>6, <2>2, <2>4 DEF NoReuse
  <2> QED  BY <1>5, <2>3, <2>5
<1>9. HasOnly(old, ops, j, y)
  <2> SUFFICES ASSUME NEW n \in IndexNames, y[n] # <<>>
               PROVE  AddsAt(ops, j, n) \/ \E p \in IndexNames : KeptAt(old, ops, j, p) /\ NameAt(ops, j, p, n)
    BY DEF HasOnly
  <2>1. n # a /\ x[n] # <<>>
    BY <1>5
  <2>2. AddsAt(ops, k, n) \/ \E p \in IndexNames : KeptAt(old, ops, k, p) /\ NameAt(ops, k, p, n)
    BY <2>1 DEF IndexesAt, HasOnly
  <2>3. AddsAt(ops, k, n) => AddsAt(ops, j, n)
    BY <1>1 DEF AddsAt
  <2>4. ~NameAt(ops, k, a, n)
    BY <1>2, <2>1 DEF NameAt, RenamedAt, StaysAt
  <2> QED  BY <1>3, <1>4, <2>2, <2>3, <2>4
<1> QED  BY <1>7, <1>8, <1>9 DEF IndexesAt, y, a

(* RENAME INDEX.                                                            *)
LEMMA IndexesRename ==
  ASSUME NEW old \in Indexes, NEW ops \in Seq(AlterOperation), NoReuse(ops),
         NEW k \in 0 .. Len(ops) - 1, ops[k + 1].op = "RENAME_INDEX",
         MapAt(ops, k + 1) = MapAt(ops, k),
         NEW x \in Indexes, IndexesAt(old, ops, k, x),
         x[ops[k + 1].index] # <<>>, x[ops[k + 1].newName] = <<>>
  PROVE  IndexesAt(old, ops, k + 1,
                   [x EXCEPT ![ops[k + 1].index] = <<>>, ![ops[k + 1].newName] = x[ops[k + 1].index]])
<1> DEFINE j == k + 1
           a == ops[j].index
           b == ops[j].newName
           y == [x EXCEPT ![a] = <<>>, ![b] = x[a]]
<1>1. k \in Nat /\ 1 .. j = (1 .. k) \cup {j} /\ j \in DOMAIN ops /\ DOMAIN ops = 1 .. Len(ops)
  OBVIOUS
<1>2. /\ a \in IndexNames
      /\ KeptAt(old, ops, k, a) /\ StaysAt(ops, k, a)
      /\ \A p \in IndexNames : NameAt(ops, k, p, a) => p = a
  BY IndexOld DEF IndexesAt
<1>3. b \in IndexNames /\ x[b] = <<>> /\ a # b
  <2>1. ops[j] \in AlterOperation
    BY <1>1
  <2> QED  BY <2>1, OperationKinds
<1>4. \A p, n : p # a => (NameAt(ops, j, p, n) <=> NameAt(ops, k, p, n))
  BY <1>1 DEF NameAt, RenamedAt, StaysAt
<1>5. \A p : KeptAt(old, ops, j, p) <=> KeptAt(old, ops, k, p)
  BY <1>1 DEF KeptAt
<1>6. \A n : NameAt(ops, j, a, n) <=> n = b
  <2>1. ASSUME NEW n PROVE RenamedAt(ops, j, a, n) <=> n = b
    BY <1>1, <1>2 DEF RenamedAt, StaysAt
  <2>2. ~StaysAt(ops, j, a)
    BY <1>1 DEF StaysAt
  <2> QED  BY <2>1, <2>2 DEF NameAt
<1>7. y[a] = <<>> /\ y[b] = x[a] /\ \A n \in IndexNames : n # a /\ n # b => y[n] = x[n]
  BY <1>2, <1>3 DEF Indexes
<1>8. OldIndex(ops[j]) = {a}
  BY DEF OldIndex
<1> HIDE DEF a, b, y
<1>9. HasKept(old, ops, j, y)
  <2> SUFFICES ASSUME NEW p \in IndexNames, NEW n \in IndexNames,
                      KeptAt(old, ops, j, p), NameAt(ops, j, p, n)
               PROVE  y[n] = Through(old[p], MapAt(ops, j))
    BY DEF HasKept
  <2>1. KeptAt(old, ops, k, p)
    BY <1>5
  <2>2. CASE p = a
    <3>1. NameAt(ops, k, a, a)
      BY <1>2 DEF NameAt
    <3>2. x[a] = Through(old[a], MapAt(ops, k))
      BY <1>2, <3>1 DEF IndexesAt, HasKept
    <3>3. n = b
      BY <1>6, <2>2
    <3> QED  BY <1>7, <2>2, <3>2, <3>3
  <2>3. CASE p # a
    <3>1. NameAt(ops, k, p, n)
      BY <1>4, <2>3
    <3>2. x[n] = Through(old[p], MapAt(ops, k)) /\ Through(old[p], MapAt(ops, k)) # <<>>
      BY <2>1, <3>1 DEF IndexesAt, HasKept, KeptAt
    <3>3. n # a /\ n # b
      BY <1>2, <1>3, <2>3, <3>1, <3>2
    <3> QED  BY <1>7, <3>2, <3>3
  <2> QED  BY <2>2, <2>3
<1>10. HasAdded(ops, j, y)
  <2> SUFFICES ASSUME NEW i \in 1 .. j, ops[i].op = "ADD_INDEX" PROVE y[ops[i].index] = ops[i].columns
    BY DEF HasAdded
  <2>1. i \in 1 .. k
    BY <1>1
  <2>2. i \in DOMAIN ops /\ i < j /\ ops[i] \in AlterOperation
    BY <1>1, <2>1
  <2>3. x[ops[i].index] = ops[i].columns /\ ops[i].columns # <<>> /\ ops[i].index \in IndexNames
    BY <2>1, <2>2, OperationKinds DEF IndexesAt, HasAdded
  <2>4. NewIndex(ops[i]) = {ops[i].index}
    BY DEF NewIndex
  <2>5. ops[i].index # a /\ ops[i].index # b
    BY <1>1, <1>3, <1>8, <2>2, <2>3, <2>4 DEF NoReuse
  <2> QED  BY <1>7, <2>3, <2>5
<1>11. HasOnly(old, ops, j, y)
  <2> SUFFICES ASSUME NEW n \in IndexNames, y[n] # <<>>
               PROVE  AddsAt(ops, j, n) \/ \E p \in IndexNames : KeptAt(old, ops, j, p) /\ NameAt(ops, j, p, n)
    BY DEF HasOnly
  <2>1. CASE n = b
    BY <1>2, <1>5, <1>6, <2>1
  <2>2. CASE n # b
    <3>1. n # a /\ x[n] # <<>>
      BY <1>7, <2>2
    <3>2. AddsAt(ops, k, n) \/ \E p \in IndexNames : KeptAt(old, ops, k, p) /\ NameAt(ops, k, p, n)
      BY <3>1 DEF IndexesAt, HasOnly
    <3>3. AddsAt(ops, k, n) => AddsAt(ops, j, n)
      BY <1>1 DEF AddsAt
    <3>4. ~NameAt(ops, k, a, n)
      BY <1>2, <3>1 DEF NameAt, RenamedAt, StaysAt
    <3> QED  BY <1>4, <1>5, <3>2, <3>3, <3>4
  <2> QED  BY <2>1, <2>2
<1> QED  BY <1>9, <1>10, <1>11 DEF IndexesAt, y, a, b

(* An operation on a column, which is done to every index.                  *)
LEMMA IndexesColumn ==
  ASSUME NEW old \in Indexes, NEW ops \in Seq(AlterOperation), NoReuse(ops),
         NEW k \in 0 .. Len(ops) - 1, ops[k + 1].op \in RenamesColumn \cup {"DROP_COLUMN"},
         NEW f \in Naming, \A c \in Columns : c # ops[k + 1].column => f[c] = c,
         MapAt(ops, k + 1) = After(MapAt(ops, k), f),
         NEW x \in Indexes, IndexesAt(old, ops, k, x)
  PROVE  IndexesAt(old, ops, k + 1, [n \in IndexNames |-> Through(x[n], f)])
<1> DEFINE j == k + 1
           a == ops[j].column
           y == [n \in IndexNames |-> Through(x[n], f)]
           M == MapAt(ops, k)
<1>1. /\ k \in Nat /\ 1 .. j = (1 .. k) \cup {j} /\ j \in DOMAIN ops /\ DOMAIN ops = 1 .. Len(ops)
      /\ k \in 0 .. Len(ops)
  OBVIOUS
<1>2. M \in Naming
  BY <1>1, MapType
<1>3. OldColumns(ops[j]) = {a}
  BY DEF OldColumns
<1>4. ops[j].op \notin {"ADD_INDEX", "DROP_INDEX", "RENAME_INDEX"}
  BY DEF RenamesColumn
<1>5. \A p, n : NameAt(ops, j, p, n) <=> NameAt(ops, k, p, n)
  BY <1>1, <1>4 DEF NameAt, RenamedAt, StaysAt
<1>6. \A p \in IndexNames : Through(old[p], MapAt(ops, j)) = Through(Through(old[p], M), f)
  BY <1>2, ThroughTwice DEF Indexes
<1>7. Through(<<>>, f) = <<>>
  BY ThroughEmpty
<1>8. ASSUME NEW p \in IndexNames PROVE KeptAt(old, ops, j, p) => KeptAt(old, ops, k, p)
  BY <1>1, <1>6, <1>7 DEF KeptAt
<1>9. \A n \in IndexNames : y[n] = Through(x[n], f)
  OBVIOUS
<1> HIDE DEF a, y
<1>10. HasKept(old, ops, j, y)
  <2> SUFFICES ASSUME NEW p \in IndexNames, NEW n \in IndexNames,
                      KeptAt(old, ops, j, p), NameAt(ops, j, p, n)
               PROVE  y[n] = Through(old[p], MapAt(ops, j))
    BY DEF HasKept
  <2>1. x[n] = Through(old[p], M)
    BY <1>5, <1>8 DEF IndexesAt, HasKept
  <2> QED  BY <1>6, <1>9, <2>1
<1>11. HasAdded(ops, j, y)
  <2> SUFFICES ASSUME NEW i \in 1 .. j, ops[i].op = "ADD_INDEX" PROVE y[ops[i].index] = ops[i].columns
    BY DEF HasAdded
  <2>1. i \in 1 .. k
    BY <1>1, <1>4
  <2>2. i \in DOMAIN ops /\ i < j /\ ops[i] \in AlterOperation
    BY <1>1, <2>1
  <2> DEFINE cs == ops[i].columns
  <2>3. x[ops[i].index] = cs /\ cs \in Seq(Columns) /\ ops[i].index \in IndexNames
    BY <2>1, <2>2, OperationKinds DEF IndexesAt, HasAdded
  <2>4. NewColumns(ops[i]) = ToSet(cs)
    BY DEF NewColumns, RenamesColumn
  <2>5. a \notin ToSet(cs)
    BY <1>1, <1>3, <2>2, <2>4 DEF NoReuse
  <2>6. \A m \in DOMAIN cs : cs[m] \in Columns /\ cs[m] # a
    BY <2>3, <2>5 DEF ToSet
  <2>7. \A m \in DOMAIN cs : f[cs[m]] = cs[m]
    BY <2>6 DEF a
  <2> HIDE DEF cs
  <2>8. Through(cs, f) = cs
    BY <2>3, <2>7, ThroughSame
  <2> QED  BY <1>9, <2>3, <2>8 DEF cs
<1>12. HasOnly(old, ops, j, y)
  <2> SUFFICES ASSUME NEW n \in IndexNames, y[n] # <<>>
               PROVE  AddsAt(ops, j, n) \/ \E p \in IndexNames : KeptAt(old, ops, j, p) /\ NameAt(ops, j, p, n)
    BY DEF HasOnly
  <2>1. x[n] # <<>>
    BY <1>7, <1>9
  <2>2. AddsAt(ops, k, n) \/ \E p \in IndexNames : KeptAt(old, ops, k, p) /\ NameAt(ops, k, p, n)
    BY <2>1 DEF IndexesAt, HasOnly
  <2>3. AddsAt(ops, k, n) => AddsAt(ops, j, n)
    BY <1>1 DEF AddsAt
  <2>4. ASSUME NEW p \in IndexNames, KeptAt(old, ops, k, p), NameAt(ops, k, p, n)
        PROVE  KeptAt(old, ops, j, p) /\ NameAt(ops, j, p, n)
    <3>1. x[n] = Through(old[p], M)
      BY <2>4 DEF IndexesAt, HasKept
    <3>2. Through(old[p], MapAt(ops, j)) # <<>>
      BY <1>6, <1>9, <3>1
    <3> QED  BY <1>1, <1>4, <1>5, <2>4, <3>2 DEF KeptAt
  <2> QED  BY <2>2, <2>3, <2>4
<1> QED  BY <1>10, <1>11, <1>12 DEF IndexesAt, y, a

(* Any other operation.                                                     *)
LEMMA IndexesOther ==
  ASSUME NEW old \in Indexes, NEW ops \in Seq(AlterOperation),
         NEW k \in 0 .. Len(ops) - 1, ops[k + 1].op \notin {"ADD_INDEX", "DROP_INDEX", "RENAME_INDEX"},
         MapAt(ops, k + 1) = MapAt(ops, k), NEW x, IndexesAt(old, ops, k, x)
  PROVE  IndexesAt(old, ops, k + 1, x)
<1> DEFINE j == k + 1
<1>1. k \in Nat /\ 1 .. j = (1 .. k) \cup {j}
  OBVIOUS
<1>2. \A p, n : NameAt(ops, j, p, n) <=> NameAt(ops, k, p, n)
  BY <1>1 DEF NameAt, RenamedAt, StaysAt
<1>3. \A p : KeptAt(old, ops, j, p) <=> KeptAt(old, ops, k, p)
  BY <1>1 DEF KeptAt
<1>4. \A n : AddsAt(ops, j, n) <=> AddsAt(ops, k, n)
  BY <1>1 DEF AddsAt
<1>5. HasKept(old, ops, j, x)
  BY <1>2, <1>3 DEF HasKept, IndexesAt
<1>6. HasAdded(ops, j, x)
  BY <1>1 DEF HasAdded, IndexesAt
<1>7. HasOnly(old, ops, j, x)
  BY <1>2, <1>3, <1>4 DEF HasOnly, IndexesAt
<1> QED  BY <1>5, <1>6, <1>7 DEF IndexesAt

LEMMA AlteringIndexes ==
  ASSUME NEW o \in Object, NEW ops \in Seq(AlterOperation),
         NamesColumnsOnce(o.columns, ops), NoReuse(ops), NEW g, Altering(o, ops, g)
  PROVE  \A k \in 0 .. Len(ops) : IndexesAt(o.indexes, ops, k, g[k].indexes)
<1> DEFINE old == o.indexes
           N == Len(ops)
           P == {k \in 0 .. N : IndexesAt(old, ops, k, g[k].indexes)}
<1>1. N \in Nat /\ old \in Indexes /\ \A n \in 1 .. N : ops[n] \in AlterOperation
  BY ObjectFields DEF Indexes
<1>2. 0 \in P
  <2>1. g[0] = o
    BY DEF Altering
  <2> QED  BY <1>1, <2>1, IndexesFirst
<1>3. ASSUME NEW k \in 0 .. N - 1, k \in P PROVE k + 1 \in P
  <2> DEFINE j == k + 1
             op == ops[j]
             p == g[k]
             x == p.indexes
  <2>1. j \in 1 .. N /\ j - 1 = k /\ k \in 0 .. N /\ j \in 0 .. N
    BY <1>1
  <2>2. p \in Object /\ op \in AlterOperation /\ ApplyTo(p, op) # Absent /\ g[j] = ApplyTo(p, op)
    BY <1>1, <2>1 DEF Altering
  <2>3. x \in Indexes /\ IndexesAt(old, ops, k, x)
    BY <1>3, <2>2, ObjectFields DEF Indexes
  <2>4. /\ op.op = "DROP_COLUMN" => MapAt(ops, j) = After(MapAt(ops, k), Without1(op.column))
        /\ op.op \in RenamesColumn =>
             MapAt(ops, j) = After(MapAt(ops, k), Renaming(op.column, op.newName))
        /\ op.op \notin RenamesColumn \cup {"DROP_COLUMN"} => MapAt(ops, j) = MapAt(ops, k)
    BY MapStep
  <2> SUFFICES IndexesAt(old, ops, j, g[j].indexes)
    BY <2>1
  <2> HIDE DEF P, p, old
  <2>5. CASE op.op = "ADD_INDEX"
    <3>1. MapAt(ops, j) = MapAt(ops, k)
      BY <2>4, <2>5 DEF RenamesColumn
    <3>2. x[op.index] = <<>> /\ g[j].indexes = [x EXCEPT ![op.index] = op.columns]
      <4> HIDE DEF op
      <4>1. ~HasIndex(p, op.index) /\ ApplyTo(p, op).indexes = [p.indexes EXCEPT ![op.index] = op.columns]
        BY <2>2, <2>5, IndexFacts, Zenon
      <4> QED  BY <2>2, <4>1 DEF HasIndex
    <3> HIDE DEF x
    <3> QED  BY <1>1, <2>3, <2>5, <3>1, <3>2, IndexesAdd
  <2>6. CASE op.op = "DROP_INDEX"
    <3>1. MapAt(ops, j) = MapAt(ops, k)
      BY <2>4, <2>6 DEF RenamesColumn
    <3>2. x[op.index] # <<>> /\ g[j].indexes = [x EXCEPT ![op.index] = <<>>]
      <4> HIDE DEF op
      <4>1. HasIndex(p, op.index) /\ ApplyTo(p, op).indexes = [p.indexes EXCEPT ![op.index] = <<>>]
        BY <2>2, <2>6, IndexFacts, Zenon
      <4> QED  BY <2>2, <4>1 DEF HasIndex
    <3> HIDE DEF x
    <3>3. IndexesAt(old, ops, j, [x EXCEPT ![op.index] = <<>>])
      BY <1>1, <2>3, <2>6, <3>1, <3>2, IndexesDrop, Zenon
    <3> QED  BY <3>2, <3>3
  <2>7. CASE op.op = "RENAME_INDEX"
    <3>1. MapAt(ops, j) = MapAt(ops, k)
      BY <2>4, <2>7 DEF RenamesColumn
    <3>2. /\ x[op.index] # <<>> /\ x[op.newName] = <<>>
          /\ g[j].indexes = [x EXCEPT ![op.index] = <<>>, ![op.newName] = x[op.index]]
      <4> HIDE DEF op
      <4>1. /\ HasIndex(p, op.index) /\ ~HasIndex(p, op.newName)
            /\ ApplyTo(p, op).indexes = [p.indexes EXCEPT ![op.index] = <<>>, ![op.newName] = p.indexes[op.index]]
        BY <2>2, <2>7, IndexFacts, Zenon
      <4> QED  BY <2>2, <4>1 DEF HasIndex
    <3> HIDE DEF x
    <3> QED  BY <1>1, <2>3, <2>7, <3>1, <3>2, IndexesRename
  <2>8. CASE op.op = "DROP_COLUMN"
    <3> DEFINE f == Without1(op.column)
    <3>1. g[j].indexes = [n \in IndexNames |-> Through(x[n], f)]
      <4> HIDE DEF op
      <4> QED  BY <2>2, <2>8, DropColumnFacts
    <3>2. op.column \in Columns
      BY <2>2, <2>8, OperationKinds
    <3>3. f \in Naming /\ \A c \in Columns : c # op.column => f[c] = c
      BY <3>2, NamingTypes DEF Without1
    <3>4. MapAt(ops, j) = After(MapAt(ops, k), f)
      BY <2>4, <2>8
    <3> HIDE DEF x, f
    <3> QED  BY <1>1, <2>3, <2>8, <3>1, <3>3, <3>4, IndexesColumn
  <2>9. CASE op.op \in RenamesColumn
    <3> DEFINE f == Renaming(op.column, op.newName)
    <3>1. g[j].indexes = [n \in IndexNames |-> Through(x[n], f)]
      <4> HIDE DEF op
      <4> QED  BY <2>2, <2>9, RenameColumnFacts
    <3>2. op.column \in Columns /\ op.newName \in Columns
      BY <2>2, <2>9, OperationKinds
    <3>3. f \in Naming /\ \A c \in Columns : c # op.column => f[c] = c
      BY <3>2, NamingTypes DEF Renaming
    <3>4. MapAt(ops, j) = After(MapAt(ops, k), f)
      BY <2>4, <2>9
    <3> HIDE DEF x, f
    <3> QED  BY <1>1, <2>3, <2>9, <3>1, <3>3, <3>4, IndexesColumn
  <2>10. CASE op.op \in {"ADD_COLUMN", "MODIFY_COLUMN", "RENAME_TABLE", "TABLE_OPTIONS", "COLUMN_KEY"}
    <3>1. MapAt(ops, j) = MapAt(ops, k) /\ op.op \notin {"ADD_INDEX", "DROP_INDEX", "RENAME_INDEX"}
      BY <2>4, <2>10 DEF RenamesColumn
    <3>2. g[j].indexes = x
      <4>1. CASE op.op = "ADD_COLUMN"
        BY <2>2, <4>1, AddColumnFacts
      <4>2. CASE op.op \in {"MODIFY_COLUMN", "RENAME_TABLE", "TABLE_OPTIONS", "COLUMN_KEY"}
        BY <2>2, <4>2, OtherFacts
      <4> QED  BY <2>10, <4>1, <4>2
    <3> HIDE DEF x
    <3> QED  BY <1>1, <2>3, <3>1, <3>2, IndexesOther
  <2> HIDE DEF op, j, x
  <2> QED  BY <2>2, <2>5, <2>6, <2>7, <2>8, <2>9, <2>10, OperationKinds DEF RenamesColumn
<1> HIDE DEF P
<1>4. \A k \in 0 .. N : k \in P
  BY <1>1, <1>2, <1>3, Induction
<1> QED  BY <1>4 DEF P

(* After all operations these are the indexes that MySQL gives the table,   *)
(* if it makes none of a column definition.                                 *)
LEMMA IndexesLast ==
  ASSUME NEW old \in Indexes, NEW ops \in Seq(AlterOperation), NEW x \in Indexes,
         IndexesAt(old, ops, Len(ops), x), OpsOf(ops, {"COLUMN_KEY"}) = {}
  PROVE  x = AlteredIndexes(old, ops)
<1> DEFINE N == Len(ops)
           KN(n) == {p \in KeptIndexes(old, ops) : p[1] = n}
           AN(n) == {i \in OpsOf(ops, MakesIndex) : ops[i].index = n}
<1>1. DOMAIN ops = 1 .. N
  OBVIOUS
<1>2. MapAt(ops, N) = Becomes(ops)
  BY MapLast
<1>3. ASSUME NEW p \in IndexNames, NEW n \in IndexNames
      PROVE  <<n, p>> \in KeptIndexes(old, ops) <=> KeptAt(old, ops, N, p) /\ NameAt(ops, N, p, n)
  <2>1. KeptAt(old, ops, N, p) <=> /\ Surviving(old[p], ops) # <<>>
                                   /\ \A i \in OpsOf(ops, {"DROP_INDEX"}) : ops[i].index # p
    BY <1>1, <1>2 DEF KeptAt, Surviving, OpsOf
  <2>2. NameAt(ops, N, p, n) <=>
          IF \E i \in OpsOf(ops, {"RENAME_INDEX"}) : ops[i].index = p
          THEN \E i \in OpsOf(ops, {"RENAME_INDEX"}) : ops[i].index = p /\ ops[i].newName = n
          ELSE n = p
    BY <1>1 DEF NameAt, RenamedAt, StaysAt, OpsOf
  <2> QED  BY <2>1, <2>2 DEF KeptIndexes
<1>4. ASSUME NEW n \in IndexNames PROVE x[n] = AlteredIndexes(old, ops)[n]
  <2>1. AlteredIndexes(old, ops)[n] =
          IF KN(n) # {} THEN Surviving(old[(CHOOSE p \in KN(n) : TRUE)[2]], ops)
          ELSE IF AN(n) # {} THEN ops[CHOOSE i \in AN(n) : TRUE].columns ELSE <<>>
    BY DEF AlteredIndexes
  <2>2. CASE KN(n) # {}
    <3> DEFINE p == CHOOSE p \in KN(n) : TRUE
    <3>1. p \in KN(n)
      BY <2>2
    <3> HIDE DEF p
    <3>2. p = <<n, p[2]>> /\ p[2] \in IndexNames /\ p \in KeptIndexes(old, ops)
      BY <3>1 DEF KeptIndexes
    <3>3. KeptAt(old, ops, N, p[2]) /\ NameAt(ops, N, p[2], n)
      BY <1>3, <3>2
    <3>4. x[n] = Through(old[p[2]], MapAt(ops, N))
      BY <3>2, <3>3 DEF IndexesAt, HasKept
    <3> QED  BY <1>2, <2>1, <2>2, <3>4 DEF p, Surviving
  <2>3. CASE KN(n) = {} /\ AN(n) # {}
    <3> DEFINE i == CHOOSE i \in AN(n) : TRUE
    <3>1. i \in AN(n)
      BY <2>3
    <3> HIDE DEF i
    <3>2. i \in 1 .. N /\ ops[i].op = "ADD_INDEX" /\ ops[i].index = n
      BY <1>1, <3>1 DEF OpsOf, MakesIndex
    <3>3. x[n] = ops[i].columns
      BY <3>2 DEF IndexesAt, HasAdded
    <3> QED  BY <2>1, <2>3, <3>3 DEF i
  <2>4. CASE KN(n) = {} /\ AN(n) = {}
    <3>1. ~AddsAt(ops, N, n)
      BY <1>1, <2>4 DEF AddsAt, OpsOf, MakesIndex
    <3>2. ASSUME NEW p \in IndexNames, KeptAt(old, ops, N, p), NameAt(ops, N, p, n) PROVE FALSE
      <4>1. <<n, p>> \in KN(n)
        BY <1>3, <3>2
      <4> QED  BY <2>4, <4>1
    <3>3. x[n] = <<>>
      BY <3>1, <3>2 DEF IndexesAt, HasOnly
    <3> QED  BY <2>1, <2>4, <3>3
  <2> QED  BY <2>2, <2>3, <2>4
<1>5. DOMAIN x = IndexNames /\ DOMAIN AlteredIndexes(old, ops) = IndexNames
  BY DEF Indexes, AlteredIndexes
<1>6. x = [n \in IndexNames |-> x[n]]
  BY DEF Indexes
<1>7. AlteredIndexes(old, ops) = [n \in IndexNames |-> AlteredIndexes(old, ops)[n]]
  BY DEF AlteredIndexes
<1> QED  BY <1>4, <1>6, <1>7

----------------------------------------------------------------------------
SchemaOrNone == Schemas \cup {NoSchema}

LEMMA ResolveType ==
  ASSUME NEW r \in TableRef, NEW d \in SchemaOrNone
  PROVE  /\ defaultSchema(r, d) \in TableRef
         /\ d \in Schemas => defaultSchema(r, d) \in Ref
         /\ r[1] # NoSchema => r \in Ref /\ defaultSchema(r, d) = r
         /\ r[1] = NoSchema => defaultSchema(r, d) = <<d, r[2]>>
         /\ r[1] \in SchemaOrNone /\ r[2] \in Names
BY DEF TableRef, Ref, defaultSchema, SchemaOrNone

LEMMA ResolveName ==
  ASSUME NEW r \in TableRef, NEW d \in SchemaOrNone
  PROVE  defaultSchema(r, d)[2] = r[2]
BY DEF TableRef, Ref, defaultSchema, SchemaOrNone

(* The names the server gives the operations of an ALTER: all else is kept. *)
LEMMA ResolveOpsFacts ==
  ASSUME NEW ops \in Seq(AlterOperation), NEW d \in SchemaOrNone
  PROVE  LET rops == ResolveOps(ops, d)
         IN  /\ rops \in Seq(AlterOperation) /\ Len(rops) = Len(ops) /\ DOMAIN rops = DOMAIN ops
             /\ \A i \in DOMAIN ops :
                  /\ rops[i].op = ops[i].op
                  /\ ops[i].op # "RENAME_TABLE" => rops[i] = ops[i]
                  /\ ops[i].op = "RENAME_TABLE" => rops[i].newTable = defaultSchema(ops[i].newTable, d)
<1> DEFINE rops == ResolveOps(ops, d)
           N == Len(ops)
<1>1. DOMAIN ops = 1 .. N /\ N \in Nat /\ \A i \in 1 .. N : ops[i] \in AlterOperation
  OBVIOUS
<1>2. ASSUME NEW i \in 1 .. N
      PROVE  /\ rops[i] \in AlterOperation
             /\ rops[i].op = ops[i].op
             /\ ops[i].op # "RENAME_TABLE" => rops[i] = ops[i]
             /\ ops[i].op = "RENAME_TABLE" => rops[i].newTable = defaultSchema(ops[i].newTable, d)
  <2>1. CASE ops[i].op # "RENAME_TABLE"
    BY <1>1, <2>1 DEF ResolveOps
  <2>2. CASE ops[i].op = "RENAME_TABLE"
    <3> DEFINE op == ops[i]
               new == defaultSchema(op.newTable, d)
    <3>1. op \in [op : {"RENAME_TABLE"}, newTable : TableRef]
      <4>1. op \in AlterOperation
        BY <1>1
      <4> QED  BY <2>2, <4>1 DEF AlterOperation
    <3>2. new \in TableRef
      BY <3>1, ResolveType
    <3>3. rops[i] = [op EXCEPT !.newTable = new]
      BY <1>1, <2>2 DEF ResolveOps
    <3> HIDE DEF op, new, rops
    <3>4. rops[i] \in [op : {"RENAME_TABLE"}, newTable : TableRef] /\ rops[i].newTable = new
      BY <3>1, <3>2, <3>3
    <3> QED  BY <2>2, <3>4 DEF op, new, AlterOperation
  <2> QED  BY <2>1, <2>2
<1>3. rops = [i \in 1 .. N |-> rops[i]] /\ DOMAIN rops = 1 .. N
  BY <1>1 DEF ResolveOps
<1> HIDE DEF rops
<1>4. rops \in Seq(AlterOperation) /\ Len(rops) = N
  BY <1>1, <1>2, <1>3
<1> QED  BY <1>1, <1>2, <1>3, <1>4 DEF rops

LEMMA ResolveOpsNoReuse ==
  ASSUME NEW ops \in Seq(AlterOperation), NEW d \in SchemaOrNone, NoReuse(ops)
  PROVE  NoReuse(ResolveOps(ops, d))
<1> DEFINE rops == ResolveOps(ops, d)
<1>1. /\ DOMAIN rops = DOMAIN ops
      /\ \A i \in DOMAIN ops : rops[i].op = ops[i].op /\ (ops[i].op # "RENAME_TABLE" => rops[i] = ops[i])
  BY ResolveOpsFacts
<1> HIDE DEF rops
<1>2. ASSUME NEW i \in DOMAIN ops
      PROVE  /\ NewColumns(rops[i]) = NewColumns(ops[i]) /\ OldColumns(rops[i]) = OldColumns(ops[i])
             /\ NewIndex(rops[i]) = NewIndex(ops[i]) /\ OldIndex(rops[i]) = OldIndex(ops[i])
  <2>1. CASE ops[i].op # "RENAME_TABLE"
    BY <1>1, <2>1
  <2>2. CASE ops[i].op = "RENAME_TABLE"
    <3>1. rops[i].op = "RENAME_TABLE"
      BY <1>1, <2>2
    <3> QED  BY <2>2, <3>1 DEF NewColumns, OldColumns, NewIndex, OldIndex, RenamesColumn
  <2> QED  BY <2>1, <2>2
<1>3. NoReuse(rops)
  BY <1>1, <1>2 DEF NoReuse
<1> QED  BY <1>3 DEF rops

LEMMA ResolveOpsAltering ==
  ASSUME NEW ops \in Seq(AlterOperation), NEW d \in SchemaOrNone, NEW o, NEW g, Altering(o, ops, g)
  PROVE  Altering(o, ResolveOps(ops, d), g)
<1> DEFINE rops == ResolveOps(ops, d)
<1>1. /\ DOMAIN ops = 1 .. Len(ops) /\ Len(rops) = Len(ops)
      /\ \A i \in DOMAIN ops : rops[i].op = ops[i].op /\ (ops[i].op # "RENAME_TABLE" => rops[i] = ops[i])
  BY ResolveOpsFacts
<1> HIDE DEF rops
<1>2. ASSUME NEW i \in 1 .. Len(ops), NEW p PROVE ApplyTo(p, rops[i]) = ApplyTo(p, ops[i])
  <2>1. CASE ops[i].op # "RENAME_TABLE"
    BY <1>1, <2>1
  <2>2. CASE ops[i].op = "RENAME_TABLE"
    <3>1. rops[i].op = "RENAME_TABLE"
      BY <1>1, <2>2
    <3> QED  BY <2>2, <3>1 DEF ApplyTo
  <2> QED  BY <2>1, <2>2
<1>3. Altering(o, rops, g)
  BY <1>1, <1>2 DEF Altering
<1> QED  BY <1>3 DEF rops

LEMMA AlteringKind ==
  ASSUME NEW o, NEW ops \in Seq(AlterOperation), NEW g, Altering(o, ops, g)
  PROVE  \A k \in 0 .. Len(ops) : g[k].kind = o.kind
<1> DEFINE N == Len(ops)
           P == {k \in 0 .. N : g[k].kind = o.kind}
<1>1. N \in Nat /\ \A n \in 1 .. N : ops[n] \in AlterOperation
  OBVIOUS
<1>2. 0 \in P
  BY <1>1 DEF Altering
<1>3. ASSUME NEW k \in 0 .. N - 1, k \in P PROVE k + 1 \in P
  <2>1. k + 1 \in 1 .. N /\ (k + 1) - 1 = k /\ k \in 0 .. N /\ k + 1 \in 0 .. N
    BY <1>1
  <2>2. /\ g[k] \in Object /\ ops[k + 1] \in AlterOperation
        /\ ApplyTo(g[k], ops[k + 1]) # Absent /\ g[k + 1] = ApplyTo(g[k], ops[k + 1])
    BY <1>1, <2>1 DEF Altering
  <2>3. g[k + 1].kind = g[k].kind
    BY <2>2, ApplyToType
  <2> QED  BY <1>3, <2>1, <2>3
<1> HIDE DEF P
<1>4. \A k \in 0 .. N : k \in P
  BY <1>1, <1>2, <1>3, Induction
<1> QED  BY <1>4 DEF P

(* An ALTER that the view takes and MySQL accepts leaves both with the same *)
(* columns, and the same indexes unless a column definition makes one,      *)
(* although one works operation by operation and the other all  *)
(* at once.                                                                 *)
LEMMA AlterAgrees ==
  ASSUME NEW t \in Tables, NEW ops \in Seq(AlterOperation), NEW d \in SchemaOrNone,
         applyTableDDL(t, ops) # Absent, NoReuse(ops), IsInjective(t.object.columns),
         AltersColumns(t.object.columns, ResolveOps(ops, d))
  PROVE  LET u == applyTableDDL(t, ops).object
         IN  /\ u.kind = t.object.kind
             /\ u.columns = AlteredColumns(t.object.columns, ResolveOps(ops, d))
             /\ OpsOf(ops, {"COLUMN_KEY"}) = {} =>
                  u.indexes = AlteredIndexes(t.object.indexes, ResolveOps(ops, d))
<1> DEFINE o == t.object
           rops == ResolveOps(ops, d)
           N == Len(ops)
           u == applyTableDDL(t, ops).object
<1>1. o \in Object
  BY DEF Tables
<1>2. rops \in Seq(AlterOperation) /\ Len(rops) = N /\ N \in Nat
  BY ResolveOpsFacts
<1>3. NoReuse(rops)
  BY ResolveOpsNoReuse
<1>4. PICK g : Altering(o, ops, g) /\ u = g[N]
  BY AlteringExists
<1>5. Altering(o, rops, g)
  BY <1>4, ResolveOpsAltering
<1>6. NamesColumnsOnce(o.columns, rops)
  BY DEF AltersColumns, NamesColumnsOnce
<1> HIDE DEF rops, o, u
<1>7. PICK add : Adding(rops, add)
  BY <1>2, AddingExists
<1>8. u.columns = ColumnsAt(o.columns, rops, add, N)
  <2>1. \A k \in 0 .. N : g[k].columns = ColumnsAt(o.columns, rops, add, k)
    BY <1>1, <1>2, <1>3, <1>5, <1>6, <1>7, AlteringColumns DEF o
  <2> QED  BY <1>2, <1>4, <2>1
<1>9. ColumnsAt(o.columns, rops, add, N) = AlteredColumns(o.columns, rops)
  <2>1. MapAt(rops, N) = Becomes(rops)
    BY <1>2, MapLast
  <2>2. add[N] = AddedColumns(rops)
    BY <1>2, <1>7 DEF Adding
  <2> QED  BY <2>1, <2>2 DEF ColumnsAt, AlteredColumns, Surviving
<1>10. IndexesAt(o.indexes, rops, N, u.indexes)
  <2>1. \A k \in 0 .. N : IndexesAt(o.indexes, rops, k, g[k].indexes)
    BY <1>1, <1>2, <1>3, <1>5, <1>6, AlteringIndexes
  <2> QED  BY <1>2, <1>4, <2>1
<1>11. o.indexes \in Indexes /\ u.indexes \in Indexes
  <2>1. u \in Object
    BY <1>2, <1>4 DEF Altering
  <2> QED  BY <1>1, <2>1, ObjectFields DEF Indexes
<1>12. ASSUME OpsOf(ops, {"COLUMN_KEY"}) = {} PROVE u.indexes = AlteredIndexes(o.indexes, rops)
  <2>1. OpsOf(rops, {"COLUMN_KEY"}) = {}
    <3>1. DOMAIN rops = DOMAIN ops /\ \A i \in DOMAIN ops : rops[i].op = ops[i].op
      BY ResolveOpsFacts DEF rops
    <3> QED  BY <1>12, <3>1 DEF OpsOf
  <2> QED  BY <1>2, <1>10, <1>11, <2>1, IndexesLast
<1>13. u.kind = o.kind
  BY <1>2, <1>4, AlteringKind
<1> QED  BY <1>8, <1>9, <1>12, <1>13 DEF u, o, rops

(* The name a table has after an ALTER, if none or all of the names in it   *)
(* have a schema: the last one given.                                       *)
Unmixed(r, ops, d) ==
  \/ \A i \in DOMAIN ops : ops[i].op = "RENAME_TABLE" => ops[i].newTable[1] # NoSchema
  \/ r[1] = d /\ \A i \in DOMAIN ops : ops[i].op = "RENAME_TABLE" => ops[i].newTable[1] = NoSchema

LEMMA RenamesLast ==
  ASSUME NEW r \in Ref, NEW ops \in Seq(AlterOperation), NEW d \in SchemaOrNone,
         NEW q, Renames(r, ops, q), Unmixed(r, ops, d)
  PROVE  q[Len(ops)] = NewTable(r, ResolveOps(ops, d))
<1> DEFINE N == Len(ops)
           rops == ResolveOps(ops, d)
           R == OpsOf(rops, {"RENAME_TABLE"})
           Same(k) == q[k][1] = d \/ \A i \in DOMAIN ops : ops[i].op = "RENAME_TABLE" => ops[i].newTable[1] # NoSchema
           None(k) == q[k] = r /\ \A i \in R : ~(i <= k)
           Latest(k, m) == m \in R /\ m <= k /\ q[k] = rops[m].newTable /\ \A i \in R : i <= k => i <= m
           P == {k \in 0 .. N : Same(k) /\ (None(k) \/ \E m \in R : Latest(k, m))}
<1>1. N \in Nat /\ DOMAIN ops = 1 .. N /\ \A i \in 1 .. N : ops[i] \in AlterOperation
  OBVIOUS
<1>2. /\ DOMAIN rops = 1 .. N
      /\ \A i \in 1 .. N : rops[i].op = ops[i].op
      /\ \A i \in 1 .. N : ops[i].op = "RENAME_TABLE" => rops[i].newTable = defaultSchema(ops[i].newTable, d)
  BY <1>1, ResolveOpsFacts
<1>3. R = {i \in 1 .. N : ops[i].op = "RENAME_TABLE"}
  BY <1>2 DEF OpsOf
<1> HIDE DEF rops, R, N
<1>4. q[0] = r /\ \A n \in 0 .. N : q[n] \in Ref
  BY DEF Renames, N
<1>5. 0 \in P
  <2>1. Same(0)
    BY <1>4 DEF Unmixed
  <2>2. None(0)
    BY <1>1, <1>3, <1>4
  <2> HIDE DEF Same, None
  <2> QED  BY <1>1, <2>1, <2>2
<1>6. ASSUME NEW k \in 0 .. N - 1, k \in P PROVE k + 1 \in P
  <2> DEFINE j == k + 1
  <2>1. j \in 1 .. N /\ j - 1 = k /\ k \in 0 .. N /\ j \in 0 .. N
    BY <1>1
  <2>2. q[j] = IF ops[j].op = "RENAME_TABLE" THEN defaultSchema(ops[j].newTable, q[k][1]) ELSE q[k]
    BY <2>1 DEF Renames, N
  <2>3. CASE ops[j].op # "RENAME_TABLE"
    <3>1. q[j] = q[k] /\ j \notin R
      BY <1>3, <2>2, <2>3
    <3>2. \A i \in R : i <= j <=> i <= k
      BY <1>3, <2>1, <3>1
    <3>3. Same(j)
      BY <1>6, <3>1
    <3>4. None(k) => None(j)
      BY <3>1, <3>2
    <3>5. \A m \in R : Latest(k, m) => Latest(j, m)
      BY <3>1, <3>2
    <3> HIDE DEF Same, None, Latest, j
    <3> QED  BY <1>6, <2>1, <3>3, <3>4, <3>5 DEF j
  <2>4. CASE ops[j].op = "RENAME_TABLE"
    <3>1. ops[j].newTable \in TableRef /\ q[k][1] \in SchemaOrNone /\ q[k] \in Ref
      <4>1. ops[j] \in AlterOperation /\ q[k] \in Ref
        BY <1>1, <1>4, <2>1
      <4> QED  BY <2>4, <4>1, OperationKinds DEF Ref, SchemaOrNone
    <3>2. j \in R /\ rops[j].newTable = defaultSchema(ops[j].newTable, d)
      BY <1>2, <1>3, <2>1, <2>4
    <3>3. q[j] = defaultSchema(ops[j].newTable, q[k][1])
      BY <2>2, <2>4
    <3>4. q[k][1] = d \/ ops[j].newTable[1] # NoSchema
      BY <1>1, <1>6, <2>1, <2>4
    <3>5. q[j] = rops[j].newTable
      BY <3>1, <3>2, <3>3, <3>4, ResolveType
    <3>6. Latest(j, j)
      BY <1>3, <2>1, <3>2, <3>5
    <3>7. Same(j)
      <4>1. CASE \A i \in DOMAIN ops : ops[i].op = "RENAME_TABLE" => ops[i].newTable[1] # NoSchema
        BY <4>1
      <4>2. CASE ~(\A i \in DOMAIN ops : ops[i].op = "RENAME_TABLE" => ops[i].newTable[1] # NoSchema)
        <5>1. ops[j].newTable[1] = NoSchema /\ q[k][1] = d
          BY <1>1, <1>6, <2>1, <2>4, <4>2 DEF Unmixed
        <5>2. q[j] = <<d, ops[j].newTable[2]>>
          BY <3>1, <3>3, <5>1, ResolveType
        <5> QED  BY <5>2
      <4> QED  BY <4>1, <4>2
    <3> HIDE DEF Same, None, Latest
    <3> QED  BY <2>1, <3>2, <3>6, <3>7
  <2> QED  BY <2>3, <2>4
<1>7. N \in P
  <2> HIDE DEF P
  <2>1. \A k \in 0 .. N : k \in P
    BY <1>1, <1>5, <1>6, Induction
  <2> QED  BY <1>1, <2>1
<1>8. R \subseteq 1 .. N
  BY <1>3
<1>9. CASE None(N)
  <2>1. R = {}
    BY <1>1, <1>8, <1>9
  <2> QED  BY <1>9, <2>1 DEF NewTable, rops, R, N
<1>10. CASE \E m \in R : Latest(N, m)
  <2>1. PICK m \in R : Latest(N, m)
    BY <1>10
  <2> DEFINE IsLast(x) == x \in R /\ \A i \in R : i <= x
             c == CHOOSE x \in R : \A i \in R : i <= x
  <2>2. IsLast(m)
    BY <1>1, <1>8, <2>1
  <2>3. IsLast(c)
    BY <2>2
  <2> HIDE DEF c
  <2>4. c = m
    <3>1. c <= m /\ m <= c /\ c \in Nat /\ m \in Nat
      BY <1>1, <1>8, <2>2, <2>3
    <3> QED  BY <3>1
  <2>5. NewTable(r, rops) = rops[c].newTable
    BY <2>2 DEF NewTable, R, c
  <2> QED  BY <2>1, <2>4, <2>5 DEF rops, N
<1> QED  BY <1>7, <1>9, <1>10

(* In any case its schema and its name are among those named.               *)
LEMMA RenamesWithin ==
  ASSUME NEW r \in Ref, NEW ops \in Seq(AlterOperation), NEW q, Renames(r, ops, q), NEW A,
         r \in A, \A i \in DOMAIN ops : ops[i].op = "RENAME_TABLE" => defaultSchema(ops[i].newTable, r[1]) \in A
  PROVE  q[Len(ops)] \in {<<x[1], y[2]>> : x, y \in A}
<1> DEFINE N == Len(ops)
           P == {k \in 0 .. N : (\E x \in A : q[k][1] = x[1]) /\ (\E y \in A : q[k][2] = y[2])}
<1>1. N \in Nat /\ DOMAIN ops = 1 .. N /\ \A i \in 1 .. N : ops[i] \in AlterOperation
  OBVIOUS
<1> HIDE DEF N
<1>2. q[0] = r /\ \A n \in 0 .. N : q[n] \in Ref
  BY DEF Renames, N
<1>3. 0 \in P
  BY <1>1, <1>2
<1>4. ASSUME NEW k \in 0 .. N - 1, k \in P PROVE k + 1 \in P
  <2> DEFINE j == k + 1
  <2>1. j \in 1 .. N /\ j - 1 = k /\ k \in 0 .. N /\ j \in 0 .. N
    BY <1>1
  <2>2. q[j] = IF ops[j].op = "RENAME_TABLE" THEN defaultSchema(ops[j].newTable, q[k][1]) ELSE q[k]
    BY <2>1 DEF Renames, N
  <2> HIDE DEF j
  <2>3. CASE ops[j].op # "RENAME_TABLE"
    BY <1>4, <2>1, <2>2, <2>3 DEF j
  <2>4. CASE ops[j].op = "RENAME_TABLE"
    <3> DEFINE n == ops[j].newTable
               z == defaultSchema(n, r[1])
    <3>1. n \in TableRef /\ q[k][1] \in SchemaOrNone /\ r[1] \in SchemaOrNone
      <4>1. ops[j] \in AlterOperation /\ q[k] \in Ref
        BY <1>1, <1>2, <2>1
      <4> QED  BY <2>4, <4>1, OperationKinds DEF Ref, SchemaOrNone
    <3>2. z \in A /\ q[j] = defaultSchema(n, q[k][1])
      BY <1>1, <2>1, <2>2, <2>4
    <3> HIDE DEF n, z
    <3>3. q[j][2] = z[2]
      <4>1. \A d \in SchemaOrNone : defaultSchema(n, d)[2] = n[2]
        BY <3>1, ResolveName
      <4> QED  BY <3>1, <3>2, <4>1 DEF z
    <3>4. q[j][1] = q[k][1] \/ q[j][1] = z[1]
      <4>1. CASE n[1] = NoSchema
        BY <3>2, <4>1 DEF defaultSchema
      <4>2. CASE n[1] # NoSchema
        BY <3>2, <4>2 DEF defaultSchema, z
      <4> QED  BY <4>1, <4>2
    <3>5. j \in P
      BY <1>4, <2>1, <3>2, <3>3, <3>4
    <3> QED  BY <3>5 DEF j
  <2> QED  BY <2>3, <2>4
<1>5. N \in P
  <2> HIDE DEF P
  <2>1. \A k \in 0 .. N : k \in P
    BY <1>1, <1>3, <1>4, Induction
  <2> QED  BY <1>1, <2>1
<1>6. q[N] \in Ref /\ q[N] = <<q[N][1], q[N][2]>>
  BY <1>1, <1>2 DEF Ref
<1>7. PICK x \in A, y \in A : q[N][1] = x[1] /\ q[N][2] = y[2]
  BY <1>5
<1>8. q[N] = <<x[1], y[2]>>
  BY <1>6, <1>7
<1> QED  BY <1>8 DEF N

----------------------------------------------------------------------------
(* Catalogs.                                                                *)
LEMMA CatalogFields ==
  ASSUME NEW cat \in Catalogs
  PROVE  /\ cat.schemas \subseteq Schemas
         /\ cat.objects \in [Ref -> Object \cup {Absent}]
         /\ \A r \in Ref : cat.objects[r] \in Object \cup {Absent}
         /\ \A r \in Ref : Exists(cat, r) => cat.objects[r] \in Object
BY DEF Catalogs, Exists

LEMMA WithFacts ==
  ASSUME NEW cat \in Catalogs, NEW r \in Ref, NEW o \in Object \cup {Absent}
  PROVE  /\ With(cat, r, o) \in Catalogs
         /\ With(cat, r, o).schemas = cat.schemas
         /\ \A p \in Ref : With(cat, r, o).objects[p] = IF p = r THEN o ELSE cat.objects[p]
BY CatalogFields DEF With, Catalogs

LEMMA WithoutFacts ==
  ASSUME NEW cat \in Catalogs, NEW rs
  PROVE  /\ Without(cat, rs) \in Catalogs
         /\ Without(cat, rs).schemas = cat.schemas
         /\ \A p \in Ref : Without(cat, rs).objects[p] = IF p \in rs THEN Absent ELSE cat.objects[p]
BY CatalogFields DEF Without, Catalogs

(* b is a with the table r under the name s.                               *)
IsMoved(b, a, r, s) ==
  /\ b \in Catalogs
  /\ b.schemas = a.schemas
  /\ \A p \in Ref : b.objects[p] = IF p = s THEN a.objects[r] ELSE IF p = r THEN Absent ELSE a.objects[p]

LEMMA MovedFacts ==
  ASSUME NEW cat \in Catalogs, NEW r \in Ref, NEW s \in Ref
  PROVE  IsMoved(Moved(cat, r, s), cat, r, s)
<1> DEFINE c == Without(cat, {r})
<1>1. /\ c \in Catalogs /\ c.schemas = cat.schemas
      /\ \A p \in Ref : c.objects[p] = IF p = r THEN Absent ELSE cat.objects[p]
  BY WithoutFacts
<1>2. cat.objects[r] \in Object \cup {Absent}
  BY CatalogFields
<1> HIDE DEF c
<1>3. /\ With(c, s, cat.objects[r]) \in Catalogs
      /\ With(c, s, cat.objects[r]).schemas = c.schemas
      /\ \A p \in Ref : With(c, s, cat.objects[r]).objects[p] = IF p = s THEN cat.objects[r] ELSE c.objects[p]
  BY <1>1, <1>2, WithFacts
<1> QED  BY <1>1, <1>3 DEF Moved, IsMoved, c

(* Two catalogs that differ in the tables D at most: in all that is known   *)
(* of a table, or in what a statement is audited against, the indexes of    *)
(* the tables U apart.                                                      *)
ShapeOf(o, r, U) ==
  IF o = Absent THEN <<"none", <<>>, NoIndexes>>
  ELSE IF o.kind = "table" THEN <<"table", o.columns, IF r \in U THEN NoIndexes ELSE o.indexes>>
  ELSE <<"view", <<>>, NoIndexes>>
Agree(v, w, D, U) ==
  /\ v.schemas = w.schemas
  /\ \A r \in Ref \ D : ShapeOf(v.objects[r], r, U) = ShapeOf(w.objects[r], r, U)
Only(v, w, D)  == v.schemas = w.schemas /\ \A r \in Ref \ D : v.objects[r] = w.objects[r]

LEMMA ShapeAt ==
  ASSUME NEW cat \in Catalogs
  PROVE  Shape(cat).schemas = cat.schemas /\ \A r \in Ref : Shape(cat).objects[r] = ShapeOf(cat.objects[r], r, hidden)
<1>1. Shape(cat).schemas = cat.schemas
  BY DEF Shape
<1>2. ASSUME NEW r \in Ref PROVE Shape(cat).objects[r] = ShapeOf(cat.objects[r], r, hidden)
  <2>1. Exists(cat, r) => cat.objects[r].kind \in {"table", "view"}
    BY CatalogFields, ObjectFields
  <2>2. Shape(cat).objects[r] = CASE IsTable(cat, r) -> <<"table", cat.objects[r].columns,
                                                            IF r \in hidden THEN NoIndexes ELSE cat.objects[r].indexes>>
                                  [] IsView(cat, r) -> <<"view", <<>>, NoIndexes>>
                                  [] OTHER -> <<"none", <<>>, NoIndexes>>
    BY DEF Shape
  <2>3. CASE IsTable(cat, r)
    BY <2>2, <2>3 DEF IsTable, IsView, Exists, ShapeOf
  <2>4. CASE IsView(cat, r)
    BY <2>2, <2>4 DEF IsTable, IsView, Exists, ShapeOf
  <2>5. CASE ~IsTable(cat, r) /\ ~IsView(cat, r)
    BY <2>1, <2>2, <2>5 DEF IsTable, IsView, Exists, ShapeOf
  <2> QED  BY <2>3, <2>4, <2>5
<1> QED  BY <1>1, <1>2

LEMMA ShapeSame ==
  ASSUME NEW o \in Object \cup {Absent}, NEW p \in Object \cup {Absent}, NEW r, NEW U,
         ShapeOf(o, r, U) = ShapeOf(p, r, U)
  PROVE  /\ o = Absent <=> p = Absent
         /\ o # Absent => o.kind = p.kind
         /\ o # Absent /\ o.kind = "table" => o.columns = p.columns /\ (r \notin U => o.indexes = p.indexes)
<1>1. /\ o # Absent => o.kind \in {"table", "view"}
      /\ p # Absent => p.kind \in {"table", "view"}
  BY ObjectFields
<1>2. ShapeOf(o, r, U)[1] = ShapeOf(p, r, U)[1] /\ ShapeOf(o, r, U)[2] = ShapeOf(p, r, U)[2] /\ ShapeOf(o, r, U)[3] = ShapeOf(p, r, U)[3]
  OBVIOUS
<1>3. o = Absent <=> p = Absent
  BY <1>1, <1>2 DEF ShapeOf
<1>4. o # Absent => o.kind = p.kind
  BY <1>1, <1>2, <1>3 DEF ShapeOf
<1>5. ASSUME o # Absent, o.kind = "table" PROVE o.columns = p.columns /\ (r \notin U => o.indexes = p.indexes)
  BY <1>2, <1>3, <1>4, <1>5 DEF ShapeOf
<1> QED  BY <1>3, <1>4, <1>5

(* What agreeing catalogs have in common at a table.                        *)
LEMMA AgreeFacts ==
  ASSUME NEW v \in Catalogs, NEW w \in Catalogs, NEW D, NEW U, Agree(v, w, D, U), NEW r \in Ref \ D
  PROVE  /\ Exists(v, r) <=> Exists(w, r)
         /\ IsTable(v, r) <=> IsTable(w, r)
         /\ IsView(v, r) <=> IsView(w, r)
         /\ Exists(v, r) => v.objects[r].kind = w.objects[r].kind
         /\ IsTable(w, r) => /\ v.objects[r].columns = w.objects[r].columns
                             /\ r \notin U => v.objects[r].indexes = w.objects[r].indexes
<1> DEFINE o == v.objects[r]
           p == w.objects[r]
<1>1. o \in Object \cup {Absent} /\ p \in Object \cup {Absent} /\ ShapeOf(o, r, U) = ShapeOf(p, r, U)
  BY CatalogFields DEF Agree
<1> HIDE DEF o, p
<1>2. /\ o = Absent <=> p = Absent
      /\ o # Absent => o.kind = p.kind
      /\ o # Absent /\ o.kind = "table" => o.columns = p.columns /\ (r \notin U => o.indexes = p.indexes)
  BY <1>1, ShapeSame
<1> QED  BY <1>2 DEF o, p, Exists, IsTable, IsView

(* Leaving out more indexes.                                                *)
LEMMA ShapeBare ==
  ASSUME NEW o, NEW p, NEW q, NEW U, NEW r, NEW V, q \in U => r \in V, ShapeOf(o, q, U) = ShapeOf(p, q, U)
  PROVE  ShapeOf(o, r, V) = ShapeOf(p, r, V)
<1>1. CASE q \in U <=> r \in V
  BY <1>1 DEF ShapeOf
<1>2. CASE q \notin U /\ r \in V
  <2>1. ShapeOf(o, q, U)[1] = ShapeOf(p, q, U)[1] /\ ShapeOf(o, q, U)[2] = ShapeOf(p, q, U)[2]
    OBVIOUS
  <2> QED  BY <1>2, <2>1 DEF ShapeOf
<1> QED  BY <1>1, <1>2

(* Steps that only touch tables in D keep the rest in agreement.            *)
LEMMA OnlyAgree ==
  ASSUME NEW v, NEW w, NEW v2, NEW w2, NEW D, NEW E, NEW U, Agree(v, w, D, U), D \subseteq E,
         Only(v, v2, E), Only(w, w2, E)
  PROVE  Agree(v2, w2, E, U)
BY DEF Agree, Only

----------------------------------------------------------------------------
(* RENAME TABLE, pair by pair: on the server,                               *)
Pairs == [from : Ref, to : Ref]

Moving(cat, pairs, f) ==
  /\ f \in [0 .. Len(pairs) -> Catalogs]
  /\ f[0] = cat
  /\ \A n \in 1 .. Len(pairs) :
       Exists(f[n - 1], pairs[n].from) /\ f[n] = Moved(f[n - 1], pairs[n].from, pairs[n].to)

LEMMA RenamedExists ==
  ASSUME NEW cat \in Catalogs, NEW pairs \in Seq(Pairs), Renamed(cat, pairs) # Absent
  PROVE  \E f : Moving(cat, pairs, f) /\ Renamed(cat, pairs) = f[Len(pairs)]
<1> DEFINE N == Len(pairs)
           S == Catalogs \cup {Absent}
           G == [n \in 1 .. N |-> [c \in S |-> RenameStep(c, pairs[n])]]
           Is(f) == f = [n \in 0 .. N |-> IF n = 0 THEN cat ELSE RenameStep(f[n - 1], pairs[n])]
           h == CHOOSE f : Is(f)
<1>1. N \in Nat /\ \A n \in 1 .. N : pairs[n].from \in Ref /\ pairs[n].to \in Ref
  <2>1. N \in Nat /\ \A n \in 1 .. N : pairs[n] \in Pairs
    OBVIOUS
  <2> QED  BY <2>1 DEF Pairs
<1> HIDE DEF N
<1>2. ASSUME NEW n \in 1 .. N, NEW c \in S PROVE RenameStep(c, pairs[n]) \in S
  <2>1. c # Absent => Moved(c, pairs[n].from, pairs[n].to) \in Catalogs
    BY <1>1, MovedFacts DEF IsMoved
  <2> QED  BY <2>1 DEF RenameStep
<1>3. cat \in S
  OBVIOUS
<1> HIDE DEF S
<1>4. G \in StepFunctions(N, S)
  BY <1>2 DEF StepFunctions
<1>5. PICK f : Follows(N, S, cat, G, f)
  BY <1>1, <1>3, <1>4, Recursion
<1>6. ASSUME NEW n \in 1 .. N PROVE f[n] = RenameStep(f[n - 1], pairs[n])
  <2>1. f[n - 1] \in S /\ f[n] = G[n][f[n - 1]]
    <3> HIDE DEF G
    <3> QED  BY <1>1, <1>5 DEF Follows
  <2> QED  BY <2>1
<1>7. f \in [0 .. N -> S] /\ f[0] = cat
  BY <1>5 DEF Follows
<1>8. Is(f)
  BY <1>1, <1>6, <1>7
<1>9. Is(h)
  BY <1>8
<1>10. Renamed(cat, pairs) = h[N]
  BY DEF Renamed, N
<1> HIDE DEF h
<1>11. h[0] = cat /\ \A n \in 1 .. N : h[n] = RenameStep(h[n - 1], pairs[n])
  BY <1>1, <1>9
<1>12. \A n \in 1 .. N : h[n - 1] \in S => h[n] = G[n][h[n - 1]]
  BY <1>11
<1>13. \A n \in 0 .. N : h[n] = f[n]
  <2> HIDE DEF G
  <2> QED  BY <1>1, <1>5, <1>11, <1>12, RecursionUnique
<1>14. Renamed(cat, pairs) = f[N] /\ f[N] # Absent
  BY <1>1, <1>10, <1>13
<1> HIDE DEF G
<1>15. ASSUME NEW m \in 0 .. N PROVE f[m] # Absent
  <2> SUFFICES ASSUME f[m] = Absent PROVE FALSE
    OBVIOUS
  <2> DEFINE P == {n \in Nat : m <= n => f[n] = Absent}
  <2>1. 0 \in P
    BY <1>1
  <2>2. ASSUME NEW n \in 0 .. N - 1, n \in P PROVE n + 1 \in P
    <3>1. n + 1 \in 1 .. N /\ (n + 1) - 1 = n
      BY <1>1
    <3>2. CASE m <= n
      <4>1. f[n + 1] = RenameStep(f[n], pairs[n + 1]) /\ f[n] = Absent
        BY <1>6, <2>2, <3>1, <3>2
      <4> QED  BY <3>1, <4>1 DEF RenameStep
    <3>3. CASE ~(m <= n)
      BY <1>1, <3>1, <3>3
    <3> QED  BY <3>2, <3>3
  <2>3. N \in P
    <3> HIDE DEF P
    <3>1. \A n \in 0 .. N : n \in P
      BY <1>1, <2>1, <2>2, Induction
    <3> QED  BY <1>1, <3>1
  <2> QED  BY <1>1, <1>14, <2>3
<1>16. f \in [0 .. N -> Catalogs]
  BY <1>7, <1>15 DEF S
<1>17. ASSUME NEW n \in 1 .. N
       PROVE  Exists(f[n - 1], pairs[n].from) /\ f[n] = Moved(f[n - 1], pairs[n].from, pairs[n].to)
  <2>1. f[n] = RenameStep(f[n - 1], pairs[n]) /\ f[n] # Absent
    BY <1>1, <1>6, <1>15
  <2> QED  BY <2>1 DEF RenameStep
<1>18. Moving(cat, pairs, f)
  BY <1>7, <1>16, <1>17 DEF Moving, N
<1> QED  BY <1>14, <1>18 DEF N

(* and in the view.                                                         *)
Overlays == [view : Catalogs, ok : BOOLEAN]

LEMMA OverlayFields ==
  ASSUME NEW acc \in Overlays, NEW c \in Catalogs
  PROVE  /\ [acc EXCEPT !.view = c] \in Overlays /\ [acc EXCEPT !.ok = FALSE] \in Overlays
         /\ [acc EXCEPT !.view = c].view = c
         /\ [acc EXCEPT !.ok = FALSE].view = acc.view
         /\ acc.ok => [acc EXCEPT !.view = c].ok
         /\ ~[acc EXCEPT !.ok = FALSE].ok
BY DEF Overlays

LEMMA renameLoadedFacts ==
  ASSUME NEW acc \in Overlays, NEW pair \in Pairs
  PROVE  /\ renameLoaded(acc, pair) \in Overlays
         /\ acc.ok /\ Exists(acc.view, pair.from) =>
              /\ renameLoaded(acc, pair).ok
              /\ renameLoaded(acc, pair).view = Moved(acc.view, pair.from, pair.to)
         /\ ~(acc.ok /\ Exists(acc.view, pair.from)) =>
              /\ ~renameLoaded(acc, pair).ok
              /\ renameLoaded(acc, pair).view = acc.view
<1>1. acc.view \in Catalogs /\ pair.from \in Ref /\ pair.to \in Ref
  BY DEF Overlays, Pairs
<1> DEFINE c == Moved(acc.view, pair.from, pair.to)
<1>2. c \in Catalogs
  BY <1>1, MovedFacts DEF IsMoved
<1>3. CASE acc.ok /\ Exists(acc.view, pair.from)
  <2>1. renameLoaded(acc, pair) = [acc EXCEPT !.view = c]
    BY <1>3 DEF renameLoaded
  <2> HIDE DEF c
  <2>2. /\ renameLoaded(acc, pair) \in Overlays
        /\ renameLoaded(acc, pair).ok /\ renameLoaded(acc, pair).view = c
    <3> DEFINE a == [acc EXCEPT !.view = c]
    <3>1. a \in Overlays /\ a.view = c /\ (acc.ok => a.ok)
      BY <1>2, OverlayFields
    <3>2. acc.ok
      BY <1>3, Zenon
    <3>3. renameLoaded(acc, pair) = a
      BY <2>1
    <3> HIDE DEF a
    <3> QED  BY <3>1, <3>2, <3>3, Zenon
  <2> QED  BY <1>3, <2>2, Zenon DEF c
<1>4. CASE ~(acc.ok /\ Exists(acc.view, pair.from))
  <2>1. renameLoaded(acc, pair) = [acc EXCEPT !.ok = FALSE]
    BY <1>4 DEF renameLoaded
  <2> HIDE DEF c
  <2>2. /\ renameLoaded(acc, pair) \in Overlays
        /\ ~renameLoaded(acc, pair).ok /\ renameLoaded(acc, pair).view = acc.view
    BY <1>2, <2>1, OverlayFields, Zenon
  <2> QED  BY <1>4, <2>2, Zenon
<1> QED  BY <1>3, <1>4, Zenon

LEMMA renamePairsDef ==
  ASSUME NEW v \in Catalogs, NEW pairs \in Seq(Pairs)
  PROVE  \E f \in [0 .. Len(pairs) -> Overlays] :
           /\ f[0] = Applied(v)
           /\ \A n \in 1 .. Len(pairs) : f[n] = renameLoaded(f[n - 1], pairs[n])
           /\ renamePairs(v, pairs) = f[Len(pairs)]
<1> DEFINE N == Len(pairs)
           S == Overlays
           G == [n \in 1 .. N |-> [c \in S |-> renameLoaded(c, pairs[n])]]
           Is(f) == f = [n \in 0 .. N |-> IF n = 0 THEN Applied(v) ELSE renameLoaded(f[n - 1], pairs[n])]
           h == CHOOSE f : Is(f)
<1>1. N \in Nat /\ \A n \in 1 .. N : pairs[n] \in Pairs
  OBVIOUS
<1> HIDE DEF N
<1>2. ASSUME NEW n \in 1 .. N, NEW c \in S PROVE renameLoaded(c, pairs[n]) \in S
  BY <1>1, renameLoadedFacts
<1>3. Applied(v) \in S
  BY DEF Applied, Overlays
<1> HIDE DEF S
<1>4. G \in StepFunctions(N, S)
  BY <1>2 DEF StepFunctions
<1>5. PICK f : Follows(N, S, Applied(v), G, f)
  BY <1>1, <1>3, <1>4, Recursion
<1>6. ASSUME NEW n \in 1 .. N PROVE f[n] = renameLoaded(f[n - 1], pairs[n])
  <2>1. f[n - 1] \in S /\ f[n] = G[n][f[n - 1]]
    <3> HIDE DEF G
    <3> QED  BY <1>1, <1>5 DEF Follows
  <2> QED  BY <2>1
<1>7. f \in [0 .. N -> S] /\ f[0] = Applied(v)
  BY <1>5 DEF Follows
<1>8. Is(f)
  BY <1>1, <1>6, <1>7
<1>9. Is(h)
  BY <1>8
<1>10. renamePairs(v, pairs) = h[N]
  BY DEF renamePairs, N
<1> HIDE DEF h
<1>11. h[0] = Applied(v) /\ \A n \in 1 .. N : h[n] = renameLoaded(h[n - 1], pairs[n])
  BY <1>1, <1>9
<1>12. \A n \in 1 .. N : h[n - 1] \in S => h[n] = G[n][h[n - 1]]
  BY <1>11
<1>13. \A n \in 0 .. N : h[n] = f[n]
  <2> HIDE DEF G
  <2> QED  BY <1>1, <1>5, <1>11, <1>12, RecursionUnique
<1>14. renamePairs(v, pairs) = f[N]
  BY <1>1, <1>10, <1>13
<1> QED  BY <1>6, <1>7, <1>14 DEF N, S

(* When it succeeds it moves the same tables.                               *)
LEMMA renamePairsExists ==
  ASSUME NEW v \in Catalogs, NEW pairs \in Seq(Pairs)
  PROVE  /\ renamePairs(v, pairs).view \in Catalogs
         /\ renamePairs(v, pairs).ok \in BOOLEAN
         /\ renamePairs(v, pairs).ok => \E c : Moving(v, pairs, c) /\ renamePairs(v, pairs).view = c[Len(pairs)]
<1> DEFINE N == Len(pairs)
<1>1. N \in Nat /\ \A n \in 1 .. N : pairs[n] \in Pairs
  OBVIOUS
<1>2. PICK f \in [0 .. N -> Overlays] :
        /\ f[0] = Applied(v)
        /\ \A n \in 1 .. N : f[n] = renameLoaded(f[n - 1], pairs[n])
        /\ renamePairs(v, pairs) = f[N]
  BY renamePairsDef
<1> HIDE DEF N
<1>3. ASSUME NEW n \in 0 .. N PROVE f[n].view \in Catalogs /\ f[n].ok \in BOOLEAN
  <2>1. f[n] \in Overlays
    BY <1>2
  <2> QED  BY <2>1 DEF Overlays
<1>4. renamePairs(v, pairs).view \in Catalogs /\ renamePairs(v, pairs).ok \in BOOLEAN
  <2>1. f[N].view \in Catalogs /\ f[N].ok \in BOOLEAN
    BY <1>1, <1>3
  <2> QED  BY <1>2, <2>1, Zenon
<1> SUFFICES ASSUME f[N].ok
             PROVE  \E c : Moving(v, pairs, c) /\ f[N].view = c[N]
  BY <1>2, <1>4, Zenon DEF N
<1>5. ASSUME NEW n \in 1 .. N
      PROVE  /\ f[n].ok => f[n - 1].ok
             /\ f[n].ok => /\ Exists(f[n - 1].view, pairs[n].from)
                           /\ f[n].view = Moved(f[n - 1].view, pairs[n].from, pairs[n].to)
  <2> DEFINE a == f[n - 1]
             p == pairs[n]
             b == renameLoaded(a, p)
  <2>1. a \in Overlays /\ p \in Pairs /\ f[n] = b
    BY <1>1, <1>2
  <2> HIDE DEF a, p, b
  <2>2. /\ a.ok /\ Exists(a.view, p.from) => b.ok /\ b.view = Moved(a.view, p.from, p.to)
        /\ ~(a.ok /\ Exists(a.view, p.from)) => ~b.ok
    BY <2>1, renameLoadedFacts, Zenon DEF b
  <2>3. (b.ok => a.ok) /\ (b.ok => Exists(a.view, p.from) /\ b.view = Moved(a.view, p.from, p.to))
    BY <2>2, Zenon
  <2> QED  BY <2>1, <2>3, Zenon DEF a, p
<1>6. ASSUME NEW m \in 0 .. N PROVE f[m].ok
  <2> SUFFICES ASSUME ~f[m].ok PROVE FALSE
    BY Zenon
  <2> DEFINE Bad == {n \in 0 .. N : ~f[n].ok}
             P == {n \in Nat : m <= n => n \in Bad}
  <2>1. m \in Bad /\ N \notin Bad
    BY Zenon
  <2>2. \A n \in 1 .. N : n - 1 \in Bad => n \in Bad
    <3> SUFFICES ASSUME NEW n \in 1 .. N, n - 1 \in Bad PROVE n \in Bad
      OBVIOUS
    <3>1. ~f[n - 1].ok
      BY Zenon
    <3>2. ~f[n].ok
      BY <1>5, <3>1, Zenon
    <3>3. n \in 0 .. N
      BY <1>1
    <3> QED  BY <3>2, <3>3, Zenon
  <2> HIDE DEF Bad
  <2>3. 0 \in P
    BY <1>1, <2>1
  <2>4. ASSUME NEW n \in 0 .. N - 1, n \in P PROVE n + 1 \in P
    <3>1. n + 1 \in 1 .. N /\ (n + 1) - 1 = n
      BY <1>1
    <3>2. CASE m <= n
      BY <2>2, <2>4, <3>1, <3>2
    <3>3. CASE ~(m <= n)
      BY <1>1, <2>1, <3>1, <3>3
    <3> QED  BY <3>2, <3>3
  <2>5. N \in P
    <3> HIDE DEF P
    <3>1. \A n \in 0 .. N : n \in P
      BY <1>1, <2>3, <2>4, Induction
    <3> QED  BY <1>1, <3>1
  <2> QED  BY <1>1, <2>1, <2>5
<1> DEFINE c == [n \in 0 .. N |-> f[n].view]
<1>7. c \in [0 .. N -> Catalogs] /\ c[0] = v
  BY <1>1, <1>2, <1>3 DEF Applied
<1>8. ASSUME NEW n \in 1 .. N
      PROVE  Exists(c[n - 1], pairs[n].from) /\ c[n] = Moved(c[n - 1], pairs[n].from, pairs[n].to)
  <2>1. n \in 0 .. N /\ n - 1 \in 0 .. N
    BY <1>1
  <2>2. c[n] = f[n].view /\ c[n - 1] = f[n - 1].view
    BY <2>1
  <2>3. f[n].ok
    BY <1>6, <2>1
  <2> HIDE DEF c
  <2>4. Exists(f[n - 1].view, pairs[n].from) /\ f[n].view = Moved(f[n - 1].view, pairs[n].from, pairs[n].to)
    BY <1>5, <2>3, Zenon
  <2> QED  BY <2>2, <2>4, Zenon
<1>9. c[N] = f[N].view
  BY <1>1
<1> HIDE DEF c
<1>10. Moving(v, pairs, c)
  BY <1>7, <1>8 DEF Moving, N
<1> QED  BY <1>9, <1>10

(* Only the named tables change, and no new definition comes in.            *)
LEMMA MovingOnly ==
  ASSUME NEW cat \in Catalogs, NEW pairs \in Seq(Pairs), NEW f, Moving(cat, pairs, f), NEW D,
         \A n \in DOMAIN pairs : pairs[n].from \in D /\ pairs[n].to \in D
  PROVE  /\ f[Len(pairs)] \in Catalogs
         /\ Only(cat, f[Len(pairs)], D)
         /\ DistinctColumns(cat) => DistinctColumns(f[Len(pairs)])
<1> DEFINE N == Len(pairs)
           P == {n \in 0 .. N : Only(cat, f[n], D) /\ (DistinctColumns(cat) => DistinctColumns(f[n]))}
<1>1. N \in Nat /\ DOMAIN pairs = 1 .. N /\ \A n \in 1 .. N : pairs[n] \in Pairs
  OBVIOUS
<1>2. f[0] = cat /\ \A n \in 0 .. N : f[n] \in Catalogs
  BY DEF Moving
<1>3. 0 \in P
  BY <1>1, <1>2 DEF Only
<1>4. ASSUME NEW k \in 0 .. N - 1, k \in P PROVE k + 1 \in P
  <2> DEFINE j == k + 1
             from == pairs[j].from
             to == pairs[j].to
             a == f[k]
             b == f[j]
  <2>1. j \in 1 .. N /\ j - 1 = k /\ k \in 0 .. N /\ j \in 0 .. N
    BY <1>1
  <2>2. from \in Ref /\ to \in Ref
    BY <1>1, <2>1 DEF Pairs
  <2>3. a \in Catalogs /\ b = Moved(a, from, to) /\ from \in D /\ to \in D
    BY <1>1, <1>2, <2>1 DEF Moving
  <2> SUFFICES Only(cat, b, D) /\ (DistinctColumns(cat) => DistinctColumns(b))
    BY <2>1
  <2>4. Only(cat, a, D) /\ (DistinctColumns(cat) => DistinctColumns(a))
    BY <1>4
  <2> HIDE DEF P, from, to, a, b
  <2>5. /\ b.schemas = a.schemas
        /\ \A p \in Ref : b.objects[p] = IF p = to THEN a.objects[from]
                                         ELSE IF p = from THEN Absent ELSE a.objects[p]
    <3>1. from \in Ref /\ to \in Ref
      BY <2>2
    <3>2. IsMoved(b, a, from, to)
      BY <2>3, <3>1, MovedFacts
    <3> QED  BY <3>2 DEF IsMoved
  <2>6. Only(cat, b, D)
    BY <2>3, <2>4, <2>5 DEF Only
  <2>7. ASSUME DistinctColumns(a) PROVE DistinctColumns(b)
    <3> SUFFICES ASSUME NEW p \in Ref, IsTable(b, p) PROVE IsInjective(b.objects[p].columns)
      BY DEF DistinctColumns
    <3>1. PICK r \in Ref : b.objects[p] = a.objects[r]
      BY <2>2, <2>5 DEF IsTable, Exists
    <3>2. IsTable(a, r)
      BY <3>1 DEF IsTable, Exists
    <3> QED  BY <2>7, <3>1, <3>2 DEF DistinctColumns
  <2> QED  BY <2>4, <2>6, <2>7
<1>5. N \in P
  <2> HIDE DEF P
  <2>1. \A k \in 0 .. N : k \in P
    BY <1>1, <1>3, <1>4, Induction
  <2> QED  BY <1>1, <2>1
<1> QED  BY <1>1, <1>2, <1>5

(* The same pairs keep catalogs in agreement that agree on what they name.  *)
LEMMA MovingAgree ==
  ASSUME NEW v \in Catalogs, NEW w \in Catalogs, NEW D, NEW U, Agree(v, w, D, U), NEW pairs \in Seq(Pairs),
         \A n \in DOMAIN pairs : pairs[n].from \notin D /\ pairs[n].to \notin D,
         \A n \in DOMAIN pairs : pairs[n].from \in U => pairs[n].to \in U,
         NEW f, Moving(v, pairs, f), NEW g, Moving(w, pairs, g)
  PROVE  Agree(f[Len(pairs)], g[Len(pairs)], D, U)
<1> DEFINE N == Len(pairs)
           P == {n \in 0 .. N : Agree(f[n], g[n], D, U)}
<1>1. N \in Nat /\ DOMAIN pairs = 1 .. N /\ \A n \in 1 .. N : pairs[n] \in Pairs
  OBVIOUS
<1>2. f[0] = v /\ g[0] = w /\ \A n \in 0 .. N : f[n] \in Catalogs /\ g[n] \in Catalogs
  BY DEF Moving
<1>3. 0 \in P
  BY <1>1, <1>2
<1>4. ASSUME NEW k \in 0 .. N - 1, k \in P PROVE k + 1 \in P
  <2> DEFINE j == k + 1
             from == pairs[j].from
             to == pairs[j].to
             a == f[k]
             b == g[k]
             a2 == f[j]
             b2 == g[j]
  <2>1. j \in 1 .. N /\ j - 1 = k /\ k \in 0 .. N /\ j \in 0 .. N
    BY <1>1
  <2>2. from \in Ref \ D /\ to \in Ref \ D /\ (from \in U => to \in U)
    BY <1>1, <2>1 DEF Pairs
  <2>3. a \in Catalogs /\ b \in Catalogs /\ a2 = Moved(a, from, to) /\ b2 = Moved(b, from, to)
    BY <1>1, <1>2, <2>1 DEF Moving
  <2> SUFFICES Agree(a2, b2, D, U)
    BY <2>1
  <2>4. Agree(a, b, D, U)
    BY <1>4
  <2> HIDE DEF P, from, to, a, b, a2, b2
  <2>5. /\ a2.schemas = a.schemas
        /\ \A p \in Ref : a2.objects[p] = IF p = to THEN a.objects[from]
                                          ELSE IF p = from THEN Absent ELSE a.objects[p]
    <3>1. from \in Ref /\ to \in Ref
      BY <2>2
    <3>2. IsMoved(a2, a, from, to)
      BY <2>3, <3>1, MovedFacts
    <3> QED  BY <3>2 DEF IsMoved
  <2>6. /\ b2.schemas = b.schemas
        /\ \A p \in Ref : b2.objects[p] = IF p = to THEN b.objects[from]
                                          ELSE IF p = from THEN Absent ELSE b.objects[p]
    <3>1. from \in Ref /\ to \in Ref
      BY <2>2
    <3>2. IsMoved(b2, b, from, to)
      BY <2>3, <3>1, MovedFacts
    <3> QED  BY <3>2 DEF IsMoved
  <2>7. ASSUME NEW p \in Ref \ D PROVE ShapeOf(a2.objects[p], p, U) = ShapeOf(b2.objects[p], p, U)
    <3>1. CASE p = to
      <4>1. ShapeOf(a.objects[from], from, U) = ShapeOf(b.objects[from], from, U)
        BY <2>2, <2>4 DEF Agree
      <4>2. ShapeOf(a.objects[from], to, U) = ShapeOf(b.objects[from], to, U)
        BY <2>2, <4>1, ShapeBare
      <4> QED  BY <2>5, <2>6, <3>1, <4>2
    <3>2. CASE p # to /\ p = from
      BY <2>5, <2>6, <3>2
    <3>3. CASE p # to /\ p # from
      BY <2>4, <2>5, <2>6, <3>3 DEF Agree
    <3> QED  BY <3>1, <3>2, <3>3
  <2> QED  BY <2>4, <2>5, <2>6, <2>7 DEF Agree
<1>5. N \in P
  <2> HIDE DEF P
  <2>1. \A k \in 0 .. N : k \in P
    BY <1>1, <1>3, <1>4, Induction
  <2> QED  BY <1>1, <2>1
<1> QED  BY <1>5

(* Distinct sources that are all there can be renamed one after the other.  *)
LEMMA RenameFits ==
  ASSUME NEW v \in Catalogs, NEW pairs \in Seq(Pairs),
         \A n \in DOMAIN pairs : Exists(v, pairs[n].from),
         \A m, n \in DOMAIN pairs : m # n => pairs[m].from # pairs[n].from
  PROVE  renamePairs(v, pairs).ok
<1> DEFINE N == Len(pairs)
<1>1. N \in Nat /\ DOMAIN pairs = 1 .. N /\ \A n \in 1 .. N : pairs[n] \in Pairs
  OBVIOUS
<1>2. PICK f \in [0 .. N -> Overlays] :
        /\ f[0] = Applied(v)
        /\ \A n \in 1 .. N : f[n] = renameLoaded(f[n - 1], pairs[n])
        /\ renamePairs(v, pairs) = f[N]
  BY renamePairsDef
<1> HIDE DEF N
<1> DEFINE Good == {n \in 0 .. N : f[n].ok}
           Left(n) == \A m \in 1 .. N : n < m => Exists(f[n].view, pairs[m].from)
           P == {n \in Good : Left(n)}
<1>3. f[0].ok /\ f[0].view = v
  <2>1. f[0].ok = TRUE /\ f[0].view = v
    BY <1>2 DEF Applied
  <2> QED  BY <2>1, Zenon
<1>4. 0 \in P
  <2>1. 0 \in Good
    <3>1. 0 \in 0 .. N
      BY <1>1
    <3> QED  BY <1>3, <3>1, Zenon
  <2>2. Left(0)
    BY <1>1, <1>3
  <2> HIDE DEF Good, Left
  <2> QED  BY <2>1, <2>2
<1>5. ASSUME NEW k \in 0 .. N - 1, k \in P PROVE k + 1 \in P
  <2> DEFINE j == k + 1
             a == f[k]
             b == f[j]
             p == pairs[j]
  <2>1. j \in 1 .. N /\ j - 1 = k /\ k \in 0 .. N /\ j \in 0 .. N /\ k < j
    BY <1>1
  <2>2. a \in Overlays /\ p \in Pairs /\ b = renameLoaded(a, p)
    BY <1>1, <1>2, <2>1
  <2>3. a.ok
    BY <1>5, Zenon
  <2>4. Left(k)
    <3> HIDE DEF Left, Good
    <3> QED  BY <1>5
  <2>5. Exists(a.view, p.from)
    BY <2>1, <2>4
  <2> HIDE DEF a, b, p
  <2>6. b.ok /\ b.view = Moved(a.view, p.from, p.to)
    BY <2>2, <2>3, <2>5, renameLoadedFacts, Zenon
  <2>7. j \in Good
    <3> HIDE DEF j
    <3> QED  BY <2>1, <2>6, Zenon DEF b
  <2>8. a.view \in Catalogs /\ p.from \in Ref /\ p.to \in Ref
    BY <2>2 DEF Overlays, Pairs
  <2>9. IsMoved(b.view, a.view, p.from, p.to)
    <3>1. b.view = Moved(a.view, p.from, p.to)
      BY <2>6, Zenon
    <3> QED  BY <2>8, <3>1, MovedFacts
  <2>10. ASSUME NEW m \in 1 .. N, j < m PROVE Exists(b.view, pairs[m].from)
    <3>1. m # j /\ k < m
      BY <2>1, <2>10
    <3>2. pairs[m].from # p.from
      BY <1>1, <2>1, <3>1 DEF p
    <3>3. Exists(a.view, pairs[m].from)
      BY <2>4, <3>1 DEF a
    <3>4. pairs[m].from \in Ref
      BY <1>1 DEF Pairs
    <3> QED  BY <2>5, <2>9, <3>2, <3>3, <3>4 DEF IsMoved, Exists
  <2>11. Left(j)
    BY <2>10 DEF b
  <2> HIDE DEF Good, Left, j
  <2> QED  BY <2>7, <2>11 DEF j
<1> HIDE DEF P
<1>6. \A n \in 0 .. N : n \in P
  BY <1>1, <1>4, <1>5, Induction
<1>7. N \in 0 .. N
  BY <1>1
<1>8. f[N].ok
  BY <1>6, <1>7, Zenon DEF P
<1> QED  BY <1>2, <1>8, Zenon

----------------------------------------------------------------------------
(* Statements, by action.                                                   *)
LEMMA StatementKinds ==
  ASSUME NEW s \in Statement
  PROVE  /\ s.action \in {"USE", "DML", "CREATE_DATABASE", "DROP_DATABASE", "CREATE_TABLE", "CREATE_TABLE_LIKE",
                          "CREATE_VIEW", "TRUNCATE_TABLE", "DROP_TABLE", "DROP_VIEW", "RENAME_TABLE",
                          "ALTER_TABLE", "CREATE_INDEX", "DROP_INDEX"}
         /\ s.action = "USE" => s \in [action : {"USE"}, schema : Schemas]
         /\ s.action = "DML" => s \in [action : {"DML"}, table : TableRef, columns : SUBSET Columns]
         /\ s.action = "CREATE_DATABASE" =>
              s \in [action : {"CREATE_DATABASE"}, schema : Schemas, ifNotExists : BOOLEAN]
         /\ s.action = "DROP_DATABASE" =>
              s \in [action : {"DROP_DATABASE"}, schema : Schemas, ifExists : BOOLEAN]
         /\ s.action = "CREATE_TABLE" =>
              s \in [action : {"CREATE_TABLE"}, table : TableRef, columns : Seq(Columns),
                     indexes : [IndexNames -> Seq(Columns)],
                     unprojected : [IndexNames -> Seq(Columns)], ifNotExists : BOOLEAN]
         /\ s.action = "CREATE_TABLE_LIKE" =>
              s \in [action : {"CREATE_TABLE_LIKE"}, table : TableRef, reference : TableRef, ifNotExists : BOOLEAN]
         /\ s.action \in {"CREATE_VIEW", "TRUNCATE_TABLE"} =>
              s \in [action : {"CREATE_VIEW", "TRUNCATE_TABLE"}, table : TableRef]
         /\ s.action \in {"DROP_TABLE", "DROP_VIEW"} =>
              s \in [action : {"DROP_TABLE", "DROP_VIEW"}, tables : Seq(TableRef), ifExists : BOOLEAN]
         /\ s.action = "RENAME_TABLE" =>
              s \in [action : {"RENAME_TABLE"}, pairs : Seq([from : TableRef, to : TableRef])]
         /\ Alters(s) =>
              s \in [action : {"ALTER_TABLE", "CREATE_INDEX", "DROP_INDEX"}, table : TableRef,
                     ops : Seq(AlterOperation)]
BY DEF Statement, Alters, Single

OfTable == {"DML", "CREATE_TABLE", "CREATE_TABLE_LIKE", "CREATE_VIEW", "TRUNCATE_TABLE",
            "ALTER_TABLE", "CREATE_INDEX", "DROP_INDEX"}
OfSchema == {"USE", "CREATE_DATABASE", "DROP_DATABASE"}
OfTables == {"DROP_TABLE", "DROP_VIEW"}

(* Which fields a statement has.                                            *)
LEMMA StatementDomain ==
  ASSUME NEW s \in Statement
  PROVE  /\ s.action \in OfTable \cup OfSchema \cup OfTables \cup {"RENAME_TABLE"}
         /\ "action" \in DOMAIN s
         /\ "table" \in DOMAIN s <=> s.action \in OfTable
         /\ "schema" \in DOMAIN s <=> s.action \in OfSchema
         /\ "tables" \in DOMAIN s <=> s.action \in OfTables
         /\ "pairs" \in DOMAIN s <=> s.action = "RENAME_TABLE"
         /\ "ops" \in DOMAIN s <=> Alters(s)
         /\ "reference" \in DOMAIN s <=> s.action = "CREATE_TABLE_LIKE"
<1> USE DEF OfTable, OfSchema, OfTables, Alters
<1>1. CASE s.action = "USE"
  BY <1>1, StatementKinds
<1>2. CASE s.action = "DML"
  BY <1>2, StatementKinds
<1>3. CASE s.action = "CREATE_DATABASE"
  BY <1>3, StatementKinds
<1>4. CASE s.action = "DROP_DATABASE"
  BY <1>4, StatementKinds
<1>5. CASE s.action = "CREATE_TABLE"
  <2>1. DOMAIN s = {"action", "table", "columns", "indexes", "unprojected", "ifNotExists"}
    BY <1>5, StatementKinds
  <2> QED  BY <1>5, <2>1
<1>6. CASE s.action = "CREATE_TABLE_LIKE"
  BY <1>6, StatementKinds
<1>7. CASE s.action \in {"CREATE_VIEW", "TRUNCATE_TABLE"}
  BY <1>7, StatementKinds
<1>8. CASE s.action \in {"DROP_TABLE", "DROP_VIEW"}
  BY <1>8, StatementKinds
<1>9. CASE s.action = "RENAME_TABLE"
  BY <1>9, StatementKinds
<1>10. CASE Alters(s)
  BY <1>10, StatementKinds
<1> QED  BY <1>1, <1>2, <1>3, <1>4, <1>5, <1>6, <1>7, <1>8, <1>9, <1>10, StatementKinds

LEMMA StatementTable ==
  ASSUME NEW s \in Statement
  PROVE  /\ s.action \in OfTable => s.table \in TableRef
         /\ s.action \in OfSchema => s.schema \in Schemas
<1> USE DEF OfTable, OfSchema, Alters
<1>1. CASE s.action \in {"DML", "CREATE_TABLE", "CREATE_TABLE_LIKE"}
  BY <1>1, StatementKinds
<1>2. CASE s.action \in {"CREATE_VIEW", "TRUNCATE_TABLE"} \/ Alters(s)
  BY <1>2, StatementKinds
<1>3. CASE s.action \in OfSchema
  BY <1>3, StatementKinds
<1> QED  BY <1>1, <1>2, <1>3

(* The names in it.                                                         *)
LEMMA NamedFacts ==
  ASSUME NEW s \in Statement
  PROVE  /\ s.action \in OfSchema => Named(s) = {}
         /\ s.action \in OfTable => s.table \in Named(s)
         /\ s.action \in OfTable /\ s.action # "CREATE_TABLE_LIKE" /\ ~Alters(s) => Named(s) = {s.table}
         /\ s.action = "CREATE_TABLE_LIKE" => s.reference \in Named(s)
         /\ s.action \in OfTables => Named(s) = ToSet(s.tables)
         /\ s.action = "RENAME_TABLE" =>
              /\ \A i \in DOMAIN s.pairs : s.pairs[i].from \in Named(s) /\ s.pairs[i].to \in Named(s)
              /\ \A r \in Named(s) : \E i \in DOMAIN s.pairs : r \in {s.pairs[i].from, s.pairs[i].to}
         /\ Alters(s) => \A i \in OpsOf(s.ops, {"RENAME_TABLE"}) : s.ops[i].newTable \in Named(s)
         /\ Alters(s) => \A r \in Named(s) : r = s.table \/ \E i \in OpsOf(s.ops, {"RENAME_TABLE"}) : r = s.ops[i].newTable
         /\ s.action = "CREATE_TABLE_LIKE" => \A r \in Named(s) : r = s.table \/ r = s.reference
<1> USE DEF OfTable, OfSchema, OfTables, Alters
<1>1. CASE s.action \in OfSchema
  BY <1>1, StatementDomain DEF Named
<1>2. CASE s.action \in {"DML", "CREATE_TABLE", "CREATE_VIEW", "TRUNCATE_TABLE"}
  BY <1>2, StatementDomain DEF Named
<1>3. CASE s.action = "CREATE_TABLE_LIKE"
  BY <1>3, StatementDomain DEF Named
<1>4. CASE s.action \in OfTables
  BY <1>4, StatementDomain DEF Named
<1>5. CASE s.action = "RENAME_TABLE"
  BY <1>5, StatementDomain DEF Named, ToSet
<1>6. CASE Alters(s)
  BY <1>6, StatementDomain DEF Named
<1> QED  BY <1>1, <1>2, <1>3, <1>4, <1>5, <1>6, StatementDomain

LEMMA NamedType ==
  ASSUME NEW s \in Statement
  PROVE  Named(s) \subseteq TableRef
<1> SUFFICES ASSUME NEW r \in Named(s) PROVE r \in TableRef
  OBVIOUS
<1>1. CASE s.action \in OfSchema
  BY <1>1, NamedFacts
<1>2. CASE s.action \in OfTable /\ s.action # "CREATE_TABLE_LIKE" /\ ~Alters(s)
  BY <1>2, NamedFacts, StatementTable
<1>3. CASE s.action = "CREATE_TABLE_LIKE"
  <2>1. s.table \in TableRef /\ s.reference \in TableRef
    BY <1>3, StatementKinds
  <2> QED  BY <1>3, <2>1, NamedFacts
<1>4. CASE s.action \in OfTables
  <2>1. s.tables \in Seq(TableRef)
    BY <1>4, StatementKinds DEF OfTables
  <2>2. PICK i \in DOMAIN s.tables : r = s.tables[i]
    BY <1>4, NamedFacts DEF ToSet
  <2> QED  BY <2>1, <2>2
<1>5. CASE s.action = "RENAME_TABLE"
  <2>1. s.pairs \in Seq([from : TableRef, to : TableRef])
    BY <1>5, StatementKinds
  <2>2. PICK i \in DOMAIN s.pairs : r \in {s.pairs[i].from, s.pairs[i].to}
    BY <1>5, NamedFacts
  <2>3. s.pairs[i] \in [from : TableRef, to : TableRef]
    <3> DEFINE ps == s.pairs
    <3>1. ps \in Seq([from : TableRef, to : TableRef]) /\ i \in DOMAIN ps
      BY <2>1
    <3> HIDE DEF ps
    <3>2. ps[i] \in [from : TableRef, to : TableRef]
      <4> DEFINE R == [from : TableRef, to : TableRef]
      <4> HIDE DEF R
      <4>1. ps \in Seq(R)
        BY <3>1 DEF R
      <4>2. ps[i] \in R
        BY <3>1, <4>1
      <4> QED  BY <4>2 DEF R
    <3> QED  BY <3>2 DEF ps
  <2> QED  BY <2>2, <2>3
<1>6. CASE Alters(s)
  <2>1. s.table \in TableRef /\ s.ops \in Seq(AlterOperation)
    BY <1>6, StatementKinds
  <2>2. ASSUME NEW i \in OpsOf(s.ops, {"RENAME_TABLE"}) PROVE s.ops[i].newTable \in TableRef
    <3>1. s.ops[i] \in AlterOperation /\ s.ops[i].op = "RENAME_TABLE"
      BY <2>1 DEF OpsOf
    <3> QED  BY <3>1, OperationKinds
  <2> QED  BY <1>6, <2>1, <2>2, NamedFacts
<1> QED  BY <1>1, <1>2, <1>3, <1>4, <1>5, <1>6, StatementDomain

(* The schema a statement belongs to.                                       *)
LEMMA DatabaseFacts ==
  ASSUME NEW s \in Statement, NEW d \in SchemaOrNone
  PROVE  /\ Database(s, d) \in SchemaOrNone
         /\ s.action \in OfTable =>
              /\ s.table[1] = NoSchema => Database(s, d) = d
              /\ s.table[1] # NoSchema => Database(s, d) = s.table[1]
              /\ defaultSchema(s.table, Database(s, d)) = defaultSchema(s.table, d)
              /\ defaultSchema(s.table, Database(s, d))[1] = Database(s, d)
         /\ s.action \in OfTables \cup {"RENAME_TABLE"} => Database(s, d) = d
<1>1. CASE s.action \in OfSchema
  <2>1. "schema" \in DOMAIN s /\ ~HasTable(s)
    BY <1>1, StatementDomain DEF HasTable, OfTable, OfSchema
  <2>2. Database(s, d) = s.schema
    BY <2>1 DEF Database
  <2> QED  BY <1>1, <2>2, StatementTable DEF OfSchema, OfTable, OfTables, SchemaOrNone
<1>2. CASE s.action \in OfTable
  <2>1. "schema" \notin DOMAIN s /\ HasTable(s)
    BY <1>2, StatementDomain DEF HasTable, OfTable, OfSchema
  <2>2. Database(s, d) = defaultSchema(s.table, d)[1] /\ s.table \in TableRef
    BY <1>2, <2>1, StatementTable DEF Database
  <2>3. CASE s.table[1] = NoSchema
    <3>1. Database(s, d) = d
      BY <2>2, <2>3 DEF defaultSchema
    <3> QED  BY <1>2, <2>3, <3>1 DEF OfTable, OfTables, defaultSchema
  <2>4. CASE s.table[1] # NoSchema
    <3>1. Database(s, d) = s.table[1] /\ s.table[1] \in SchemaOrNone
      BY <2>2, <2>4, ResolveType DEF defaultSchema
    <3> QED  BY <1>2, <2>4, <3>1 DEF OfTable, OfTables, defaultSchema
  <2> QED  BY <2>3, <2>4
<1>3. CASE s.action \in OfTables \cup {"RENAME_TABLE"}
  <2>1. "schema" \notin DOMAIN s /\ ~HasTable(s)
    BY <1>3, StatementDomain DEF HasTable, OfTable, OfSchema, OfTables
  <2>2. Database(s, d) = d
    BY <2>1 DEF Database
  <2> QED  BY <1>3, <2>2 DEF OfTable, OfTables
<1> QED  BY <1>1, <1>2, <1>3, StatementDomain

(* The statement with its names completed, as the audit does it ...         *)
LEMMA AuditFields ==
  ASSUME NEW s \in Statement, NEW d \in SchemaOrNone
  PROVE  LET own == Database(s, d)
             a == resolveStatementDatabase(s, d)
         IN  /\ DOMAIN a = DOMAIN s
             /\ a.action = s.action
             /\ s.action \in OfTable => a.table = defaultSchema(s.table, own)
             /\ s.action = "CREATE_TABLE_LIKE" => a.reference = defaultSchema(s.reference, own)
             /\ s.action \in OfTables => a.tables = [i \in DOMAIN s.tables |-> defaultSchema(s.tables[i], own)]
             /\ s.action = "RENAME_TABLE" => a.pairs = [i \in DOMAIN s.pairs |-> ResolvePair(s.pairs[i], own)]
             /\ \A f \in DOMAIN s \ {"table", "reference", "tables", "pairs"} : a[f] = s[f]
<1> DEFINE own == Database(s, d)
           a == resolveStatementDatabase(s, d)
<1>1. DOMAIN a = DOMAIN s
  BY DEF resolveStatementDatabase
<1>2. \A f \in DOMAIN s :
        a[f] = CASE f = "table"  -> defaultSchema(s.table, own)
                 [] f = "reference" -> defaultSchema(s.reference, own)
                 [] f = "tables" -> [i \in DOMAIN s.tables |-> defaultSchema(s.tables[i], own)]
                 [] f = "pairs"  -> [i \in DOMAIN s.pairs |-> ResolvePair(s.pairs[i], own)]
                 [] OTHER -> s[f]
  BY DEF resolveStatementDatabase
<1> HIDE DEF own, a
<1>3. "action" \in DOMAIN s
  BY StatementDomain
<1>4. a.action = s.action
  BY <1>2, <1>3
<1>5. "table" \in DOMAIN s => a.table = defaultSchema(s.table, own)
  BY <1>2
<1>6. "reference" \in DOMAIN s => a.reference = defaultSchema(s.reference, own)
  BY <1>2
<1>7. "tables" \in DOMAIN s => a.tables = [i \in DOMAIN s.tables |-> defaultSchema(s.tables[i], own)]
  BY <1>2
<1>8. "pairs" \in DOMAIN s => a.pairs = [i \in DOMAIN s.pairs |-> ResolvePair(s.pairs[i], own)]
  BY <1>2
<1>9. \A f \in DOMAIN s \ {"table", "reference", "tables", "pairs"} : a[f] = s[f]
  BY <1>2
<1> QED  BY <1>1, <1>4, <1>5, <1>6, <1>7, <1>8, <1>9, StatementDomain DEF own, a

(* ... and as the server does it.                                           *)
LEMMA ServerFields ==
  ASSUME NEW s \in Statement, NEW d
  PROVE  LET t == ServerResolves(s, d)
         IN  /\ DOMAIN t = DOMAIN s
             /\ t.action = s.action
             /\ s.action \in OfTable => t.table = defaultSchema(s.table, d)
             /\ s.action = "CREATE_TABLE_LIKE" => t.reference = defaultSchema(s.reference, d)
             /\ s.action \in OfTables => t.tables = [i \in DOMAIN s.tables |-> defaultSchema(s.tables[i], d)]
             /\ s.action = "RENAME_TABLE" => t.pairs = [i \in DOMAIN s.pairs |-> ResolvePair(s.pairs[i], d)]
             /\ Alters(s) => t.ops = ResolveOps(s.ops, d)
             /\ \A f \in DOMAIN s \ {"table", "reference", "tables", "pairs", "ops"} : t[f] = s[f]
<1> DEFINE t == ServerResolves(s, d)
<1>1. DOMAIN t = DOMAIN s
  BY DEF ServerResolves
<1>2. \A f \in DOMAIN s :
        t[f] = CASE f \in {"table", "reference"} -> defaultSchema(s[f], d)
                 [] f = "tables" -> [i \in DOMAIN s.tables |-> defaultSchema(s.tables[i], d)]
                 [] f = "pairs"  -> [i \in DOMAIN s.pairs |-> ResolvePair(s.pairs[i], d)]
                 [] f = "ops"    -> ResolveOps(s.ops, d)
                 [] OTHER -> s[f]
  BY DEF ServerResolves
<1> HIDE DEF t
<1>3. "action" \in DOMAIN s
  BY StatementDomain
<1>4. t.action = s.action
  BY <1>2, <1>3
<1>5. "table" \in DOMAIN s => t.table = defaultSchema(s.table, d)
  BY <1>2
<1>6. "reference" \in DOMAIN s => t.reference = defaultSchema(s.reference, d)
  BY <1>2
<1>7. "tables" \in DOMAIN s => t.tables = [i \in DOMAIN s.tables |-> defaultSchema(s.tables[i], d)]
  BY <1>2
<1>8. "pairs" \in DOMAIN s => t.pairs = [i \in DOMAIN s.pairs |-> ResolvePair(s.pairs[i], d)]
  BY <1>2
<1>9. "ops" \in DOMAIN s => t.ops = ResolveOps(s.ops, d)
  BY <1>2
<1>10. \A f \in DOMAIN s \ {"table", "reference", "tables", "pairs", "ops"} : t[f] = s[f]
  BY <1>2
<1> QED  BY <1>1, <1>4, <1>5, <1>6, <1>7, <1>8, <1>9, <1>10, StatementDomain DEF t

(* ... and the other parts are left as they are.                            *)
LEMMA ServerKeeps ==
  ASSUME NEW s \in Statement, NEW d,
         NEW f \in DOMAIN s \ {"table", "reference", "tables", "pairs", "ops"}
  PROVE  ServerResolves(s, d)[f] = s[f]
BY DEF ServerResolves

----------------------------------------------------------------------------
(* The database of the audit is the one of the connection, as long as       *)
(* nothing in doubt is named.                                               *)
SameDatabase == database = current \/ (current = NoSchema /\ {database} \X Names \subseteq doubt)

LEMMA DatabaseTypes ==
  ASSUME TypeOK
  PROVE  database \in SchemaOrNone /\ current \in SchemaOrNone
BY DEF TypeOK, SchemaOrNone

(* The audit knows the schema of every name.                                *)
LEMMA AuditNames ==
  ASSUME TypeOK, NEW s \in Statement, Resolved(s, database), s.action \notin OfSchema
  PROVE  /\ Database(s, database) \in Schemas
         /\ \A r \in Named(s) : /\ defaultSchema(r, Database(s, database)) \in Ref
                                /\ defaultSchema(r, Database(s, database)) \in NamedByAudit(s)
<1> DEFINE own == Database(s, database)
<1>1. own # NoSchema
  BY DEF Resolved, requiresDatabase, OfSchema
<1>2. own \in Schemas
  BY <1>1, DatabaseTypes, DatabaseFacts DEF SchemaOrNone
<1>3. ASSUME NEW r \in Named(s) PROVE defaultSchema(r, own) \in Ref
  <2>1. r \in TableRef
    BY NamedType
  <2> HIDE DEF own
  <2> QED  BY <1>2, <2>1, ResolveType DEF SchemaOrNone
<1> QED  BY <1>2, <1>3 DEF NamedByAudit

(* A name without a schema is taken for one in the current database, unless *)
(* others beside it have one.                                               *)
LEMMA UnmixedDatabase ==
  ASSUME TypeOK, NEW s \in Statement, s.action \notin OfSchema, ~MixedNames(s), NEW r \in Named(s), r[1] = NoSchema
  PROVE  Database(s, database) = database
<1>1. CASE s.action \in OfTable
  <2>1. s.table[1] = NoSchema
    <3> SUFFICES ASSUME s.table[1] # NoSchema PROVE FALSE
      OBVIOUS
    <3>1. s.table \in Named(s)
      BY <1>1, NamedFacts
    <3>2. ~(s.action = "CREATE_TABLE_LIKE" \/ Alters(s))
      BY <3>1 DEF MixedNames
    <3>3. Named(s) = {s.table}
      BY <1>1, <3>2, NamedFacts
    <3> QED  BY <3>3
  <2> QED  BY <1>1, <2>1, DatabaseTypes, DatabaseFacts
<1>2. CASE s.action \in OfTables \cup {"RENAME_TABLE"}
  BY <1>2, DatabaseTypes, DatabaseFacts
<1> QED  BY <1>1, <1>2, StatementDomain

(* Audit and server mean the same tables by a statement that is not in      *)
(* doubt.                                                                   *)
LEMMA SameNames ==
  ASSUME TypeOK, SameDatabase, NEW s \in Statement, Resolved(s, database), s.action \notin OfSchema,
         ~InDoubt(s), NEW r \in Named(s)
  PROVE  /\ defaultSchema(r, current) = defaultSchema(r, Database(s, database))
         /\ defaultSchema(r, current) \in Ref \ doubt
<1> DEFINE own == Database(s, database)
           q == defaultSchema(r, own)
<1>1. q \in Ref /\ q \in NamedByAudit(s) /\ own \in Schemas
  BY AuditNames
<1>2. q \notin doubt
  BY <1>1 DEF InDoubt, NamedByEither
<1>3. r \in TableRef
  BY NamedType
<1>4. defaultSchema(r, current) = q
  <2>1. CASE r[1] # NoSchema
    BY <2>1 DEF defaultSchema
  <2>2. CASE r[1] = NoSchema
    <3>1. own = database
      BY <2>2, UnmixedDatabase DEF InDoubt
    <3>2. q = <<database, r[2]>> /\ r[2] \in Names
      BY <1>3, <2>2, <3>1 DEF defaultSchema, TableRef
    <3>3. q \in {database} \X Names
      BY <3>2
    <3>4. database = current
      BY <1>2, <3>3 DEF SameDatabase
    <3> QED  BY <3>1, <3>4
  <2> QED  BY <2>1, <2>2
<1> QED  BY <1>1, <1>2, <1>4

(* The server comes to know the schema of every name, or refuses.           *)
Known(s) == current # NoSchema \/ ServerResolves(s, current) = ServerResolves(s, CHOOSE x \in Schemas : TRUE)

LEMMA KnownFacts ==
  ASSUME TypeOK, NEW s \in Statement, Known(s), NEW y \in Schemas
  PROVE  \E x \in Schemas : ServerResolves(s, current) = ServerResolves(s, x)
<1>1. CASE current # NoSchema
  BY <1>1, DatabaseTypes DEF SchemaOrNone
<1>2. CASE current = NoSchema
  <2>1. (CHOOSE x \in Schemas : TRUE) \in Schemas
    OBVIOUS
  <2> QED  BY <1>2, <2>1 DEF Known
<1> QED  BY <1>1, <1>2

(* A name that is not in doubt is known.                                    *)
LEMMA SameNamesKnown ==
  ASSUME TypeOK, SameDatabase, NEW s \in Statement, s.action = "DML", Resolved(s, database), ~InDoubt(s)
  PROVE  Known(s)
<1>1. s.table \in Named(s) /\ Named(s) = {s.table} /\ s.action \in OfTable /\ s.action \notin OfSchema
  BY NamedFacts DEF OfTable, OfSchema, Alters
<1>2. s.table \in TableRef
  BY <1>1, StatementTable
<1>3. defaultSchema(s.table, current) \in Ref
  BY <1>1, SameNames
<1>4. CASE s.table[1] = NoSchema
  BY <1>3, <1>4, NoSchemaAssumption DEF defaultSchema, Known, Ref
<1>5. CASE s.table[1] # NoSchema
  <2>1. \A d : defaultSchema(s.table, d) = s.table
    BY <1>5 DEF defaultSchema
  <2>2. DOMAIN s = {"action", "table", "columns"}
    BY StatementKinds
  <2>3. \A d : ServerResolves(s, d) = [f \in DOMAIN s |-> IF f = "table" THEN s.table ELSE s[f]]
    BY <2>1, <2>2 DEF ServerResolves
  <2> QED  BY <2>3 DEF Known
<1> QED  BY <1>4, <1>5

----------------------------------------------------------------------------
(* What ApplyDDL does, action by action.                                    *)
LEMMA NoopFacts ==
  ASSUME NEW v, NEW a, a.action \notin {"CREATE_TABLE", "CREATE_TABLE_LIKE"}
  PROVE  ~Noop(v, a)
BY DEF Noop, Creates

LEMMA ApplyDDLNoop ==
  ASSUME NEW v, NEW a, Noop(v, a)
  PROVE  ApplyDDL(v, a) = Applied(v)
BY DEF ApplyDDL

LEMMA ApplyDDLCreateDatabase ==
  ASSUME NEW v, NEW a, a.action = "CREATE_DATABASE"
  PROVE  ApplyDDL(v, a) = Applied([v EXCEPT !.schemas = @ \cup {a.schema}])
<1>1. ~Noop(v, a)
  BY NoopFacts
<1> QED  BY <1>1 DEF ApplyDDL, Alters

LEMMA ApplyDDLDropDatabase ==
  ASSUME NEW v, NEW a, a.action = "DROP_DATABASE"
  PROVE  ApplyDDL(v, a) = Applied([v EXCEPT !.schemas = @ \ {a.schema}])
<1>1. ~Noop(v, a)
  BY NoopFacts
<1> QED  BY <1>1 DEF ApplyDDL, Alters

LEMMA ApplyDDLCreateTable ==
  ASSUME NEW v, NEW a, a.action = "CREATE_TABLE", ~Noop(v, a)
  PROVE  ApplyDDL(v, a) = Applied(With(v, a.table, aTable(a.columns, a.indexes)))
BY DEF ApplyDDL, Alters, tableFromSpec

LEMMA ApplyDDLCreateTableLike ==
  ASSUME NEW v, NEW a, a.action = "CREATE_TABLE_LIKE", ~Noop(v, a)
  PROVE  ApplyDDL(v, a) = Applied(With(v, a.table, aTable(v.objects[a.reference].columns,
                                                         v.objects[a.reference].indexes)))
BY DEF ApplyDDL, Alters, tableFromSpec

LEMMA ApplyDDLCreateView ==
  ASSUME NEW v, NEW a, a.action = "CREATE_VIEW"
  PROVE  ApplyDDL(v, a) = Applied(With(v, a.table, aView))
<1>1. ~Noop(v, a)
  BY NoopFacts
<1> QED  BY <1>1 DEF ApplyDDL, Alters

LEMMA ApplyDDLDrop ==
  ASSUME NEW v, NEW a, a.action \in OfTables
  PROVE  ApplyDDL(v, a) = Applied(Without(v, ToSet(a.tables)))
<1>1. ~Noop(v, a)
  BY NoopFacts DEF OfTables
<1> QED  BY <1>1 DEF ApplyDDL, Alters, OfTables

LEMMA ApplyDDLRename ==
  ASSUME NEW v, NEW a, a.action = "RENAME_TABLE"
  PROVE  ApplyDDL(v, a) = renamePairs(v, a.pairs)
<1>1. ~Noop(v, a)
  BY NoopFacts
<1> QED  BY <1>1 DEF ApplyDDL, Alters

LEMMA ApplyDDLTruncate ==
  ASSUME NEW v, NEW a, a.action = "TRUNCATE_TABLE"
  PROVE  ApplyDDL(v, a) = Applied(v)
<1>1. ~Noop(v, a)
  BY NoopFacts
<1> QED  BY <1>1 DEF ApplyDDL, Alters

LEMMA ApplyDDLAlter ==
  ASSUME NEW v, NEW a, Alters(a)
  PROVE  LET t == applyTableDDL([ref |-> a.table, object |-> v.objects[a.table]], a.ops)
         IN  /\ t = Absent => ApplyDDL(v, a) = [view |-> v, ok |-> FALSE]
             /\ t # Absent => ApplyDDL(v, a) = Applied(With(Without(v, {a.table}), t.ref, t.object))
<1>1. a.action \in {"ALTER_TABLE", "CREATE_INDEX", "DROP_INDEX"}
  BY DEF Alters
<1>2. ~Noop(v, a)
  BY <1>1 DEF Noop, Creates
<1> QED  BY <1>1, <1>2 DEF ApplyDDL, Alters

LEMMA AppliedFields ==
  ASSUME NEW v
  PROVE  Applied(v).view = v /\ Applied(v).ok
<1>1. Applied(v).view = v /\ Applied(v).ok = TRUE
  BY DEF Applied
<1> QED  BY <1>1, Zenon

LEMMA NewObjects ==
  /\ \A cs \in Seq(Columns), is \in Indexes : aTable(cs, is) \in Object
  /\ aView \in Object
<1>1. FALSE \in BOOLEAN /\ <<>> \in Seq(Columns)
  OBVIOUS
<1>2. NoIndexes \in [IndexNames -> Seq(Columns)]
  BY <1>1 DEF NoIndexes
<1> QED  BY <1>1, <1>2 DEF aTable, aView, Object, Indexes

(* The name the server gives to an altered table: its own or one named.     *)
LEMMA NewTableFacts ==
  ASSUME NEW r, NEW ops \in Seq(AlterOperation)
  PROVE  NewTable(r, ops) = r \/ \E i \in OpsOf(ops, {"RENAME_TABLE"}) : NewTable(r, ops) = ops[i].newTable
<1> DEFINE N == Len(ops)
           R == OpsOf(ops, {"RENAME_TABLE"})
           Latest(k, m) == m \in R /\ m <= k /\ \A i \in R : i <= k => i <= m
           P == {k \in 0 .. N : (\A i \in R : ~(i <= k)) \/ \E m \in R : Latest(k, m)}
<1>1. N \in Nat /\ R \subseteq 1 .. N
  BY DEF OpsOf
<1> HIDE DEF N, R
<1>2. 0 \in P
  BY <1>1
<1>3. ASSUME NEW k \in 0 .. N - 1, k \in P PROVE k + 1 \in P
  <2>1. k \in 0 .. N /\ k + 1 \in 0 .. N /\ \A i \in R : i <= k + 1 <=> (i <= k \/ i = k + 1)
    BY <1>1
  <2>2. CASE k + 1 \in R
    <3>1. Latest(k + 1, k + 1)
      BY <1>1, <2>1, <2>2
    <3> QED  BY <2>1, <2>2, <3>1
  <2>3. CASE k + 1 \notin R
    <3>1. \A i \in R : i <= k + 1 <=> i <= k
      BY <2>1, <2>3
    <3> QED  BY <1>3, <2>1, <3>1
  <2> QED  BY <2>2, <2>3
<1>4. N \in P
  <2> HIDE DEF P
  <2>1. \A k \in 0 .. N : k \in P
    BY <1>1, <1>2, <1>3, Induction
  <2> QED  BY <1>1, <2>1
<1>5. CASE R = {}
  BY <1>5 DEF NewTable, R
<1>6. CASE R # {}
  <2>0. \A i \in R : i <= N
    BY <1>1
  <2>1. PICK m \in R : \A i \in R : i <= m
    BY <1>4, <1>6, <2>0
  <2> DEFINE c == CHOOSE i \in R : \A j \in R : j <= i
  <2>2. c \in R
    BY <2>1
  <2>3. NewTable(r, ops) = ops[c].newTable
    BY <1>6 DEF NewTable, R
  <2> HIDE DEF c
  <2> QED  BY <2>2, <2>3 DEF R
<1> QED  BY <1>5, <1>6

(* So the altered table ends under a name that the statement has in it.     *)
LEMMA AlterNames ==
  ASSUME TypeOK, NEW s \in Statement, Alters(s)
  PROVE  LET ref == defaultSchema(s.table, current)
             to  == NewTable(ref, ResolveOps(s.ops, current))
         IN  to = ref \/ \E r \in Named(s) : to = defaultSchema(r, current)
<1> DEFINE ref == defaultSchema(s.table, current)
           ops == ResolveOps(s.ops, current)
           to == NewTable(ref, ops)
<1>1. s.ops \in Seq(AlterOperation)
  BY StatementKinds DEF OfTable, Alters
<1>2. current \in SchemaOrNone
  BY DatabaseTypes
<1>3. /\ ops \in Seq(AlterOperation) /\ DOMAIN ops = DOMAIN s.ops
      /\ \A i \in DOMAIN s.ops : ops[i].op = s.ops[i].op
      /\ \A i \in DOMAIN s.ops : s.ops[i].op = "RENAME_TABLE" => ops[i].newTable = defaultSchema(s.ops[i].newTable, current)
  BY <1>1, <1>2, ResolveOpsFacts
<1> HIDE DEF ops
<1>4. to = ref \/ \E i \in OpsOf(ops, {"RENAME_TABLE"}) : to = ops[i].newTable
  BY <1>3, NewTableFacts
<1> HIDE DEF to, ref
<1>5. CASE to # ref
  <2>1. PICK i \in OpsOf(ops, {"RENAME_TABLE"}) : to = ops[i].newTable
    BY <1>4, <1>5
  <2>2. i \in DOMAIN s.ops /\ s.ops[i].op = "RENAME_TABLE" /\ i \in OpsOf(s.ops, {"RENAME_TABLE"})
    BY <1>3, <2>1 DEF OpsOf
  <2>3. s.ops[i].newTable \in Named(s) /\ to = defaultSchema(s.ops[i].newTable, current)
    BY <1>3, <2>1, <2>2, NamedFacts
  <2> QED  BY <2>3 DEF ref, to, ops
<1> QED  BY <1>5 DEF ref, to, ops

(* The tables a statement of the batch may change in the view.              *)
MixedRefs(s) == {<<q[1], r[2]>> : q, r \in NamedByEither(s)}
MayTouch(s)  == NamedByAudit(s) \cup (IF MixedNames(s) THEN MixedRefs(s) ELSE {})

(* The name the view gives to it.                                           *)
LEMMA AuditNewName ==
  ASSUME TypeOK, NEW s \in Statement, Alters(s), Resolved(s, database),
         NEW q, Renames(defaultSchema(s.table, Database(s, database)), s.ops, q)
  PROVE  /\ ~MixedNames(s) => q[Len(s.ops)] = NewTable(defaultSchema(s.table, Database(s, database)),
                                                       ResolveOps(s.ops, Database(s, database)))
         /\ q[Len(s.ops)] \in MayTouch(s)
<1> DEFINE own == Database(s, database)
           ops == s.ops
           r == defaultSchema(s.table, own)
<1>1. s.action \in OfTable /\ s.action \notin OfSchema
  BY DEF OfTable, OfSchema, Alters
<1>2. ops \in Seq(AlterOperation)
  BY StatementKinds
<1>3. own \in SchemaOrNone /\ r[1] = own
  BY <1>1, DatabaseTypes, DatabaseFacts
<1>4. s.table \in Named(s) /\ \A i \in OpsOf(ops, {"RENAME_TABLE"}) : ops[i].newTable \in Named(s)
  BY <1>1, NamedFacts
<1>5. r \in Ref /\ r \in NamedByAudit(s)
  BY <1>1, <1>4, AuditNames
<1>6. \A i \in OpsOf(ops, {"RENAME_TABLE"}) : defaultSchema(ops[i].newTable, own) \in NamedByAudit(s)
  BY <1>1, <1>4, AuditNames
<1>7. DOMAIN ops = 1 .. Len(ops) /\ OpsOf(ops, {"RENAME_TABLE"}) = {i \in DOMAIN ops : ops[i].op = "RENAME_TABLE"}
  BY <1>2 DEF OpsOf
<1>8. s.table[1] = NoSchema \/ s.table[1] = own
  BY <1>1, DatabaseTypes, DatabaseFacts
<1> HIDE DEF own, ops, r
<1>9. Renames(r, ops, q)
  BY DEF own, ops, r
<1>10. CASE MixedNames(s)
  <2>1. \A i \in DOMAIN ops : ops[i].op = "RENAME_TABLE" => defaultSchema(ops[i].newTable, r[1]) \in NamedByEither(s)
    BY <1>3, <1>6, <1>7 DEF NamedByEither
  <2>2. r \in NamedByEither(s)
    BY <1>5 DEF NamedByEither
  <2>3. q[Len(ops)] \in {<<x[1], y[2]>> : x, y \in NamedByEither(s)}
    BY <1>2, <1>5, <1>9, <2>1, <2>2, RenamesWithin
  <2> QED  BY <1>10, <2>3 DEF MayTouch, MixedRefs, ops
<1>11. CASE ~MixedNames(s)
  <2>1. Unmixed(r, ops, own)
    <3>1. CASE \A i \in DOMAIN ops : ops[i].op = "RENAME_TABLE" => ops[i].newTable[1] # NoSchema
      BY <3>1 DEF Unmixed
    <3>2. CASE ~(\A i \in DOMAIN ops : ops[i].op = "RENAME_TABLE" => ops[i].newTable[1] # NoSchema)
      <4>1. PICK i \in DOMAIN ops : ops[i].op = "RENAME_TABLE" /\ ops[i].newTable[1] = NoSchema
        BY <3>2
      <4>2. ops[i].newTable \in Named(s)
        BY <1>4, <1>7, <4>1
      <4>3. \A p \in Named(s) : p[1] = NoSchema
        BY <1>11, <4>1, <4>2 DEF MixedNames
      <4>4. \A j \in DOMAIN ops : ops[j].op = "RENAME_TABLE" => ops[j].newTable[1] = NoSchema
        BY <1>4, <1>7, <4>3
      <4> QED  BY <1>3, <4>4 DEF Unmixed
    <3> QED  BY <3>1, <3>2
  <2>2. q[Len(ops)] = NewTable(r, ResolveOps(ops, own))
    BY <1>2, <1>3, <1>5, <1>9, <2>1, RenamesLast
  <2> DEFINE rops == ResolveOps(ops, own)
             new == NewTable(r, rops)
  <2>3. /\ rops \in Seq(AlterOperation) /\ DOMAIN rops = DOMAIN ops
        /\ \A i \in DOMAIN ops : rops[i].op = ops[i].op
        /\ \A i \in DOMAIN ops : ops[i].op = "RENAME_TABLE" => rops[i].newTable = defaultSchema(ops[i].newTable, own)
    BY <1>2, <1>3, ResolveOpsFacts
  <2> HIDE DEF rops
  <2>4. new = r \/ \E i \in OpsOf(rops, {"RENAME_TABLE"}) : new = rops[i].newTable
    BY <2>3, NewTableFacts
  <2> HIDE DEF new
  <2>5. new \in NamedByAudit(s)
    <3>1. CASE new = r
      BY <1>5, <3>1
    <3>2. CASE new # r
      <4>1. PICK i \in OpsOf(rops, {"RENAME_TABLE"}) : new = rops[i].newTable
        BY <2>4, <3>2
      <4>2. i \in DOMAIN ops /\ ops[i].op = "RENAME_TABLE"
        BY <2>3, <4>1 DEF OpsOf
      <4>3. new = defaultSchema(ops[i].newTable, own)
        BY <2>3, <4>1, <4>2
      <4> QED  BY <1>6, <1>7, <4>2, <4>3
    <3> QED  BY <3>1, <3>2
  <2> QED  BY <1>11, <2>2, <2>5 DEF MayTouch, new, rops, own, ops, r
<1> QED  BY <1>10, <1>11

(* What the audit may do to the view.                                       *)
Overlaid(s, r) ==
  /\ r.view \in Catalogs
  /\ r.ok \in BOOLEAN
  /\ r.ok /\ s.action \notin OfSchema => Only(view, r.view, MayTouch(s))
  /\ ~r.ok => r.view = view \/ NamesSourceTwice(resolveStatementDatabase(s, database))

LEMMA OverlaidApplied ==
  ASSUME NEW s, NEW c \in Catalogs, s.action \notin OfSchema => Only(view, c, MayTouch(s))
  PROVE  Overlaid(s, Applied(c))
<1>1. Applied(c).view = c /\ Applied(c).ok
  BY AppliedFields
<1>2. Applied(c).ok \in BOOLEAN
  BY <1>1, Zenon DEF Applied
<1> HIDE DEF Applied
<1> QED  BY <1>1, <1>2 DEF Overlaid

LEMMA OnlySame ==
  ASSUME NEW v, NEW D
  PROVE  Only(v, v, D)
BY DEF Only

LEMMA OnlyWith ==
  ASSUME NEW v \in Catalogs, NEW r \in Ref, NEW o \in Object \cup {Absent}, NEW D, r \in D
  PROVE  With(v, r, o) \in Catalogs /\ Only(v, With(v, r, o), D)
BY WithFacts DEF Only

LEMMA OnlyWithout ==
  ASSUME NEW v \in Catalogs, NEW rs, NEW D, rs \subseteq D
  PROVE  Without(v, rs) \in Catalogs /\ Only(v, Without(v, rs), D)
BY WithoutFacts DEF Only

LEMMA OnlyTwice ==
  ASSUME NEW u, NEW v, NEW w, NEW D, Only(u, v, D), Only(v, w, D)
  PROVE  Only(u, w, D)
BY DEF Only

LEMMA AuditAlter ==
  ASSUME TypeOK, NEW s \in Statement, Alters(s), Resolved(s, database),
         PrepareDDL(view, resolveStatementDatabase(s, database))
  PROVE  LET r == ApplyDDL(view, resolveStatementDatabase(s, database))
             ref == defaultSchema(s.table, Database(s, database))
             t == [ref |-> ref, object |-> view.objects[ref]]
         IN  /\ Exists(view, ref) /\ ref \in Ref /\ t \in Tables
             /\ applyTableDDL(t, s.ops) = Absent => r = [view |-> view, ok |-> FALSE]
             /\ applyTableDDL(t, s.ops) # Absent =>
                  /\ applyTableDDL(t, s.ops) \in Tables
                  /\ r = Applied(With(Without(view, {ref}), applyTableDDL(t, s.ops).ref, applyTableDDL(t, s.ops).object))
             /\ Overlaid(s, r)
<1> DEFINE a == resolveStatementDatabase(s, database)
           r == ApplyDDL(view, a)
           ref == defaultSchema(s.table, Database(s, database))
           t == [ref |-> ref, object |-> view.objects[ref]]
           u == applyTableDDL(t, s.ops)
<1>1. s.action \in OfTable /\ s.action \notin OfSchema /\ s.action \in {"ALTER_TABLE", "CREATE_INDEX", "DROP_INDEX"}
  BY DEF OfTable, OfSchema, Alters
<1>2. s.table \in Named(s) /\ s.ops \in Seq(AlterOperation)
  BY <1>1, NamedFacts, StatementKinds
<1>3. ref \in Ref /\ ref \in NamedByAudit(s)
  BY <1>1, <1>2, AuditNames
<1>4. a.action = s.action /\ a.table = ref
  BY <1>1, DatabaseTypes, AuditFields
<1>5. a.ops = s.ops
  <2>1. "ops" \in DOMAIN s \ {"table", "reference", "tables", "pairs"}
    BY StatementDomain
  <2> QED  BY <2>1, DatabaseTypes, AuditFields
<1> HIDE DEF a, ref
<1>6. Alters(a)
  BY <1>4 DEF Alters
<1>7. Exists(view, ref)
  <2>1. ~Noop(view, a)
    BY <1>1, <1>4 DEF Noop, Creates
  <2>2. ~ifExists(a)
    BY <1>1, <1>4 DEF ifExists
  <2>3. affectedTables(a) = {a.table}
    BY <1>1, <1>4, <1>6 DEF affectedTables, Alters
  <2> QED  BY <1>4, <2>1, <2>2, <2>3 DEF PrepareDDL, a
<1>8. view \in Catalogs /\ view.objects[ref] \in Object
  BY <1>3, <1>7, CatalogFields DEF TypeOK
<1>9. t \in Tables /\ t.ref = ref
  BY <1>3, <1>8 DEF Tables
<1>10. /\ u = Absent => r = [view |-> view, ok |-> FALSE]
       /\ u # Absent => r = Applied(With(Without(view, {ref}), u.ref, u.object))
  BY <1>4, <1>5, <1>6, ApplyDDLAlter
<1> HIDE DEF t, r, u
<1>11. CASE u = Absent
  <2>1. r = [view |-> view, ok |-> FALSE]
    BY <1>10, <1>11
  <2>2. r.view = view /\ r.ok = FALSE
    BY <2>1
  <2>3. ~r.ok /\ r.ok \in BOOLEAN
    BY <2>2, Zenon
  <2>4. Overlaid(s, r)
    BY <1>8, <2>2, <2>3 DEF Overlaid
  <2> QED  BY <1>3, <1>7, <1>9, <1>10, <1>11, <2>4 DEF a, r, ref, t, u
<1>12. CASE u # Absent
  <2>1. u \in Tables /\ \E q : Renames(t.ref, s.ops, q) /\ u.ref = q[Len(s.ops)]
    BY <1>2, <1>9, <1>12, AlteringExists DEF u
  <2>2. PICK q : Renames(ref, s.ops, q) /\ u.ref = q[Len(s.ops)]
    BY <1>9, <2>1
  <2>3. u.ref \in MayTouch(s)
    BY <2>2, AuditNewName DEF ref
  <2>4. u.ref \in Ref /\ u.object \in Object
    BY <2>1 DEF Tables
  <2>5. {ref} \subseteq MayTouch(s)
    BY <1>3 DEF MayTouch
  <2> DEFINE b == Without(view, {ref})
             c == With(b, u.ref, u.object)
  <2>6. b \in Catalogs /\ Only(view, b, MayTouch(s))
    BY <1>8, <2>5, OnlyWithout
  <2> HIDE DEF b
  <2>7. c \in Catalogs /\ Only(b, c, MayTouch(s))
    BY <2>3, <2>4, <2>6, OnlyWith
  <2> HIDE DEF c
  <2>8. Only(view, c, MayTouch(s))
    BY <2>6, <2>7, OnlyTwice
  <2>9. Overlaid(s, Applied(c))
    BY <2>7, <2>8, OverlaidApplied
  <2>10. r = Applied(c)
    BY <1>10, <1>12 DEF b, c
  <2> QED  BY <1>3, <1>7, <1>9, <1>10, <1>12, <2>1, <2>9, <2>10 DEF a, r, ref, t, u
<1> QED  BY <1>11, <1>12

LEMMA AuditRename ==
  ASSUME TypeOK, NEW s \in Statement, s.action = "RENAME_TABLE", Resolved(s, database),
         PrepareDDL(view, resolveStatementDatabase(s, database))
  PROVE  LET a == resolveStatementDatabase(s, database)
         IN  /\ a.pairs \in Seq(Pairs)
             /\ ApplyDDL(view, a) = renamePairs(view, a.pairs)
             /\ Overlaid(s, ApplyDDL(view, a))
<1> DEFINE own == Database(s, database)
           a == resolveStatementDatabase(s, database)
           r == ApplyDDL(view, a)
<1>1. s.action \notin OfSchema /\ s.action \notin OfTables
  BY DEF OfSchema, OfTables
<1>2. s.pairs \in Seq([from : TableRef, to : TableRef])
  BY StatementKinds
<1>3. a.action = s.action /\ a.pairs = [i \in DOMAIN s.pairs |-> ResolvePair(s.pairs[i], own)]
  BY DatabaseTypes, AuditFields
<1>4. \A i \in DOMAIN s.pairs : s.pairs[i].from \in Named(s) /\ s.pairs[i].to \in Named(s)
  BY NamedFacts
<1>5. ASSUME NEW i \in DOMAIN s.pairs
      PROVE  /\ a.pairs[i] \in Pairs
             /\ a.pairs[i].from \in MayTouch(s) /\ a.pairs[i].to \in MayTouch(s)
  <2>1. /\ defaultSchema(s.pairs[i].from, own) \in Ref /\ defaultSchema(s.pairs[i].from, own) \in NamedByAudit(s)
        /\ defaultSchema(s.pairs[i].to, own) \in Ref /\ defaultSchema(s.pairs[i].to, own) \in NamedByAudit(s)
    BY <1>1, <1>4, AuditNames
  <2>2. a.pairs[i] = [from |-> defaultSchema(s.pairs[i].from, own), to |-> defaultSchema(s.pairs[i].to, own)]
    BY <1>3 DEF ResolvePair
  <2> QED  BY <2>1, <2>2 DEF Pairs, MayTouch
<1>6. Len(s.pairs) \in Nat /\ DOMAIN s.pairs = 1 .. Len(s.pairs) /\ DOMAIN a.pairs = 1 .. Len(s.pairs)
  BY <1>2, <1>3
<1> HIDE DEF a, own
<1>7. a.pairs \in Seq(Pairs)
  <2>1. a.pairs \in [1 .. Len(s.pairs) -> Pairs]
    <3>1. a.pairs = [i \in 1 .. Len(s.pairs) |-> a.pairs[i]]
      BY <1>3, <1>6
    <3> QED  BY <1>5, <1>6, <3>1
  <2> QED  BY <1>6, <2>1, SeqDef
<1>8. r = renamePairs(view, a.pairs)
  <2>1. a.action = "RENAME_TABLE"
    BY <1>3
  <2> QED  BY <2>1, ApplyDDLRename
<1>9. view \in Catalogs
  BY DEF TypeOK
<1> HIDE DEF r
<1>10. /\ r.view \in Catalogs /\ r.ok \in BOOLEAN
       /\ r.ok => \E c : Moving(view, a.pairs, c) /\ r.view = c[Len(a.pairs)]
  BY <1>7, <1>8, <1>9, renamePairsExists
<1>11. ASSUME r.ok PROVE Only(view, r.view, MayTouch(s))
  <2>1. PICK c : Moving(view, a.pairs, c) /\ r.view = c[Len(a.pairs)]
    BY <1>10, <1>11
  <2>2. \A n \in DOMAIN a.pairs : a.pairs[n].from \in MayTouch(s) /\ a.pairs[n].to \in MayTouch(s)
    BY <1>5, <1>6
  <2>3. Only(view, c[Len(a.pairs)], MayTouch(s))
    BY <1>7, <1>9, <2>1, <2>2, MovingOnly
  <2> QED  BY <2>1, <2>3
<1>12. ASSUME ~r.ok PROVE NamesSourceTwice(a)
  <2>1. \A n \in DOMAIN a.pairs : Exists(view, a.pairs[n].from)
    <3>1. ~Noop(view, a) /\ ~ifExists(a)
      BY <1>3 DEF Noop, Creates, ifExists
    <3>2. affectedTables(a) = {a.pairs[i].from : i \in DOMAIN a.pairs}
      BY <1>3 DEF affectedTables, Alters
    <3> QED  BY <3>1, <3>2 DEF PrepareDDL, a
  <2>2. ~ \A m, n \in DOMAIN a.pairs : m # n => a.pairs[m].from # a.pairs[n].from
    <3> SUFFICES ASSUME \A m, n \in DOMAIN a.pairs : m # n => a.pairs[m].from # a.pairs[n].from PROVE FALSE
      OBVIOUS
    <3>1. renamePairs(view, a.pairs).ok
      BY <1>7, <1>9, <2>1, RenameFits
    <3> QED  BY <1>8, <1>12, <3>1
  <2> QED  BY <1>3, <2>2 DEF NamesSourceTwice
<1>13. Overlaid(s, r)
  BY <1>10, <1>11, <1>12 DEF Overlaid, a
<1> QED  BY <1>7, <1>8, <1>13 DEF a, r

LEMMA SchemasFacts ==
  ASSUME NEW v \in Catalogs, NEW S, S \subseteq Schemas
  PROVE  /\ [v EXCEPT !.schemas = S] \in Catalogs
         /\ [v EXCEPT !.schemas = S].schemas = S
         /\ [v EXCEPT !.schemas = S].objects = v.objects
BY DEF Catalogs

LEMMA AuditSchema ==
  ASSUME TypeOK, NEW s \in Statement, s.action \in {"CREATE_DATABASE", "DROP_DATABASE"}
  PROVE  LET r == ApplyDDL(view, resolveStatementDatabase(s, database))
         IN  /\ Overlaid(s, r) /\ r.ok
             /\ r.view.objects = view.objects
             /\ r.view.schemas = IF s.action = "CREATE_DATABASE" THEN view.schemas \cup {s.schema}
                                 ELSE view.schemas \ {s.schema}
<1> DEFINE a == resolveStatementDatabase(s, database)
           r == ApplyDDL(view, a)
           S == IF s.action = "CREATE_DATABASE" THEN view.schemas \cup {s.schema} ELSE view.schemas \ {s.schema}
           c == [view EXCEPT !.schemas = S]
<1>1. s.action \in OfSchema /\ s.schema \in Schemas
  BY StatementTable DEF OfSchema
<1>2. a.action = s.action
  BY DatabaseTypes, AuditFields
<1>3. a.schema = s.schema
  <2>1. "schema" \in DOMAIN s \ {"table", "reference", "tables", "pairs"}
    BY <1>1, StatementDomain
  <2> QED  BY <2>1, DatabaseTypes, AuditFields
<1>4. view \in Catalogs /\ view.schemas \subseteq Schemas
  BY CatalogFields DEF TypeOK
<1>5. S \subseteq Schemas
  BY <1>1, <1>4
<1> HIDE DEF a
<1>6. r = Applied(c)
  <2>1. CASE s.action = "CREATE_DATABASE"
    <3>1. ApplyDDL(view, a) = Applied([view EXCEPT !.schemas = @ \cup {a.schema}])
      <4>1. a.action = "CREATE_DATABASE"
        BY <1>2, <2>1
      <4> QED  BY <4>1, ApplyDDLCreateDatabase
    <3> QED  BY <1>3, <2>1, <3>1
  <2>2. CASE s.action = "DROP_DATABASE"
    <3>1. ApplyDDL(view, a) = Applied([view EXCEPT !.schemas = @ \ {a.schema}])
      <4>1. a.action = "DROP_DATABASE"
        BY <1>2, <2>2
      <4> QED  BY <4>1, ApplyDDLDropDatabase
    <3> QED  BY <1>3, <2>2, <3>1
  <2> QED  BY <2>1, <2>2
<1> HIDE DEF S, r
<1>7. c \in Catalogs /\ c.schemas = S /\ c.objects = view.objects
  BY <1>4, <1>5, SchemasFacts
<1> HIDE DEF c
<1>8. Overlaid(s, Applied(c))
  BY <1>1, <1>7, OverlaidApplied
<1>9. r.ok /\ r.view = c
  BY <1>6, AppliedFields
<1> QED  BY <1>6, <1>7, <1>8, <1>9 DEF S, r, a

LEMMA AuditTable ==
  ASSUME TypeOK, NEW s \in Statement, s.action \in {"CREATE_TABLE", "CREATE_TABLE_LIKE", "CREATE_VIEW", "TRUNCATE_TABLE"},
         Resolved(s, database), PrepareDDL(view, resolveStatementDatabase(s, database))
  PROVE  LET r == ApplyDDL(view, resolveStatementDatabase(s, database))
             ref == defaultSchema(s.table, Database(s, database))
             like == view.objects[defaultSchema(s.reference, Database(s, database))]
             old == Exists(view, ref)
         IN  /\ Overlaid(s, r) /\ r.ok
             /\ old => r.view = view
             /\ ~old /\ s.action = "CREATE_TABLE" => r.view = With(view, ref, aTable(s.columns, s.indexes))
             /\ ~old /\ s.action = "CREATE_TABLE_LIKE" => r.view = With(view, ref, aTable(like.columns, like.indexes))
             /\ s.action = "CREATE_VIEW" => r.view = With(view, ref, aView) /\ ~old
             /\ s.action = "TRUNCATE_TABLE" => r.view = view /\ old
             /\ s.action \in {"CREATE_TABLE", "CREATE_TABLE_LIKE"} => ~old \/ s.ifNotExists
<1> DEFINE own == Database(s, database)
           a == resolveStatementDatabase(s, database)
           r == ApplyDDL(view, a)
           ref == defaultSchema(s.table, own)
           like == view.objects[defaultSchema(s.reference, own)]
           old == Exists(view, ref)
           known == DOMAIN s \ {"table", "reference", "tables", "pairs"}
<1>1. s.action \in OfTable /\ s.action \notin OfSchema
  BY DEF OfTable, OfSchema
<1>2. ref \in Ref /\ ref \in MayTouch(s) /\ own \in Schemas
  <2>1. s.table \in Named(s)
    BY <1>1, NamedFacts
  <2> QED  BY <1>1, <2>1, AuditNames DEF MayTouch
<1>3. a.action = s.action /\ a.table = ref /\ \A f \in known : a[f] = s[f]
  BY <1>1, DatabaseTypes, AuditFields
<1>4. view \in Catalogs
  BY DEF TypeOK
<1>5. Applied(view).view = view /\ Applied(view).ok
  BY AppliedFields
<1>6. Overlaid(s, Applied(view))
  BY <1>4, OnlySame, OverlaidApplied
<1>7. CASE s.action \in {"CREATE_TABLE", "CREATE_TABLE_LIKE"}
  <2>1. a.ifNotExists = s.ifNotExists
    <3>1. "ifNotExists" \in DOMAIN s
      BY <1>7, StatementKinds
    <3> QED  BY <1>3, <3>1
  <2>2. Noop(view, a) <=> s.ifNotExists /\ old
    BY <1>3, <1>7, <2>1 DEF Noop, Creates
  <2>3. ~Noop(view, a) => ~old
    BY <1>3, <1>7 DEF PrepareDDL, Creates
  <2> HIDE DEF a, own
  <2>4. CASE Noop(view, a)
    <3>1. r = Applied(view)
      BY <2>4, ApplyDDLNoop
    <3>2. r.ok /\ r.view = view /\ Overlaid(s, r) /\ old /\ s.ifNotExists
      BY <1>5, <1>6, <2>2, <2>4, <3>1
    <3> QED  BY <1>7, <3>2 DEF a, own
  <2>5. CASE ~Noop(view, a) /\ s.action = "CREATE_TABLE"
    <3>1. a.columns = s.columns /\ a.indexes = s.indexes
      <4>1. "columns" \in known /\ "indexes" \in known
        BY <2>5, StatementKinds
      <4> QED  BY <1>3, <4>1
    <3>2. aTable(s.columns, s.indexes) \in Object
      <4>1. s.columns \in Seq(Columns) /\ s.indexes \in Indexes
        BY <2>5, StatementKinds DEF Indexes
      <4> QED  BY <4>1, NewObjects
    <3> DEFINE c == With(view, ref, aTable(s.columns, s.indexes))
    <3>3. r = Applied(c)
      <4>1. ApplyDDL(view, a) = Applied(With(view, a.table, aTable(a.columns, a.indexes)))
        <5>1. a.action = "CREATE_TABLE" /\ ~Noop(view, a)
          BY <1>3, <2>5
        <5> QED  BY <5>1, ApplyDDLCreateTable
      <4> QED  BY <1>3, <3>1, <4>1
    <3>4. c \in Catalogs /\ Only(view, c, MayTouch(s))
      BY <1>2, <1>4, <3>2, OnlyWith
    <3> HIDE DEF c, r
    <3>5. Overlaid(s, r) /\ r.ok /\ r.view = c
      BY <3>3, <3>4, OverlaidApplied, AppliedFields
    <3> QED  BY <2>3, <2>5, <3>5 DEF a, own, c, r
  <2>6. CASE ~Noop(view, a) /\ s.action = "CREATE_TABLE_LIKE"
    <3>1. a.reference = defaultSchema(s.reference, own)
      BY <2>6, DatabaseTypes, AuditFields DEF a, own
    <3>2. Exists(view, a.reference)
      BY <1>3, <2>6 DEF PrepareDDL, a
    <3>3. a.reference \in Ref
      <4>1. s.reference \in Named(s)
        BY <2>6, NamedFacts
      <4> QED  BY <1>1, <3>1, <4>1, AuditNames DEF own
    <3>4. like \in Object
      BY <1>4, <3>1, <3>2, <3>3, CatalogFields
    <3>5. aTable(like.columns, like.indexes) \in Object
      BY <3>4, ObjectFields, NewObjects DEF Indexes
    <3> DEFINE c == With(view, ref, aTable(like.columns, like.indexes))
    <3>6. r = Applied(c)
      <4>1. ApplyDDL(view, a) = Applied(With(view, a.table, aTable(view.objects[a.reference].columns,
                                                                   view.objects[a.reference].indexes)))
        <5>1. a.action = "CREATE_TABLE_LIKE" /\ ~Noop(view, a)
          BY <1>3, <2>6
        <5> QED  BY <5>1, ApplyDDLCreateTableLike
      <4> QED  BY <1>3, <3>1, <4>1
    <3> HIDE DEF like
    <3>7. c \in Catalogs /\ Only(view, c, MayTouch(s))
      BY <1>2, <1>4, <3>5, OnlyWith
    <3> HIDE DEF c, r
    <3>8. Overlaid(s, r) /\ r.ok /\ r.view = c
      BY <3>6, <3>7, OverlaidApplied, AppliedFields
    <3> QED  BY <2>3, <2>6, <3>8 DEF a, own, c, r, like
  <2> QED  BY <1>7, <2>4, <2>5, <2>6
<1>8. CASE s.action = "CREATE_VIEW"
  <2>1. ~old
    BY <1>3, <1>8 DEF PrepareDDL, Creates, Noop
  <2> DEFINE c == With(view, ref, aView)
  <2> HIDE DEF a, own
  <2>2. r = Applied(c)
    <3>1. ApplyDDL(view, a) = Applied(With(view, a.table, aView))
      <4>1. a.action = "CREATE_VIEW"
        BY <1>3, <1>8
      <4> QED  BY <4>1, ApplyDDLCreateView
    <3> QED  BY <1>3, <3>1
  <2>3. c \in Catalogs /\ Only(view, c, MayTouch(s))
    BY <1>2, <1>4, NewObjects, OnlyWith
  <2> HIDE DEF c, r
  <2>4. Overlaid(s, r) /\ r.ok /\ r.view = c
    BY <2>2, <2>3, OverlaidApplied, AppliedFields
  <2> QED  BY <1>8, <2>1, <2>4 DEF a, own, c, r
<1>9. CASE s.action = "TRUNCATE_TABLE"
  <2>1. old
    <3>1. ~Noop(view, a) /\ ~ifExists(a)
      BY <1>3, <1>9 DEF Noop, Creates, ifExists
    <3>2. affectedTables(a) = {a.table}
      BY <1>3, <1>9 DEF affectedTables, Alters
    <3> HIDE DEF a, ref
    <3> QED  BY <1>3, <3>1, <3>2 DEF PrepareDDL, a
  <2> HIDE DEF a, own
  <2>2. r = Applied(view)
    <3>1. a.action = "TRUNCATE_TABLE"
      BY <1>3, <1>9
    <3> QED  BY <3>1, ApplyDDLTruncate
  <2>3. Overlaid(s, r) /\ r.ok /\ r.view = view
    BY <1>5, <1>6, <2>2
  <2> QED  BY <1>9, <2>1, <2>3 DEF a, own
<1> QED  BY <1>7, <1>8, <1>9

LEMMA AuditDrop ==
  ASSUME TypeOK, NEW s \in Statement, s.action \in OfTables, Resolved(s, database)
  PROVE  LET a == resolveStatementDatabase(s, database)
             r == ApplyDDL(view, a)
         IN  /\ Overlaid(s, r) /\ r.ok
             /\ ToSet(a.tables) = NamedByAudit(s)
             /\ r.view = Without(view, NamedByAudit(s))
<1> DEFINE own == Database(s, database)
           a == resolveStatementDatabase(s, database)
           r == ApplyDDL(view, a)
<1>1. s.action \notin OfSchema
  BY DEF OfTables, OfSchema
<1>2. a.action = s.action /\ a.tables = [i \in DOMAIN s.tables |-> defaultSchema(s.tables[i], own)]
  BY DatabaseTypes, AuditFields
<1>3. Named(s) = ToSet(s.tables)
  BY NamedFacts
<1>4. ToSet(a.tables) = NamedByAudit(s)
  BY <1>2, <1>3 DEF ToSet, NamedByAudit
<1>5. NamedByAudit(s) \subseteq MayTouch(s) /\ view \in Catalogs
  BY DEF MayTouch, TypeOK
<1> HIDE DEF a
<1>6. r = Applied(Without(view, ToSet(a.tables)))
  <2>1. a.action \in OfTables
    BY <1>2
  <2> QED  BY <2>1, ApplyDDLDrop
<1> DEFINE c == Without(view, NamedByAudit(s))
<1>7. r = Applied(c)
  BY <1>4, <1>6
<1>8. c \in Catalogs /\ Only(view, c, MayTouch(s))
  BY <1>5, OnlyWithout
<1> HIDE DEF c, r
<1>9. Overlaid(s, r) /\ r.ok /\ r.view = c
  BY <1>7, <1>8, OverlaidApplied, AppliedFields
<1> QED  BY <1>4, <1>9 DEF a, r, c

LEMMA AuditOverlaid ==
  ASSUME TypeOK, NEW s \in Statement, s.action \notin {"USE", "DML"}, Resolved(s, database),
         PrepareDDL(view, resolveStatementDatabase(s, database))
  PROVE  Overlaid(s, ApplyDDL(view, resolveStatementDatabase(s, database)))
<1>1. CASE s.action \in {"CREATE_DATABASE", "DROP_DATABASE"}
  BY <1>1, AuditSchema
<1>2. CASE s.action \in {"CREATE_TABLE", "CREATE_TABLE_LIKE", "CREATE_VIEW", "TRUNCATE_TABLE"}
  BY <1>2, AuditTable
<1>3. CASE s.action \in OfTables
  BY <1>3, AuditDrop
<1>4. CASE s.action = "RENAME_TABLE"
  BY <1>4, AuditRename
<1>5. CASE Alters(s)
  BY <1>5, AuditAlter
<1> QED  BY <1>1, <1>2, <1>3, <1>4, <1>5, StatementDomain DEF OfTable, OfSchema, OfTables, Alters

----------------------------------------------------------------------------
(* What the server does, action by action.                                  *)
LEMMA AcceptsTable ==
  ASSUME NEW w, NEW t, Accepts(w, t)
  PROVE  /\ t.action = "CREATE_TABLE" =>
              t.table[1] \in w.schemas /\ IsInjective(t.columns) /\ (t.ifNotExists \/ ~Exists(w, t.table))
         /\ t.action = "CREATE_TABLE_LIKE" =>
              t.table[1] \in w.schemas /\ IsTable(w, t.reference) /\ (t.ifNotExists \/ ~Exists(w, t.table))
         /\ t.action = "CREATE_VIEW" => t.table[1] \in w.schemas /\ ~Exists(w, t.table)
         /\ t.action = "TRUNCATE_TABLE" => IsTable(w, t.table)
<1>1. t.action = "CREATE_TABLE" =>
        t.table[1] \in w.schemas /\ IsInjective(t.columns) /\ (t.ifNotExists \/ ~Exists(w, t.table))
  BY DEF Accepts, Alters
<1>2. t.action = "CREATE_TABLE_LIKE" =>
        t.table[1] \in w.schemas /\ IsTable(w, t.reference) /\ (t.ifNotExists \/ ~Exists(w, t.table))
  BY DEF Accepts, Alters
<1>3. t.action = "CREATE_VIEW" => t.table[1] \in w.schemas /\ ~Exists(w, t.table)
  BY DEF Accepts, Alters
<1>4. t.action = "TRUNCATE_TABLE" => IsTable(w, t.table)
  BY DEF Accepts, Alters
<1> QED  BY <1>1, <1>2, <1>3, <1>4

LEMMA AcceptsDrop ==
  ASSUME NEW w, NEW t, Accepts(w, t)
  PROVE  /\ t.action = "DROP_TABLE" => t.ifExists \/ \A i \in DOMAIN t.tables : IsTable(w, t.tables[i])
         /\ t.action = "DROP_VIEW" => \A i \in DOMAIN t.tables :
                                        IsView(w, t.tables[i]) \/ (t.ifExists /\ ~Exists(w, t.tables[i]))
<1>1. t.action = "DROP_TABLE" => t.ifExists \/ \A i \in DOMAIN t.tables : IsTable(w, t.tables[i])
  BY DEF Accepts, Alters
<1>2. t.action = "DROP_VIEW" => \A i \in DOMAIN t.tables :
                                  IsView(w, t.tables[i]) \/ (t.ifExists /\ ~Exists(w, t.tables[i]))
  BY DEF Accepts, Alters
<1> QED  BY <1>1, <1>2

LEMMA AcceptsRename ==
  ASSUME NEW w, NEW t, Accepts(w, t), t.action = "RENAME_TABLE"
  PROVE  Renamed(w, t.pairs) # Absent
BY DEF Accepts, Alters

LEMMA AcceptsAlter ==
  ASSUME NEW w, NEW t, Accepts(w, t), Alters(t)
  PROVE  IsTable(w, t.table) /\ AltersColumns(w.objects[t.table].columns, t.ops)
<1>1. t.action \in {"ALTER_TABLE", "CREATE_INDEX", "DROP_INDEX"}
  BY DEF Alters
<1> QED  BY <1>1 DEF Accepts, Alters

LEMMA EffectUse ==
  ASSUME NEW w, NEW t, t.action \in {"USE", "DML"}
  PROVE  Effect(w, t) = w
BY DEF Effect, Alters

LEMMA EffectCreateDatabase ==
  ASSUME NEW w, NEW t, t.action = "CREATE_DATABASE"
  PROVE  Effect(w, t) = [w EXCEPT !.schemas = @ \cup {t.schema}]
BY DEF Effect, Alters

LEMMA EffectDropDatabase ==
  ASSUME NEW w, NEW t, t.action = "DROP_DATABASE"
  PROVE  Effect(w, t) = [schemas |-> w.schemas \ {t.schema}, objects |-> Without(w, {t.schema} \X Names).objects]
BY DEF Effect, Alters

LEMMA EffectCreateTable ==
  ASSUME NEW w, NEW t, t.action = "CREATE_TABLE"
  PROVE  Effect(w, t) = IF Exists(w, t.table) THEN w ELSE With(w, t.table, aTable(t.columns, AllIndexes(t)))
BY DEF Effect, Alters

LEMMA EffectCreateTableLike ==
  ASSUME NEW w, NEW t, t.action = "CREATE_TABLE_LIKE"
  PROVE  Effect(w, t) = IF Exists(w, t.table) THEN w
                        ELSE With(w, t.table, [w.objects[t.reference] EXCEPT !.rows = FALSE])
BY DEF Effect, Alters

LEMMA EffectCreateView ==
  ASSUME NEW w, NEW t, t.action = "CREATE_VIEW"
  PROVE  Effect(w, t) = With(w, t.table, aView)
BY DEF Effect, Alters

LEMMA EffectTruncate ==
  ASSUME NEW w, NEW t, t.action = "TRUNCATE_TABLE"
  PROVE  Effect(w, t) = With(w, t.table, [w.objects[t.table] EXCEPT !.rows = FALSE])
BY DEF Effect, Alters

LEMMA EffectDropTable ==
  ASSUME NEW w, NEW t, t.action = "DROP_TABLE"
  PROVE  Effect(w, t) = Without(w, {r \in ToSet(t.tables) : IsTable(w, r)})
BY DEF Effect, Alters

LEMMA EffectDropView ==
  ASSUME NEW w, NEW t, t.action = "DROP_VIEW"
  PROVE  Effect(w, t) = Without(w, ToSet(t.tables))
BY DEF Effect, Alters

LEMMA EffectRename ==
  ASSUME NEW w, NEW t, t.action = "RENAME_TABLE"
  PROVE  Effect(w, t) = Renamed(w, t.pairs)
BY DEF Effect, Alters

Alteration(o, ops) == [o EXCEPT !.columns = AlteredColumns(o.columns, ops), !.indexes = AlteredIndexes(o.indexes, ops)]

LEMMA EffectAlter ==
  ASSUME NEW w, NEW t, Alters(t)
  PROVE  Effect(w, t) = With(Without(w, {t.table}), NewTable(t.table, t.ops), Alteration(w.objects[t.table], t.ops))
<1>1. t.action \in {"ALTER_TABLE", "CREATE_INDEX", "DROP_INDEX"}
  BY DEF Alters
<1> QED  BY <1>1 DEF Effect, Alters, Alteration

(* The names in a statement whose schemas the server knows.                 *)
LEMMA KnownNames ==
  ASSUME TypeOK, NEW s \in Statement, Known(s), Schemas # {}
  PROVE  \A r \in Named(s) : defaultSchema(r, current) \in Ref
<1> SUFFICES ASSUME NEW r \in Named(s) PROVE defaultSchema(r, current) \in Ref
  OBVIOUS
<1>1. PICK x \in Schemas : ServerResolves(s, current) = ServerResolves(s, x)
  BY KnownFacts
<1>2. \A p \in TableRef : defaultSchema(p, x) \in Ref
  BY ResolveType DEF SchemaOrNone
<1> DEFINE t == ServerResolves(s, current)
           u == ServerResolves(s, x)
<1>3. CASE s.action \in OfTable
  <2>1. t.table = defaultSchema(s.table, current) /\ u.table = defaultSchema(s.table, x)
    BY <1>3, ServerFields
  <2>2. s.table \in TableRef
    BY <1>3, StatementTable
  <2>3. defaultSchema(s.table, current) \in Ref
    BY <1>1, <1>2, <2>1, <2>2
  <2>4. CASE r = s.table
    BY <2>3, <2>4
  <2>5. CASE r # s.table /\ Alters(s)
    <3>1. PICK i \in OpsOf(s.ops, {"RENAME_TABLE"}) : r = s.ops[i].newTable
      BY <2>5, NamedFacts
    <3>2. s.ops \in Seq(AlterOperation) /\ i \in DOMAIN s.ops /\ s.ops[i].op = "RENAME_TABLE"
      BY <2>5, <3>1, StatementKinds DEF OpsOf
    <3>3. t.ops = ResolveOps(s.ops, current) /\ u.ops = ResolveOps(s.ops, x)
      BY <2>5, ServerFields
    <3>4. ResolveOps(s.ops, current)[i].newTable = defaultSchema(r, current)
      BY <3>1, <3>2, DatabaseTypes, ResolveOpsFacts
    <3>5. ResolveOps(s.ops, x)[i].newTable = defaultSchema(r, x)
      BY <3>1, <3>2, ResolveOpsFacts DEF SchemaOrNone
    <3>6. r \in TableRef
      BY NamedType
    <3> QED  BY <1>1, <1>2, <3>3, <3>4, <3>5, <3>6
  <2>6. CASE r # s.table /\ ~Alters(s)
    <3>1. s.action = "CREATE_TABLE_LIKE" /\ r = s.reference
      BY <1>3, <2>6, NamedFacts
    <3>2. t.reference = defaultSchema(r, current) /\ u.reference = defaultSchema(r, x)
      BY <3>1, ServerFields
    <3>3. r \in TableRef
      BY NamedType
    <3> QED  BY <1>1, <1>2, <3>2, <3>3
  <2> QED  BY <2>4, <2>5, <2>6
<1>4. CASE s.action \in OfTables
  <2>1. PICK i \in DOMAIN s.tables : r = s.tables[i]
    BY <1>4, NamedFacts DEF ToSet
  <2>2. /\ t.tables = [j \in DOMAIN s.tables |-> defaultSchema(s.tables[j], current)]
        /\ u.tables = [j \in DOMAIN s.tables |-> defaultSchema(s.tables[j], x)]
    BY <1>4, ServerFields
  <2>3. t.tables[i] = defaultSchema(r, current) /\ u.tables[i] = defaultSchema(r, x)
    BY <2>1, <2>2
  <2>4. r \in TableRef
    BY NamedType
  <2> QED  BY <1>1, <1>2, <2>3, <2>4
<1>5. CASE s.action = "RENAME_TABLE"
  <2>1. PICK i \in DOMAIN s.pairs : r \in {s.pairs[i].from, s.pairs[i].to}
    BY <1>5, NamedFacts
  <2>2. /\ t.pairs = [j \in DOMAIN s.pairs |-> ResolvePair(s.pairs[j], current)]
        /\ u.pairs = [j \in DOMAIN s.pairs |-> ResolvePair(s.pairs[j], x)]
    BY <1>5, ServerFields
  <2>3. ResolvePair(s.pairs[i], current) = ResolvePair(s.pairs[i], x)
    BY <1>1, <2>1, <2>2
  <2>4. defaultSchema(r, current) = defaultSchema(r, x)
    BY <2>1, <2>3 DEF ResolvePair
  <2>5. r \in TableRef
    BY NamedType
  <2> QED  BY <1>2, <2>4, <2>5
<1>6. CASE s.action \in OfSchema
  BY <1>6, NamedFacts
<1> QED  BY <1>3, <1>4, <1>5, <1>6, StatementDomain

LEMMA DistinctWith ==
  ASSUME NEW w \in Catalogs, DistinctColumns(w), NEW r \in Ref, NEW o \in Object,
         o.kind = "table" => IsInjective(o.columns)
  PROVE  DistinctColumns(With(w, r, o))
<1> DEFINE c == With(w, r, o)
<1>1. \A p \in Ref : c.objects[p] = IF p = r THEN o ELSE w.objects[p]
  BY WithFacts
<1> HIDE DEF c
<1>2. ASSUME NEW p \in Ref, IsTable(c, p) PROVE IsInjective(c.objects[p].columns)
  <2>1. CASE p = r
    BY <1>1, <1>2, <2>1 DEF IsTable
  <2>2. CASE p # r
    <3>1. c.objects[p] = w.objects[p]
      BY <1>1, <2>2
    <3>2. IsTable(w, p)
      BY <1>2, <3>1 DEF IsTable, Exists
    <3> QED  BY <3>1, <3>2 DEF DistinctColumns
  <2> QED  BY <2>1, <2>2
<1> QED  BY <1>2 DEF DistinctColumns, c

LEMMA DistinctWithout ==
  ASSUME NEW w \in Catalogs, DistinctColumns(w), NEW rs
  PROVE  DistinctColumns(Without(w, rs))
<1> DEFINE c == Without(w, rs)
<1>1. \A p \in Ref : c.objects[p] = IF p \in rs THEN Absent ELSE w.objects[p]
  BY WithoutFacts
<1> HIDE DEF c
<1>2. ASSUME NEW p \in Ref, IsTable(c, p) PROVE IsInjective(c.objects[p].columns)
  <2>1. c.objects[p] = w.objects[p]
    BY <1>1, <1>2 DEF IsTable, Exists
  <2>2. IsTable(w, p)
    BY <1>2, <2>1 DEF IsTable, Exists
  <2> QED  BY <2>1, <2>2 DEF DistinctColumns
<1> QED  BY <1>2 DEF DistinctColumns, c

LEMMA AlteredTypes ==
  ASSUME NEW o \in Object, NEW ops \in Seq(AlterOperation)
  PROVE  /\ Alteration(o, ops) \in Object
         /\ Alteration(o, ops).kind = o.kind
         /\ Alteration(o, ops).columns = AlteredColumns(o.columns, ops)
         /\ Alteration(o, ops).indexes = AlteredIndexes(o.indexes, ops)
<1> DEFINE cs == AlteredColumns(o.columns, ops)
           is == AlteredIndexes(o.indexes, ops)
<1>1. Becomes(ops) \in Naming
  <2>1. Len(ops) \in 0 .. Len(ops)
    OBVIOUS
  <2> QED  BY <2>1, MapLast, MapType
<1>2. o.columns \in Seq(Columns) /\ o.indexes \in [IndexNames -> Seq(Columns)]
  BY ObjectFields
<1>3. \A l \in Seq(Columns) : Surviving(l, ops) \in Seq(Columns)
  BY <1>1, ThroughType DEF Surviving
<1>4. AddedColumns(ops) \in Seq(Columns)
  <2>1. PICK f \in [0 .. Len(ops) -> Seq(Columns)] : AddedColumns(ops) = f[Len(ops)]
    BY AddedDef
  <2>2. Len(ops) \in 0 .. Len(ops)
    OBVIOUS
  <2> QED  BY <2>1, <2>2
<1>5. cs \in Seq(Columns)
  <2> DEFINE p == Surviving(o.columns, ops)
             q == AddedColumns(ops)
  <2>1. p \in Seq(Columns) /\ q \in Seq(Columns)
    BY <1>2, <1>3, <1>4
  <2>2. cs = p \o q
    BY DEF AlteredColumns
  <2> HIDE DEF p, q, cs
  <2> QED  BY <2>1, <2>2
<1>6. is \in [IndexNames -> Seq(Columns)]
  <2>1. ASSUME NEW n \in IndexNames PROVE is[n] \in Seq(Columns)
    <3> DEFINE kept  == {p \in KeptIndexes(o.indexes, ops) : p[1] = n}
               added == {i \in OpsOf(ops, MakesIndex) : ops[i].index = n}
               k == CHOOSE p \in kept : TRUE
               a == CHOOSE i \in added : TRUE
    <3>1. is[n] = IF kept # {} THEN Surviving(o.indexes[k[2]], ops)
                  ELSE IF added # {} THEN ops[a].columns ELSE <<>>
      BY DEF AlteredIndexes
    <3>2. ASSUME kept # {} PROVE Surviving(o.indexes[k[2]], ops) \in Seq(Columns)
      <4>1. k \in kept
        BY <3>2
      <4> HIDE DEF k
      <4>2. k[2] \in IndexNames
        <5>1. k \in KeptIndexes(o.indexes, ops)
          BY <4>1
        <5>2. KeptIndexes(o.indexes, ops) \subseteq IndexNames \X IndexNames
          BY DEF KeptIndexes
        <5> HIDE DEF kept
        <5> QED  BY <5>1, <5>2
      <4>3. o.indexes[k[2]] \in Seq(Columns)
        BY <1>2, <4>2
      <4> QED  BY <1>3, <4>3
    <3>3. ASSUME added # {} PROVE ops[a].columns \in Seq(Columns)
      <4>1. a \in added
        BY <3>3
      <4>2. a \in DOMAIN ops /\ ops[a].op \in {"ADD_INDEX", "COLUMN_KEY"}
        BY <4>1 DEF OpsOf, MakesIndex
      <4> HIDE DEF a
      <4>3. ops[a] \in AlterOperation
        BY <4>2
      <4> QED  BY <4>2, <4>3, OperationKinds
    <3>4. <<>> \in Seq(Columns)
      OBVIOUS
    <3> HIDE DEF is, kept, added, k, a
    <3> QED  BY <3>1, <3>2, <3>3, <3>4
  <2>2. is = [n \in IndexNames |-> is[n]]
    BY DEF AlteredIndexes
  <2> HIDE DEF is
  <2> QED  BY <2>1, <2>2
<1> HIDE DEF cs, is
<1>7. LET u == [o EXCEPT !.columns = cs, !.indexes = is]
      IN  u \in Object /\ u.kind = o.kind /\ u.columns = cs /\ u.indexes = is
  BY <1>5, <1>6 DEF Object
<1> QED  BY <1>7 DEF Alteration, cs, is

(* What the server may do to the catalog.                                   *)
Served(s, c) ==
  /\ c \in Catalogs
  /\ DistinctColumns(c)
  /\ s.action \notin OfSchema => Only(target, c, NamedByServer(s))

LEMMA ServedSame ==
  ASSUME NEW s, target \in Catalogs, DistinctColumns(target)
  PROVE  Served(s, target)
BY OnlySame DEF Served

LEMMA ServedWith ==
  ASSUME NEW s, target \in Catalogs, DistinctColumns(target), NEW r \in Ref, r \in NamedByServer(s), NEW o \in Object,
         o.kind = "table" => IsInjective(o.columns)
  PROVE  Served(s, With(target, r, o))
<1>1. With(target, r, o) \in Catalogs /\ Only(target, With(target, r, o), NamedByServer(s))
  BY OnlyWith
<1>2. DistinctColumns(With(target, r, o))
  BY DistinctWith
<1> QED  BY <1>1, <1>2 DEF Served

LEMMA ServedWithout ==
  ASSUME NEW s, target \in Catalogs, DistinctColumns(target), NEW rs, rs \subseteq NamedByServer(s)
  PROVE  Served(s, Without(target, rs))
<1>1. Without(target, rs) \in Catalogs /\ Only(target, Without(target, rs), NamedByServer(s))
  BY OnlyWithout
<1>2. DistinctColumns(Without(target, rs))
  BY DistinctWithout
<1> QED  BY <1>1, <1>2 DEF Served

LEMMA NewRows ==
  ASSUME NEW o \in Object
  PROVE  LET u == [o EXCEPT !.rows = FALSE]
         IN  u \in Object /\ u.kind = o.kind /\ u.columns = o.columns /\ u.indexes = o.indexes
<1>1. FALSE \in BOOLEAN
  OBVIOUS
<1> QED  BY <1>1 DEF Object

LEMMA ServesSchema ==
  ASSUME TypeOK, DistinctColumns(target), NEW s \in Statement, s.action \in OfSchema
  PROVE  LET c == Effect(target, ServerResolves(s, current))
         IN  /\ Served(s, c)
             /\ s.action = "USE" => c = target
             /\ s.action = "CREATE_DATABASE" => c.schemas = target.schemas \cup {s.schema} /\ c.objects = target.objects
             /\ s.action = "DROP_DATABASE" =>
                  /\ c.schemas = target.schemas \ {s.schema}
                  /\ \A p \in Ref : p \notin {s.schema} \X Names => c.objects[p] = target.objects[p]
             /\ ServerResolves(s, current).schema = s.schema
             /\ ServerResolves(s, current).action = s.action
<1> DEFINE t == ServerResolves(s, current)
           c == Effect(target, t)
<1>1. s.schema \in Schemas
  BY StatementTable
<1>2. t.action = s.action
  BY ServerFields
<1>3. t.schema = s.schema
  <2>1. "schema" \in DOMAIN s \ {"table", "reference", "tables", "pairs", "ops"}
    BY StatementDomain
  <2> QED  BY <2>1, ServerKeeps
<1>4. target \in Catalogs /\ target.schemas \subseteq Schemas
  BY CatalogFields DEF TypeOK
<1> HIDE DEF t
<1>5. CASE s.action = "USE"
  <2>1. c = target
    BY <1>2, <1>5, EffectUse
  <2>2. Served(s, c)
    BY <1>4, <2>1, ServedSame
  <2> QED  BY <1>2, <1>3, <1>5, <2>1, <2>2 DEF t
<1>6. CASE s.action = "CREATE_DATABASE"
  <2> DEFINE S == target.schemas \cup {s.schema}
  <2>1. c = [target EXCEPT !.schemas = S]
    <3>1. c = [target EXCEPT !.schemas = @ \cup {t.schema}]
      BY <1>2, <1>6, EffectCreateDatabase
    <3> QED  BY <1>3, <3>1
  <2>2. S \subseteq Schemas
    BY <1>1, <1>4
  <2> HIDE DEF S, c
  <2>3. c \in Catalogs /\ c.schemas = S /\ c.objects = target.objects
    BY <1>4, <2>1, <2>2, SchemasFacts
  <2>4. DistinctColumns(c)
    BY <2>3 DEF DistinctColumns, IsTable, Exists
  <2> QED  BY <1>2, <1>3, <1>6, <2>3, <2>4 DEF t, c, S, Served, OfSchema
<1>7. CASE s.action = "DROP_DATABASE"
  <2> DEFINE S == target.schemas \ {s.schema}
             b == Without(target, {s.schema} \X Names)
  <2>1. c = [schemas |-> S, objects |-> b.objects]
    <3>1. c = [schemas |-> target.schemas \ {t.schema}, objects |-> Without(target, {t.schema} \X Names).objects]
      BY <1>2, <1>7, EffectDropDatabase
    <3> QED  BY <1>3, <3>1
  <2>2. S \subseteq Schemas
    BY <1>4
  <2>3. b \in Catalogs /\ DistinctColumns(b)
    BY <1>4, WithoutFacts, DistinctWithout
  <2>4. \A p \in Ref : p \notin {s.schema} \X Names => b.objects[p] = target.objects[p]
    BY <1>4, WithoutFacts
  <2> HIDE DEF S, c, b
  <2>5. c \in Catalogs /\ c.schemas = S /\ c.objects = b.objects
    BY <2>1, <2>2, <2>3 DEF Catalogs
  <2>6. DistinctColumns(c)
    BY <2>3, <2>5 DEF DistinctColumns, IsTable, Exists
  <2> QED  BY <1>2, <1>3, <1>7, <2>4, <2>5, <2>6 DEF t, c, S, Served, OfSchema
<1> QED  BY <1>5, <1>6, <1>7 DEF OfSchema

LEMMA AllIndexesType ==
  ASSUME NEW s \in Statement, s.action = "CREATE_TABLE"
  PROVE  /\ s.indexes \in Indexes /\ AllIndexes(s) \in Indexes
         /\ s.unprojected = NoIndexes => AllIndexes(s) = s.indexes
<1>1. s.indexes \in Indexes /\ s.unprojected \in Indexes
  BY StatementKinds DEF Indexes
<1>2. AllIndexes(s) \in Indexes
  BY <1>1 DEF AllIndexes, Indexes
<1>3. ASSUME s.unprojected = NoIndexes PROVE AllIndexes(s) = s.indexes
  <2>1. \A i \in IndexNames : AllIndexes(s)[i] = s.indexes[i]
    BY <1>3 DEF AllIndexes, NoIndexes
  <2> QED  BY <1>1, <1>2, <2>1 DEF Indexes
<1> QED  BY <1>1, <1>2, <1>3

LEMMA ServesTable ==
  ASSUME TypeOK, DistinctColumns(target), NEW s \in Statement, s.action \in OfTable, ~Alters(s),
         \A r \in Named(s) : defaultSchema(r, current) \in Ref,
         Accepts(target, ServerResolves(s, current))
  PROVE  LET c == Effect(target, ServerResolves(s, current))
             ref == defaultSchema(s.table, current)
             like == target.objects[defaultSchema(s.reference, current)]
             old == Exists(target, ref)
         IN  /\ Served(s, c)
             /\ s.action = "DML" => c = target
             /\ s.action = "CREATE_TABLE" => c = IF old THEN target ELSE With(target, ref, aTable(s.columns, AllIndexes(s)))
             /\ s.action = "CREATE_TABLE_LIKE" =>
                  /\ IsTable(target, defaultSchema(s.reference, current))
                  /\ c = IF old THEN target ELSE With(target, ref, [like EXCEPT !.rows = FALSE])
             /\ s.action = "CREATE_VIEW" => c = With(target, ref, aView)
             /\ s.action = "TRUNCATE_TABLE" =>
                  c = With(target, ref, [target.objects[ref] EXCEPT !.rows = FALSE]) /\ IsTable(target, ref)
<1> DEFINE t == ServerResolves(s, current)
           c == Effect(target, t)
           ref == defaultSchema(s.table, current)
           like == target.objects[defaultSchema(s.reference, current)]
           old == Exists(target, ref)
           known == DOMAIN s \ {"table", "reference", "tables", "pairs", "ops"}
<1>1. t.action = s.action /\ t.table = ref /\ \A f \in known : t[f] = s[f]
  BY ServerFields
<1>2. target \in Catalogs
  BY DEF TypeOK
<1>3. ref \in Ref /\ ref \in NamedByServer(s)
  <2>1. s.table \in Named(s)
    BY NamedFacts
  <2> QED  BY <2>1 DEF NamedByServer
<1>4. Served(s, target)
  BY <1>2, ServedSame
<1>5. CASE s.action = "DML"
  <2> HIDE DEF t
  <2>1. c = target
    BY <1>1, <1>5, EffectUse
  <2> QED  BY <1>4, <1>5, <2>1 DEF t
<1>6. CASE s.action = "CREATE_TABLE"
  <2>1. t.columns = s.columns /\ AllIndexes(t) = AllIndexes(s)
    <3>1. "columns" \in known /\ "indexes" \in known /\ "unprojected" \in known
      BY <1>6, StatementKinds
    <3>2. t.columns = s.columns /\ t.indexes = s.indexes /\ t.unprojected = s.unprojected
      BY <1>1, <3>1
    <3> HIDE DEF t
    <3> QED  BY <3>2 DEF AllIndexes
  <2> DEFINE o == aTable(s.columns, AllIndexes(s))
  <2>2. o \in Object /\ o.columns = s.columns
    <3>1. s.columns \in Seq(Columns) /\ AllIndexes(s) \in Indexes
      BY <1>6, StatementKinds, AllIndexesType
    <3>2. o.columns = s.columns
      BY DEF aTable
    <3> QED  BY <3>1, <3>2, NewObjects
  <2> HIDE DEF t
  <2>3. IsInjective(o.columns)
    <3>1. t.action = "CREATE_TABLE" /\ Accepts(target, t)
      BY <1>1, <1>6 DEF t
    <3> HIDE DEF o
    <3> QED  BY <2>1, <2>2, <3>1, AcceptsTable
  <2>4. c = IF old THEN target ELSE With(target, ref, o)
    <3>1. c = IF Exists(target, t.table) THEN target ELSE With(target, t.table, aTable(t.columns, AllIndexes(t)))
      BY <1>1, <1>6, EffectCreateTable
    <3> QED  BY <1>1, <2>1, <3>1
  <2> HIDE DEF o, c
  <2>5. Served(s, With(target, ref, o))
    BY <1>2, <1>3, <2>2, <2>3, ServedWith
  <2>6. Served(s, c)
    BY <1>4, <2>4, <2>5
  <2> QED  BY <1>6, <2>4, <2>6 DEF o, c, t
<1>7. CASE s.action = "CREATE_TABLE_LIKE"
  <2>1. t.reference = defaultSchema(s.reference, current)
    BY <1>7, ServerFields
  <2>2. t.reference \in Ref
    <3>1. s.reference \in Named(s)
      BY <1>7, NamedFacts
    <3> QED  BY <2>1, <3>1
  <2> HIDE DEF t
  <2>3. IsTable(target, t.reference)
    <3>1. t.action = "CREATE_TABLE_LIKE" /\ Accepts(target, t)
      BY <1>1, <1>7 DEF t
    <3> QED  BY <3>1, AcceptsTable
  <2> DEFINE o == [like EXCEPT !.rows = FALSE]
  <2>4. like \in Object /\ IsInjective(like.columns)
    BY <1>2, <2>1, <2>2, <2>3, CatalogFields DEF IsTable, DistinctColumns
  <2>5. c = IF old THEN target ELSE With(target, ref, o)
    <3>1. c = IF Exists(target, t.table) THEN target ELSE With(target, t.table, [target.objects[t.reference] EXCEPT !.rows = FALSE])
      BY <1>1, <1>7, EffectCreateTableLike
    <3> QED  BY <1>1, <2>1, <3>1
  <2> HIDE DEF like
  <2>6. o \in Object /\ o.columns = like.columns
    BY <2>4, NewRows
  <2> HIDE DEF o, c
  <2>7. Served(s, With(target, ref, o))
    BY <1>2, <1>3, <2>4, <2>6, ServedWith
  <2>8. Served(s, c)
    BY <1>4, <2>5, <2>7
  <2> QED  BY <1>7, <2>1, <2>3, <2>5, <2>8 DEF o, c, t, like
<1>8. CASE s.action = "CREATE_VIEW"
  <2> HIDE DEF t
  <2>1. c = With(target, ref, aView)
    <3>1. c = With(target, t.table, aView)
      BY <1>1, <1>8, EffectCreateView
    <3> QED  BY <1>1, <3>1
  <2>2. aView \in Object /\ aView.kind # "table"
    BY NewObjects DEF aView
  <2> HIDE DEF c
  <2>3. Served(s, With(target, ref, aView))
    BY <1>2, <1>3, <2>2, ServedWith
  <2> QED  BY <1>8, <2>1, <2>3 DEF c, t
<1>9. CASE s.action = "TRUNCATE_TABLE"
  <2> DEFINE it == target.objects[ref]
             o == [it EXCEPT !.rows = FALSE]
  <2> HIDE DEF t
  <2>1. IsTable(target, ref)
    <3>1. t.action = "TRUNCATE_TABLE" /\ Accepts(target, t)
      BY <1>1, <1>9 DEF t
    <3> QED  BY <1>1, <3>1, AcceptsTable
  <2>2. it \in Object /\ IsInjective(it.columns)
    BY <1>2, <1>3, <2>1, CatalogFields DEF IsTable, DistinctColumns
  <2>3. c = With(target, ref, o)
    <3>1. c = With(target, t.table, [target.objects[t.table] EXCEPT !.rows = FALSE])
      BY <1>1, <1>9, EffectTruncate
    <3> QED  BY <1>1, <3>1
  <2> HIDE DEF it
  <2>4. o \in Object /\ o.columns = it.columns
    BY <2>2, NewRows
  <2> HIDE DEF o, c
  <2>5. Served(s, With(target, ref, o))
    BY <1>2, <1>3, <2>2, <2>4, ServedWith
  <2> QED  BY <1>9, <2>1, <2>3, <2>5 DEF c, t, o, it
<1> QED  BY <1>5, <1>6, <1>7, <1>8, <1>9 DEF OfTable, Alters

LEMMA ServesDrop ==
  ASSUME TypeOK, DistinctColumns(target), NEW s \in Statement, s.action \in OfTables,
         Accepts(target, ServerResolves(s, current))
  PROVE  LET c == Effect(target, ServerResolves(s, current))
         IN  /\ Served(s, c)
             /\ s.action = "DROP_TABLE" => c = Without(target, {r \in NamedByServer(s) : IsTable(target, r)})
             /\ s.action = "DROP_VIEW" => c = Without(target, NamedByServer(s))
             /\ s.action = "DROP_TABLE" /\ ~s.ifExists => \A r \in NamedByServer(s) : IsTable(target, r)
             /\ s.action = "DROP_VIEW" => \A r \in NamedByServer(s) : ~IsTable(target, r)
<1> DEFINE t == ServerResolves(s, current)
           c == Effect(target, t)
<1>1. t.action = s.action /\ t.tables = [i \in DOMAIN s.tables |-> defaultSchema(s.tables[i], current)]
  BY ServerFields
<1>2. t.ifExists = s.ifExists
  <2>1. "ifExists" \in DOMAIN s \ {"table", "reference", "tables", "pairs", "ops"}
    BY StatementKinds DEF OfTables
  <2> QED  BY <2>1, ServerKeeps
<1>3. Named(s) = ToSet(s.tables)
  BY NamedFacts
<1>4. ToSet(t.tables) = NamedByServer(s)
  BY <1>1, <1>3 DEF ToSet, NamedByServer
<1>5. target \in Catalogs
  BY DEF TypeOK
<1>6. Accepts(target, t)
  OBVIOUS
<1> HIDE DEF t
<1>7. CASE s.action = "DROP_TABLE"
  <2> DEFINE D == {r \in NamedByServer(s) : IsTable(target, r)}
  <2>1. c = Without(target, D)
    <3>1. c = Without(target, {r \in ToSet(t.tables) : IsTable(target, r)})
      BY <1>1, <1>7, EffectDropTable
    <3> QED  BY <1>4, <3>1
  <2>2. D \subseteq NamedByServer(s)
    OBVIOUS
  <2>3. s.ifExists \/ \A r \in NamedByServer(s) : IsTable(target, r)
    <3>1. t.ifExists \/ \A i \in DOMAIN t.tables : IsTable(target, t.tables[i])
      <4>1. t.action = "DROP_TABLE"
        BY <1>1, <1>7
      <4> QED  BY <1>6, <4>1, AcceptsDrop
    <3> QED  BY <1>2, <1>4, <3>1 DEF ToSet
  <2> HIDE DEF D, c
  <2>4. Served(s, Without(target, D))
    BY <1>5, <2>2, ServedWithout
  <2> QED  BY <1>7, <2>1, <2>3, <2>4 DEF D, c, t
<1>8. CASE s.action = "DROP_VIEW"
  <2>1. c = Without(target, NamedByServer(s))
    <3>1. c = Without(target, ToSet(t.tables))
      BY <1>1, <1>8, EffectDropView
    <3> QED  BY <1>4, <3>1
  <2>2. \A r \in NamedByServer(s) : ~IsTable(target, r)
    <3>1. \A i \in DOMAIN t.tables : IsView(target, t.tables[i]) \/ ~Exists(target, t.tables[i])
      <4>1. t.action = "DROP_VIEW"
        BY <1>1, <1>8
      <4> QED  BY <1>6, <4>1, AcceptsDrop
    <3>2. \A i \in DOMAIN t.tables : ~IsTable(target, t.tables[i])
      BY <3>1 DEF IsView, IsTable
    <3> QED  BY <1>4, <3>2 DEF ToSet
  <2> HIDE DEF c
  <2>3. Served(s, Without(target, NamedByServer(s)))
    BY <1>5, ServedWithout
  <2> QED  BY <1>8, <2>1, <2>2, <2>3 DEF c, t
<1> QED  BY <1>7, <1>8 DEF OfTables

LEMMA ServesRename ==
  ASSUME TypeOK, DistinctColumns(target), NEW s \in Statement, s.action = "RENAME_TABLE",
         \A r \in Named(s) : defaultSchema(r, current) \in Ref,
         Accepts(target, ServerResolves(s, current))
  PROVE  LET t == ServerResolves(s, current)
             c == Effect(target, t)
         IN  /\ Served(s, c)
             /\ t.pairs \in Seq(Pairs)
             /\ \E g : Moving(target, t.pairs, g) /\ c = g[Len(t.pairs)]
<1> DEFINE t == ServerResolves(s, current)
           c == Effect(target, t)
<1>1. s.pairs \in Seq([from : TableRef, to : TableRef])
  BY StatementKinds
<1>2. t.action = s.action /\ t.pairs = [i \in DOMAIN s.pairs |-> ResolvePair(s.pairs[i], current)]
  BY ServerFields
<1>3. \A i \in DOMAIN s.pairs : s.pairs[i].from \in Named(s) /\ s.pairs[i].to \in Named(s)
  BY NamedFacts
<1>4. ASSUME NEW i \in DOMAIN s.pairs
      PROVE  t.pairs[i] \in Pairs /\ t.pairs[i].from \in NamedByServer(s) /\ t.pairs[i].to \in NamedByServer(s)
  <2>1. /\ defaultSchema(s.pairs[i].from, current) \in Ref /\ defaultSchema(s.pairs[i].from, current) \in NamedByServer(s)
        /\ defaultSchema(s.pairs[i].to, current) \in Ref /\ defaultSchema(s.pairs[i].to, current) \in NamedByServer(s)
    BY <1>3 DEF NamedByServer
  <2>2. t.pairs[i] = [from |-> defaultSchema(s.pairs[i].from, current), to |-> defaultSchema(s.pairs[i].to, current)]
    BY <1>2 DEF ResolvePair
  <2> QED  BY <2>1, <2>2 DEF Pairs
<1>5. Len(s.pairs) \in Nat /\ DOMAIN s.pairs = 1 .. Len(s.pairs) /\ DOMAIN t.pairs = 1 .. Len(s.pairs)
  BY <1>1, <1>2
<1>6. Accepts(target, t) /\ target \in Catalogs
  BY DEF TypeOK
<1> HIDE DEF t
<1>7. t.pairs \in Seq(Pairs)
  <2>1. t.pairs = [i \in 1 .. Len(s.pairs) |-> t.pairs[i]]
    BY <1>2, <1>5
  <2>2. t.pairs \in [1 .. Len(s.pairs) -> Pairs]
    BY <1>4, <1>5, <2>1
  <2> QED  BY <1>5, <2>2, SeqDef
<1>8. c = Renamed(target, t.pairs) /\ Renamed(target, t.pairs) # Absent
  BY <1>2, <1>6, EffectRename, AcceptsRename
<1>9. PICK g : Moving(target, t.pairs, g) /\ Renamed(target, t.pairs) = g[Len(t.pairs)]
  BY <1>6, <1>7, <1>8, RenamedExists
<1> HIDE DEF c
<1>10. \A n \in DOMAIN t.pairs : t.pairs[n].from \in NamedByServer(s) /\ t.pairs[n].to \in NamedByServer(s)
  BY <1>4, <1>5
<1>11. g[Len(t.pairs)] \in Catalogs /\ Only(target, g[Len(t.pairs)], NamedByServer(s)) /\ DistinctColumns(g[Len(t.pairs)])
  BY <1>6, <1>7, <1>9, <1>10, MovingOnly
<1>12. Served(s, c)
  BY <1>8, <1>9, <1>11 DEF Served
<1> QED  BY <1>7, <1>8, <1>9, <1>12 DEF t, c

LEMMA ServesAlter ==
  ASSUME TypeOK, DistinctColumns(target), NEW s \in Statement, Alters(s),
         \A r \in Named(s) : defaultSchema(r, current) \in Ref,
         Accepts(target, ServerResolves(s, current))
  PROVE  LET c == Effect(target, ServerResolves(s, current))
             ref == defaultSchema(s.table, current)
             ops == ResolveOps(s.ops, current)
         IN  /\ Served(s, c)
             /\ IsTable(target, ref) /\ AltersColumns(target.objects[ref].columns, ops)
             /\ NewTable(ref, ops) \in Ref
             /\ c = With(Without(target, {ref}), NewTable(ref, ops), Alteration(target.objects[ref], ops))
<1> DEFINE t == ServerResolves(s, current)
           c == Effect(target, t)
           ref == defaultSchema(s.table, current)
           ops == ResolveOps(s.ops, current)
           old == target.objects[ref]
           to == NewTable(ref, ops)
           D == NamedByServer(s)
<1>1. s.action \in OfTable
  BY DEF OfTable, Alters
<1>2. t.action = s.action /\ t.table = ref /\ t.ops = ops
  BY <1>1, ServerFields
<1>3. Accepts(target, t) /\ target \in Catalogs /\ Alters(t)
  BY <1>2 DEF TypeOK, Alters
<1>4. s.ops \in Seq(AlterOperation) /\ s.table \in Named(s)
  BY <1>1, StatementKinds, NamedFacts
<1>5. /\ ops \in Seq(AlterOperation) /\ DOMAIN ops = DOMAIN s.ops
      /\ \A i \in DOMAIN s.ops : ops[i].op = s.ops[i].op
      /\ \A i \in DOMAIN s.ops : s.ops[i].op = "RENAME_TABLE" => ops[i].newTable = defaultSchema(s.ops[i].newTable, current)
  BY <1>4, DatabaseTypes, ResolveOpsFacts
<1>6. ref \in Ref /\ ref \in D
  BY <1>4 DEF NamedByServer
<1>7. \A i \in OpsOf(s.ops, {"RENAME_TABLE"}) :
        defaultSchema(s.ops[i].newTable, current) \in Ref /\ defaultSchema(s.ops[i].newTable, current) \in D
  BY NamedFacts DEF NamedByServer
<1> HIDE DEF t, ops, D
<1>8. IsTable(target, ref) /\ AltersColumns(old.columns, ops)
  BY <1>2, <1>3, AcceptsAlter
<1>9. to \in Ref /\ to \in D
  <2>1. to = ref \/ \E i \in OpsOf(ops, {"RENAME_TABLE"}) : to = ops[i].newTable
    BY <1>5, NewTableFacts
  <2> HIDE DEF to, ref
  <2>2. CASE to = ref
    BY <1>6, <2>2
  <2>3. CASE to # ref
    <3>1. PICK i \in OpsOf(ops, {"RENAME_TABLE"}) : to = ops[i].newTable
      BY <2>1, <2>3
    <3>2. i \in DOMAIN s.ops /\ s.ops[i].op = "RENAME_TABLE" /\ i \in OpsOf(s.ops, {"RENAME_TABLE"})
      BY <1>5, <3>1 DEF OpsOf
    <3>3. to = defaultSchema(s.ops[i].newTable, current)
      BY <1>5, <3>1, <3>2
    <3> QED  BY <1>7, <3>2, <3>3
  <2> QED  BY <2>2, <2>3
<1>10. old \in Object
  BY <1>3, <1>6, <1>8, CatalogFields DEF IsTable
<1> DEFINE new == Alteration(old, ops)
           b == Without(target, {ref})
<1>11. c = With(b, to, new)
  <2>1. c = With(Without(target, {t.table}), NewTable(t.table, t.ops), Alteration(target.objects[t.table], t.ops))
    BY <1>3, EffectAlter
  <2> QED  BY <1>2, <2>1
<1> HIDE DEF old
<1>12. new \in Object /\ IsInjective(new.columns)
  <2>1. new \in Object /\ new.columns = AlteredColumns(old.columns, ops)
    BY <1>5, <1>10, AlteredTypes
  <2> HIDE DEF new
  <2> QED  BY <1>8, <2>1 DEF AltersColumns
<1>13. b \in Catalogs /\ Only(target, b, D) /\ DistinctColumns(b)
  BY <1>3, <1>6, OnlyWithout, DistinctWithout
<1> HIDE DEF new, b, to
<1>14. With(b, to, new) \in Catalogs /\ Only(b, With(b, to, new), D) /\ DistinctColumns(With(b, to, new))
  BY <1>9, <1>12, <1>13, OnlyWith, DistinctWith
<1>15. Only(target, With(b, to, new), D)
  BY <1>13, <1>14, OnlyTwice
<1> HIDE DEF c
<1>16. Served(s, c)
  BY <1>11, <1>14, <1>15 DEF Served, D
<1> QED  BY <1>8, <1>9, <1>11, <1>16 DEF c, t, ops, old, to, new, b

LEMMA ServerServes ==
  ASSUME TypeOK, DistinctColumns(target), NEW s \in Statement,
         \A r \in Named(s) : defaultSchema(r, current) \in Ref,
         Accepts(target, ServerResolves(s, current))
  PROVE  Served(s, Effect(target, ServerResolves(s, current)))
<1>1. CASE s.action \in OfSchema
  BY <1>1, ServesSchema
<1>2. CASE s.action \in OfTable /\ ~Alters(s)
  BY <1>2, ServesTable
<1>3. CASE s.action \in OfTables
  BY <1>3, ServesDrop
<1>4. CASE s.action = "RENAME_TABLE"
  BY <1>4, ServesRename
<1>5. CASE Alters(s)
  BY <1>5, ServesAlter
<1> QED  BY <1>1, <1>2, <1>3, <1>4, <1>5, StatementDomain

----------------------------------------------------------------------------
(* The step of the server, taken apart.                                     *)
TakesNot(s) == refused # Nothing /\ UNCHANGED <<target, current, refused>>
Takes(s) ==
  LET t == ServerResolves(s, current)
  IN  /\ refused = Nothing /\ Known(s) /\ Accepts(target, t)
      /\ target' = Effect(target, t)
      /\ current' = CASE t.action = "USE" -> t.schema
                      [] t.action = "DROP_DATABASE" /\ t.schema = current -> NoSchema
                      [] OTHER -> current
      /\ refused' = refused
Refuses(s) ==
  /\ refused = Nothing /\ ~(Known(s) /\ Accepts(target, ServerResolves(s, current)))
  /\ refused' = IF InDoubt(s) THEN Doubtful ELSE s.action
  /\ UNCHANGED <<target, current>>

LEMMA TakesCases ==
  ASSUME NEW s, ServerTakes(s)
  PROVE  doubt' = DoubtAfter(s) /\ hidden' = HiddenAfter(s) /\ (TakesNot(s) \/ Takes(s) \/ Refuses(s))
<1> DEFINE t == ServerResolves(s, current)
           known == current # NoSchema \/ t = ServerResolves(s, CHOOSE x \in Schemas : TRUE)
<1>1. /\ doubt' = DoubtAfter(s) /\ hidden' = HiddenAfter(s)
      /\ IF refused # Nothing THEN UNCHANGED <<target, current, refused>>
         ELSE IF known /\ Accepts(target, t)
         THEN /\ target' = Effect(target, t)
              /\ current' = CASE t.action = "USE" -> t.schema
                              [] t.action = "DROP_DATABASE" /\ t.schema = current -> NoSchema
                              [] OTHER -> current
              /\ UNCHANGED refused
         ELSE /\ refused' = IF InDoubt(s) THEN Doubtful ELSE s.action
              /\ UNCHANGED <<target, current>>
  BY DEF ServerTakes
<1>2. known <=> Known(s)
  BY DEF Known
<1> HIDE DEF t, known
<1>3. CASE refused # Nothing
  BY <1>1, <1>3 DEF TakesNot
<1>4. CASE refused = Nothing /\ known /\ Accepts(target, t)
  <2>1. /\ target' = Effect(target, t)
        /\ current' = CASE t.action = "USE" -> t.schema
                        [] t.action = "DROP_DATABASE" /\ t.schema = current -> NoSchema
                        [] OTHER -> current
        /\ refused' = refused
    BY <1>1, <1>4
  <2> QED  BY <1>1, <1>2, <1>4, <2>1 DEF Takes, t
<1>5. CASE refused = Nothing /\ ~(known /\ Accepts(target, t))
  <2>1. refused' = (IF InDoubt(s) THEN Doubtful ELSE s.action) /\ UNCHANGED <<target, current>>
    BY <1>1, <1>5
  <2> QED  BY <1>1, <1>2, <1>5, <2>1 DEF Refuses, t
<1> QED  BY <1>3, <1>4, <1>5

(* Where the connection goes.                                               *)
LEMMA TakesCurrent ==
  ASSUME TypeOK, NEW s \in Statement, Takes(s)
  PROVE  /\ current' \in SchemaOrNone
         /\ s.action = "USE" => current' = s.schema
         /\ s.action = "DROP_DATABASE" => current' = IF s.schema = current THEN NoSchema ELSE current
         /\ s.action \notin {"USE", "DROP_DATABASE"} => current' = current
<1> DEFINE t == ServerResolves(s, current)
<1>1. t.action = s.action
  BY ServerFields
<1>2. s.action \in OfSchema => s.schema \in Schemas /\ t.schema = s.schema
  <2>1. s.action \in OfSchema => "schema" \in DOMAIN s \ {"table", "reference", "tables", "pairs", "ops"}
    BY StatementDomain
  <2>2. s.action \in OfSchema => s.schema \in Schemas
    BY StatementTable
  <2> QED  BY <2>1, <2>2, ServerKeeps
<1>3. current' = CASE t.action = "USE" -> t.schema
                   [] t.action = "DROP_DATABASE" /\ t.schema = current -> NoSchema
                   [] OTHER -> current
  BY DEF Takes
<1>4. current \in SchemaOrNone
  BY DatabaseTypes
<1> HIDE DEF t
<1>5. s.action = "USE" => current' = s.schema
  BY <1>1, <1>2, <1>3 DEF OfSchema
<1>6. s.action = "DROP_DATABASE" => current' = IF s.schema = current THEN NoSchema ELSE current
  BY <1>1, <1>2, <1>3 DEF OfSchema
<1>7. s.action \notin {"USE", "DROP_DATABASE"} => current' = current
  BY <1>1, <1>3
<1> QED  BY <1>2, <1>4, <1>5, <1>6, <1>7 DEF SchemaOrNone, OfSchema

LEMMA SomeSchema ==
  ASSUME TypeOK, NEW s \in Statement, Resolved(s, database)
  PROVE  Schemas # {}
<1>1. CASE s.action \in OfSchema
  BY <1>1, StatementTable
<1>2. CASE s.action \notin OfSchema
  BY <1>2, AuditNames
<1> QED  BY <1>1, <1>2

LEMMA TakesServed ==
  ASSUME TypeOK, DistinctColumns(target), NEW s \in Statement, Resolved(s, database), Takes(s)
  PROVE  Served(s, target') /\ \A r \in Named(s) : defaultSchema(r, current) \in Ref
<1>1. Known(s) /\ Accepts(target, ServerResolves(s, current)) /\ target' = Effect(target, ServerResolves(s, current))
  BY DEF Takes
<1>2. \A r \in Named(s) : defaultSchema(r, current) \in Ref
  BY <1>1, SomeSchema, KnownNames
<1> QED  BY <1>1, <1>2, ServerServes

Refusals == {Nothing, Doubtful} \cup {s.action : s \in Statements}
Typed == TypeOK /\ DistinctColumns(target)

LEMMA TakesTyped ==
  ASSUME Typed, NEW s \in Statements, s \in Statement, Resolved(s, database), ServerTakes(s)
  PROVE  /\ target' \in Catalogs /\ DistinctColumns(target')
         /\ current' \in SchemaOrNone
         /\ refused' \in Refusals
         /\ doubt' \subseteq Ref /\ hidden' \subseteq Ref
<1> USE DEF Typed
<1>1. doubt' = DoubtAfter(s) /\ hidden' = HiddenAfter(s) /\ (TakesNot(s) \/ Takes(s) \/ Refuses(s))
  BY TakesCases
<1>2. doubt' \subseteq Ref /\ hidden' \subseteq Ref
  BY <1>1 DEF DoubtAfter, HiddenAfter, TypeOK
<1>3. CASE TakesNot(s)
  BY <1>2, <1>3, DatabaseTypes DEF TakesNot, TypeOK, Refusals
<1>4. CASE Takes(s)
  <2>1. target' \in Catalogs /\ DistinctColumns(target')
    BY <1>4, TakesServed DEF Served
  <2>2. current' \in SchemaOrNone
    BY <1>4, TakesCurrent
  <2>3. refused' \in Refusals
    BY <1>4 DEF Takes, TypeOK, Refusals
  <2> QED  BY <1>2, <2>1, <2>2, <2>3
<1>5. CASE Refuses(s)
  <2>1. target' = target /\ current' = current /\ refused' \in {Doubtful, s.action}
    BY <1>5 DEF Refuses
  <2>3. refused' \in Refusals
    BY <2>1 DEF Refusals
  <2> QED  BY <1>2, <2>1, <2>3, DatabaseTypes DEF TypeOK, Refusals
<1> QED  BY <1>1, <1>3, <1>4, <1>5

LEMMA MoreType ==
  ASSUME TypeOK, More
  PROVE  length' \in 0 .. MaxStatements
BY LengthAssumption DEF TypeOK, More

LEMMA InitTyped == Init => Typed
<1> SUFFICES ASSUME Init PROVE Typed
  OBVIOUS
<1>1. view \in Catalogs /\ DistinctColumns(view) /\ target = view
  BY SourcesAssumption DEF Init
<1>2. database \in Schemas \cup {NoSchema} /\ current = database
  BY <1>1, CatalogFields DEF Init
<1>3. refused \in Refusals /\ doubt = {} /\ hidden = {} /\ rejected \in BOOLEAN /\ length = 0
  BY DEF Init, Refusals
<1> QED  BY <1>1, <1>2, <1>3, LengthAssumption DEF Typed, TypeOK, Refusals

LEMMA NextTyped == Typed /\ [Next]_vars => Typed'
<1> SUFFICES ASSUME Typed, [Next]_vars PROVE Typed'
  OBVIOUS
<1> USE DEF Typed
<1>1. CASE Reject
  <2>1. /\ view' = view /\ target' = target /\ database' = database /\ current' = current
        /\ refused' = refused /\ doubt' = doubt /\ hidden' = hidden /\ rejected' \in BOOLEAN /\ length' \in 0 .. MaxStatements
    BY <1>1, MoreType DEF Reject
  <2> QED  BY <2>1 DEF TypeOK, DistinctColumns, IsTable, Exists
<1>2. ASSUME NEW s \in Statements, AdmitUse(s) PROVE Typed'
  <2>1. s \in Statement /\ s.action \in OfSchema
    BY <1>2, StatementsAssumption DEF AdmitUse, OfSchema
  <2>2. Resolved(s, database)
    BY <1>2 DEF AdmitUse, Resolved, requiresDatabase
  <2>3. ServerTakes(s) /\ database' = s.schema /\ view' = view /\ rejected' = rejected /\ More
    BY <1>2 DEF AdmitUse
  <2>4. /\ target' \in Catalogs /\ DistinctColumns(target') /\ current' \in SchemaOrNone
        /\ refused' \in Refusals /\ doubt' \subseteq Ref /\ hidden' \subseteq Ref
    BY <2>1, <2>2, <2>3, TakesTyped
  <2>5. database' \in SchemaOrNone
    BY <2>1, <2>3, StatementTable DEF SchemaOrNone
  <2>6. length' \in 0 .. MaxStatements
    BY <2>3, MoreType
  <2> QED  BY <2>3, <2>4, <2>5, <2>6 DEF TypeOK, Refusals, SchemaOrNone, DistinctColumns, IsTable, Exists
<1>3. ASSUME NEW s \in Statements, AdmitDML(s) PROVE Typed'
  <2>1. s \in Statement /\ Resolved(s, database)
    BY <1>3, StatementsAssumption DEF AdmitDML
  <2>2. ServerTakes(s) /\ database' = database /\ view' = view /\ rejected' = rejected /\ More
    BY <1>3 DEF AdmitDML
  <2>3. /\ target' \in Catalogs /\ DistinctColumns(target') /\ current' \in SchemaOrNone
        /\ refused' \in Refusals /\ doubt' \subseteq Ref /\ hidden' \subseteq Ref
    BY <2>1, <2>2, TakesTyped
  <2>4. length' \in 0 .. MaxStatements
    BY <2>2, MoreType
  <2> QED  BY <2>2, <2>3, <2>4 DEF TypeOK, Refusals, SchemaOrNone, DistinctColumns, IsTable, Exists
<1>4. ASSUME NEW s \in Statements, AdmitDDL(s) PROVE Typed'
  <2> DEFINE d == resolveStatementDatabase(s, database)
             r == ApplyDDL(view, d)
  <2>1. s \in Statement /\ Resolved(s, database) /\ s.action \notin {"USE", "DML"}
    BY <1>4, StatementsAssumption DEF AdmitDDL
  <2>2. /\ PrepareDDL(view, d) /\ view' = r.view /\ rejected' = (rejected \/ ~r.ok) /\ database' = database /\ More
        /\ IF r.ok THEN ServerTakes(s) ELSE UNCHANGED <<target, current, refused, doubt, hidden>>
    BY <1>4 DEF AdmitDDL
  <2>3. Overlaid(s, r)
    BY <2>1, <2>2, AuditOverlaid
  <2> HIDE DEF r, d
  <2>4. view' \in Catalogs /\ rejected' \in BOOLEAN
    BY <2>2, <2>3 DEF Overlaid
  <2>5. /\ target' \in Catalogs /\ DistinctColumns(target') /\ current' \in SchemaOrNone
        /\ refused' \in Refusals /\ doubt' \subseteq Ref /\ hidden' \subseteq Ref
    <3>1. CASE r.ok
      BY <2>1, <2>2, <3>1, TakesTyped
    <3>2. CASE ~r.ok
      <4>1. target' = target /\ current' = current /\ refused' = refused /\ doubt' = doubt /\ hidden' = hidden
        BY <2>2, <3>2
      <4> QED  BY <4>1, DatabaseTypes DEF TypeOK, Refusals
    <3> QED  BY <3>1, <3>2
  <2>6. length' \in 0 .. MaxStatements
    BY <2>2, MoreType
  <2> QED  BY <2>2, <2>4, <2>5, <2>6 DEF TypeOK, Refusals, SchemaOrNone, DistinctColumns, IsTable, Exists
<1>5. CASE UNCHANGED vars
  BY <1>5 DEF vars, TypeOK, DistinctColumns, IsTable, Exists
<1>6. CASE BatchAudited
  BY <1>5, <1>6 DEF BatchAudited
<1> QED  BY <1>1, <1>2, <1>3, <1>4, <1>5, <1>6 DEF Next, Admit

(* Every name the audit and the server come by stays within the catalog:    *)
(* ApplyDDL leaves no table under a name without a schema.                  *)
THEOREM TypeCorrect == Spec => []TypeOK
<1>1. Typed => TypeOK
  BY DEF Typed
<1> QED  BY <1>1, InitTyped, NextTyped, PTL DEF Spec

(* A step that makes the batch fail the audit leaves the view alone, but    *)
(* for a RENAME that names a source twice.                                  *)
THEOREM FailureLeavesView == Spec => RejectedChangesNothing
<1>1. Typed /\ [Next]_vars =>
        [(~rejected /\ rejected') =>
           \/ view' = view
           \/ \E s \in Statements : AdmitDDL(s) /\ NamesSourceTwice(resolveStatementDatabase(s, database))]_vars
  <2> SUFFICES ASSUME Typed, [Next]_vars, ~rejected, rejected', view' # view
               PROVE  \E s \in Statements : AdmitDDL(s) /\ NamesSourceTwice(resolveStatementDatabase(s, database))
    OBVIOUS
  <2>1. PICK s \in Statements : AdmitDDL(s)
    BY DEF Next, Reject, Admit, AdmitUse, AdmitDML, BatchAudited, vars
  <2> DEFINE d == resolveStatementDatabase(s, database)
             r == ApplyDDL(view, d)
  <2>2. s \in Statement /\ Resolved(s, database) /\ s.action \notin {"USE", "DML"}
    BY <2>1, StatementsAssumption DEF AdmitDDL
  <2>3. PrepareDDL(view, d) /\ view' = r.view /\ rejected' = (rejected \/ ~r.ok)
    BY <2>1 DEF AdmitDDL
  <2>4. Overlaid(s, r)
    BY <2>2, <2>3, AuditOverlaid DEF Typed
  <2> HIDE DEF r
  <2>5. ~r.ok
    BY <2>3
  <2> QED  BY <2>1, <2>3, <2>4, <2>5 DEF Overlaid
<1> QED  BY <1>1, InitTyped, NextTyped, PTL DEF Spec, RejectedChangesNothing

----------------------------------------------------------------------------
(* View and catalog, changed alike.                                         *)
LEMMA OnlyWider ==
  ASSUME NEW v, NEW w, NEW D, NEW E, Only(v, w, D), D \cap Ref \subseteq E
  PROVE  Only(v, w, E)
BY DEF Only

LEMMA AgreeWider ==
  ASSUME NEW v, NEW w, NEW D, NEW E, NEW U, NEW V, Agree(v, w, D, U), D \subseteq E, U \subseteq V
  PROVE  Agree(v, w, E, V)
<1>1. ASSUME NEW r \in Ref \ E PROVE ShapeOf(v.objects[r], r, V) = ShapeOf(w.objects[r], r, V)
  <2>1. ShapeOf(v.objects[r], r, U) = ShapeOf(w.objects[r], r, U)
    BY DEF Agree
  <2> QED  BY <2>1, ShapeBare
<1> QED  BY <1>1 DEF Agree

LEMMA AgreeWith ==
  ASSUME NEW v \in Catalogs, NEW w \in Catalogs, NEW D, NEW U, Agree(v, w, D, U), NEW r \in Ref,
         NEW o \in Object \cup {Absent}, NEW p \in Object \cup {Absent},
         ShapeOf(o, r, U) = ShapeOf(p, r, U)
  PROVE  Agree(With(v, r, o), With(w, r, p), D, U)
<1>1. /\ With(v, r, o).schemas = v.schemas /\ \A q \in Ref : With(v, r, o).objects[q] = IF q = r THEN o ELSE v.objects[q]
      /\ With(w, r, p).schemas = w.schemas /\ \A q \in Ref : With(w, r, p).objects[q] = IF q = r THEN p ELSE w.objects[q]
  BY WithFacts
<1>2. ASSUME NEW q \in Ref \ D PROVE ShapeOf(With(v, r, o).objects[q], q, U) = ShapeOf(With(w, r, p).objects[q], q, U)
  <2>1. CASE q = r
    BY <1>1, <2>1
  <2>2. CASE q # r
    <3>1. With(v, r, o).objects[q] = v.objects[q] /\ With(w, r, p).objects[q] = w.objects[q]
      BY <1>1, <2>2
    <3> QED  BY <3>1 DEF Agree
  <2> QED  BY <2>1, <2>2
<1>3. v.schemas = w.schemas
  BY DEF Agree
<1> QED  BY <1>1, <1>2, <1>3 DEF Agree

LEMMA AgreeWithout ==
  ASSUME NEW v \in Catalogs, NEW w \in Catalogs, NEW D, NEW U, Agree(v, w, D, U), NEW rs
  PROVE  Agree(Without(v, rs), Without(w, rs), D, U)
<1>1. /\ Without(v, rs).schemas = v.schemas
      /\ \A q \in Ref : Without(v, rs).objects[q] = IF q \in rs THEN Absent ELSE v.objects[q]
      /\ Without(w, rs).schemas = w.schemas
      /\ \A q \in Ref : Without(w, rs).objects[q] = IF q \in rs THEN Absent ELSE w.objects[q]
  BY WithoutFacts
<1>2. ASSUME NEW q \in Ref \ D PROVE ShapeOf(Without(v, rs).objects[q], q, U) = ShapeOf(Without(w, rs).objects[q], q, U)
  <2>1. CASE q \in rs
    BY <1>1, <2>1
  <2>2. CASE q \notin rs
    <3>1. Without(v, rs).objects[q] = v.objects[q] /\ Without(w, rs).objects[q] = w.objects[q]
      BY <1>1, <2>2
    <3> QED  BY <3>1 DEF Agree
  <2> QED  BY <2>1, <2>2
<1>3. v.schemas = w.schemas
  BY DEF Agree
<1> QED  BY <1>1, <1>2, <1>3 DEF Agree

LEMMA ShapeTable ==
  ASSUME NEW o \in Object, NEW p \in Object, o.kind = "table", p.kind = "table",
         o.columns = p.columns, NEW r, NEW U, r \notin U => o.indexes = p.indexes
  PROVE  ShapeOf(o, r, U) = ShapeOf(p, r, U)
BY AbsentAssumption DEF ShapeOf

(* The tables in doubt after a statement.                                   *)
LEMMA DoubtGrows ==
  ASSUME TypeOK, NEW s, refused = Nothing, doubt' = DoubtAfter(s)
  PROVE  /\ doubt \subseteq doubt'
         /\ PutsInDoubt(s) \cap Ref \subseteq doubt'
         /\ InDoubt(s) => NamedByEither(s) \cap Ref \subseteq doubt'
BY DEF DoubtAfter, TypeOK

LEMMA MixedInDoubt ==
  ASSUME NEW s, MixedNames(s)
  PROVE  PutsInDoubt(s) = MixedRefs(s)
<1>1. s.action \in {"CREATE_TABLE_LIKE", "ALTER_TABLE", "CREATE_INDEX", "DROP_INDEX"}
  BY DEF MixedNames, Alters
<1> QED  BY <1>1 DEF PutsInDoubt, MixedRefs

(* If the statement is in doubt then all it may touch is, from then on.     *)
LEMMA DoubtAgrees ==
  ASSUME Typed, NEW s \in Statement, s.action \notin OfSchema, refused = Nothing, doubt' = DoubtAfter(s), InDoubt(s),
         Agree(view, target, doubt, hidden), Only(view, view', MayTouch(s)), Only(target, target', NamedByServer(s))
  PROVE  Agree(view', target', doubt', hidden)
<1>1. doubt \subseteq doubt' /\ PutsInDoubt(s) \cap Ref \subseteq doubt' /\ NamedByEither(s) \cap Ref \subseteq doubt'
  BY DoubtGrows DEF Typed
<1>2. MayTouch(s) \cap Ref \subseteq doubt'
  BY <1>1, MixedInDoubt DEF MayTouch, NamedByEither
<1>3. NamedByServer(s) \cap Ref \subseteq doubt'
  BY <1>1 DEF NamedByEither
<1>4. Only(view, view', doubt')
  BY <1>2, OnlyWider
<1>5. Only(target, target', doubt')
  BY <1>3, OnlyWider
<1> QED  BY <1>1, <1>4, <1>5, OnlyAgree

(* Otherwise both take its names for the same tables.                       *)
Alike(s) ==
  /\ NamedByAudit(s) = NamedByServer(s)
  /\ \A r \in Named(s) : /\ defaultSchema(r, current) = defaultSchema(r, Database(s, database))
                         /\ defaultSchema(r, current) \in Ref \ doubt

LEMMA NamesAlike ==
  ASSUME TypeOK, SameDatabase, NEW s \in Statement, Resolved(s, database), s.action \notin OfSchema, ~InDoubt(s)
  PROVE  Alike(s)
<1>1. \A r \in Named(s) : /\ defaultSchema(r, current) = defaultSchema(r, Database(s, database))
                          /\ defaultSchema(r, current) \in Ref \ doubt
  BY SameNames
<1>2. NamedByAudit(s) = NamedByServer(s)
  BY <1>1 DEF NamedByAudit, NamedByServer
<1> QED  BY <1>1, <1>2 DEF Alike

(* And the view knows the indexes of all of them, or of none.               *)
Even(s) == \/ \A r \in Named(s) : defaultSchema(r, current) \in hidden'
           \/ ~HidesIndexes(s) /\ \A r \in Named(s) : defaultSchema(r, current) \notin hidden'

LEMMA HiddenGrows ==
  ASSUME refused = Nothing, NEW s, hidden' = HiddenAfter(s)
  PROVE  hidden \subseteq hidden' /\ (Alike(s) => Even(s))
<1>1. hidden' = hidden \cup (IF NamesHidden(s) THEN NamedByEither(s) \cap Ref ELSE {})
  BY DEF HiddenAfter
<1>2. ASSUME Alike(s) PROVE Even(s)
  <2>1. \A r \in Named(s) : defaultSchema(r, current) \in NamedByEither(s) \cap Ref
    BY <1>2 DEF Alike, NamedByEither, NamedByServer
  <2>2. CASE NamesHidden(s)
    BY <1>1, <2>1, <2>2 DEF Even
  <2>3. CASE ~NamesHidden(s)
    <3>1. ~HidesIndexes(s) /\ hidden \cap NamedByEither(s) = {} /\ hidden' = hidden
      BY <1>1, <2>3 DEF NamesHidden
    <3> QED  BY <2>1, <3>1 DEF Even
  <2> QED  BY <2>2, <2>3
<1> QED  BY <1>1, <1>2

(* What an admitted DDL statement does on both sides.                       *)
Admitted(s) ==
  LET d == resolveStatementDatabase(s, database)
  IN  PrepareDDL(view, d) /\ ApplyDDL(view, d).ok /\ view' = ApplyDDL(view, d).view

LEMMA AgreeTable ==
  ASSUME Typed, NEW s \in Statement, s.action \in {"CREATE_TABLE", "CREATE_TABLE_LIKE", "CREATE_VIEW", "TRUNCATE_TABLE"},
         Resolved(s, database), Agree(view, target, doubt, hidden'), Alike(s), Even(s), Admitted(s), Takes(s)
  PROVE  Agree(view', target', doubt, hidden')
<1> USE DEF Typed
<1> DEFINE own == Database(s, database)
           r == ApplyDDL(view, resolveStatementDatabase(s, database))
           c == Effect(target, ServerResolves(s, current))
           ref == defaultSchema(s.table, current)
           old == Exists(view, ref)
<1>1. s.action \in OfTable /\ ~Alters(s)
  BY DEF OfTable, Alters
<1>2. s.table \in Named(s)
  BY <1>1, NamedFacts
<1>3. ref = defaultSchema(s.table, own) /\ ref \in Ref \ doubt
  BY <1>2 DEF Alike
<1>4. PrepareDDL(view, resolveStatementDatabase(s, database)) /\ r.ok /\ view' = r.view
  BY DEF Admitted
<1>5. Accepts(target, ServerResolves(s, current)) /\ target' = c
  BY DEF Takes
<1>6. \A p \in Named(s) : defaultSchema(p, current) \in Ref
  BY DEF Alike
<1>7. view \in Catalogs /\ target \in Catalogs
  BY DEF TypeOK
<1>8. old <=> Exists(target, ref)
  BY <1>3, <1>7, AgreeFacts
<1> HIDE DEF r, c
<1>9. /\ old => r.view = view
      /\ ~old /\ s.action = "CREATE_TABLE" => r.view = With(view, ref, aTable(s.columns, s.indexes))
      /\ ~old /\ s.action = "CREATE_TABLE_LIKE" =>
           r.view = With(view, ref, aTable(view.objects[defaultSchema(s.reference, own)].columns,
                                           view.objects[defaultSchema(s.reference, own)].indexes))
      /\ s.action = "CREATE_VIEW" => r.view = With(view, ref, aView) /\ ~old
      /\ s.action = "TRUNCATE_TABLE" => r.view = view /\ old
  BY <1>3, <1>4, AuditTable DEF r
<1>10. /\ s.action = "CREATE_TABLE" =>
            c = IF Exists(target, ref) THEN target ELSE With(target, ref, aTable(s.columns, AllIndexes(s)))
       /\ s.action = "CREATE_TABLE_LIKE" =>
            /\ IsTable(target, defaultSchema(s.reference, current))
            /\ c = IF Exists(target, ref) THEN target
                   ELSE With(target, ref, [target.objects[defaultSchema(s.reference, current)] EXCEPT !.rows = FALSE])
       /\ s.action = "CREATE_VIEW" => c = With(target, ref, aView)
       /\ s.action = "TRUNCATE_TABLE" =>
            c = With(target, ref, [target.objects[ref] EXCEPT !.rows = FALSE]) /\ IsTable(target, ref)
  BY <1>1, <1>5, <1>6, ServesTable DEF c
<1>11. CASE old /\ s.action \in {"CREATE_TABLE", "CREATE_TABLE_LIKE"}
  <2>1. r.view = view
    BY <1>9, <1>11
  <2>2. c = target
    BY <1>8, <1>10, <1>11
  <2> QED  BY <1>4, <1>5, <2>1, <2>2
<1>12. CASE ~old /\ s.action = "CREATE_TABLE"
  <2> DEFINE o == aTable(s.columns, s.indexes)
             p == aTable(s.columns, AllIndexes(s))
  <2>1. o \in Object /\ p \in Object
    <3>1. s.columns \in Seq(Columns) /\ s.indexes \in Indexes /\ AllIndexes(s) \in Indexes
      BY <1>12, StatementKinds, AllIndexesType
    <3> QED  BY <3>1, NewObjects
  <2>2. view' = With(view, ref, o)
    BY <1>4, <1>9, <1>12
  <2>3. target' = With(target, ref, p)
    BY <1>5, <1>8, <1>10, <1>12
  <2>4. /\ o.kind = "table" /\ p.kind = "table" /\ o.columns = p.columns
        /\ o.indexes = s.indexes /\ p.indexes = AllIndexes(s)
    BY DEF aTable
  <2>5. ref \notin hidden' => o.indexes = p.indexes
    <3>1. ref \notin hidden' => ~HidesIndexes(s)
      BY <1>2 DEF Even
    <3>2. ~HidesIndexes(s) => AllIndexes(s) = s.indexes
      BY <1>12, AllIndexesType DEF HidesIndexes
    <3> HIDE DEF o, p
    <3> QED  BY <2>4, <3>1, <3>2
  <2> HIDE DEF o, p
  <2>6. ShapeOf(o, ref, hidden') = ShapeOf(p, ref, hidden')
    BY <2>1, <2>4, <2>5, ShapeTable
  <2>7. Agree(With(view, ref, o), With(target, ref, p), doubt, hidden')
    BY <1>3, <1>7, <2>1, <2>6, AgreeWith
  <2> QED  BY <2>2, <2>3, <2>7
<1>13. CASE ~old /\ s.action = "CREATE_TABLE_LIKE"
  <2> DEFINE from == defaultSchema(s.reference, current)
             like == target.objects[from]
             o == aTable(view.objects[from].columns, view.objects[from].indexes)
             p == [like EXCEPT !.rows = FALSE]
  <2>1. s.reference \in Named(s)
    BY <1>13, NamedFacts
  <2>2. from = defaultSchema(s.reference, own) /\ from \in Ref \ doubt
    BY <2>1 DEF Alike
  <2>3. view' = With(view, ref, o)
    BY <1>4, <1>9, <1>13, <2>2
  <2>4. target' = With(target, ref, p) /\ IsTable(target, from)
    BY <1>5, <1>8, <1>10, <1>13
  <2> HIDE DEF from
  <2>5. /\ view.objects[from].columns = like.columns
        /\ ref \notin hidden' => view.objects[from].indexes = like.indexes
    <3>1. /\ view.objects[from].columns = like.columns
          /\ from \notin hidden' => view.objects[from].indexes = like.indexes
      BY <1>7, <2>2, <2>4, AgreeFacts
    <3>2. ref \notin hidden' => from \notin hidden'
      BY <1>2, <2>1 DEF Even, from
    <3> QED  BY <3>1, <3>2
  <2>6. like \in Object /\ like.kind = "table"
    BY <1>7, <2>2, <2>4, CatalogFields DEF IsTable
  <2> HIDE DEF like
  <2>7. p \in Object /\ p.kind = "table" /\ p.columns = like.columns /\ p.indexes = like.indexes
    BY <2>6, NewRows
  <2>8. /\ o \in Object /\ o.kind = "table" /\ o.columns = like.columns
        /\ ref \notin hidden' => o.indexes = like.indexes
    <3>1. view.objects[from] \in Object
      <4>1. Exists(view, from)
        BY <1>7, <2>2, <2>4, AgreeFacts DEF IsTable
      <4> QED  BY <1>7, <2>2, <4>1, CatalogFields
    <3>2. view.objects[from].columns \in Seq(Columns) /\ view.objects[from].indexes \in Indexes
      BY <3>1, ObjectFields DEF Indexes
    <3>3. o \in Object
      BY <3>2, NewObjects
    <3>4. o.kind = "table" /\ o.columns = view.objects[from].columns /\ o.indexes = view.objects[from].indexes
      BY DEF aTable
    <3> HIDE DEF o
    <3> QED  BY <2>5, <3>3, <3>4
  <2> HIDE DEF o, p
  <2>9. ShapeOf(o, ref, hidden') = ShapeOf(p, ref, hidden')
    BY <2>7, <2>8, ShapeTable
  <2>10. Agree(With(view, ref, o), With(target, ref, p), doubt, hidden')
    BY <1>3, <1>7, <2>7, <2>8, <2>9, AgreeWith
  <2> QED  BY <2>3, <2>4, <2>10
<1>14. CASE s.action = "CREATE_VIEW"
  <2>1. view' = With(view, ref, aView)
    BY <1>4, <1>9, <1>14
  <2>2. target' = With(target, ref, aView)
    BY <1>5, <1>10, <1>14
  <2>3. Agree(With(view, ref, aView), With(target, ref, aView), doubt, hidden')
    BY <1>3, <1>7, NewObjects, AgreeWith
  <2> QED  BY <2>1, <2>2, <2>3
<1>15. CASE s.action = "TRUNCATE_TABLE"
  <2> DEFINE it == target.objects[ref]
             p == [it EXCEPT !.rows = FALSE]
  <2>1. view' = view
    BY <1>4, <1>9, <1>15
  <2>2. target' = With(target, ref, p) /\ IsTable(target, ref)
    BY <1>5, <1>10, <1>15
  <2>3. it \in Object /\ it.kind = "table"
    BY <1>3, <1>7, <2>2, CatalogFields DEF IsTable
  <2> HIDE DEF it
  <2>4. p \in Object /\ p.kind = "table" /\ p.columns = it.columns /\ p.indexes = it.indexes
    BY <2>3, NewRows
  <2> HIDE DEF p
  <2>5. ShapeOf(it, ref, hidden') = ShapeOf(p, ref, hidden')
    BY <2>3, <2>4, ShapeTable
  <2>6. /\ target'.schemas = target.schemas
        /\ \A q \in Ref : target'.objects[q] = IF q = ref THEN p ELSE target.objects[q]
    BY <1>3, <1>7, <2>2, <2>4, WithFacts
  <2>7. \A q \in Ref : ShapeOf(target'.objects[q], q, hidden') = ShapeOf(target.objects[q], q, hidden')
    BY <2>5, <2>6 DEF it
  <2> QED  BY <2>1, <2>6, <2>7 DEF Agree
<1> QED  BY <1>11, <1>12, <1>13, <1>14, <1>15

LEMMA DropInDoubt ==
  ASSUME NEW s, s.action = "DROP_TABLE", s.ifExists
  PROVE  PutsInDoubt(s) = {r \in NamedByAudit(s) : Exists(view, r) /\ view.objects[r].kind = "view"}
<1>1. ~MixedNames(s)
  BY DEF MixedNames, Alters
<1> QED  BY <1>1 DEF PutsInDoubt

LEMMA AgreeDrop ==
  ASSUME Typed, NEW s \in Statement, s.action \in OfTables, Resolved(s, database), Agree(view, target, doubt, hidden'), Alike(s),
         refused = Nothing, doubt' = DoubtAfter(s), Admitted(s), Takes(s)
  PROVE  Agree(view', target', doubt', hidden')
<1> USE DEF Typed
<1> DEFINE N == NamedByServer(s)
           T == {r \in N : IsTable(target, r)}
           c == Effect(target, ServerResolves(s, current))
<1>1. N = NamedByAudit(s) /\ \A r \in N : r \in Ref \ doubt
  BY DEF Alike, NamedByServer
<1>2. view' = Without(view, N)
  BY <1>1, AuditDrop DEF Admitted
<1>3. Accepts(target, ServerResolves(s, current)) /\ target' = c
  BY DEF Takes
<1>4. /\ s.action = "DROP_TABLE" => c = Without(target, T)
      /\ s.action = "DROP_VIEW" => c = Without(target, N)
      /\ s.action = "DROP_TABLE" /\ ~s.ifExists => \A r \in N : IsTable(target, r)
  BY <1>3, ServesDrop
<1>5. view \in Catalogs /\ target \in Catalogs
  BY DEF TypeOK
<1>6. doubt \subseteq doubt' /\ PutsInDoubt(s) \cap Ref \subseteq doubt'
  BY DoubtGrows
<1> HIDE DEF c
<1>7. CASE s.action = "DROP_VIEW"
  <2>1. Agree(Without(view, N), Without(target, N), doubt, hidden')
    BY <1>5, AgreeWithout
  <2>2. Agree(view', target', doubt, hidden')
    BY <1>2, <1>3, <1>4, <1>7, <2>1
  <2> QED  BY <1>6, <2>2, AgreeWider
<1>8. CASE s.action = "DROP_TABLE"
  <2> HIDE DEF N
  <2>1. target' = Without(target, T)
    BY <1>3, <1>4, <1>8
  <2>2. /\ view'.schemas = view.schemas /\ \A q \in Ref : view'.objects[q] = IF q \in N THEN Absent ELSE view.objects[q]
    BY <1>2, <1>5, WithoutFacts
  <2>3. /\ target'.schemas = target.schemas
        /\ \A q \in Ref : target'.objects[q] = IF q \in T THEN Absent ELSE target.objects[q]
    BY <1>5, <2>1, WithoutFacts
  <2>4. view.schemas = target.schemas
    BY DEF Agree
  <2>5. ASSUME NEW q \in Ref \ doubt' PROVE ShapeOf(view'.objects[q], q, hidden') = ShapeOf(target'.objects[q], q, hidden')
    <3>1. q \in Ref \ doubt
      BY <1>6
    <3>2. CASE q \notin N
      <4>1. view'.objects[q] = view.objects[q] /\ target'.objects[q] = target.objects[q]
        BY <2>2, <2>3, <3>2
      <4> QED  BY <3>1, <4>1 DEF Agree
    <3>3. CASE q \in N /\ IsTable(target, q)
      BY <2>2, <2>3, <3>3
    <3>4. CASE q \in N /\ ~IsTable(target, q)
      <4>1. s.ifExists
        BY <1>4, <1>8, <3>4
      <4>2. ~(Exists(view, q) /\ view.objects[q].kind = "view")
        <5>1. PutsInDoubt(s) = {r \in NamedByAudit(s) : Exists(view, r) /\ view.objects[r].kind = "view"}
          BY <1>8, <4>1, DropInDoubt
        <5>2. q \notin PutsInDoubt(s) /\ q \in NamedByAudit(s)
          BY <1>1, <1>6, <3>4
        <5> QED  BY <5>1, <5>2
      <4>3. ~IsTable(view, q) /\ (Exists(view, q) => view.objects[q].kind \in {"table", "view"})
        BY <1>5, <3>1, <3>4, AgreeFacts, CatalogFields, ObjectFields
      <4>4. ~Exists(view, q)
        BY <4>2, <4>3 DEF IsTable
      <4>5. ~Exists(target, q)
        BY <1>5, <3>1, <4>4, AgreeFacts
      <4> QED  BY <2>2, <2>3, <3>4, <4>5 DEF Exists
    <3> QED  BY <3>2, <3>3, <3>4
  <2> QED  BY <2>2, <2>3, <2>4, <2>5 DEF Agree
<1> QED  BY <1>7, <1>8 DEF OfTables

LEMMA AgreeRename ==
  ASSUME Typed, NEW s \in Statement, s.action = "RENAME_TABLE", Resolved(s, database), Agree(view, target, doubt, hidden'), Alike(s), Even(s),
         Admitted(s), Takes(s)
  PROVE  Agree(view', target', doubt, hidden')
<1> USE DEF Typed
<1> DEFINE a == resolveStatementDatabase(s, database)
           t == ServerResolves(s, current)
           own == Database(s, database)
<1>1. view \in Catalogs /\ target \in Catalogs
  BY DEF TypeOK
<1>2. PrepareDDL(view, a) /\ ApplyDDL(view, a).ok /\ view' = ApplyDDL(view, a).view
  BY DEF Admitted
<1>3. Accepts(target, t) /\ target' = Effect(target, t)
  BY DEF Takes
<1>4. \A r \in Named(s) : defaultSchema(r, current) \in Ref
  BY DEF Alike
<1>5. a.pairs \in Seq(Pairs) /\ ApplyDDL(view, a) = renamePairs(view, a.pairs)
  BY <1>2, AuditRename
<1>6. t.pairs \in Seq(Pairs) /\ \E g : Moving(target, t.pairs, g) /\ target' = g[Len(t.pairs)]
  BY <1>3, <1>4, ServesRename
<1>7. /\ a.pairs = [i \in DOMAIN s.pairs |-> ResolvePair(s.pairs[i], own)]
      /\ t.pairs = [i \in DOMAIN s.pairs |-> ResolvePair(s.pairs[i], current)]
  BY DatabaseTypes, AuditFields, ServerFields
<1>8. ASSUME NEW i \in DOMAIN s.pairs
      PROVE  /\ ResolvePair(s.pairs[i], own) = ResolvePair(s.pairs[i], current)
             /\ t.pairs[i].from \notin doubt /\ t.pairs[i].to \notin doubt
             /\ t.pairs[i].from \in hidden' => t.pairs[i].to \in hidden'
  <2>1. s.pairs[i].from \in Named(s) /\ s.pairs[i].to \in Named(s)
    BY NamedFacts
  <2>2. /\ defaultSchema(s.pairs[i].from, current) = defaultSchema(s.pairs[i].from, own)
        /\ defaultSchema(s.pairs[i].from, current) \notin doubt
        /\ defaultSchema(s.pairs[i].to, current) = defaultSchema(s.pairs[i].to, own)
        /\ defaultSchema(s.pairs[i].to, current) \notin doubt
    BY <2>1 DEF Alike
  <2>3. defaultSchema(s.pairs[i].from, current) \in hidden' => defaultSchema(s.pairs[i].to, current) \in hidden'
    BY <2>1 DEF Even
  <2> QED  BY <1>7, <2>2, <2>3 DEF ResolvePair
<1> HIDE DEF a, t, own
<1>9. a.pairs = t.pairs
  BY <1>7, <1>8
<1>10. DOMAIN t.pairs = DOMAIN s.pairs
  BY <1>7
<1>11. PICK g : Moving(target, t.pairs, g) /\ target' = g[Len(t.pairs)]
  BY <1>6
<1>12. PICK f : Moving(view, a.pairs, f) /\ renamePairs(view, a.pairs).view = f[Len(a.pairs)]
  BY <1>1, <1>2, <1>5, renamePairsExists
<1>13. \A n \in DOMAIN t.pairs : /\ t.pairs[n].from \notin doubt /\ t.pairs[n].to \notin doubt
                                 /\ t.pairs[n].from \in hidden' => t.pairs[n].to \in hidden'
  BY <1>8, <1>10
<1>14. Agree(f[Len(t.pairs)], g[Len(t.pairs)], doubt, hidden')
  <2> DEFINE ps == t.pairs
  <2>1. ps \in Seq(Pairs) /\ Moving(view, ps, f) /\ Moving(target, ps, g)
    BY <1>6, <1>9, <1>11, <1>12
  <2>2. /\ \A n \in DOMAIN ps : ps[n].from \notin doubt /\ ps[n].to \notin doubt
        /\ \A n \in DOMAIN ps : ps[n].from \in hidden' => ps[n].to \in hidden'
    BY <1>13
  <2> HIDE DEF ps
  <2>3. Agree(f[Len(ps)], g[Len(ps)], doubt, hidden')
    BY <1>1, <2>1, <2>2, MovingAgree
  <2> QED  BY <2>3 DEF ps
<1> QED  BY <1>2, <1>5, <1>9, <1>11, <1>12, <1>14

LEMMA SameOps ==
  ASSUME TypeOK, NEW s \in Statement, Alters(s), Alike(s)
  PROVE  ResolveOps(s.ops, Database(s, database)) = ResolveOps(s.ops, current)
<1>1. ASSUME NEW i \in DOMAIN s.ops, s.ops[i].op = "RENAME_TABLE"
      PROVE  defaultSchema(s.ops[i].newTable, Database(s, database)) = defaultSchema(s.ops[i].newTable, current)
  <2>1. s.ops[i].newTable \in Named(s)
    <3>1. i \in OpsOf(s.ops, {"RENAME_TABLE"})
      BY <1>1 DEF OpsOf
    <3> QED  BY <3>1, NamedFacts
  <2> QED  BY <2>1 DEF Alike
<1> HIDE DEF Alters
<1> QED  BY <1>1 DEF ResolveOps

LEMMA AgreeAlter ==
  ASSUME Typed, NEW s \in Statement, Alters(s), Resolved(s, database), Agree(view, target, doubt, hidden'), Alike(s), Even(s),
         ~MixedNames(s), ~ReusesNames(s), Admitted(s), Takes(s)
  PROVE  Agree(view', target', doubt, hidden')
<1> USE DEF Typed
<1> DEFINE a == resolveStatementDatabase(s, database)
           ref == defaultSchema(s.table, current)
           ops == ResolveOps(s.ops, current)
           old == target.objects[ref]
           t == [ref |-> ref, object |-> view.objects[ref]]
           u == applyTableDDL(t, s.ops)
           to == NewTable(ref, ops)
<1>1. view \in Catalogs /\ target \in Catalogs
  BY DEF TypeOK
<1>2. s.action \in OfTable /\ s.ops \in Seq(AlterOperation)
  BY StatementKinds DEF OfTable, Alters
<1>3. s.table \in Named(s)
  BY <1>2, NamedFacts
<1>4. ref = defaultSchema(s.table, Database(s, database)) /\ ref \in Ref \ doubt
  BY <1>3 DEF Alike
<1>5. PrepareDDL(view, a) /\ ApplyDDL(view, a).ok /\ view' = ApplyDDL(view, a).view
  BY DEF Admitted
<1>6. /\ t \in Tables
      /\ u = Absent => ApplyDDL(view, a) = [view |-> view, ok |-> FALSE]
      /\ u # Absent => /\ u \in Tables
                       /\ ApplyDDL(view, a) = Applied(With(Without(view, {ref}), u.ref, u.object))
  BY <1>4, <1>5, AuditAlter
<1> HIDE DEF a, u
<1>7. u # Absent
  <2>1. ApplyDDL(view, a) = [view |-> view, ok |-> FALSE] => ApplyDDL(view, a).ok = FALSE
    OBVIOUS
  <2>2. ApplyDDL(view, a) = [view |-> view, ok |-> FALSE] => ~ApplyDDL(view, a).ok
    BY <2>1, Zenon
  <2> QED  BY <1>5, <1>6, <2>2
<1>8. view' = With(Without(view, {ref}), u.ref, u.object) /\ u.ref \in Ref /\ u.object \in Object
  BY <1>5, <1>6, <1>7, AppliedFields DEF Tables
<1>9. Accepts(target, ServerResolves(s, current)) /\ target' = Effect(target, ServerResolves(s, current))
  BY DEF Takes
<1>10. \A r \in Named(s) : defaultSchema(r, current) \in Ref
  BY DEF Alike
<1>11. /\ IsTable(target, ref) /\ AltersColumns(old.columns, ops) /\ to \in Ref
       /\ target' = With(Without(target, {ref}), to, Alteration(old, ops))
  BY <1>9, <1>10, ServesAlter
<1>12. u.ref = to
  <2>1. PICK q : Renames(t.ref, s.ops, q) /\ u.ref = q[Len(s.ops)]
    BY <1>2, <1>6, <1>7, AlteringExists DEF u
  <2>2. Renames(defaultSchema(s.table, Database(s, database)), s.ops, q)
    BY <1>4, <2>1
  <2>3. q[Len(s.ops)] = NewTable(defaultSchema(s.table, Database(s, database)), ResolveOps(s.ops, Database(s, database)))
    BY <2>2, AuditNewName
  <2>4. ResolveOps(s.ops, Database(s, database)) = ops
    BY SameOps
  <2> QED  BY <1>4, <2>1, <2>3, <2>4
<1>13. /\ view.objects[ref].columns = old.columns
       /\ ref \notin hidden' => view.objects[ref].indexes = old.indexes
       /\ IsTable(view, ref)
  BY <1>1, <1>4, <1>11, AgreeFacts
<1>14. old \in Object /\ old.kind = "table" /\ IsInjective(old.columns) /\ view.objects[ref].kind = "table"
  BY <1>1, <1>4, <1>11, <1>13, CatalogFields DEF IsTable, DistinctColumns
<1>15. NoReuse(s.ops)
  BY DEF NoReuse, ReusesNames
<1>16. t.object = view.objects[ref]
  OBVIOUS
<1> HIDE DEF t, to, old
<1>17. current \in SchemaOrNone
  BY DatabaseTypes
<1>18. /\ u.object.kind = "table"
       /\ u.object.columns = AlteredColumns(old.columns, ops)
       /\ to \notin hidden' => u.object.indexes = AlteredIndexes(old.indexes, ops)
  <2>1. IsInjective(t.object.columns) /\ AltersColumns(t.object.columns, ResolveOps(s.ops, current))
    BY <1>11, <1>13, <1>14, <1>16
  <2>2. applyTableDDL(t, s.ops) # Absent
    BY <1>7 DEF u
  <2>3. LET x == applyTableDDL(t, s.ops).object
        IN  /\ x.kind = t.object.kind
            /\ x.columns = AlteredColumns(t.object.columns, ResolveOps(s.ops, current))
            /\ OpsOf(s.ops, {"COLUMN_KEY"}) = {} =>
                 x.indexes = AlteredIndexes(t.object.indexes, ResolveOps(s.ops, current))
    BY <1>2, <1>6, <1>15, <1>17, <2>1, <2>2, AlterAgrees
  <2>4. to \notin hidden' => ref \notin hidden' /\ OpsOf(s.ops, {"COLUMN_KEY"}) = {}
    <3>1. to = ref \/ \E r \in Named(s) : to = defaultSchema(r, current)
      BY <1>2, <1>3, AlterNames DEF to, ops
    <3>2. to \notin hidden' => ref \notin hidden' /\ ~HidesIndexes(s)
      BY <1>3, <3>1 DEF Even
    <3> QED  BY <3>2 DEF HidesIndexes
  <2> QED  BY <1>13, <1>14, <1>16, <2>3, <2>4 DEF u
<1> DEFINE new == Alteration(old, ops)
<1>19. new \in Object /\ new.kind = "table" /\ new.columns = AlteredColumns(old.columns, ops)
       /\ new.indexes = AlteredIndexes(old.indexes, ops)
  <2>1. ops \in Seq(AlterOperation)
    BY <1>2, <1>17, ResolveOpsFacts
  <2> HIDE DEF ops
  <2> QED  BY <1>14, <2>1, AlteredTypes
<1> HIDE DEF new, ops
<1>20. ShapeOf(u.object, to, hidden') = ShapeOf(new, to, hidden')
  BY <1>8, <1>18, <1>19, ShapeTable
<1> DEFINE v == Without(view, {ref})
           w == Without(target, {ref})
<1>21. v \in Catalogs /\ w \in Catalogs /\ Agree(v, w, doubt, hidden')
  BY <1>1, WithoutFacts, AgreeWithout
<1> HIDE DEF v, w
<1>22. Agree(With(v, to, u.object), With(w, to, new), doubt, hidden')
  BY <1>8, <1>11, <1>19, <1>20, <1>21, AgreeWith
<1>23. view' = With(v, to, u.object)
  BY <1>8, <1>12 DEF v
<1>24. target' = With(w, to, new)
  BY <1>11 DEF w, new
<1> QED  BY <1>22, <1>23, <1>24

LEMMA AgreeSchema ==
  ASSUME Typed, NEW s \in Statement, s.action \in {"CREATE_DATABASE", "DROP_DATABASE"}, Agree(view, target, doubt, hidden'), SameDatabase,
         refused = Nothing, doubt' = DoubtAfter(s), Admitted(s), Takes(s), database' = database
  PROVE  Agree(view', target', doubt', hidden') /\ SameDatabase'
<1> USE DEF Typed
<1> DEFINE r == ApplyDDL(view, resolveStatementDatabase(s, database))
           c == Effect(target, ServerResolves(s, current))
<1>1. s.action \in OfSchema /\ s.schema \in Schemas
  BY StatementTable DEF OfSchema
<1>2. view' = r.view /\ target' = c
  BY DEF Admitted, Takes
<1>3. /\ r.view.objects = view.objects
      /\ r.view.schemas = IF s.action = "CREATE_DATABASE" THEN view.schemas \cup {s.schema} ELSE view.schemas \ {s.schema}
  BY AuditSchema
<1>4. /\ s.action = "CREATE_DATABASE" => c.schemas = target.schemas \cup {s.schema} /\ c.objects = target.objects
      /\ s.action = "DROP_DATABASE" =>
           /\ c.schemas = target.schemas \ {s.schema}
           /\ \A p \in Ref : p \notin {s.schema} \X Names => c.objects[p] = target.objects[p]
  BY <1>1, ServesSchema
<1>5. /\ s.action = "DROP_DATABASE" => current' = IF s.schema = current THEN NoSchema ELSE current
      /\ s.action = "CREATE_DATABASE" => current' = current
  BY TakesCurrent
<1>6. doubt \subseteq doubt' /\ PutsInDoubt(s) \cap Ref \subseteq doubt'
  BY DoubtGrows
<1>7. view.schemas = target.schemas /\ \A q \in Ref \ doubt : ShapeOf(view.objects[q], q, hidden') = ShapeOf(target.objects[q], q, hidden')
  BY DEF Agree
<1> HIDE DEF r, c
<1>8. CASE s.action = "CREATE_DATABASE"
  <2>1. Agree(view', target', doubt', hidden')
    BY <1>2, <1>3, <1>4, <1>6, <1>7, <1>8 DEF Agree
  <2>2. SameDatabase'
    BY <1>5, <1>6, <1>8 DEF SameDatabase
  <2> QED  BY <2>1, <2>2
<1>9. CASE s.action = "DROP_DATABASE"
  <2>1. PutsInDoubt(s) = {s.schema} \X Names
    <3>1. ~MixedNames(s)
      BY <1>9 DEF MixedNames, Alters
    <3> QED  BY <1>9, <3>1 DEF PutsInDoubt
  <2>2. {s.schema} \X Names \subseteq doubt'
    BY <1>1, <1>6, <2>1 DEF Ref
  <2>3. ASSUME NEW q \in Ref \ doubt' PROVE ShapeOf(view'.objects[q], q, hidden') = ShapeOf(target'.objects[q], q, hidden')
    <3>1. q \in Ref \ doubt /\ q \notin {s.schema} \X Names
      BY <1>6, <2>2
    <3>2. view'.objects[q] = view.objects[q] /\ target'.objects[q] = target.objects[q]
      BY <1>2, <1>3, <1>4, <1>9, <3>1
    <3> QED  BY <1>7, <3>1, <3>2
  <2>4. view'.schemas = target'.schemas
    BY <1>2, <1>3, <1>4, <1>7, <1>9
  <2>5. Agree(view', target', doubt', hidden')
    BY <2>3, <2>4 DEF Agree
  <2>6. SameDatabase'
    <3>1. CASE s.schema = current
      <4>1. current # NoSchema
        BY <1>1, <3>1, NoSchemaAssumption
      <4>2. database = current
        BY <4>1 DEF SameDatabase
      <4>3. current' = NoSchema /\ {database'} \X Names \subseteq doubt'
        BY <1>5, <1>9, <2>2, <3>1, <4>2
      <4> QED  BY <4>3 DEF SameDatabase
    <3>2. CASE s.schema # current
      BY <1>5, <1>6, <1>9, <3>2 DEF SameDatabase
    <3> QED  BY <3>1, <3>2
  <2> QED  BY <2>5, <2>6
<1> QED  BY <1>8, <1>9

(* An admitted DDL statement that the server executes.                      *)
LEMMA AgreeDDL ==
  ASSUME Typed, NEW s \in Statement, s.action \notin {"USE", "DML"}, Resolved(s, database),
         Agree(view, target, doubt, hidden), SameDatabase, refused = Nothing,
         doubt' = DoubtAfter(s), hidden' = HiddenAfter(s),
         Admitted(s), Takes(s), database' = database
  PROVE  Agree(view', target', doubt', hidden') /\ SameDatabase'
<1>1. hidden \subseteq hidden' /\ (Alike(s) => Even(s))
  BY HiddenGrows
<1>2. Agree(view, target, doubt, hidden')
  BY <1>1, AgreeWider
<1>3. CASE s.action \in {"CREATE_DATABASE", "DROP_DATABASE"}
  BY <1>3, <1>2, AgreeSchema
<1>4. CASE s.action \notin {"CREATE_DATABASE", "DROP_DATABASE"}
  <2>1. s.action \notin OfSchema
    BY <1>4 DEF OfSchema
  <2>2. doubt \subseteq doubt'
    BY DoubtGrows DEF Typed
  <2>3. SameDatabase'
    <3>1. current' = current
      BY <1>4, TakesCurrent DEF Typed
    <3> QED  BY <2>2, <3>1 DEF SameDatabase
  <2>4. CASE InDoubt(s)
    <3>1. Only(view, view', MayTouch(s))
      BY <2>1, AuditOverlaid DEF Typed, Admitted, Overlaid
    <3>2. Only(target, target', NamedByServer(s))
      BY <2>1, TakesServed DEF Typed, Served
    <3>3. Agree(view', target', doubt', hidden')
      <4>1. Agree(view', target', doubt', hidden)
        BY <2>1, <2>4, <3>1, <3>2, DoubtAgrees
      <4> QED  BY <1>1, <4>1, AgreeWider
    <3> QED  BY <2>3, <3>3
  <2>5. CASE ~InDoubt(s)
    <3>1. Alike(s) /\ Even(s) /\ ~MixedNames(s) /\ ~ReusesNames(s)
      BY <1>1, <2>1, <2>5, NamesAlike DEF Typed, InDoubt
    <3>2. CASE s.action \in {"CREATE_TABLE", "CREATE_TABLE_LIKE", "CREATE_VIEW", "TRUNCATE_TABLE"}
      BY <1>2, <2>2, <2>3, <3>1, <3>2, AgreeTable, AgreeWider
    <3>3. CASE s.action \in OfTables
      BY <1>2, <2>3, <3>1, <3>3, AgreeDrop
    <3>4. CASE s.action = "RENAME_TABLE"
      BY <1>2, <2>2, <2>3, <3>1, <3>4, AgreeRename, AgreeWider
    <3>5. CASE Alters(s)
      BY <1>2, <2>2, <2>3, <3>1, <3>5, AgreeAlter, AgreeWider
    <3> QED  BY <2>1, <3>2, <3>3, <3>4, <3>5, StatementDomain DEF OfTable, OfTables, Alters
  <2> QED  BY <2>4, <2>5
<1> QED  BY <1>3, <1>4

(* The server accepts a DML that the audit let pass and that is not in      *)
(* doubt.                                                                   *)
LEMMA AcceptsDML ==
  ASSUME Typed, NEW s \in Statement, s.action = "DML", Resolved(s, database), Agree(view, target, doubt, hidden), SameDatabase,
         ~InDoubt(s), Check(view, resolveStatementDatabase(s, database))
  PROVE  Known(s) /\ Accepts(target, ServerResolves(s, current))
<1> USE DEF Typed
<1> DEFINE a == resolveStatementDatabase(s, database)
           t == ServerResolves(s, current)
           ref == defaultSchema(s.table, current)
<1>1. s.action \in OfTable /\ s.action \notin OfSchema
  BY DEF OfTable, OfSchema
<1>2. s.table \in Named(s) /\ s.columns \in SUBSET Columns
  BY <1>1, NamedFacts, StatementKinds
<1>3. ref = defaultSchema(s.table, Database(s, database)) /\ ref \in Ref \ doubt
  BY <1>1, <1>2, SameNames
<1>4. a.table = ref /\ t.table = ref /\ t.action = "DML"
  <2>1. a.table = ref
    BY <1>1, <1>3, DatabaseTypes, AuditFields
  <2>2. t.table = ref
    BY <1>1, ServerFields
  <2>3. t.action = "DML"
    BY ServerFields
  <2> QED  BY <2>1, <2>2, <2>3
<1>5. a.columns = s.columns /\ t.columns = s.columns
  <2>1. DOMAIN s = {"action", "table", "columns"}
    BY StatementKinds
  <2>2. \A f \in DOMAIN s \ {"table", "reference", "tables", "pairs"} : a[f] = s[f]
    BY DatabaseTypes, AuditFields
  <2>3. \A f \in DOMAIN s \ {"table", "reference", "tables", "pairs", "ops"} : t[f] = s[f]
    BY ServerFields
  <2> HIDE DEF a, t
  <2> QED  BY <2>1, <2>2, <2>3
<1>6. Exists(view, ref) /\ \A c \in s.columns : HasColumn(view.objects[ref], c)
  <2>1. Exists(view, a.table) /\ \A c \in a.columns : HasColumn(view.objects[a.table], c)
    BY DEF Check
  <2> HIDE DEF a, ref
  <2> QED  BY <1>4, <1>5, <2>1
<1>7. view \in Catalogs /\ target \in Catalogs
  BY DEF TypeOK
<1>8. view.objects[ref] \in Object
  BY <1>3, <1>6, <1>7, CatalogFields
<1>9. Known(s)
  BY SameNamesKnown
<1> HIDE DEF a, t, ref
<1>10. CASE IsView(view, ref)
  <2>1. IsView(target, ref)
    BY <1>3, <1>7, <1>10, AgreeFacts
  <2>2. Accepts(target, t)
    BY <1>4, <2>1 DEF Accepts, Alters
  <2> QED  BY <1>9, <2>2 DEF t
<1>11. CASE IsTable(view, ref)
  <2>1. IsTable(target, ref) /\ view.objects[ref].columns = target.objects[ref].columns
    BY <1>3, <1>7, <1>11, AgreeFacts
  <2>2. ASSUME NEW c \in s.columns PROVE c \in ToSet(target.objects[ref].columns)
    <3>1. \E i \in DOMAIN view.objects[ref].columns : view.objects[ref].columns[i] = c
      BY <1>6, <1>8, HasColumnFacts
    <3> QED  BY <2>1, <3>1 DEF ToSet
  <2>3. t.columns \subseteq ToSet(target.objects[t.table].columns)
    BY <1>4, <1>5, <2>2
  <2>4. Accepts(target, t)
    BY <1>4, <2>1, <2>3 DEF Accepts, Alters
  <2> QED  BY <1>9, <2>4 DEF t
<1>12. IsView(view, ref) \/ IsTable(view, ref)
  BY <1>6, <1>8, ObjectFields DEF IsView, IsTable
<1> QED  BY <1>10, <1>11, <1>12

(* The inductive invariant.                                                 *)
Matches == ~rejected /\ refused = Nothing => Agree(view, target, doubt, hidden) /\ SameDatabase
IInv == Typed /\ Matches /\ AdmittedDMLRuns

LEMMA MatchesSame ==
  ASSUME TypeOK
  PROVE  Matches <=> ViewMatchesTarget
<1>1. view \in Catalogs /\ target \in Catalogs
  BY DEF TypeOK
<1>2. /\ Shape(view).schemas = view.schemas /\ \A r \in Ref : Shape(view).objects[r] = ShapeOf(view.objects[r], r, hidden)
      /\ Shape(target).schemas = target.schemas /\ \A r \in Ref : Shape(target).objects[r] = ShapeOf(target.objects[r], r, hidden)
  BY <1>1, ShapeAt
<1>3. Agree(view, target, doubt, hidden) <=>
        /\ Shape(view).schemas = Shape(target).schemas
        /\ \A r \in Ref \ doubt : Shape(view).objects[r] = Shape(target).objects[r]
  BY <1>2 DEF Agree
<1> QED  BY <1>3 DEF Matches, ViewMatchesTarget, SameDatabase

LEMMA InitIInv == Init => IInv
<1> SUFFICES ASSUME Init PROVE IInv
  OBVIOUS
<1>1. Typed
  BY InitTyped
<1>2. Matches
  BY DEF Init, Matches, Agree, SameDatabase
<1>3. AdmittedDMLRuns
  BY DEF Init, AdmittedDMLRuns, Nothing
<1> QED  BY <1>1, <1>2, <1>3 DEF IInv

(* What holds after an admitted statement if it is so for its own step.     *)
LEMMA TakesDML ==
  ASSUME NEW s, AdmittedDMLRuns, TakesNot(s) \/ Takes(s) \/ Refuses(s),
         rejected => rejected',
         s.action = "DML" /\ ~rejected /\ Refuses(s) => InDoubt(s)
  PROVE  AdmittedDMLRuns'
<1>1. CASE rejected'
  BY <1>1 DEF AdmittedDMLRuns
<1>2. CASE ~rejected'
  <2>1. ~rejected /\ refused # "DML"
    BY <1>2 DEF AdmittedDMLRuns
  <2>2. CASE TakesNot(s) \/ Takes(s)
    <3>1. refused' = refused
      BY <2>2 DEF TakesNot, Takes
    <3> QED  BY <2>1, <3>1 DEF AdmittedDMLRuns
  <2>3. CASE Refuses(s)
    <3>1. refused' = IF InDoubt(s) THEN Doubtful ELSE s.action
      BY <2>3 DEF Refuses
    <3>2. refused' # "DML"
      BY <2>1, <2>3, <3>1 DEF Doubtful
    <3> QED  BY <3>2 DEF AdmittedDMLRuns
  <2> QED  BY <2>2, <2>3
<1> QED  BY <1>1, <1>2

LEMMA NextIInv == IInv /\ [Next]_vars => IInv'
<1> SUFFICES ASSUME IInv, [Next]_vars PROVE IInv'
  OBVIOUS
<1>1. Typed /\ TypeOK /\ Matches /\ AdmittedDMLRuns
  BY DEF IInv, Typed
<1>2. Typed'
  BY <1>1, NextTyped
<1>3. CASE UNCHANGED vars
  <2>1. Matches'
    BY <1>1, <1>3 DEF vars, Matches, Agree, SameDatabase
  <2>2. AdmittedDMLRuns'
    BY <1>1, <1>3 DEF vars, AdmittedDMLRuns
  <2> QED  BY <1>2, <2>1, <2>2 DEF IInv
<1>4. CASE BatchAudited
  BY <1>3, <1>4 DEF BatchAudited
<1>5. CASE Reject
  <2>1. rejected'
    BY <1>5 DEF Reject
  <2> QED  BY <1>2, <2>1 DEF IInv, Matches, AdmittedDMLRuns
<1>6. ASSUME NEW s \in Statements, AdmitUse(s) PROVE IInv'
  <2>1. s \in Statement /\ s.action = "USE"
    BY <1>6, StatementsAssumption DEF AdmitUse
  <2>2. ServerTakes(s) /\ database' = s.schema /\ view' = view /\ rejected' = rejected
    BY <1>6 DEF AdmitUse
  <2>3. doubt' = DoubtAfter(s) /\ hidden' = HiddenAfter(s) /\ (TakesNot(s) \/ Takes(s) \/ Refuses(s))
    BY <2>2, TakesCases
  <2>4. AdmittedDMLRuns'
    BY <1>1, <2>1, <2>2, <2>3, TakesDML
  <2>5. ASSUME ~rejected', refused' = Nothing PROVE Agree(view', target', doubt', hidden') /\ SameDatabase'
    <3>1. Takes(s)
      BY <2>1, <2>3, <2>5 DEF TakesNot, Refuses, Nothing, Doubtful
    <3>2. refused = Nothing /\ Agree(view, target, doubt, hidden)
      BY <1>1, <2>2, <2>5, <3>1 DEF Takes, Matches
    <3>3. target' = target /\ current' = s.schema
      <4>1. ServerResolves(s, current).action = "USE"
        BY <2>1, ServerFields
      <4>2. Effect(target, ServerResolves(s, current)) = target
        BY <4>1, EffectUse
      <4> QED  BY <1>1, <2>1, <3>1, <4>2, TakesCurrent DEF Takes
    <3>4. doubt \subseteq doubt' /\ hidden \subseteq hidden'
      BY <1>1, <2>3, <3>2, DoubtGrows, HiddenGrows
    <3>5. Agree(view', target', doubt', hidden')
      BY <2>2, <3>2, <3>3, <3>4, AgreeWider
    <3> QED  BY <2>2, <3>3, <3>5 DEF SameDatabase
  <2> QED  BY <1>2, <2>4, <2>5 DEF IInv, Matches
<1>7. ASSUME NEW s \in Statements, AdmitDML(s) PROVE IInv'
  <2>1. s \in Statement /\ s.action = "DML" /\ Resolved(s, database) /\ Check(view, resolveStatementDatabase(s, database))
    BY <1>7, StatementsAssumption DEF AdmitDML
  <2>2. ServerTakes(s) /\ database' = database /\ view' = view /\ rejected' = rejected
    BY <1>7 DEF AdmitDML
  <2>3. doubt' = DoubtAfter(s) /\ hidden' = HiddenAfter(s) /\ (TakesNot(s) \/ Takes(s) \/ Refuses(s))
    BY <2>2, TakesCases
  <2>4. ASSUME ~rejected, Refuses(s), ~InDoubt(s) PROVE FALSE
    <3>1. Agree(view, target, doubt, hidden) /\ SameDatabase
      BY <1>1, <2>4 DEF Matches, Refuses
    <3>2. Known(s) /\ Accepts(target, ServerResolves(s, current))
      BY <1>1, <2>1, <2>4, <3>1, AcceptsDML
    <3> QED  BY <2>4, <3>2 DEF Refuses
  <2>5. AdmittedDMLRuns'
    BY <1>1, <2>2, <2>3, <2>4, TakesDML
  <2>6. ASSUME ~rejected', refused' = Nothing PROVE Agree(view', target', doubt', hidden') /\ SameDatabase'
    <3>1. Takes(s)
      BY <2>1, <2>3, <2>6 DEF TakesNot, Refuses, Nothing, Doubtful
    <3>2. refused = Nothing /\ Agree(view, target, doubt, hidden) /\ SameDatabase
      BY <1>1, <2>2, <2>6, <3>1 DEF Takes, Matches
    <3>3. target' = target /\ current' = current
      <4>1. ServerResolves(s, current).action = "DML"
        BY <2>1, ServerFields
      <4>2. Effect(target, ServerResolves(s, current)) = target
        BY <4>1, EffectUse
      <4> QED  BY <1>1, <2>1, <3>1, <4>2, TakesCurrent DEF Takes
    <3>4. doubt \subseteq doubt' /\ hidden \subseteq hidden'
      BY <1>1, <2>3, <3>2, DoubtGrows, HiddenGrows
    <3>5. Agree(view', target', doubt', hidden')
      BY <2>2, <3>2, <3>3, <3>4, AgreeWider
    <3> QED  BY <2>2, <3>2, <3>3, <3>4, <3>5 DEF SameDatabase
  <2> QED  BY <1>2, <2>5, <2>6 DEF IInv, Matches
<1>8. ASSUME NEW s \in Statements, AdmitDDL(s) PROVE IInv'
  <2> DEFINE d == resolveStatementDatabase(s, database)
             r == ApplyDDL(view, d)
  <2>1. s \in Statement /\ s.action \notin {"USE", "DML"} /\ Resolved(s, database)
    BY <1>8, StatementsAssumption DEF AdmitDDL
  <2>2. /\ PrepareDDL(view, d) /\ view' = r.view /\ rejected' = (rejected \/ ~r.ok) /\ database' = database
        /\ IF r.ok THEN ServerTakes(s) ELSE UNCHANGED <<target, current, refused, doubt, hidden>>
    BY <1>8 DEF AdmitDDL
  <2>3. CASE ~r.ok
    <3>1. rejected'
      BY <2>2, <2>3
    <3> QED  BY <1>2, <3>1 DEF IInv, Matches, AdmittedDMLRuns
  <2>4. CASE r.ok
    <3>1. doubt' = DoubtAfter(s) /\ hidden' = HiddenAfter(s) /\ (TakesNot(s) \/ Takes(s) \/ Refuses(s))
      BY <2>2, <2>4, TakesCases
    <3>2. (rejected => rejected') /\ (~rejected' => ~rejected)
      BY <2>2
    <3>3. AdmittedDMLRuns'
      BY <1>1, <2>1, <3>1, <3>2, TakesDML
    <3>4. Admitted(s)
      BY <2>2, <2>4 DEF Admitted
    <3>5. ASSUME ~rejected', refused' = Nothing PROVE Agree(view', target', doubt', hidden') /\ SameDatabase'
      <4>1. Takes(s)
        <5>1. s.action # Nothing
          BY <2>1, StatementKinds DEF Nothing
        <5> QED  BY <3>1, <3>5, <5>1 DEF TakesNot, Refuses, Nothing, Doubtful
      <4>2. refused = Nothing /\ Agree(view, target, doubt, hidden) /\ SameDatabase
        BY <1>1, <3>2, <3>5, <4>1 DEF Takes, Matches
      <4> QED  BY <1>1, <2>1, <2>2, <3>1, <3>4, <4>1, <4>2, AgreeDDL
    <3> QED  BY <1>2, <3>3, <3>5 DEF IInv, Matches
  <2> QED  BY <2>3, <2>4
<1> QED  BY <1>3, <1>4, <1>5, <1>6, <1>7, <1>8 DEF Next, Admit

(* As long as the batch can still be executed, the view is the catalog the  *)
(* server will have when it comes to the next statement, up to the tables   *)
(* in doubt and to the indexes of the tables that have one the parser does  *)
(* not project, and the audit and the connection are in the same database.  *)
THEOREM ViewIsTarget == Spec => []ViewMatchesTarget
<1>1. IInv => ViewMatchesTarget
  BY MatchesSame DEF IInv, Typed
<1> QED  BY <1>1, InitIInv, NextIInv, PTL DEF Spec

(* No DML of a batch that passes the audit is refused for an unknown table  *)
(* or column, unless it names a table in doubt.                             *)
THEOREM DMLRuns == Spec => []AdmittedDMLRuns
<1>1. IInv => AdmittedDMLRuns
  BY DEF IInv
<1> QED  BY <1>1, InitIInv, NextIInv, PTL DEF Spec

----------------------------------------------------------------------------
(* The indexes a statement is judged by, and those there are afterwards.    *)
AddsIndex(ops) == OpsOf(ops, MakesIndex)
DropsIndex(ops) == OpsOf(ops, {"DROP_INDEX"})
StayNames(old, ops) ==
  {m \in IndexNames : old[m] # <<>> /\ \A i \in DropsIndex(ops) : ops[i].index # m}
NewRecord(ops, n) == [origin |-> "new", nth |-> n, columns |-> ops[n].columns]
OldRecord(old, m) == [origin |-> "table", nth |-> m, columns |-> old[m]]
JudgedNew(ops) == {NewRecord(ops, n) : n \in AddsIndex(ops)}
JudgedOld(old, ops) == {OldRecord(old, m) : m \in StayNames(old, ops)}
Judged(old, ops) == JudgedNew(ops) \cup JudgedOld(old, ops)
AfterRecord(x, n) == [name |-> n, columns |-> x[n]]
AfterAll(x) == {AfterRecord(x, n) : n \in {m \in IndexNames : x[m] # <<>>}}

(* There are finitely many of them.                                         *)
LEMMA JudgedFinite ==
  ASSUME NEW old, NEW ops \in Seq(AlterOperation)
  PROVE  IsFiniteSet(Judged(old, ops))
<1>1. IsFiniteSet(JudgedNew(ops))
  <2> DEFINE D == AddsIndex(ops)
             f == [n \in D |-> NewRecord(ops, n)]
  <2>1. IsFiniteSet(D)
    <3>1. D \in SUBSET (1 .. Len(ops)) /\ Len(ops) \in Int
      BY DEF AddsIndex, OpsOf
    <3> HIDE DEF D
    <3>2. IsFiniteSet(1 .. Len(ops))
      BY <3>1, FS_Interval
    <3> QED  BY <3>1, <3>2, FS_Subset
  <2>2. f \in Surjection(D, JudgedNew(ops))
    <3> HIDE DEF D
    <3> QED  BY DEF Surjection, JudgedNew, D
  <2> HIDE DEF f, D
  <2> QED  BY <2>1, <2>2, FS_Surjection
<1>2. IsFiniteSet(JudgedOld(old, ops))
  <2> DEFINE D == StayNames(old, ops)
             f == [n \in D |-> OldRecord(old, n)]
  <2>1. IsFiniteSet(D)
    <3>1. D \in SUBSET IndexNames
      BY DEF StayNames
    <3> HIDE DEF D
    <3> QED  BY <3>1, FS_Subset, IndexNamesAssumption
  <2>2. f \in Surjection(D, JudgedOld(old, ops))
    <3> HIDE DEF D
    <3> QED  BY DEF Surjection, JudgedOld, D
  <2> HIDE DEF f, D
  <2> QED  BY <2>1, <2>2, FS_Surjection
<1> QED  BY <1>1, <1>2, FS_Union DEF Judged

(* Two sets whose elements go with each other.                              *)
LEMMA NoMoreThan ==
  ASSUME NEW A, NEW J, NEW R, IsFiniteSet(J),
         \A a \in A : \E j \in J : <<a, j>> \in R,
         \A a, b \in A, j \in J : <<a, j>> \in R /\ <<b, j>> \in R => a = b
  PROVE  IsFiniteSet(A) /\ Cardinality(A) <= Cardinality(J)
<1> DEFINE f == [a \in A |-> CHOOSE j \in J : <<a, j>> \in R]
<1>1. \A a \in A : f[a] \in J /\ <<a, f[a]>> \in R
  OBVIOUS
<1>2. f \in [A -> J]
  BY <1>1
<1> HIDE DEF f
<1>3. f \in Injection(A, J)
  BY <1>1, <1>2 DEF Injection, IsInjective
<1> QED  BY <1>3, FS_Injection

LEMMA AsManyAs ==
  ASSUME NEW A, NEW J, NEW R, IsFiniteSet(J),
         \A a \in A : \E j \in J : <<a, j>> \in R,
         \A a, b \in A, j \in J : <<a, j>> \in R /\ <<b, j>> \in R => a = b,
         \A j \in J : \E a \in A : <<a, j>> \in R,
         \A a \in A, j, k \in J : <<a, j>> \in R /\ <<a, k>> \in R => j = k
  PROVE  Cardinality(A) = Cardinality(J)
<1>1. IsFiniteSet(A) /\ Cardinality(A) <= Cardinality(J)
  BY NoMoreThan
<1> DEFINE Q == {q \in J \X A : <<q[2], q[1]>> \in R}
<1>2. \A j \in J, a \in A : <<j, a>> \in Q <=> <<a, j>> \in R
  OBVIOUS
<1> HIDE DEF Q
<1>3. Cardinality(J) <= Cardinality(A)
  <2>1. \A j \in J : \E a \in A : <<j, a>> \in Q
    BY <1>2
  <2>2. \A j, k \in J, a \in A : <<j, a>> \in Q /\ <<k, a>> \in Q => j = k
    BY <1>2
  <2> QED  BY <1>1, <2>1, <2>2, NoMoreThan
<1>4. Cardinality(A) \in Nat /\ Cardinality(J) \in Nat
  BY <1>1, FS_CardinalityType
<1> QED  BY <1>1, <1>3, <1>4

(* What MySQL makes of the indexes, where it accepts the operations.        *)
LEMMA BecomesType ==
  ASSUME NEW ops \in Seq(AlterOperation)
  PROVE  Becomes(ops) \in Naming
<1>1. Len(ops) \in 0 .. Len(ops)
  OBVIOUS
<1> QED  BY <1>1, MapType, MapLast

LEMMA KeptFacts ==
  ASSUME NEW old \in Indexes, NEW ops \in Seq(AlterOperation), AltersIndexes(old, ops),
         NEW p \in KeptIndexes(old, ops)
  PROVE  /\ p[1] \in IndexNames /\ p[2] \in StayNames(old, ops) /\ p = <<p[1], p[2]>>
         /\ AlteredIndexes(old, ops)[p[1]] = Surviving(old[p[2]], ops)
         /\ Surviving(old[p[2]], ops) # <<>>
         /\ \A q \in KeptIndexes(old, ops) : p[1] = q[1] \/ p[2] = q[2] => p = q
<1> DEFINE K == KeptIndexes(old, ops)
           R == OpsOf(ops, {"RENAME_INDEX"})
<1>1. /\ p \in IndexNames \X IndexNames /\ Surviving(old[p[2]], ops) # <<>>
      /\ \A i \in DropsIndex(ops) : ops[i].index # p[2]
  BY DEF KeptIndexes, DropsIndex
<1>2. \A q \in K : p[1] = q[1] => p = q
  BY Zenon DEF AltersIndexes
<1>3. old[p[2]] # <<>>
  <2> SUFFICES ASSUME old[p[2]] = <<>> PROVE FALSE
    OBVIOUS
  <2> QED  BY <1>1, BecomesType, ThroughEmpty DEF Surviving
<1>4. AlteredIndexes(old, ops)[p[1]] = Surviving(old[p[2]], ops)
  <2> DEFINE kept == {q \in K : q[1] = p[1]}
             c == CHOOSE q \in kept : TRUE
  <2>1. AlteredIndexes(old, ops)[p[1]] =
          IF kept # {} THEN Surviving(old[c[2]], ops)
          ELSE IF {i \in OpsOf(ops, MakesIndex) : ops[i].index = p[1]} # {}
               THEN ops[CHOOSE i \in {i \in OpsOf(ops, MakesIndex) : ops[i].index = p[1]} : TRUE].columns
               ELSE <<>>
    BY <1>1 DEF AlteredIndexes
  <2>2. p \in kept
    OBVIOUS
  <2>3. c \in kept
    BY <2>2
  <2>4. c = p
    <3> HIDE DEF c, K
    <3> QED  BY <1>2, <2>3
  <2> HIDE DEF c, kept
  <2> QED  BY <2>1, <2>2, <2>4
<1>5. ASSUME NEW q \in K, p[2] = q[2] PROVE p = q
  <2>1. q \in IndexNames \X IndexNames
    BY DEF KeptIndexes
  <2>2. /\ IF \E i \in R : ops[i].index = p[2] THEN \E i \in R : ops[i].index = p[2] /\ ops[i].newName = p[1] ELSE p[1] = p[2]
        /\ IF \E i \in R : ops[i].index = q[2] THEN \E i \in R : ops[i].index = q[2] /\ ops[i].newName = q[1] ELSE q[1] = q[2]
    BY DEF KeptIndexes
  <2>3. \A i, j \in R : ops[i].index = ops[j].index => i = j
    BY DEF AltersIndexes, OpsOf
  <2> HIDE DEF R
  <2>4. p[1] = q[1]
    BY <1>5, <2>2, <2>3
  <2> QED  BY <1>2, <2>4
<1> QED  BY <1>1, <1>2, <1>3, <1>4, <1>5 DEF StayNames

LEMMA AddedFacts ==
  ASSUME NEW old \in Indexes, NEW ops \in Seq(AlterOperation), AltersIndexes(old, ops),
         NEW i \in AddsIndex(ops)
  PROVE  /\ ops[i].index \in IndexNames
         /\ AlteredIndexes(old, ops)[ops[i].index] = ops[i].columns
         /\ ops[i].columns # <<>>
         /\ \A j \in AddsIndex(ops) : ops[i].index = ops[j].index => i = j
         /\ \A p \in KeptIndexes(old, ops) : p[1] # ops[i].index
<1> DEFINE n == ops[i].index
           kept == {q \in KeptIndexes(old, ops) : q[1] = n}
           added == {j \in AddsIndex(ops) : ops[j].index = n}
           c == CHOOSE j \in added : TRUE
<1>1. i \in DOMAIN ops /\ ops[i] \in AlterOperation /\ ops[i].op \in {"ADD_INDEX", "COLUMN_KEY"}
  BY DEF AddsIndex, OpsOf, MakesIndex
<1>2. n \in IndexNames /\ ops[i].columns # <<>>
  BY <1>1, OperationKinds
<1>3. /\ \A p \in KeptIndexes(old, ops) : p[1] # n
      /\ \A j \in AddsIndex(ops) : n = ops[j].index => i = j
  BY DEF AltersIndexes, AddsIndex
<1>4. AlteredIndexes(old, ops)[n] =
        IF kept # {} THEN Surviving(old[(CHOOSE p \in kept : TRUE)[2]], ops)
        ELSE IF added # {} THEN ops[c].columns ELSE <<>>
  BY <1>2 DEF AlteredIndexes, AddsIndex
<1>5. kept = {}
  BY <1>3
<1>6. i \in added /\ c \in added
  OBVIOUS
<1>7. c = i
  <2> HIDE DEF c
  <2> QED  BY <1>3, <1>6
<1> HIDE DEF c, kept, added
<1> QED  BY <1>2, <1>3, <1>4, <1>5, <1>6, <1>7

LEMMA NoOtherIndex ==
  ASSUME NEW old \in Indexes, NEW ops \in Seq(AlterOperation), NEW n \in IndexNames,
         AlteredIndexes(old, ops)[n] # <<>>
  PROVE  \/ \E p \in KeptIndexes(old, ops) : p[1] = n
         \/ \E i \in AddsIndex(ops) : ops[i].index = n
<1> DEFINE kept == {q \in KeptIndexes(old, ops) : q[1] = n}
           added == {j \in AddsIndex(ops) : ops[j].index = n}
<1>1. AlteredIndexes(old, ops)[n] =
        IF kept # {} THEN Surviving(old[(CHOOSE p \in kept : TRUE)[2]], ops)
        ELSE IF added # {} THEN ops[CHOOSE j \in added : TRUE].columns ELSE <<>>
  BY DEF AlteredIndexes, AddsIndex
<1>2. kept # {} \/ added # {}
  <2> HIDE DEF kept, added
  <2> QED  BY <1>1
<1> QED  BY <1>2

(* No column is dropped: every index that is not dropped itself is kept.    *)
LEMMA StayKept ==
  ASSUME NEW old \in Indexes, NEW ops \in Seq(AlterOperation), OpsOf(ops, {"DROP_COLUMN"}) = {},
         NEW m \in StayNames(old, ops)
  PROVE  \E n \in IndexNames : <<n, m>> \in KeptIndexes(old, ops)
<1> DEFINE R == OpsOf(ops, {"RENAME_INDEX"})
           f == Becomes(ops)
<1>1. m \in IndexNames /\ old[m] \in Seq(Columns) /\ old[m] # <<>> /\ \A i \in OpsOf(ops, {"DROP_INDEX"}) : ops[i].index # m
  BY DEF StayNames, Indexes, DropsIndex
<1>2. \A c \in Columns : Survives(c, ops)
  BY DEF Survives
<1>3. ASSUME NEW c \in Columns PROVE f[c] # Absent
  <2>1. f[c] = NameAfter(c, ops)
    BY <1>2 DEF Becomes
  <2> DEFINE renames == {i \in OpsOf(ops, RenamesColumn) : ops[i].column = c}
             k == CHOOSE i \in renames : TRUE
  <2>2. NameAfter(c, ops) = IF renames = {} THEN c ELSE ops[k].newName
    BY DEF NameAfter
  <2>3. CASE renames = {}
    BY <2>1, <2>2, <2>3, AbsentAssumption
  <2>4. CASE renames # {}
    <3>1. k \in renames
      BY <2>4
    <3> HIDE DEF k
    <3>2. ops[k] \in AlterOperation /\ ops[k].op \in RenamesColumn
      BY <3>1 DEF OpsOf
    <3>3. ops[k].newName \in Columns
      BY <3>2, OperationKinds
    <3> HIDE DEF renames
    <3> QED  BY <2>1, <2>2, <2>4, <3>3, AbsentAssumption
  <2> QED  BY <2>3, <2>4
<1>4. f \in Naming
  BY BecomesType
<1>5. Surviving(old[m], ops) # <<>>
  <2> HIDE DEF f
  <2>1. \A i \in DOMAIN old[m] : old[m][i] \in Columns
    BY <1>1
  <2>2. Through(old[m], f) = [i \in DOMAIN old[m] |-> f[old[m][i]]]
    BY <1>1, <1>3, <1>4, <2>1, ThroughAll
  <2>3. DOMAIN old[m] # {}
    <3> DEFINE cs == old[m]
    <3>1. cs \in Seq(Columns) /\ cs # <<>>
      BY <1>1
    <3> HIDE DEF cs
    <3>2. Len(cs) # 0
      BY <3>1
    <3>3. 1 \in DOMAIN cs
      BY <3>1, <3>2
    <3> QED  BY <3>3 DEF cs
  <2>4. Through(old[m], f) # <<>>
    BY <2>2, <2>3
  <2> QED  BY <2>4 DEF Surviving, f
<1>6. CASE \E i \in R : ops[i].index = m
  <2>1. PICK i \in R : ops[i].index = m
    BY <1>6
  <2>2. ops[i] \in AlterOperation /\ ops[i].op = "RENAME_INDEX"
    BY DEF OpsOf
  <2>3. ops[i].newName \in IndexNames
    BY <2>2, OperationKinds
  <2>4. <<ops[i].newName, m>> \in KeptIndexes(old, ops)
    BY <1>1, <1>5, <1>6, <2>1, <2>3 DEF KeptIndexes
  <2> QED  BY <2>3, <2>4
<1>7. CASE ~\E i \in R : ops[i].index = m
  <2>1. <<m, m>> \in KeptIndexes(old, ops)
    BY <1>1, <1>5, <1>7 DEF KeptIndexes
  <2> QED  BY <1>1, <2>1
<1> QED  BY <1>6, <1>7

(* ... nor renamed: with the same columns.                                  *)
LEMMA ColumnsStay ==
  ASSUME NEW ops \in Seq(AlterOperation), OpsOf(ops, {"DROP_COLUMN"} \cup RenamesColumn) = {},
         NEW cs \in Seq(Columns)
  PROVE  Surviving(cs, ops) = cs
<1> DEFINE f == Becomes(ops)
<1>1. OpsOf(ops, {"DROP_COLUMN"}) = {} /\ OpsOf(ops, RenamesColumn) = {}
  BY DEF OpsOf
<1>2. ASSUME NEW c \in Columns PROVE f[c] = c
  <2>1. Survives(c, ops) /\ NameAfter(c, ops) = c
    BY <1>1 DEF Survives, NameAfter
  <2> QED  BY <2>1 DEF Becomes
<1>3. f \in Naming
  BY BecomesType
<1> HIDE DEF f
<1>4. Through(cs, f) = cs
  BY <1>2, <1>3, ThroughSame
<1> QED  BY <1>4 DEF Surviving, f

(* An index afterwards and the one it was judged as.                        *)
Same(old, ops, a, j) ==
  \/ j.origin = "table" /\ <<a.name, j.nth>> \in KeptIndexes(old, ops)
  \/ j.origin = "new" /\ ops[j.nth].index = a.name
Pairing(old, ops) ==
  {p \in AfterAll(AlteredIndexes(old, ops)) \X Judged(old, ops) : Same(old, ops, p[1], p[2])}

LEMMA AfterElement ==
  ASSUME NEW x, NEW a \in AfterAll(x)
  PROVE  a.name \in IndexNames /\ x[a.name] # <<>> /\ a.columns = x[a.name] /\ a = AfterRecord(x, a.name)
<1>1. PICK n \in IndexNames : x[n] # <<>> /\ a = AfterRecord(x, n)
  BY DEF AfterAll
<1>2. a.name = n /\ a.columns = x[n]
  BY <1>1 DEF AfterRecord
<1> QED  BY <1>1, <1>2

LEMMA JudgedElement ==
  ASSUME NEW old, NEW ops, NEW j \in Judged(old, ops)
  PROVE  \/ /\ j.origin = "new" /\ j.nth \in AddsIndex(ops) /\ j = NewRecord(ops, j.nth)
            /\ j.columns = ops[j.nth].columns
         \/ /\ j.origin = "table" /\ j.nth \in StayNames(old, ops) /\ j = OldRecord(old, j.nth)
            /\ j.columns = old[j.nth]
<1>1. CASE j \in JudgedNew(ops)
  <2>1. PICK n \in AddsIndex(ops) : j = NewRecord(ops, n)
    BY <1>1 DEF JudgedNew
  <2>2. j.origin = "new" /\ j.nth = n /\ j.columns = ops[n].columns
    BY <2>1 DEF NewRecord
  <2> QED  BY <2>1, <2>2
<1>2. CASE j \in JudgedOld(old, ops)
  <2>1. PICK n \in StayNames(old, ops) : j = OldRecord(old, n)
    BY <1>2 DEF JudgedOld
  <2>2. j.origin = "table" /\ j.nth = n /\ j.columns = old[n]
    BY <2>1 DEF OldRecord
  <2> QED  BY <2>1, <2>2
<1> QED  BY <1>1, <1>2 DEF Judged

LEMMA JudgedAs ==
  ASSUME NEW old \in Indexes, NEW ops \in Seq(AlterOperation), AltersIndexes(old, ops),
         NEW a \in AfterAll(AlteredIndexes(old, ops))
  PROVE  /\ \E j \in Judged(old, ops) : Same(old, ops, a, j)
         /\ \A j, k \in Judged(old, ops) : Same(old, ops, a, j) /\ Same(old, ops, a, k) => j = k
<1> DEFINE x == AlteredIndexes(old, ops)
           K == KeptIndexes(old, ops)
           n == a.name
<1>1. n \in IndexNames /\ x[n] # <<>>
  BY AfterElement
<1>2. ASSUME NEW p \in K, p[1] = n PROVE \E j \in Judged(old, ops) : Same(old, ops, a, j)
  <2> DEFINE j == OldRecord(old, p[2])
  <2>1. p[2] \in StayNames(old, ops) /\ <<n, p[2]>> \in K
    BY <1>2, KeptFacts
  <2>2. j.origin = "table" /\ j.nth = p[2]
    BY DEF OldRecord
  <2>3. j \in Judged(old, ops)
    BY <2>1 DEF Judged, JudgedOld
  <2> HIDE DEF j
  <2>4. Same(old, ops, a, j)
    BY <2>1, <2>2 DEF Same
  <2> QED  BY <2>3, <2>4
<1>3. ASSUME NEW i \in AddsIndex(ops), ops[i].index = n PROVE \E j \in Judged(old, ops) : Same(old, ops, a, j)
  <2> DEFINE j == NewRecord(ops, i)
  <2>1. j.origin = "new" /\ j.nth = i
    BY DEF NewRecord
  <2>2. j \in Judged(old, ops)
    BY <1>3 DEF Judged, JudgedNew
  <2> HIDE DEF j
  <2>3. Same(old, ops, a, j)
    BY <1>3, <2>1 DEF Same
  <2> QED  BY <2>2, <2>3
<1>4. \E j \in Judged(old, ops) : Same(old, ops, a, j)
  BY <1>1, <1>2, <1>3, NoOtherIndex
<1>5. ASSUME NEW j \in Judged(old, ops), NEW k \in Judged(old, ops), Same(old, ops, a, j), Same(old, ops, a, k)
      PROVE  j = k
  <2>1. CASE j.origin = "new" /\ k.origin = "new"
    <3>1. ops[j.nth].index = n /\ ops[k.nth].index = n
      BY <1>5, <2>1 DEF Same
    <3>2. j.nth \in AddsIndex(ops) /\ k.nth \in AddsIndex(ops) /\ j = NewRecord(ops, j.nth) /\ k = NewRecord(ops, k.nth)
      BY <2>1, JudgedElement
    <3>3. j.nth = k.nth
      BY <3>1, <3>2, AddedFacts
    <3> QED  BY <3>2, <3>3
  <2>2. CASE j.origin = "table" /\ k.origin = "table"
    <3>1. <<n, j.nth>> \in K /\ <<n, k.nth>> \in K
      BY <1>5, <2>2 DEF Same
    <3>2. j = OldRecord(old, j.nth) /\ k = OldRecord(old, k.nth)
      BY <2>2, JudgedElement
    <3>3. <<n, j.nth>> = <<n, k.nth>>
      BY <3>1, KeptFacts
    <3>4. j.nth = k.nth
      BY <3>3
    <3> QED  BY <3>2, <3>4
  <2>3. CASE j.origin = "new" /\ k.origin = "table"
    <3>1. ops[j.nth].index = n /\ <<n, k.nth>> \in K
      BY <1>5, <2>3 DEF Same
    <3>2. j.nth \in AddsIndex(ops)
      BY <2>3, JudgedElement
    <3> QED  BY <3>1, <3>2, AddedFacts
  <2>4. CASE j.origin = "table" /\ k.origin = "new"
    <3>1. ops[k.nth].index = n /\ <<n, j.nth>> \in K
      BY <1>5, <2>4 DEF Same
    <3>2. k.nth \in AddsIndex(ops)
      BY <2>4, JudgedElement
    <3> QED  BY <3>1, <3>2, AddedFacts
  <2> QED  BY <2>1, <2>2, <2>3, <2>4, JudgedElement
<1> QED  BY <1>4, <1>5

LEMMA JudgedOnce ==
  ASSUME NEW old \in Indexes, NEW ops \in Seq(AlterOperation), AltersIndexes(old, ops),
         NEW a \in AfterAll(AlteredIndexes(old, ops)), NEW b \in AfterAll(AlteredIndexes(old, ops)),
         NEW j \in Judged(old, ops), Same(old, ops, a, j), Same(old, ops, b, j)
  PROVE  a = b
<1> DEFINE x == AlteredIndexes(old, ops)
           K == KeptIndexes(old, ops)
<1>1. a = AfterRecord(x, a.name) /\ b = AfterRecord(x, b.name)
  BY AfterElement
<1>2. a.name = b.name
  <2>1. CASE j.origin = "new"
    BY <2>1 DEF Same
  <2>2. CASE j.origin = "table"
    <3>1. <<a.name, j.nth>> \in K /\ <<b.name, j.nth>> \in K
      BY <2>2 DEF Same
    <3>2. <<a.name, j.nth>> = <<b.name, j.nth>>
      BY <3>1, KeptFacts
    <3> QED  BY <3>2
  <2> QED  BY <2>1, <2>2, JudgedElement
<1> QED  BY <1>1, <1>2

LEMMA JudgedStays ==
  ASSUME NEW old \in Indexes, NEW ops \in Seq(AlterOperation), AltersIndexes(old, ops),
         OpsOf(ops, {"DROP_COLUMN"}) = {}, NEW j \in Judged(old, ops)
  PROVE  \E a \in AfterAll(AlteredIndexes(old, ops)) : Same(old, ops, a, j)
<1> DEFINE x == AlteredIndexes(old, ops)
<1>1. ASSUME NEW n \in IndexNames, x[n] # <<>>
      PROVE  AfterRecord(x, n) \in AfterAll(x) /\ AfterRecord(x, n).name = n
  BY <1>1 DEF AfterAll, AfterRecord
<1>2. CASE j.origin = "new"
  <2> DEFINE n == ops[j.nth].index
             a == AfterRecord(x, n)
  <2>1. j.nth \in AddsIndex(ops)
    BY <1>2, JudgedElement
  <2>2. n \in IndexNames /\ x[n] # <<>>
    BY <2>1, AddedFacts
  <2>3. a \in AfterAll(x) /\ a.name = n
    BY <1>1, <2>2
  <2> HIDE DEF a
  <2>4. Same(old, ops, a, j)
    BY <1>2, <2>3 DEF Same
  <2> QED  BY <2>3, <2>4
<1>3. CASE j.origin = "table"
  <2>1. j.nth \in StayNames(old, ops)
    BY <1>3, JudgedElement
  <2>2. PICK n \in IndexNames : <<n, j.nth>> \in KeptIndexes(old, ops)
    BY <2>1, StayKept
  <2> DEFINE a == AfterRecord(x, n)
  <2>3. x[n] # <<>>
    BY <2>2, KeptFacts
  <2>4. a \in AfterAll(x) /\ a.name = n
    BY <1>1, <2>3
  <2> HIDE DEF a
  <2>5. Same(old, ops, a, j)
    BY <1>3, <2>2, <2>4 DEF Same
  <2> QED  BY <2>4, <2>5
<1> QED  BY <1>2, <1>3, JudgedElement

LEMMA JudgedColumns ==
  ASSUME NEW old \in Indexes, NEW ops \in Seq(AlterOperation), AltersIndexes(old, ops),
         OpsOf(ops, {"DROP_COLUMN"} \cup RenamesColumn) = {},
         NEW a \in AfterAll(AlteredIndexes(old, ops)), NEW j \in Judged(old, ops), Same(old, ops, a, j)
  PROVE  a.columns = j.columns
<1> DEFINE x == AlteredIndexes(old, ops)
<1>1. a.columns = x[a.name]
  BY AfterElement
<1>2. CASE j.origin = "new"
  <2>1. j.nth \in AddsIndex(ops) /\ j.columns = ops[j.nth].columns /\ ops[j.nth].index = a.name
    BY <1>2, JudgedElement DEF Same
  <2>2. x[ops[j.nth].index] = ops[j.nth].columns
    BY <2>1, AddedFacts
  <2> QED  BY <1>1, <2>1, <2>2
<1>3. CASE j.origin = "table"
  <2>1. j.nth \in StayNames(old, ops) /\ j.columns = old[j.nth] /\ <<a.name, j.nth>> \in KeptIndexes(old, ops)
    BY <1>3, JudgedElement DEF Same
  <2>2. x[a.name] = Surviving(old[j.nth], ops)
    BY <2>1, KeptFacts
  <2>3. old[j.nth] \in Seq(Columns)
    BY <2>1 DEF StayNames, Indexes
  <2> QED  BY <1>1, <2>1, <2>2, <2>3, ColumnsStay
<1> QED  BY <1>2, <1>3, JudgedElement

(* As many as there are afterwards, or more; and redundant as they are.     *)
LEMMA JudgedCount ==
  ASSUME NEW old \in Indexes, NEW ops \in Seq(AlterOperation), AltersIndexes(old, ops)
  PROVE  LET A == AfterAll(AlteredIndexes(old, ops))
             J == Judged(old, ops)
         IN  /\ Cardinality(J) >= Cardinality(A)
             /\ OpsOf(ops, {"DROP_COLUMN"}) = {} => Cardinality(J) = Cardinality(A)
             /\ OpsOf(ops, {"DROP_COLUMN"} \cup RenamesColumn) = {} => (Redundant(J) <=> Redundant(A))
<1> DEFINE A == AfterAll(AlteredIndexes(old, ops))
           J == Judged(old, ops)
           R == Pairing(old, ops)
<1>1. IsFiniteSet(J)
  BY JudgedFinite
<1>2. \A a \in A, j \in J : <<a, j>> \in R <=> Same(old, ops, a, j)
  BY DEF Pairing
<1>3. \A a \in A : \E j \in J : <<a, j>> \in R
  BY <1>2, JudgedAs
<1>4. \A a, b \in A, j \in J : <<a, j>> \in R /\ <<b, j>> \in R => a = b
  BY <1>2, JudgedOnce
<1>5. OpsOf(ops, {"DROP_COLUMN"}) = {} => \A j \in J : \E a \in A : <<a, j>> \in R
  BY <1>2, JudgedStays
<1>6. \A a \in A, j, k \in J : <<a, j>> \in R /\ <<a, k>> \in R => j = k
  BY <1>2, JudgedAs
<1>7. OpsOf(ops, {"DROP_COLUMN"} \cup RenamesColumn) = {} => OpsOf(ops, {"DROP_COLUMN"}) = {}
  BY DEF OpsOf
<1>8. OpsOf(ops, {"DROP_COLUMN"} \cup RenamesColumn) = {} =>
        \A a \in A, j \in J : <<a, j>> \in R => a.columns = j.columns
  BY <1>2, JudgedColumns
<1> HIDE DEF A, J, R
<1>9. IsFiniteSet(A) /\ Cardinality(A) <= Cardinality(J)
  BY <1>1, <1>3, <1>4, NoMoreThan
<1>10. Cardinality(J) >= Cardinality(A)
  <2>1. Cardinality(A) \in Nat /\ Cardinality(J) \in Nat
    BY <1>1, <1>9, FS_CardinalityType
  <2> QED  BY <1>9, <2>1
<1>11. OpsOf(ops, {"DROP_COLUMN"}) = {} => Cardinality(J) = Cardinality(A)
  <2> SUFFICES ASSUME OpsOf(ops, {"DROP_COLUMN"}) = {} PROVE Cardinality(J) = Cardinality(A)
    OBVIOUS
  <2>1. \A j \in J : \E a \in A : <<a, j>> \in R
    BY <1>5
  <2> QED  BY <1>1, <1>3, <1>4, <1>6, <2>1, AsManyAs
<1>12. ASSUME OpsOf(ops, {"DROP_COLUMN"} \cup RenamesColumn) = {} PROVE Redundant(J) <=> Redundant(A)
  <2>1. \A j \in J : \E a \in A : <<a, j>> \in R
    BY <1>5, <1>7, <1>12
  <2>2. \A a \in A, j \in J : <<a, j>> \in R => a.columns = j.columns
    BY <1>8, <1>12
  <2>3. ASSUME Redundant(J) PROVE Redundant(A)
    <3>1. PICK p, q \in J : p # q /\ leadingColumnsOverlap(p.columns, q.columns)
      BY <2>3 DEF Redundant
    <3>2. PICK a \in A : <<a, p>> \in R
      BY <2>1
    <3>3. PICK b \in A : <<b, q>> \in R
      BY <2>1
    <3>4. a # b
      BY <1>6, <3>1, <3>2, <3>3
    <3>5. a.columns = p.columns /\ b.columns = q.columns
      BY <2>2, <3>2, <3>3
    <3> QED  BY <3>1, <3>4, <3>5 DEF Redundant
  <2>4. ASSUME Redundant(A) PROVE Redundant(J)
    <3>1. PICK a, b \in A : a # b /\ leadingColumnsOverlap(a.columns, b.columns)
      BY <2>4 DEF Redundant
    <3>2. PICK p \in J : <<a, p>> \in R
      BY <1>3
    <3>3. PICK q \in J : <<b, q>> \in R
      BY <1>3
    <3>4. p # q
      BY <1>4, <3>1, <3>2, <3>3
    <3>5. a.columns = p.columns /\ b.columns = q.columns
      BY <2>2, <3>2, <3>3
    <3> QED  BY <3>1, <3>4, <3>5 DEF Redundant
  <2> QED  BY <2>3, <2>4
<1> QED  BY <1>10, <1>11, <1>12 DEF A, J

LEMMA AcceptsIndexes ==
  ASSUME NEW w, NEW t, Accepts(w, t), Alters(t)
  PROVE  AltersIndexes(w.objects[t.table].indexes, t.ops)
<1>1. t.action \in {"ALTER_TABLE", "CREATE_INDEX", "DROP_INDEX"}
  BY DEF Alters
<1> QED  BY <1>1 DEF Accepts

(* checkIndexes looks at the operations only where both sides read them     *)
(* alike.                                                                   *)
LEMMA CheckedIndexes ==
  ASSUME NEW v, NEW a, NEW ops \in Seq(AlterOperation), a.ops = ops,
         OpsOf(ops, {"COLUMN_KEY"}) = {},
         a.action = "ALTER_TABLE" \/ (a.action = "CREATE_INDEX" /\ ops \in Single("ADD_INDEX"))
  PROVE  checkIndexes(v, a) = Judged(v.objects[a.table].indexes, ops)
<1> DEFINE old == v.objects[a.table].indexes
           dropped == {ops[n].index : n \in OpsOf(ops, IF a.action = "ALTER_TABLE" THEN {"DROP_INDEX"} ELSE {})}
<1>1. dropped = {ops[n].index : n \in DropsIndex(ops)}
  <2>1. CASE a.action = "ALTER_TABLE"
    BY <2>1 DEF DropsIndex
  <2>2. CASE a.action = "CREATE_INDEX"
    <3>1. DOMAIN ops = {1} /\ ops[1].op = "ADD_INDEX"
      BY <2>2 DEF Single
    <3>2. DropsIndex(ops) = {}
      BY <3>1 DEF DropsIndex, OpsOf
    <3>3. OpsOf(ops, {}) = {}
      BY DEF OpsOf
    <3> QED  BY <2>2, <3>2, <3>3
  <2> QED  BY <2>1, <2>2
<1>2. NewIndexes(a) = JudgedNew(ops)
  <2>1. OpsOf(ops, {"ADD_INDEX"}) = AddsIndex(ops)
    BY DEF AddsIndex, OpsOf, MakesIndex
  <2> QED  BY <2>1 DEF NewIndexes, JudgedNew, NewRecord
<1>3. Kept(v, a) = {OldRecord(old, n) : n \in {m \in IndexNames : old[m] # <<>>} \ dropped}
  BY DEF Kept, OldRecord, HasIndex
<1> HIDE DEF old, dropped
<1>4. {m \in IndexNames : old[m] # <<>>} \ dropped = StayNames(old, ops)
  BY <1>1 DEF StayNames
<1>5. Kept(v, a) = JudgedOld(old, ops)
  BY <1>3, <1>4 DEF JudgedOld
<1> QED  BY <1>2, <1>5 DEF checkIndexes, Judged, old

LEMMA SameJudged ==
  ASSUME NEW old, NEW ops \in Seq(AlterOperation), NEW d \in SchemaOrNone
  PROVE  LET rops == ResolveOps(ops, d)
         IN  /\ Judged(old, rops) = Judged(old, ops)
             /\ \A kinds : OpsOf(rops, kinds) = OpsOf(ops, kinds)
<1> DEFINE rops == ResolveOps(ops, d)
<1>1. /\ DOMAIN rops = DOMAIN ops
      /\ \A i \in DOMAIN ops : rops[i].op = ops[i].op /\ (ops[i].op # "RENAME_TABLE" => rops[i] = ops[i])
  BY ResolveOpsFacts
<1> HIDE DEF rops
<1>2. \A kinds : OpsOf(rops, kinds) = OpsOf(ops, kinds)
  BY <1>1 DEF OpsOf
<1>3. \A i \in AddsIndex(ops) \cup DropsIndex(ops) : rops[i] = ops[i]
  BY <1>1 DEF AddsIndex, DropsIndex, OpsOf, MakesIndex
<1>4. AddsIndex(rops) = AddsIndex(ops) /\ DropsIndex(rops) = DropsIndex(ops)
  BY <1>2 DEF AddsIndex, DropsIndex
<1>5. JudgedNew(rops) = JudgedNew(ops)
  BY <1>3, <1>4 DEF JudgedNew, NewRecord
<1>6. StayNames(old, rops) = StayNames(old, ops)
  BY <1>3, <1>4 DEF StayNames
<1>7. Judged(old, rops) = Judged(old, ops)
  BY <1>5, <1>6 DEF Judged, JudgedOld
<1> QED  BY <1>2, <1>7 DEF rops

(* The indexes of the table the server then has.                            *)
LEMMA AfterIs ==
  ASSUME Typed, NEW s \in Statement, Alters(s),
         \A r \in Named(s) : defaultSchema(r, current) \in Ref,
         Accepts(target, ServerResolves(s, current))
  PROVE  LET ref == defaultSchema(s.table, current)
             ops == ResolveOps(s.ops, current)
             old == target.objects[ref]
         IN  /\ IsTable(target, ref) /\ old.indexes \in Indexes /\ AltersIndexes(old.indexes, ops)
             /\ ops \in Seq(AlterOperation)
             /\ IndexesAfter(target, ServerResolves(s, current)) = AfterAll(AlteredIndexes(old.indexes, ops))
<1> USE DEF Typed
<1> DEFINE t == ServerResolves(s, current)
           ref == defaultSchema(s.table, current)
           ops == ResolveOps(s.ops, current)
           old == target.objects[ref]
           to == NewTable(ref, ops)
           new == Alteration(old, ops)
<1>1. s.action \in OfTable /\ s.ops \in Seq(AlterOperation)
  BY StatementKinds DEF OfTable, Alters
<1>2. t.action = s.action /\ t.table = ref /\ t.ops = ops
  BY <1>1, ServerFields
<1>3. target \in Catalogs /\ Alters(t) /\ current \in SchemaOrNone
  BY <1>2, DatabaseTypes DEF TypeOK, Alters
<1>4. ops \in Seq(AlterOperation)
  BY <1>1, <1>3, ResolveOpsFacts
<1>5. /\ IsTable(target, ref) /\ to \in Ref
      /\ Effect(target, t) = With(Without(target, {ref}), to, new)
  BY ServesAlter
<1>6. ref \in Ref
  <2>1. s.table \in Named(s)
    BY <1>1, NamedFacts
  <2> QED  BY <2>1
<1>7. AltersIndexes(old.indexes, ops)
  BY <1>2, <1>3, AcceptsIndexes
<1>8. old \in Object
  BY <1>3, <1>5, <1>6, CatalogFields DEF IsTable, Exists
<1>9. old.indexes \in Indexes
  BY <1>8, ObjectFields DEF Indexes
<1> HIDE DEF t, ref, old, ops, to
<1>10. new \in Object /\ new.indexes = AlteredIndexes(old.indexes, ops)
  BY <1>4, <1>8, AlteredTypes
<1> HIDE DEF new
<1>11. Effect(target, t).objects[to] = new
  BY <1>3, <1>5, <1>10, WithFacts, WithoutFacts
<1>12. NewTable(t.table, t.ops) = to
  BY <1>2 DEF to
<1>13. IndexesAfter(target, t) = AfterAll(new.indexes)
  BY <1>11, <1>12 DEF IndexesAfter, AfterAll, AfterRecord, HasIndex
<1> QED  BY <1>4, <1>5, <1>7, <1>9, <1>10, <1>13 DEF t, ref, old, ops
(* legacy_ddl.go judges the indexes of an ALTER or CREATE INDEX as the      *)
(* server will have them: never fewer than there will be, exactly as many   *)
(* unless a column is dropped, and redundant exactly if they will be unless *)
(* a column is dropped or renamed.  For any number of operations, unless    *)
(* the parser keeps indexes of the table, or of the statement, from the     *)
(* audit.                                                                   *)
THEOREM IndexesJudged == Spec => []IndexRulesJudgeResult
<1>1. IInv => IndexRulesJudgeResult
  <2> SUFFICES ASSUME IInv, ~rejected, refused = Nothing,
                      NEW s \in Statements, Alters(s), s.action # "DROP_INDEX", Resolved(s, database), ~InDoubt(s),
                      ~NamesHidden(s),
                      Accepts(target, ServerResolves(s, current))
               PROVE  JudgedByResult(s, resolveStatementDatabase(s, database), ServerResolves(s, current))
    BY Zenon DEF IndexRulesJudgeResult
  <2> DEFINE a == resolveStatementDatabase(s, database)
             t == ServerResolves(s, current)
             ref == defaultSchema(s.table, current)
             ops == ResolveOps(s.ops, current)
             old == target.objects[ref].indexes
             J == Judged(old, ops)
             A == AfterAll(AlteredIndexes(old, ops))
  <2>1. Typed /\ TypeOK /\ Agree(view, target, doubt, hidden) /\ SameDatabase /\ s \in Statement
    BY StatementsAssumption DEF IInv, Typed, Matches
  <2>2. s.action \in OfTable /\ s.action \notin OfSchema /\ s.ops \in Seq(AlterOperation)
    BY <2>1, StatementKinds DEF OfTable, OfSchema, Alters
  <2>3. Alike(s) /\ s.table \in Named(s)
    BY <2>1, <2>2, NamesAlike, NamedFacts
  <2>4. ref \in Ref \ doubt /\ ref = defaultSchema(s.table, Database(s, database))
        /\ \A r \in Named(s) : defaultSchema(r, current) \in Ref
    BY <2>3 DEF Alike
  <2>5. /\ IsTable(target, ref) /\ old \in Indexes /\ AltersIndexes(old, ops) /\ ops \in Seq(AlterOperation)
        /\ IndexesAfter(target, t) = A
    BY <2>1, <2>4, AfterIs
  <2>6. view.objects[ref].indexes = old /\ OpsOf(s.ops, {"COLUMN_KEY"}) = {}
    <3>1. ref \notin hidden /\ OpsOf(s.ops, {"COLUMN_KEY"}) = {}
      BY <2>3 DEF NamesHidden, HidesIndexes, NamedByEither, NamedByServer
    <3> QED  BY <2>1, <2>4, <2>5, <3>1, AgreeFacts DEF TypeOK
  <2>7. a.action = s.action /\ a.table = ref /\ a.ops = s.ops
    <3>1. database \in SchemaOrNone
      BY <2>1, DatabaseTypes
    <3>2. "ops" \in DOMAIN s
      BY <2>1, StatementDomain
    <3>3. /\ a.action = s.action
          /\ s.action \in OfTable => a.table = defaultSchema(s.table, Database(s, database))
          /\ \A f \in DOMAIN s \ {"table", "reference", "tables", "pairs"} : a[f] = s[f]
      BY <2>1, <3>1, AuditFields
    <3>4. "ops" \in DOMAIN s \ {"table", "reference", "tables", "pairs"}
      BY <3>2
    <3> HIDE DEF a
    <3>5. a["ops"] = s["ops"]
      BY <3>3, <3>4
    <3> QED  BY <2>2, <2>4, <3>3, <3>5
  <2>8. s.action = "ALTER_TABLE" \/ (s.action = "CREATE_INDEX" /\ s.ops \in Single("ADD_INDEX"))
    BY <2>1 DEF Statement, Alters
  <2>9. checkIndexes(view, a) = Judged(view.objects[a.table].indexes, s.ops)
    BY <2>2, <2>6, <2>7, <2>8, CheckedIndexes
  <2>10. current \in SchemaOrNone
    BY <2>1, DatabaseTypes
  <2>11. Judged(old, ops) = Judged(old, s.ops) /\ \A kinds : OpsOf(ops, kinds) = OpsOf(s.ops, kinds)
    BY <2>2, <2>10, SameJudged
  <2>12. checkIndexes(view, a) = J
    BY <2>6, <2>7, <2>9, <2>11
  <2>13. /\ Cardinality(J) >= Cardinality(A)
         /\ OpsOf(ops, {"DROP_COLUMN"}) = {} => Cardinality(J) = Cardinality(A)
         /\ OpsOf(ops, {"DROP_COLUMN"} \cup RenamesColumn) = {} => (Redundant(J) <=> Redundant(A))
    BY <2>5, JudgedCount
  <2>14. Redundant(J) \in BOOLEAN /\ Redundant(A) \in BOOLEAN
    BY DEF Redundant
  <2> HIDE DEF J, A, ops, a, t
  <2>15. OpsOf(s.ops, {"DROP_COLUMN"} \cup RenamesColumn) = {} => Redundant(J) = Redundant(A)
    BY <2>11, <2>13, <2>14
  <2>16. /\ Cardinality(J) >= Cardinality(A)
         /\ OpsOf(s.ops, {"DROP_COLUMN"}) = {} => Cardinality(J) = Cardinality(A)
    BY <2>11, <2>13
  <2>17. JudgedByResult(s, a, t)
    BY <2>5, <2>12, <2>15, <2>16 DEF JudgedByResult
  <2> QED  BY <2>17 DEF a, t
<1> QED  BY <1>1, InitIInv, NextIInv, PTL DEF Spec
=============================================================================
