------------------------ MODULE BinlogCaptureProofs ------------------------
(***************************************************************************)
(* Proofs about BinlogCapture, for logs of any length, any number of other  *)
(* connections and rows, and any sizes at which files end and positions     *)
(* wrap.                                                                    *)
(***************************************************************************)
EXTENDS BinlogCapture, TLAPS, SequenceTheorems

(* The file that the event after the i-th one is written to.                *)
FileAt(i) == IF i = 0 THEN Origin.file ELSE log[i].next.file

(* After event i Collect's position is before p, or not after it.  LogPos 0 *)
(* leaves the position where it was, except in a rotation.                  *)
Moves(i) == log[i].type = "rotate" \/ log[i].next.pos > 0
Before(i, p) ==
  \/ log[i].next.file < p.file
  \/ log[i].next.file = p.file /\ log[i].next.pos < p.pos /\ Moves(i)
NotAfter(i, p) ==
  \/ log[i].next.file < p.file
  \/ log[i].next.file = p.file /\ log[i].next.pos <= p.pos /\ Moves(i)

(* The log: a row follows the BEGIN or a row of its own transaction, only a *)
(* rotation changes the file, and no event reaches past the position that   *)
(* SHOW MASTER STATUS names, not even one whose own position has wrapped.   *)
LogInv ==
  /\ MasterPosition.pos <= SizeLimit
  /\ \A i \in DOMAIN log :
       /\ log[i].type = "rows" =>
            i > 1 /\ log[i - 1].type \in {"query", "rows"} /\ log[i - 1].owner = log[i].owner
       /\ log[i].type # "rotate" => log[i].next.file = FileAt(i - 1)
       /\ NotAfter(i, MasterPosition)

(* What is appended to the log by one commit.                               *)
WellFormed(types) ==
  /\ types \in Seq(EventType \ {"rotate"})
  /\ types # <<>>
  /\ types[1] # "rows" /\ types[Len(types)] # "rows"
  /\ \A i \in 2 .. Len(types) : types[i] = "rows" => types[i - 1] \in {"query", "rows"}

(* Collect's position comes to p only after the statement's last row.       *)
RowsBefore(p) ==
  \A i \in origin + 1 .. Len(log) : IsMine(i) => \A j \in origin + 1 .. i : Before(j, p)

(* The engine and Collect: the stream begins between two transactions; the  *)
(* end position is past every row of the statement, and past the start if   *)
(* the statement is in the log; currentThread is the owner of the rows that *)
(* may come next.                                                           *)
EngineInv ==
  /\ pc # "done" => outcome = "none"
  /\ pc \in {"start", "exec", "end", "collect"} =>
       read = 0 /\ currentThread = NoThread /\ changes = <<>>
  /\ pc # "start" =>
       /\ origin <= Len(log)
       /\ start.file = FileAt(origin)
       /\ origin < Len(log) => log[origin + 1].type # "rows"
  /\ pc = "exec" =>
       /\ AtLeast(MasterPosition, start)
       /\ \A i \in origin + 1 .. Len(log) : ~IsMine(i)
  /\ pc = "end" =>
       /\ RowsBefore(MasterPosition)
       /\ expected > 0 /\ ~filtered => StrictlyAfter(MasterPosition, start)
  /\ pc \in {"collect", "read", "done"} =>
       /\ RowsBefore(end)
       /\ expected > 0 /\ ~filtered => StrictlyAfter(end, start)
  /\ pc = "read" =>
       /\ origin <= read
       /\ current.file = FileAt(read)
       /\ read = origin => currentThread = NoThread
       /\ read > origin /\ log[read].type \in {"query", "rows"} => currentThread = log[read].owner

IInv == TypeOK /\ LogInv /\ EngineInv /\ OnlyOwnRows /\ NoOwnRowSkipped /\ CompleteOnSuccess

----------------------------------------------------------------------------
(* Positions are taken modulo 2^32.                                         *)
LEMMA Modulo ==
  ASSUME NEW a \in Nat, NEW b \in Nat, b > 0
  PROVE  a % b \in Nat /\ (a < b => a % b = a)
OBVIOUS

LEMMA TransactionFacts ==
  ASSUME NEW n \in Nat, NEW closing \in {"query", "xid"}
  PROVE  /\ WellFormed(Transaction(n, closing))
         /\ Len(Transaction(n, closing)) = n + 2
         /\ n > 0 => \A i \in 1 .. n + 2 : Transaction(n, closing)[i] = "rows" => i <= n + 1
<1> DEFINE rows == [i \in 1 .. n |-> "rows"]
           T == Transaction(n, closing)
<1>1. rows \in Seq({"rows"}) /\ Len(rows) = n
  OBVIOUS
<1>2. T \in Seq(EventType \ {"rotate"}) /\ Len(T) = n + 2
  BY <1>1 DEF Transaction, EventType
<1>3. T[1] = "query" /\ T[n + 2] = closing /\ \A i \in 2 .. n + 1 : T[i] = "rows"
  BY <1>1 DEF Transaction
<1>4. WellFormed(T)
  <2> HIDE DEF T
  <2> QED  BY <1>2, <1>3 DEF WellFormed
<1> QED  BY <1>2, <1>3, <1>4

(* The position SHOW MASTER STATUS names.                                   *)
LEMMA MasterPositionFacts ==
  ASSUME log \in Seq(Event)
  PROVE  MasterPosition \in Position /\ MasterPosition.file = FileAt(Len(log))
<1>1. CASE log = <<>>
  BY <1>1 DEF MasterPosition, FileAt, Origin, Position
<1>2. CASE log # <<>>
  <2>1. Len(log) \in Nat \ {0} /\ log[Len(log)] \in Event
    BY <1>2
  <2> QED  BY <1>2, <2>1 DEF MasterPosition, FileAt, Event
<1> QED  BY <1>1, <1>2

LEMMA Concatenation ==
  ASSUME NEW S, NEW s \in Seq(S), NEW t \in Seq(S), NEW u \in Seq(S)
  PROVE  /\ s \o t \o u \in Seq(S)
         /\ Len(s \o t \o u) = Len(s) + Len(t) + Len(u)
         /\ \A i \in Nat :
              /\ 0 < i /\ i <= Len(s) => (s \o t \o u)[i] = s[i]
              /\ Len(s) < i /\ i <= Len(s) + Len(t) => (s \o t \o u)[i] = t[i - Len(s)]
              /\ Len(s) + Len(t) < i /\ i <= Len(s) + Len(t) + Len(u)
                   => (s \o t \o u)[i] = u[i - (Len(s) + Len(t))]
<1> DEFINE q == s \o t
           r == q \o u
<1>1. Len(s) \in Nat /\ Len(t) \in Nat /\ Len(u) \in Nat
  BY LenProperties
<1>2. /\ q \in Seq(S) /\ Len(q) = Len(s) + Len(t)
      /\ \A i \in 1 .. Len(s) + Len(t) : q[i] = IF i <= Len(s) THEN s[i] ELSE t[i - Len(s)]
  BY ConcatProperties
<1> HIDE DEF q
<1>3. /\ r \in Seq(S) /\ Len(r) = Len(q) + Len(u)
      /\ \A i \in 1 .. Len(q) + Len(u) : r[i] = IF i <= Len(q) THEN q[i] ELSE u[i - Len(q)]
  <2>1. q \in Seq(S)
    BY <1>2
  <2>2. r \in Seq(S)
    BY <2>1
  <2>3. Len(r) = Len(q) + Len(u)
    BY <2>1
  <2>4. \A i \in 1 .. Len(q) + Len(u) : r[i] = IF i <= Len(q) THEN q[i] ELSE u[i - Len(q)]
    BY <2>1, ConcatProperties
  <2> QED BY <2>2, <2>3, <2>4
<1> HIDE DEF r
<1>4. ASSUME NEW i \in Nat
      PROVE  /\ 0 < i /\ i <= Len(s) => r[i] = s[i]
             /\ Len(s) < i /\ i <= Len(s) + Len(t) => r[i] = t[i - Len(s)]
             /\ Len(s) + Len(t) < i /\ i <= Len(s) + Len(t) + Len(u) => r[i] = u[i - (Len(s) + Len(t))]
  BY <1>1, <1>2, <1>3
<1> QED  BY <1>2, <1>3, <1>4 DEF q, r

(* One commit: the log grows at its end, stays in order, and its position   *)
(* moves on past every event of the commit but the last.                    *)
LEMMA CommitFacts ==
  ASSUME log \in Seq(Event), width \in Nat, LogInv,
         NEW types, WellFormed(types), NEW t \in Thread, log' = Commit(types, t)
  PROVE  /\ log' \in Seq(Event)
         /\ Len(log') >= Len(log) + Len(types)
         /\ \A i \in 1 .. Len(log) : log'[i] = log[i]
         /\ \A i \in 1 .. Len(types) : log'[Len(log) + i].type = types[i] /\ log'[Len(log) + i].owner = t
         /\ \A i \in Len(log) + Len(types) + 1 .. Len(log') : log'[i].type = "rotate"
         /\ \A i \in Len(log) + 1 .. Len(log) + Len(types) - 1 : Before(i, MasterPosition)'
         /\ StrictlyAfter(MasterPosition', MasterPosition)
         /\ LogInv'
<1> DEFINE L == Len(log)
           K == Len(types)
           m == MasterPosition
           event(i) == [type |-> types[i], owner |-> t, width |-> width,
                        next |-> [m EXCEPT !.pos = (@ + i) % PosLimit]]
           body == [i \in 1 .. K |-> event(i)]
           rotates == m.pos + K > SizeLimit
           tail == IF rotates THEN <<RotateEvent(m.file)>> ELSE <<>>
<1>1. L \in Nat /\ K \in Nat \ {0} /\ m \in Position /\ m.pos <= SizeLimit
  BY MasterPositionFacts DEF LogInv, WellFormed
<1>2. ASSUME NEW i \in 1 .. K
      PROVE  /\ event(i) \in Event
             /\ event(i).next.file = m.file
             /\ ~rotates => event(i).next.pos = m.pos + i
  <2>1. m.pos + i \in Nat /\ PosLimit \in Nat /\ PosLimit > 0
    BY <1>1, BoundsAssumption DEF Position
  <2>2. (m.pos + i) % PosLimit \in Nat /\ (m.pos + i < PosLimit => (m.pos + i) % PosLimit = m.pos + i)
    BY <2>1, Modulo
  <2>3. ~rotates => m.pos + i < PosLimit
    BY <1>1, BoundsAssumption DEF Position
  <2>4. types[i] \in EventType
    BY DEF WellFormed
  <2> QED  BY <1>1, <2>2, <2>3, <2>4 DEF Event, Position
<1>3. RotateEvent(m.file) \in Event
  BY <1>1 DEF RotateEvent, Event, EventType, Position
<1> HIDE DEF event, rotates
<1>4. body \in Seq(Event) /\ Len(body) = K
  BY <1>1, <1>2, IsASeq
<1>5. tail \in Seq(Event) /\ Len(tail) = (IF rotates THEN 1 ELSE 0) /\ (rotates => tail[1] = RotateEvent(m.file))
  BY <1>3
<1>6. log' = log \o body \o tail
  BY DEF Commit, event, rotates
<1> HIDE DEF body, tail
<1>7. log' \in Seq(Event) /\ Len(log') = L + K + (IF rotates THEN 1 ELSE 0)
  <2>1. body \in Seq(Event) /\ tail \in Seq(Event)
    BY <1>4, <1>5
  <2>2. log' \in Seq(Event) /\ Len(log') = Len(log) + Len(body) + Len(tail)
    BY <1>6, <2>1, Concatenation
  <2> QED  BY <1>4, <1>5, <2>2
<1>8. ASSUME NEW i \in Nat
      PROVE  /\ 0 < i /\ i <= L => log'[i] = log[i]
             /\ L < i /\ i <= L + K => log'[i] = event(i - L)
             /\ L + K < i /\ i <= Len(log') => rotates /\ log'[i] = RotateEvent(m.file)
  <2>1. /\ 0 < i /\ i <= L => log'[i] = log[i]
        /\ L < i /\ i <= L + K => log'[i] = body[i - L]
        /\ L + K < i /\ i <= L + K + Len(tail) => log'[i] = tail[i - (L + K)]
    BY <1>4, <1>5, <1>6, Concatenation
  <2>2. L < i /\ i <= L + K => body[i - L] = event(i - L)
    BY <1>1 DEF body
  <2>3. L + K < i /\ i <= Len(log') => rotates /\ i - (L + K) = 1
    BY <1>1, <1>7
  <2> QED  BY <1>1, <1>5, <1>7, <2>1, <2>2, <2>3
<1>9. MasterPosition' = IF rotates THEN [file |-> m.file + 1, pos |-> 0] ELSE [file |-> m.file, pos |-> m.pos + K]
  <2>1. MasterPosition' = log'[Len(log')].next
    BY <1>1, <1>7 DEF MasterPosition
  <2>2. event(K).next = [m EXCEPT !.pos = (@ + K) % PosLimit]
    BY DEF event
  <2> HIDE DEF L, K, m
  <2>3. CASE rotates
    BY <1>1, <1>7, <1>8, <2>1, <2>3 DEF RotateEvent
  <2>4. CASE ~rotates
    <3>1. Len(log') = L + K /\ log'[L + K] = event(K)
      BY <1>1, <1>7, <1>8, <2>4
    <3>2. event(K).next = [file |-> m.file, pos |-> m.pos + K]
      BY <1>1, <1>2, <2>2, <2>4 DEF Position
    <3> QED  BY <2>1, <2>4, <3>1, <3>2
  <2> QED  BY <2>3, <2>4
<1> HIDE DEF L, K, m
<1>10. StrictlyAfter(MasterPosition', m) /\ MasterPosition'.pos <= SizeLimit
  BY <1>1, <1>9, BoundsAssumption DEF StrictlyAfter, Position, rotates
<1>11. \A i \in L + 1 .. L + K - 1 : Before(i, MasterPosition)'
  <2> TAKE i \in L + 1 .. L + K - 1
  <2>1. i - L \in 1 .. K /\ i - L < K /\ log'[i] = event(i - L)
    BY <1>1, <1>7, <1>8
  <2> QED  BY <1>1, <1>2, <1>9, <2>1 DEF Before, Moves, Position
<1>12. ASSUME NEW i \in 1 .. Len(log') PROVE NotAfter(i, MasterPosition)'
  <2>1. CASE i <= L
    <3>1. NotAfter(i, m) /\ log'[i] = log[i] /\ log[i] \in Event
      BY <1>1, <1>7, <1>8, <2>1 DEF LogInv, L, m
    <3>2. log[i].next.file \in Nat /\ log[i].next.pos \in Nat
      BY <3>1 DEF Event, Position
    <3>3. MasterPosition'.file \in Nat /\ MasterPosition'.pos \in Nat
      BY <1>1, <1>9 DEF Position
    <3>4. m.file \in Nat /\ m.pos \in Nat
      BY <1>1 DEF Position
    <3>5. \/ MasterPosition'.file > m.file
          \/ MasterPosition'.file = m.file /\ MasterPosition'.pos > m.pos
      BY <1>10 DEF StrictlyAfter
    <3>6. \/ log[i].next.file < m.file
          \/ log[i].next.file = m.file /\ log[i].next.pos <= m.pos /\ Moves(i)
      BY <3>1 DEF NotAfter
    <3>7. \/ log[i].next.file < MasterPosition'.file
          \/ log[i].next.file = MasterPosition'.file /\ log[i].next.pos <= MasterPosition'.pos /\ Moves(i)
      <4>1. CASE log[i].next.file < m.file
        BY <3>2, <3>3, <3>4, <3>5, <4>1
      <4>2. CASE log[i].next.file = m.file /\ log[i].next.pos <= m.pos /\ Moves(i)
        BY <3>2, <3>3, <3>4, <3>5, <4>2
      <4> QED  BY <3>6, <4>1, <4>2
    <3> QED  BY <3>1, <3>7 DEF NotAfter, Moves
  <2>2. CASE i > L /\ i <= L + K
    <3>1. i - L \in 1 .. K /\ i - L <= K /\ i - L > 0 /\ log'[i] = event(i - L)
      BY <1>1, <1>7, <1>8, <2>2
    <3> QED  BY <1>1, <1>2, <1>9, <3>1 DEF NotAfter, Moves, Position
  <2>3. CASE i > L + K
    <3>1. rotates /\ log'[i] = RotateEvent(m.file)
      BY <1>1, <1>7, <1>8, <2>3
    <3> QED  BY <1>1, <1>9, <3>1 DEF NotAfter, Moves, RotateEvent, Position
  <2> QED  BY <1>1, <1>7, <1>8, <2>1, <2>2, <2>3
<1>13. ASSUME NEW i \in 1 .. Len(log')
       PROVE  /\ log'[i].type = "rows" =>
                   i > 1 /\ log'[i - 1].type \in {"query", "rows"} /\ log'[i - 1].owner = log'[i].owner
              /\ log'[i].type # "rotate" => log'[i].next.file = FileAt(i - 1)'
  <2>1. CASE i <= L
    <3>1. log'[i] = log[i] /\ (i > 1 => log'[i - 1] = log[i - 1])
      <4>1. i \in Nat /\ 0 < i /\ (i > 1 => i - 1 \in Nat /\ 0 < i - 1 /\ i - 1 <= L)
        BY <1>1, <2>1
      <4>2. log'[i] = log[i]
        BY <1>8, <2>1, <4>1
      <4>3. i > 1 => log'[i - 1] = log[i - 1]
        BY <1>8, <4>1
      <4> QED  BY <4>2, <4>3
    <3>2. /\ log[i].type = "rows" =>
               i > 1 /\ log[i - 1].type \in {"query", "rows"} /\ log[i - 1].owner = log[i].owner
          /\ log[i].type # "rotate" => log[i].next.file = FileAt(i - 1)
      BY <1>1, <2>1 DEF LogInv, L
    <3> QED  BY <3>1, <3>2 DEF FileAt
  <2>2. CASE i = L + 1 /\ i <= L + K
    <3>1. log'[i] = event(1) /\ 1 \in 1 .. K
      BY <1>1, <1>7, <1>8, <2>2
    <3>2. FileAt(i - 1)' = m.file
      BY <1>1, <1>7, <1>8, <2>2, MasterPositionFacts DEF FileAt, L, m
    <3>3. event(1).type # "rows"
      BY DEF event, WellFormed
    <3> QED  BY <1>2, <3>1, <3>2, <3>3
  <2>3. CASE i > L + 1 /\ i <= L + K
    <3>1. i - L \in 2 .. K /\ i - 1 - L \in 1 .. K
      BY <1>1, <2>3
    <3>2. log'[i] = event(i - L) /\ log'[i - 1] = event(i - 1 - L)
      <4>1. i \in Nat /\ L < i /\ i <= L + K /\ i - 1 \in Nat /\ L < i - 1 /\ i - 1 <= L + K
        BY <1>1, <2>3
      <4>2. log'[i] = event(i - L)
        BY <1>8, <4>1
      <4>3. log'[i - 1] = event(i - 1 - L)
        BY <1>8, <4>1
      <4> QED  BY <4>2, <4>3
    <3>3. event(i - L).type = types[i - L] /\ event(i - 1 - L).type = types[i - 1 - L]
          /\ event(i - L).owner = t /\ event(i - 1 - L).owner = t
      BY DEF event
    <3>4. types[i - L] = "rows" => types[i - 1 - L] \in {"query", "rows"}
      <4>1. i - 1 - L = (i - L) - 1
        BY <1>1
      <4> QED  BY <3>1, <4>1 DEF WellFormed, K
    <3>5. FileAt(i - 1)' = m.file /\ event(i - L).next.file = m.file
      BY <1>1, <1>2, <2>3, <3>1, <3>2 DEF FileAt
    <3> QED  BY <1>1, <2>3, <3>2, <3>3, <3>4, <3>5
  <2>4. CASE i > L + K
    <3>1. log'[i] = RotateEvent(m.file)
      BY <1>1, <1>7, <1>8, <2>4
    <3> QED  BY <3>1 DEF RotateEvent
  <2> QED  BY <1>1, <1>7, <1>8, <2>1, <2>2, <2>3, <2>4
<1>14. LogInv'
  BY <1>7, <1>10, <1>12, <1>13 DEF LogInv
<1>15. \A i \in 1 .. K : log'[L + i].type = types[i] /\ log'[L + i].owner = t
  <2> TAKE i \in 1 .. K
  <2>1. (L + i) - L = i
    BY <1>1
  <2>2. log'[L + i] = event(i)
    BY <1>1, <1>8, <2>1
  <2> QED  BY <2>2 DEF event
<1>16. \A i \in L + K + 1 .. Len(log') : log'[i].type = "rotate"
  BY <1>1, <1>7, <1>8 DEF RotateEvent
<1>17. Len(log') >= L + K
  BY <1>1, <1>7, <1>8
<1>18. \A i \in 1 .. L : log'[i] = log[i]
  BY <1>1, <1>8
<1> QED  BY <1>7, <1>18, <1>10, <1>11, <1>14, <1>15, <1>16, <1>17 DEF L, K, m

(* FLUSH LOGS.                                                              *)
LEMMA RotateFacts ==
  ASSUME log \in Seq(Event), width \in Nat, LogInv,
         log' = Append(log, RotateEvent(MasterPosition.file))
  PROVE  /\ log' \in Seq(Event)
         /\ Len(log') = Len(log) + 1
         /\ \A i \in 1 .. Len(log) : log'[i] = log[i]
         /\ log'[Len(log) + 1].type = "rotate"
         /\ StrictlyAfter(MasterPosition', MasterPosition)
         /\ LogInv'
<1> DEFINE m == MasterPosition
           e == RotateEvent(m.file)
<1>1. m \in Position /\ Len(log) \in Nat
  BY MasterPositionFacts
<1>2. e \in Event /\ e.type = "rotate" /\ e.next = [file |-> m.file + 1, pos |-> 0]
  BY <1>1 DEF RotateEvent, Event, EventType, Position
<1> HIDE DEF e
<1>3. /\ log' \in Seq(Event) /\ Len(log') = Len(log) + 1 /\ log'[Len(log) + 1] = e
      /\ \A i \in 1 .. Len(log) : log'[i] = log[i]
  BY <1>2, AppendProperties DEF e
<1>4. MasterPosition' = [file |-> m.file + 1, pos |-> 0]
  BY <1>1, <1>2, <1>3 DEF MasterPosition
<1> HIDE DEF m
<1>5. ASSUME NEW i \in 1 .. Len(log)
      PROVE  /\ log'[i] = log[i] /\ (i > 1 => log'[i - 1] = log[i - 1]) /\ log[i] \in Event
             /\ NotAfter(i, m)
             /\ log[i].type = "rows" =>
                  i > 1 /\ log[i - 1].type \in {"query", "rows"} /\ log[i - 1].owner = log[i].owner
             /\ log[i].type # "rotate" => log[i].next.file = FileAt(i - 1)
  BY <1>1, <1>3 DEF LogInv, m
<1>6. ASSUME NEW i \in 1 .. Len(log) PROVE NotAfter(i, MasterPosition)'
  <2>1. log[i].next.file \in Nat /\ log[i].next.pos \in Nat /\ m.file \in Nat
    BY <1>1, <1>5 DEF Event, Position
  <2> QED  BY <1>4, <1>5, <2>1 DEF NotAfter
<1>7. ASSUME NEW i \in 1 .. Len(log)
      PROVE  /\ log'[i].type = "rows" =>
                  i > 1 /\ log'[i - 1].type \in {"query", "rows"} /\ log'[i - 1].owner = log'[i].owner
             /\ log'[i].type # "rotate" => log'[i].next.file = FileAt(i - 1)'
  BY <1>1, <1>5 DEF FileAt
<1>8. ASSUME NEW i, i = Len(log) + 1 PROVE NotAfter(i, MasterPosition)'
  BY <1>1, <1>2, <1>3, <1>4, <1>8 DEF NotAfter, Moves, Position
<1>9. LogInv'
  <2>1. MasterPosition'.pos <= SizeLimit
    BY <1>4, BoundsAssumption
  <2>2. DOMAIN log' = 1 .. Len(log) + 1
    BY <1>3
  <2>3. \A i \in DOMAIN log' : i \in 1 .. Len(log) \/ i = Len(log) + 1
    BY <1>1, <2>2
  <2> QED  BY <1>2, <1>3, <1>6, <1>7, <1>8, <2>1, <2>3 DEF LogInv
<1>10. StrictlyAfter(MasterPosition', m)
  BY <1>1, <1>4 DEF StrictlyAfter, Position
<1> QED  BY <1>2, <1>3, <1>9, <1>10 DEF m

----------------------------------------------------------------------------
(* A later position is past everything an earlier one is past.              *)
LEMMA BeforeLater ==
  ASSUME log \in Seq(Event), NEW i \in DOMAIN log, NEW p \in Position, NEW q \in Position,
         Before(i, p), AtLeast(q, p)
  PROVE  Before(i, q)
<1>1. log[i] \in Event
  OBVIOUS
<1>2. /\ log[i].next.file \in Nat /\ log[i].next.pos \in Nat
      /\ p.file \in Nat /\ p.pos \in Nat /\ q.file \in Nat /\ q.pos \in Nat
  BY <1>1 DEF Event, Position
<1> QED  BY <1>2 DEF Before, AtLeast

LEMMA InitInv == Init => IInv
<1> SUFFICES ASSUME Init PROVE IInv
  OBVIOUS
<1>1. TypeOK
  BY DEF Init, TypeOK, Origin, Width, Position, NoThread
<1>2. LogInv
  BY BoundsAssumption DEF Init, LogInv, MasterPosition, Origin
<1>3. EngineInv /\ OnlyOwnRows /\ NoOwnRowSkipped /\ CompleteOnSuccess
  BY DEF Init, EngineInv, OnlyOwnRows, NoOwnRowSkipped, CompleteOnSuccess
<1> QED  BY <1>1, <1>2, <1>3 DEF IInv

(* Whatever the other connections append leaves the capture alone.          *)
LEMMA LogGrows ==
  ASSUME IInv, LogInv', log' \in Seq(Event), Len(log') > Len(log), width' \in Nat,
         UNCHANGED <<filtered, engineVars>>,
         \A i \in 1 .. Len(log) : log'[i] = log[i],
         log'[Len(log) + 1].type # "rows",
         pc # "start" => \A i \in Len(log) + 1 .. Len(log') : ~IsMine(i)',
         StrictlyAfter(MasterPosition', MasterPosition)
  PROVE  IInv'
<1>1. UNCHANGED <<filtered, pc, start, end, origin, expected, read, current, currentThread, changes, outcome>>
  BY DEF engineVars
<1>2. Len(log) \in Nat /\ Len(log') \in Nat /\ read \in 0 .. Len(log) /\ origin \in Nat
  BY DEF IInv, TypeOK
<1>3. TypeOK'
  BY <1>1, <1>2 DEF IInv, TypeOK
<1>4. ASSUME NEW i \in 1 .. Len(log) PROVE IsMine(i)' = IsMine(i)
  BY DEF IsMine
<1>5. ASSUME pc # "start", NEW i \in origin + 1 .. Len(log'), IsMine(i)'
      PROVE  i \in origin + 1 .. Len(log) /\ IsMine(i)
  BY <1>2, <1>4, <1>5
<1>6. MasterPosition \in Position /\ MasterPosition' \in Position
  <2>1. MasterPosition \in Position
    BY MasterPositionFacts DEF IInv, TypeOK
  <2>2. MasterPosition' \in Position
    <3>1. Len(log') # 0 /\ log' # <<>> /\ log'[Len(log')] \in Event
      BY <1>2
    <3> QED  BY <3>1 DEF MasterPosition, Event
  <2> QED  BY <2>1, <2>2
<1>7. ASSUME NEW p \in Position, NEW q \in Position, pc # "start", RowsBefore(p), AtLeast(q, p)
      PROVE  \A i \in origin + 1 .. Len(log') : IsMine(i)' => \A j \in origin + 1 .. i : Before(j, q)'
  <2> TAKE i \in origin + 1 .. Len(log')
  <2> HAVE IsMine(i)'
  <2>1. i \in origin + 1 .. Len(log) /\ IsMine(i)
    BY <1>5, <1>7
  <2> TAKE j \in origin + 1 .. i
  <2>2. j \in 1 .. Len(log) /\ Before(j, p)
    BY <1>2, <1>7, <2>1 DEF RowsBefore
  <2>3. Before(j, q)
    BY <1>7, <2>2, BeforeLater DEF IInv, TypeOK
  <2> QED  BY <2>2, <2>3 DEF Before, Moves
<1>8. EngineInv'
  <2>1. pc # "start" => FileAt(origin)' = FileAt(origin) /\ origin' <= Len(log')
    BY <1>1, <1>2 DEF IInv, EngineInv, FileAt
  <2>2. pc # "start" => (origin < Len(log') => log'[origin + 1].type # "rows")
    BY <1>2 DEF IInv, EngineInv
  <2>3. pc = "exec" => AtLeast(MasterPosition', start) /\ \A i \in origin + 1 .. Len(log') : ~IsMine(i)'
    <3>1. AtLeast(MasterPosition, start) => AtLeast(MasterPosition', start)
      <4>1. start \in Position
        BY DEF IInv, TypeOK
      <4>2. start.file \in Nat /\ start.pos \in Nat
        BY <4>1 DEF Position
      <4>3. /\ MasterPosition.file \in Nat /\ MasterPosition.pos \in Nat
            /\ MasterPosition'.file \in Nat /\ MasterPosition'.pos \in Nat
        BY <1>6 DEF Position
      <4> QED  BY <4>2, <4>3 DEF AtLeast, StrictlyAfter
    <3> QED  BY <1>5, <3>1 DEF IInv, EngineInv
  <2>4. pc = "end" =>
          /\ RowsBefore(MasterPosition)'
          /\ expected > 0 /\ ~filtered => StrictlyAfter(MasterPosition', start)
    <3> SUFFICES ASSUME pc = "end" PROVE /\ RowsBefore(MasterPosition)'
                                         /\ expected > 0 /\ ~filtered => StrictlyAfter(MasterPosition', start)
      OBVIOUS
    <3>1. AtLeast(MasterPosition', MasterPosition)
      BY <1>6 DEF AtLeast, StrictlyAfter, Position
    <3>2. RowsBefore(MasterPosition) /\ (expected > 0 /\ ~filtered => StrictlyAfter(MasterPosition, start))
      BY DEF IInv, EngineInv
    <3>3. RowsBefore(MasterPosition)'
      BY <1>1, <1>6, <1>7, <3>1, <3>2 DEF RowsBefore
    <3>4. StrictlyAfter(MasterPosition, start) => StrictlyAfter(MasterPosition', start)
      <4>1. start \in Position
        BY DEF IInv, TypeOK
      <4>2. start.file \in Nat /\ start.pos \in Nat
        BY <4>1 DEF Position
      <4>3. /\ MasterPosition.file \in Nat /\ MasterPosition.pos \in Nat
            /\ MasterPosition'.file \in Nat /\ MasterPosition'.pos \in Nat
        BY <1>6 DEF Position
      <4> QED  BY <4>2, <4>3 DEF StrictlyAfter
    <3> QED  BY <3>2, <3>3, <3>4
  <2>5. pc \in {"collect", "read", "done"} => RowsBefore(end)'
    <3>1. AtLeast(end, end) /\ end \in Position
      BY DEF IInv, TypeOK, AtLeast, Position
    <3> QED  BY <1>1, <1>7, <3>1 DEF IInv, EngineInv, RowsBefore
  <2>6. FileAt(read)' = FileAt(read) /\ (read > 0 => log'[read] = log[read])
    BY <1>1, <1>2 DEF FileAt
  <2> QED  BY <1>1, <1>2, <2>1, <2>2, <2>3, <2>4, <2>5, <2>6 DEF IInv, EngineInv
<1>9. OnlyOwnRows'
  <2>1. ASSUME NEW k \in DOMAIN changes PROVE IsMine(changes[k])'
    <3>1. changes[k] \in origin + 1 .. read /\ IsMine(changes[k])
      BY DEF IInv, OnlyOwnRows
    <3>2. changes[k] \in 1 .. Len(log)
      BY <1>2, <3>1
    <3>3. log'[changes[k]] = log[changes[k]]
      BY <1>2, <3>2
    <3> QED  BY <1>1, <3>1, <3>3 DEF IsMine
  <2> QED  BY <1>1, <2>1 DEF IInv, OnlyOwnRows
<1>10. NoOwnRowSkipped'
  BY <1>1, <1>2, <1>4 DEF IInv, NoOwnRowSkipped
<1>11. CompleteOnSuccess'
  <2>1. outcome = "ok" => pc # "start"
    BY DEF IInv, EngineInv
  <2> QED  BY <1>1, <1>5, <2>1 DEF IInv, CompleteOnSuccess
<1> QED  BY <1>3, <1>8, <1>9, <1>10, <1>11 DEF IInv

(* The target: another connection commits, alters the table, or the file is *)
(* rotated.                                                                 *)
LEMMA TargetStep ==
  ASSUME IInv, Writes \/ Alters \/ Rotate
  PROVE  IInv'
<1>1. log \in Seq(Event) /\ width \in Nat /\ LogInv /\ Len(log) \in Nat /\ Me \notin Others
  BY ThreadsAssumption DEF IInv, TypeOK
<1>2. ASSUME NEW types, WellFormed(types), NEW t \in Thread, pc # "start" => t \in Others,
             log' = Commit(types, t), width' \in Nat, UNCHANGED <<filtered, engineVars>>
      PROVE  IInv'
  <2>1. Len(types) \in Nat \ {0} /\ types[1] # "rows"
    BY <1>2 DEF WellFormed
  <2>2. /\ log' \in Seq(Event) /\ Len(log') >= Len(log) + Len(types)
        /\ \A i \in 1 .. Len(log) : log'[i] = log[i]
        /\ \A i \in 1 .. Len(types) : log'[Len(log) + i].type = types[i] /\ log'[Len(log) + i].owner = t
        /\ \A i \in Len(log) + Len(types) + 1 .. Len(log') : log'[i].type = "rotate"
        /\ StrictlyAfter(MasterPosition', MasterPosition)
        /\ LogInv'
    BY <1>1, <1>2, CommitFacts
  <2>3. Len(log') \in Nat /\ Len(log') > Len(log) /\ log'[Len(log) + 1].type # "rows"
    BY <1>1, <2>1, <2>2
  <2>4. ASSUME pc # "start", NEW i \in Len(log) + 1 .. Len(log') PROVE ~IsMine(i)'
    <3>1. CASE i <= Len(log) + Len(types)
      <4>1. PICK k \in 1 .. Len(types) : i = Len(log) + k
        <5>1. i - Len(log) \in 1 .. Len(types) /\ i = Len(log) + (i - Len(log))
          BY <1>1, <2>1, <2>3, <3>1
        <5> QED  BY <5>1
      <4> QED  BY <1>1, <1>2, <2>2, <2>4, <4>1 DEF IsMine
    <3>2. CASE i > Len(log) + Len(types)
      BY <1>1, <2>1, <2>2, <2>3, <3>2 DEF IsMine
    <3> QED  BY <1>1, <2>1, <3>1, <3>2
  <2> QED  BY <1>2, <2>2, <2>3, <2>4, LogGrows
<1>3. CASE Writes
  <2>1. PICK t \in (IF pc = "start" THEN Thread ELSE Others), closing \in {"query", "xid"} :
          log' = Commit(Transaction(1, closing), t) /\ UNCHANGED <<filtered, width, engineVars>>
    BY <1>3 DEF Writes
  <2>2. WellFormed(Transaction(1, closing))
    BY TransactionFacts
  <2> QED  BY <1>1, <1>2, <2>1, <2>2 DEF Thread
<1>4. CASE Alters
  <2>1. PICK t \in Others, w \in {0, Width + 1} :
          log' = Commit(<<"query">>, t) /\ width' = w /\ UNCHANGED <<filtered, engineVars>>
    BY <1>4 DEF Alters
  <2>2. WellFormed(<<"query">>) /\ w \in Nat
    BY DEF WellFormed, EventType, Width
  <2> QED  BY <1>2, <2>1, <2>2 DEF Thread
<1>5. CASE Rotate
  <2>1. log' = Append(log, RotateEvent(MasterPosition.file)) /\ UNCHANGED <<filtered, width, engineVars>>
    BY <1>5 DEF Rotate
  <2>2. /\ log' \in Seq(Event) /\ Len(log') = Len(log) + 1
        /\ \A i \in 1 .. Len(log) : log'[i] = log[i]
        /\ log'[Len(log) + 1].type = "rotate"
        /\ StrictlyAfter(MasterPosition', MasterPosition)
        /\ LogInv'
    BY <1>1, <2>1, RotateFacts
  <2>3. \A i \in Len(log) + 1 .. Len(log') : ~IsMine(i)'
    BY <1>1, <2>2 DEF IsMine
  <2> QED  BY <1>1, <2>1, <2>2, <2>3, LogGrows
<1> QED  BY <1>3, <1>4, <1>5

(* MasterPosition before the statement.                                     *)
LEMMA StartPositionStep ==
  ASSUME IInv, StartPosition
  PROVE  IInv'
<1>1. MasterPosition \in Position /\ MasterPosition.file = FileAt(Len(log)) /\ Len(log) \in Nat
  BY MasterPositionFacts DEF IInv, TypeOK
<1>2. TypeOK' /\ UNCHANGED <<log, width, filtered, expected, read, current, currentThread, changes, outcome>>
  BY <1>1 DEF IInv, TypeOK, StartPosition
<1>3. MasterPosition' = MasterPosition /\ FileAt(origin)' = FileAt(Len(log))
  BY <1>2 DEF MasterPosition, FileAt, StartPosition
<1>4. LogInv'
  BY <1>2, <1>3 DEF IInv, LogInv, NotAfter, Moves, FileAt
<1>5. EngineInv'
  BY <1>1, <1>2, <1>3 DEF IInv, EngineInv, StartPosition, AtLeast, Position
<1>6. OnlyOwnRows' /\ NoOwnRowSkipped' /\ CompleteOnSuccess'
  BY <1>1, <1>2 DEF IInv, EngineInv, StartPosition, OnlyOwnRows, NoOwnRowSkipped, CompleteOnSuccess
<1> QED  BY <1>2, <1>4, <1>5, <1>6 DEF IInv

(* The statement commits.                                                   *)
LEMMA ExecuteStep ==
  ASSUME IInv, Execute
  PROVE  IInv'
<1>1. PICK n \in 0 .. MaxRows, affected \in 0 .. MaxRows :
        /\ pc = "exec" /\ pc' = "end" /\ (n = 0 => affected = 0) /\ expected' = affected
        /\ log' = IF n = 0 \/ filtered THEN log ELSE Commit(Transaction(n, "xid"), Me)
        /\ UNCHANGED <<filtered, width, start, end, origin, read, current, currentThread, changes, outcome>>
  BY DEF Execute
<1>2. /\ log \in Seq(Event) /\ width \in Nat /\ Len(log) \in Nat /\ origin \in Nat /\ start \in Position
      /\ n \in Nat /\ affected \in Nat
      /\ read = 0 /\ currentThread = NoThread /\ changes = <<>> /\ outcome = "none"
      /\ origin <= Len(log) /\ start.file = FileAt(origin)
      /\ origin < Len(log) => log[origin + 1].type # "rows"
      /\ AtLeast(MasterPosition, start)
      /\ \A i \in origin + 1 .. Len(log) : ~IsMine(i)
  BY <1>1, BoundsAssumption DEF IInv, TypeOK, EngineInv
<1>3. MasterPosition \in Position
  BY MasterPositionFacts, <1>2
<1>4. OnlyOwnRows' /\ NoOwnRowSkipped' /\ CompleteOnSuccess'
  BY <1>1, <1>2 DEF OnlyOwnRows, NoOwnRowSkipped, CompleteOnSuccess
<1>5. CASE n = 0 \/ filtered
  <2>1. log' = log /\ MasterPosition' = MasterPosition
    BY <1>1, <1>5 DEF MasterPosition
  <2>2. TypeOK' /\ LogInv'
    BY <1>1, <1>2, <2>1 DEF IInv, TypeOK, LogInv, NotAfter, Moves, FileAt
  <2>3. EngineInv'
    BY <1>1, <1>2, <1>5, <2>1 DEF EngineInv, RowsBefore, FileAt, IsMine
  <2> QED  BY <1>4, <2>2, <2>3 DEF IInv
<1>6. CASE n > 0 /\ ~filtered
  <2> DEFINE T == Transaction(n, "xid")
  <2>1. WellFormed(T) /\ Len(T) = n + 2 /\ \A i \in 1 .. n + 2 : T[i] = "rows" => i <= n + 1
    BY <1>2, <1>6, TransactionFacts
  <2>2. log' = Commit(T, Me) /\ Me \in Thread
    BY <1>1, <1>6 DEF Thread
  <2> HIDE DEF T
  <2>3. /\ log' \in Seq(Event) /\ Len(log') >= Len(log) + Len(T)
        /\ \A i \in 1 .. Len(log) : log'[i] = log[i]
        /\ \A i \in 1 .. Len(T) : log'[Len(log) + i].type = T[i] /\ log'[Len(log) + i].owner = Me
        /\ \A i \in Len(log) + Len(T) + 1 .. Len(log') : log'[i].type = "rotate"
        /\ \A i \in Len(log) + 1 .. Len(log) + Len(T) - 1 : Before(i, MasterPosition)'
        /\ StrictlyAfter(MasterPosition', MasterPosition)
        /\ LogInv'
    BY <1>2, <2>1, <2>2, CommitFacts DEF IInv
  <2>4. Len(log') \in Nat /\ Len(log') > Len(log) /\ MasterPosition' \in Position
    <3>1. Len(log') \in Nat /\ Len(log') > Len(log)
      BY <1>2, <2>1, <2>3
    <3>2. log' # <<>> /\ log'[Len(log')] \in Event
      BY <1>2, <2>3, <3>1
    <3> QED  BY <3>1, <3>2 DEF MasterPosition, Event
  <2>5. TypeOK'
    BY <1>1, <1>2, <2>3, <2>4 DEF IInv, TypeOK
  <2>6. FileAt(origin)' = FileAt(origin) /\ (origin < Len(log') => log'[origin + 1].type # "rows")
    <3>1. T[1] # "rows" /\ 1 \in 1 .. Len(T)
      BY <1>2, <2>1 DEF WellFormed
    <3>2. log'[Len(log) + 1].type # "rows"
      BY <2>3, <3>1
    <3>3. origin < Len(log) => log'[origin + 1].type # "rows"
      BY <1>2, <2>3
    <3>4. origin' = origin /\ (origin > 0 => log'[origin] = log[origin])
      BY <1>1, <1>2, <2>3
    <3>5. FileAt(origin)' = FileAt(origin)
      BY <1>2, <3>4 DEF FileAt
    <3> QED  BY <1>2, <3>2, <3>3, <3>5
  <2>7. StrictlyAfter(MasterPosition', start)
    BY <1>2, <1>3, <2>3, <2>4 DEF StrictlyAfter, AtLeast, Position
  <2>8. ASSUME NEW i \in origin + 1 .. Len(log'), IsMine(i)' PROVE i > Len(log) /\ i <= Len(log) + Len(T) - 1
    <3>0. i \in Nat /\ i > 0 /\ i <= Len(log') /\ Len(T) \in Nat
      BY <1>2, <2>1, <2>4
    <3>1. i > Len(log)
      <4> SUFFICES ASSUME i <= Len(log) PROVE FALSE
        BY <1>2, <3>0
      <4>1. i \in 1 .. Len(log) /\ i \in origin + 1 .. Len(log)
        BY <1>2, <2>8, <3>0
      <4>2. log'[i] = log[i] /\ ~IsMine(i)
        BY <1>2, <2>3, <4>1
      <4> QED  BY <2>8, <4>2 DEF IsMine
    <3>2. i <= Len(log) + Len(T)
      <4> SUFFICES ASSUME i > Len(log) + Len(T) PROVE FALSE
        BY <1>2, <3>0
      <4>1. i \in Len(log) + Len(T) + 1 .. Len(log')
        BY <1>2, <2>4, <3>0
      <4>2. log'[i].type = "rotate"
        BY <2>3, <4>1
      <4> QED  BY <2>8, <4>2 DEF IsMine
    <3>3. PICK k \in 1 .. Len(T) : i = Len(log) + k
      <4>1. i - Len(log) \in 1 .. Len(T) /\ i = Len(log) + (i - Len(log))
        BY <1>2, <3>0, <3>1, <3>2
      <4> QED  BY <4>1
    <3>4. T[k] = "rows"
      <4>1. log'[i].type = T[k]
        BY <2>3, <3>3
      <4> QED  BY <2>8, <4>1 DEF IsMine
    <3>5. k <= n + 1
      BY <1>2, <2>1, <3>3, <3>4
    <3> QED  BY <1>2, <2>1, <3>1, <3>3, <3>5
  <2>9. ASSUME NEW j \in 1 .. Len(log) PROVE Before(j, MasterPosition)'
    <3>1. NotAfter(j, MasterPosition) /\ log'[j] = log[j] /\ log[j] \in Event
      BY <1>2, <2>3 DEF IInv, LogInv
    <3>2. log[j].next.file \in Nat /\ log[j].next.pos \in Nat
      BY <3>1 DEF Event, Position
    <3>3. /\ MasterPosition.file \in Nat /\ MasterPosition.pos \in Nat
          /\ MasterPosition'.file \in Nat /\ MasterPosition'.pos \in Nat
      BY <1>3, <2>4 DEF Position
    <3>4. StrictlyAfter(MasterPosition', MasterPosition)
      BY <2>3
    <3> QED  BY <3>1, <3>2, <3>3, <3>4 DEF Before, NotAfter, Moves, StrictlyAfter
  <2>10. RowsBefore(MasterPosition)'
    <3> SUFFICES ASSUME NEW i \in origin + 1 .. Len(log'), IsMine(i)', NEW j \in origin + 1 .. i
                 PROVE  Before(j, MasterPosition)'
      BY <1>1 DEF RowsBefore
    <3>1. i > Len(log) /\ i <= Len(log) + Len(T) - 1
      BY <2>8
    <3>2. j \in Nat /\ j > 0 /\ j <= i /\ i \in Nat /\ Len(T) \in Nat
      BY <1>2, <2>1, <2>4
    <3>3. CASE j <= Len(log)
      <4>1. j \in 1 .. Len(log)
        BY <1>2, <3>2, <3>3
      <4> QED  BY <2>9, <4>1
    <3>4. CASE j > Len(log)
      <4>1. j \in Len(log) + 1 .. Len(log) + Len(T) - 1
        BY <1>2, <3>1, <3>2, <3>4
      <4> QED  BY <2>3, <4>1
    <3> QED  BY <1>2, <3>2, <3>3, <3>4
  <2> QED
    <3>1. EngineInv'
      BY <1>1, <1>2, <2>4, <2>6, <2>7, <2>10 DEF EngineInv
    <3> QED  BY <1>4, <2>3, <2>5, <3>1 DEF IInv
<1> QED  BY <1>2, <1>5, <1>6

(* MasterPosition after the statement.                                      *)
LEMMA EndPositionStep ==
  ASSUME IInv, EndPosition
  PROVE  IInv'
<1>1. MasterPosition \in Position
  BY MasterPositionFacts DEF IInv, TypeOK
<1>2. /\ pc = "end" /\ pc' = "collect" /\ end' = MasterPosition
      /\ UNCHANGED <<filtered, log, width, start, origin, expected, read, current, currentThread, changes, outcome>>
  BY DEF EndPosition
<1>3. TypeOK' /\ LogInv'
  BY <1>1, <1>2 DEF IInv, TypeOK, LogInv, NotAfter, Moves, FileAt, MasterPosition
<1>4. EngineInv'
  BY <1>2 DEF IInv, EngineInv, RowsBefore, IsMine, Before, Moves, FileAt
<1>5. OnlyOwnRows' /\ NoOwnRowSkipped' /\ CompleteOnSuccess'
  BY <1>2 DEF IInv, EngineInv, OnlyOwnRows, NoOwnRowSkipped, CompleteOnSuccess, IsMine
<1> QED  BY <1>3, <1>4, <1>5 DEF IInv

(* Collect begins: its early return, a failed StartSync, or the stream.     *)
LEMMA StartSyncStep ==
  ASSUME IInv, StartSync
  PROVE  IInv'
<1>1. /\ pc = "collect"
      /\ UNCHANGED <<filtered, log, width, start, end, origin, expected, currentThread, changes>>
  BY DEF StartSync
<1>2. LogInv'
  BY <1>1 DEF IInv, LogInv, NotAfter, Moves, FileAt, MasterPosition
<1>3. /\ read = 0 /\ changes = <<>> /\ currentThread = NoThread /\ outcome = "none"
      /\ origin \in Nat /\ origin <= Len(log) /\ start.file = FileAt(origin) /\ start \in Position
      /\ expected > 0 /\ ~filtered => StrictlyAfter(end, start)
  BY <1>1 DEF IInv, TypeOK, EngineInv
<1>4. CASE pc' = "done" /\ UNCHANGED <<read, current>> /\ outcome' \in {"ok", "error"} /\ (outcome' = "ok" => NothingToCollect)
  <2>1. TypeOK'
    BY <1>1, <1>4 DEF IInv, TypeOK
  <2>2. EngineInv'
    BY <1>1, <1>4 DEF IInv, EngineInv, RowsBefore, IsMine, Before, Moves, FileAt
  <2>3. OnlyOwnRows' /\ NoOwnRowSkipped'
    BY <1>1, <1>3, <1>4 DEF OnlyOwnRows, NoOwnRowSkipped
  <2>4. CompleteOnSuccess'
    BY <1>1, <1>3, <1>4 DEF CompleteOnSuccess, NothingToCollect, StrictlyAfter, Position, IInv, TypeOK
  <2> QED  BY <1>2, <2>1, <2>2, <2>3, <2>4 DEF IInv
<1>5. CASE pc' = "read" /\ read' = origin /\ current' = start /\ UNCHANGED outcome
  <2>1. TypeOK'
    BY <1>1, <1>3, <1>5 DEF IInv, TypeOK
  <2>2. EngineInv'
    <3>1. FileAt(read)' = FileAt(origin)
      BY <1>1, <1>5 DEF FileAt
    <3> QED  BY <1>1, <1>3, <1>5, <3>1 DEF IInv, EngineInv, RowsBefore, IsMine, Before, Moves, FileAt
  <2>3. OnlyOwnRows' /\ NoOwnRowSkipped' /\ CompleteOnSuccess'
    BY <1>1, <1>3, <1>5 DEF OnlyOwnRows, NoOwnRowSkipped, CompleteOnSuccess
  <2> QED  BY <1>2, <2>1, <2>2, <2>3 DEF IInv
<1> QED  BY <1>4, <1>5 DEF StartSync, Return

(* What Collect knows of the event it reads: whose row it is, and that its  *)
(* position is not yet at the end while rows of the statement are to come.  *)
LEMMA EventFacts ==
  ASSUME IInv, pc = "read", read < Len(log)
  PROVE  /\ read + 1 \in DOMAIN log /\ log[read + 1] \in Event
         /\ MyRow(log[read + 1]) <=> IsMine(read + 1)
         /\ CurrentAfter(log[read + 1]) \in Position
         /\ CurrentAfter(log[read + 1]).file = log[read + 1].next.file
         /\ OwnerAfter(log[read + 1]) \in Thread \cup {NoThread}
         /\ log[read + 1].type \in {"query", "rows"} => OwnerAfter(log[read + 1]) = log[read + 1].owner
         /\ Before(read + 1, end) => ~AtLeast(CurrentAfter(log[read + 1]), end)
<1> DEFINE e == log[read + 1]
<1>1. /\ read \in Nat /\ origin \in Nat /\ origin <= read /\ Len(log) \in Nat /\ read + 1 \in DOMAIN log
      /\ e \in Event /\ current \in Position /\ end \in Position /\ currentThread \in Thread \cup {NoThread}
  BY DEF IInv, TypeOK, EngineInv
<1>2. /\ current.file = FileAt(read)
      /\ read > origin /\ log[read].type \in {"query", "rows"} => currentThread = log[read].owner
      /\ origin < Len(log) => log[origin + 1].type # "rows"
  BY DEF IInv, EngineInv
<1>3. /\ e.type = "rows" => log[read].type \in {"query", "rows"} /\ log[read].owner = e.owner
      /\ e.type # "rotate" => e.next.file = FileAt(read)
  <2>1. (read + 1) - 1 = read
    BY <1>1
  <2> QED  BY <1>1, <2>1 DEF IInv, LogInv
<1>4. e.type = "rows" => currentThread = e.owner
  BY <1>1, <1>2, <1>3
<1>5. e.type \in EventType /\ e.owner \in Thread \cup {NoThread} /\ e.next \in Position
  BY <1>1 DEF Event
<1> HIDE DEF e
<1>6. MyRow(e) <=> (e.type = "rows" /\ e.owner = Me)
  BY <1>4 DEF MyRow
<1>7. CurrentAfter(e) \in Position /\ CurrentAfter(e).file = e.next.file
  BY <1>1, <1>2, <1>3, <1>5 DEF CurrentAfter, Position
<1>8. OwnerAfter(e) \in Thread \cup {NoThread} /\ (e.type \in {"query", "rows"} => OwnerAfter(e) = e.owner)
  BY <1>1, <1>4, <1>5 DEF OwnerAfter, EventType
<1>9. Before(read + 1, end) => ~AtLeast(CurrentAfter(e), end)
  <2> SUFFICES ASSUME Before(read + 1, end) PROVE ~AtLeast(CurrentAfter(e), end)
    OBVIOUS
  <2>1. \/ e.next.file < end.file
        \/ e.next.file = end.file /\ e.next.pos < end.pos /\ (e.type = "rotate" \/ e.next.pos > 0)
    BY DEF Before, Moves, e
  <2>2. e.type = "rotate" \/ e.next.pos > 0 => CurrentAfter(e).pos = e.next.pos
    BY <1>1 DEF CurrentAfter, Position
  <2> QED  BY <1>1, <1>5, <1>7, <2>1, <2>2 DEF AtLeast, Position
<1> QED  BY <1>1, <1>6, <1>7, <1>8, <1>9 DEF e, IsMine

(* One iteration of Collect's loop.                                         *)
LEMMA ReadEventStep ==
  ASSUME IInv, ReadEvent
  PROVE  IInv'
<1> DEFINE e == log[read + 1]
           kept == IF MyRow(e) THEN Append(changes, read + 1) ELSE changes
<1>1. /\ pc = "read" /\ read < Len(log) /\ read' = read + 1
      /\ current' = CurrentAfter(e) /\ currentThread' = OwnerAfter(e)
      /\ UNCHANGED <<filtered, log, width, start, end, origin, expected>>
  BY DEF ReadEvent
<1>2. \/ MyRow(e) /\ changes' = changes /\ outcome' = "error" /\ pc' = "done"
      \/ changes' = kept /\ ~AtLeast(CurrentAfter(e), end) /\ pc' = pc /\ outcome' = outcome
      \/ /\ changes' = kept /\ AtLeast(CurrentAfter(e), end) /\ pc' = "done"
         /\ outcome' = IF Len(kept) = expected THEN "ok" ELSE "error"
  BY DEF ReadEvent, Return, Reached
<1>3. /\ read + 1 \in DOMAIN log /\ e \in Event
      /\ MyRow(e) <=> IsMine(read + 1)
      /\ CurrentAfter(e) \in Position /\ CurrentAfter(e).file = e.next.file
      /\ OwnerAfter(e) \in Thread \cup {NoThread}
      /\ e.type \in {"query", "rows"} => OwnerAfter(e) = e.owner
      /\ Before(read + 1, end) => ~AtLeast(CurrentAfter(e), end)
  BY <1>1, EventFacts
<1>4. /\ read \in Nat /\ origin \in Nat /\ origin <= read /\ Len(log) \in Nat /\ changes \in Seq(Nat)
      /\ outcome = "none" /\ expected \in Nat /\ Len(changes) \in Nat
  BY <1>1 DEF IInv, TypeOK, EngineInv
<1>5. FileAt(read + 1) = e.next.file
  BY <1>4 DEF FileAt
<1> HIDE DEF e
<1>6. /\ kept \in Seq(Nat)
      /\ MyRow(e) => /\ Len(kept) = Len(changes) + 1 /\ kept[Len(changes) + 1] = read + 1
      /\ ~MyRow(e) => kept = changes
      /\ \A k \in 1 .. Len(changes) : kept[k] = changes[k]
  BY <1>4
<1> HIDE DEF kept
<1>7. changes' \in Seq(Nat) /\ (changes' = kept \/ changes' = changes)
  BY <1>2, <1>4, <1>6
<1>8. TypeOK'
  BY <1>1, <1>2, <1>3, <1>4, <1>7 DEF IInv, TypeOK
<1>9. LogInv'
  BY <1>1 DEF IInv, LogInv, NotAfter, Moves, FileAt, MasterPosition
<1>10. EngineInv'
  <2>1. pc' \in {"read", "done"} /\ (pc' = "read" => outcome' = "none")
    BY <1>1, <1>2, <1>4
  <2>2. FileAt(origin)' = FileAt(origin) /\ FileAt(read)' = FileAt(read + 1)
    BY <1>1 DEF FileAt
  <2>3. RowsBefore(end)'
    BY <1>1 DEF IInv, EngineInv, RowsBefore, IsMine, Before, Moves
  <2>4. read' > origin' /\ log'[read'] = e
    BY <1>1, <1>4 DEF e
  <2>5. /\ origin' <= Len(log') /\ start'.file = FileAt(origin)'
        /\ origin' < Len(log') => log'[origin' + 1].type # "rows"
        /\ expected' > 0 /\ ~filtered' => StrictlyAfter(end', start')
    BY <1>1, <2>2 DEF IInv, EngineInv
  <2> QED  BY <1>1, <1>3, <1>4, <1>5, <2>1, <2>2, <2>3, <2>4, <2>5 DEF EngineInv
<1>11. ASSUME NEW k \in DOMAIN changes
       PROVE  /\ changes[k] \in Nat /\ changes[k] > origin /\ changes[k] <= read /\ IsMine(changes[k])
              /\ \A j \in 1 .. k - 1 : changes[j] < changes[k]
  BY <1>4 DEF IInv, OnlyOwnRows
<1>12. \A i : IsMine(i)' = IsMine(i)
  BY <1>1 DEF IsMine
<1>13. OnlyOwnRows'
  <2> SUFFICES ASSUME NEW k \in DOMAIN changes'
               PROVE  /\ changes'[k] \in origin + 1 .. read + 1 /\ IsMine(changes'[k])
                      /\ \A j \in 1 .. k - 1 : changes'[j] < changes'[k]
    BY <1>1, <1>12 DEF OnlyOwnRows
  <2>1. CASE k \in DOMAIN changes
    <3>1. \A j \in 1 .. Len(changes) : changes'[j] = changes[j]
      BY <1>6, <1>7
    <3>2. k \in 1 .. Len(changes) /\ \A j \in 1 .. k - 1 : j \in 1 .. Len(changes)
      BY <1>4, <2>1
    <3>3. changes'[k] = changes[k] /\ \A j \in 1 .. k - 1 : changes'[j] = changes[j]
      BY <3>1, <3>2
    <3>4. changes[k] \in origin + 1 .. read + 1
      BY <1>4, <1>11, <2>1
    <3> QED  BY <1>11, <2>1, <3>3, <3>4
  <2>2. CASE k \notin DOMAIN changes
    <3>1. MyRow(e) /\ k = Len(changes) + 1 /\ changes'[k] = read + 1 /\ \A j \in 1 .. Len(changes) : changes'[j] = changes[j]
      BY <1>4, <1>6, <1>7, <2>2
    <3>2. \A j \in 1 .. k - 1 : changes'[j] = changes[j] /\ changes[j] \in Nat /\ changes[j] <= read
      BY <1>4, <1>11, <3>1
    <3> QED  BY <1>3, <1>4, <3>1, <3>2
  <2> QED  BY <2>1, <2>2
<1>14. NoOwnRowSkipped'
  <2> SUFFICES ASSUME outcome' # "error", NEW i \in origin + 1 .. read + 1, IsMine(i)
               PROVE  \E k \in DOMAIN changes' : changes'[k] = i
    BY <1>1, <1>12 DEF NoOwnRowSkipped
  <2>1. changes' = kept
    BY <1>2
  <2>2. CASE i = read + 1
    <3>1. Len(changes) + 1 \in DOMAIN changes' /\ changes'[Len(changes) + 1] = i
      BY <1>3, <1>4, <1>6, <2>1, <2>2
    <3> QED  BY <3>1
  <2>3. CASE i <= read
    <3>1. PICK k \in DOMAIN changes : changes[k] = i
      BY <1>4, <2>3 DEF IInv, NoOwnRowSkipped
    <3>2. k \in 1 .. Len(changes)
      BY <1>4
    <3>3. kept[k] = i
      BY <1>6, <3>1, <3>2
    <3>4. k \in DOMAIN kept
      <4>1. CASE MyRow(e)
        BY <1>4, <1>6, <3>2, <4>1
      <4>2. CASE ~MyRow(e)
        BY <1>6, <4>2
      <4> QED  BY <4>1, <4>2
    <3> QED  BY <2>1, <3>3, <3>4
  <2> QED  BY <1>4, <2>2, <2>3
<1>15. CompleteOnSuccess'
  <2> SUFFICES ASSUME outcome' = "ok"
               PROVE  Len(changes') = expected /\ \A i \in origin + 1 .. Len(log) : IsMine(i) => i <= read + 1
    BY <1>1, <1>12 DEF CompleteOnSuccess
  <2>1. changes' = kept /\ AtLeast(CurrentAfter(e), end) /\ Len(kept) = expected
    BY <1>2, <1>4
  <2>2. ~Before(read + 1, end)
    BY <1>3, <2>1
  <2>3. ASSUME NEW i \in origin + 1 .. Len(log), IsMine(i) PROVE i <= read + 1
    <3>1. read + 1 \in origin + 1 .. i => Before(read + 1, end)
      BY <1>1, <2>3 DEF IInv, EngineInv, RowsBefore
    <3> QED  BY <1>4, <2>2, <3>1
  <2> QED  BY <2>1, <2>3
<1> QED  BY <1>8, <1>9, <1>10, <1>13, <1>14, <1>15 DEF IInv

(* The stream, the metadata query or the 30 s end the loop with an error.   *)
LEMMA ReadFailsStep ==
  ASSUME IInv, ReadFails
  PROVE  IInv'
<1>1. /\ pc = "read" /\ pc' = "done" /\ outcome' = "error"
      /\ UNCHANGED <<filtered, log, width, start, end, origin, expected, read, current, currentThread, changes>>
  BY DEF ReadFails, Return
<1>2. TypeOK' /\ LogInv'
  BY <1>1 DEF IInv, TypeOK, LogInv, NotAfter, Moves, FileAt, MasterPosition
<1>3. EngineInv'
  BY <1>1 DEF IInv, EngineInv, RowsBefore, IsMine, Before, Moves, FileAt
<1>4. OnlyOwnRows' /\ NoOwnRowSkipped' /\ CompleteOnSuccess'
  BY <1>1 DEF IInv, OnlyOwnRows, NoOwnRowSkipped, CompleteOnSuccess, IsMine
<1> QED  BY <1>2, <1>3, <1>4 DEF IInv

LEMMA StutterStep ==
  ASSUME IInv, UNCHANGED vars
  PROVE  IInv'
BY DEF vars, IInv, TypeOK, LogInv, NotAfter, Moves, FileAt, MasterPosition, EngineInv, RowsBefore,
       IsMine, Before, OnlyOwnRows, NoOwnRowSkipped, CompleteOnSuccess

LEMMA NextInv ==
  ASSUME IInv, [Next]_vars
  PROVE  IInv'
<1>1. CASE Writes \/ Alters \/ Rotate
  BY <1>1, TargetStep
<1>2. CASE StartPosition
  BY <1>2, StartPositionStep
<1>3. CASE Execute
  BY <1>3, ExecuteStep
<1>4. CASE EndPosition
  BY <1>4, EndPositionStep
<1>5. CASE StartSync
  BY <1>5, StartSyncStep
<1>6. CASE ReadEvent
  BY <1>6, ReadEventStep
<1>7. CASE ReadFails
  BY <1>7, ReadFailsStep
<1>8. CASE Returned \/ UNCHANGED vars
  BY <1>8, StutterStep DEF Returned
<1> QED  BY <1>1, <1>2, <1>3, <1>4, <1>5, <1>6, <1>7, <1>8 DEF Next

LEMMA Invariance == Spec => []IInv
<1>1. Init => IInv
  BY InitInv
<1>2. IInv /\ [Next]_vars => IInv'
  BY NextInv
<1> QED  BY <1>1, <1>2, PTL DEF Spec

----------------------------------------------------------------------------
(* Types, for every number of connections, rows, events and files.          *)
THEOREM TypeCorrect == Spec => []TypeOK
<1>1. IInv => TypeOK
  BY DEF IInv
<1> QED  BY <1>1, Invariance, PTL

(* Collect keeps rows of its own connection and of this statement only, in  *)
(* log order and once, whatever other connections commit, alter or rotate   *)
(* meanwhile.                                                               *)
THEOREM OnlyOwnRowsCorrect == Spec => []OnlyOwnRows
<1>1. IInv => OnlyOwnRows
  BY DEF IInv
<1> QED  BY <1>1, Invariance, PTL

(* Collect skips no row of the statement that it has read.                  *)
THEOREM NoOwnRowSkippedCorrect == Spec => []NoOwnRowSkipped
<1>1. IInv => NoOwnRowSkipped
  BY DEF IInv
<1> QED  BY <1>1, Invariance, PTL

(* A capture that succeeds has stopped after the statement's last row, also *)
(* when positions wrap or files rotate between the two master positions.    *)
THEOREM CompleteOnSuccessCorrect == Spec => []CompleteOnSuccess
<1>1. IInv => CompleteOnSuccess
  BY DEF IInv
<1> QED  BY <1>1, Invariance, PTL
=============================================================================
