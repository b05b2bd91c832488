--------------------------- MODULE BinlogCapture ---------------------------
(***************************************************************************)
(* Capture of the rows one backed-up DML statement changed: MasterPosition  *)
(* before and after the statement on the engine's connection, then Collect, *)
(* which reads the target's binlog between the two positions.  Meanwhile    *)
(* other connections write to the same binlog and alter the same table, and *)
(* the server rotates its files.                                            *)
(*                                                                          *)
(* The binlog is one append-only sequence of events; an event carries the   *)
(* position that follows it.  A rows event holds one row: Collect handles   *)
(* the rows of a larger event one after the other, by the same rule.        *)
(***************************************************************************)
EXTENDS Naturals, Sequences

CONSTANTS Me,        \* thread id of the engine's connection
          Others,    \* thread ids of other connections
          MaxRows,   \* most rows of one statement
          MaxEvents, \* most events of the log
          MaxFile,   \* most binlog files
          SizeLimit, \* max_binlog_size of the target
          PosLimit   \* 2^32: positions are uint32

(* currentThread of Collect when no transaction is open. *)
NoThread == 0

ASSUME ThreadsAssumption ==
  /\ Me \in Nat \ {NoThread}
  /\ Others \subseteq Nat \ {NoThread, Me}
ASSUME BoundsAssumption ==
  /\ MaxRows \in Nat
  /\ MaxEvents \in Nat
  /\ MaxFile \in Nat
  /\ SizeLimit \in Nat
  /\ PosLimit \in Nat
  /\ SizeLimit < PosLimit   \* the server allows 1 GiB at most

Thread == {Me} \cup Others
Position == [file : Nat, pos : Nat]

(* owner and width record what was true when the event was written; only    *)
(* query events show their thread to a reader, and only rows events their   *)
(* number of columns.                                                       *)
EventType == {"query", "rows", "xid", "rotate"}
Event == [type : EventType, owner : Thread \cup {NoThread},
          width : Nat, next : Position]

VARIABLES
  filtered,      \* binlog-ignore-db keeps the statement's schema out of the log
  log,           \* the target's binlog
  width,         \* the table's current number of columns, 0 once dropped
  pc,            \* where the engine stands in the statement
  start, end,    \* the two MasterPosition results
  origin,        \* number of events before start (where the stream begins)
  expected,      \* AffectedRows
  read,          \* events the streamer has delivered, counted from the log's first
  current,       \* Collect's current position
  currentThread, \* Collect's owner of the open transaction
  changes,       \* []RowChange: the index of each one's event
  outcome        \* what Collect returned

vars == <<filtered, log, width, pc, start, end, origin, expected,
          read, current, currentThread, changes, outcome>>
engineVars == <<pc, start, end, origin, expected,
                read, current, currentThread, changes, outcome>>

Origin == [file |-> 1, pos |-> 0]
Width == 2

Init ==
  /\ filtered \in BOOLEAN
  /\ log = <<>>
  /\ width = Width
  /\ pc = "start"
  /\ start = Origin
  /\ end = Origin
  /\ origin = 0
  /\ expected = 0
  /\ read = 0
  /\ current = Origin
  /\ currentThread = NoThread
  /\ changes = <<>>
  /\ outcome = "none"

----------------------------------------------------------------------------
(* The target. *)

MasterPosition == IF log = <<>> THEN Origin ELSE log[Len(log)].next

(* A commit writes its events contiguously.  They carry 32-bit positions,   *)
(* which wrap in a transaction of several GiB; a file that has passed       *)
(* max_binlog_size ends with the commit, so that SHOW MASTER STATUS never   *)
(* names a position beyond the wrap.                                        *)
RotateEvent(file) ==
  [type |-> "rotate", owner |-> NoThread, width |-> width,
   next |-> [file |-> file + 1, pos |-> 0]]
Commit(types, t) ==
  LET m == MasterPosition
  IN  log \o [i \in 1 .. Len(types) |->
                [type |-> types[i], owner |-> t, width |-> width,
                 next |-> [m EXCEPT !.pos = (@ + i) % PosLimit]]]
          \o (IF m.pos + Len(types) > SizeLimit THEN <<RotateEvent(m.file)>> ELSE <<>>)

(* Row-based transaction of n rows: BEGIN, the rows, XID; a table that is   *)
(* not transactional ends with a COMMIT query instead.                      *)
Transaction(n, closing) ==
  <<"query">> \o [i \in 1 .. n |-> "rows"] \o <<closing>>

(* Bound: k more events, with room kept for the statement itself and for    *)
(* the rotation after it.                                                   *)
Room(k) ==
  Len(log) + k + (IF pc \in {"start", "exec"} THEN MaxRows + 3 ELSE 0) <= MaxEvents

(* Another connection commits, or the engine's own an earlier statement.    *)
Writes ==
  \E t \in IF pc = "start" THEN Thread ELSE Others, closing \in {"query", "xid"} :
     /\ Room(3)
     /\ width > 0
     /\ log' = Commit(Transaction(1, closing), t)
     /\ UNCHANGED <<filtered, width, engineVars>>

(* DDL of another connection: add a column or drop the table (which, done   *)
(* earlier, would make the statement itself fail).                          *)
Alters ==
  \E t \in Others, w \in {0, Width + 1} :
     /\ Room(1)
     /\ width = Width
     /\ pc \in {"start", "exec"} => w > 0
     /\ log' = Commit(<<"query">>, t)
     /\ width' = w
     /\ UNCHANGED <<filtered, engineVars>>

(* FLUSH LOGS *)
Rotate ==
  /\ Room(1)
  /\ MasterPosition.file < MaxFile
  /\ log' = Append(log, RotateEvent(MasterPosition.file))
  /\ UNCHANGED <<filtered, width, engineVars>>

----------------------------------------------------------------------------
(* The engine. *)

StartPosition ==
  /\ pc = "start"
  /\ start' = MasterPosition
  /\ origin' = Len(log)
  /\ pc' = "exec"
  /\ UNCHANGED <<filtered, log, width, end, expected, read, current, currentThread, changes, outcome>>

(* The statement commits.  Its affected-row count is the server's own and   *)
(* need not be the number of logged rows: REPLACE and ON DUPLICATE KEY      *)
(* count twice, triggers log rows that are not counted.  A statement that   *)
(* changes nothing writes no event, nor does one in a filtered schema.      *)
Execute ==
  \E n, affected \in 0 .. MaxRows :
     /\ pc = "exec"
     /\ n = 0 => affected = 0
     /\ log' = IF n = 0 \/ filtered THEN log ELSE Commit(Transaction(n, "xid"), Me)
     /\ expected' = affected
     /\ pc' = "end"
     /\ UNCHANGED <<filtered, width, start, end, origin, read, current, currentThread, changes, outcome>>

EndPosition ==
  /\ pc = "end"
  /\ end' = MasterPosition
  /\ pc' = "collect"
  /\ UNCHANGED <<filtered, log, width, start, origin, expected, read, current, currentThread, changes, outcome>>

Return(o) == outcome' = o /\ pc' = "done"

(* The early return of Collect. *)
NothingToCollect == start = end \/ expected = 0

StartSync ==
  /\ pc = "collect"
  /\ \/ /\ NothingToCollect
        /\ Return("ok")
        /\ UNCHANGED <<read, current>>
     \/ /\ ~NothingToCollect
        /\ pc' = "read"
        /\ read' = origin
        /\ current' = start
        /\ UNCHANGED outcome
     \/ /\ ~NothingToCollect
        /\ Return("error")
        /\ UNCHANGED <<read, current>>
  /\ UNCHANGED <<filtered, log, width, start, end, origin, expected, currentThread, changes>>

(* gomysql.Position.Compare(p, q) >= 0 *)
StrictlyAfter(p, q) == p.file > q.file \/ (p.file = q.file /\ p.pos > q.pos)
AtLeast(p, q) == p.file > q.file \/ (p.file = q.file /\ p.pos >= q.pos)

(* Collect's current position after the event: LogPos 0 does not move it.   *)
CurrentAfter(e) ==
  CASE e.type = "rotate" -> e.next
    [] e.type # "rotate" /\ e.next.pos > 0 -> [current EXCEPT !.pos = e.next.pos]
    [] OTHER -> current

(* The loop ends with the event that reaches the end position. *)
ReachedByCount(e, kept) == AtLeast(CurrentAfter(e), end) \/ Len(kept) = expected
Reached(e, kept) == AtLeast(CurrentAfter(e), end)

(* currentThread after the event. *)
FirstOwner(e) ==
  IF e.type = "query" /\ currentThread = NoThread THEN e.owner ELSE currentThread
OwnerAfter(e) ==
  CASE e.type = "query" -> e.owner
    [] e.type = "xid"   -> NoThread
    [] OTHER            -> currentThread

(* Does Collect keep the row? *)
AnyRow(e) == e.type = "rows"
MyRow(e) == e.type = "rows" /\ currentThread = Me

(* rowChanges reads the table definition now, not as of the event; it only  *)
(* compares the number of columns.                                          *)
Decodes(e) == width > 0 /\ width = e.width

(* One iteration of Collect's loop, with the final count check when the     *)
(* event reaches the end position.                                          *)
ReadEvent ==
  /\ pc = "read"
  /\ read < Len(log)
  /\ LET e == log[read + 1]
         kept == IF MyRow(e) THEN Append(changes, read + 1) ELSE changes
     IN  /\ read' = read + 1
         /\ current' = CurrentAfter(e)
         /\ currentThread' = OwnerAfter(e)
         /\ \/ /\ MyRow(e) /\ ~Decodes(e)
               /\ UNCHANGED changes
               /\ Return("error")
            \/ /\ MyRow(e) => Decodes(e)
               /\ changes' = kept
               /\ \/ /\ ~Reached(e, kept)
                     /\ UNCHANGED <<pc, outcome>>
                  \/ /\ Reached(e, kept)
                     /\ Return(IF Len(kept) = expected THEN "ok" ELSE "error")
  /\ UNCHANGED <<filtered, log, width, start, end, origin, expected>>

(* GetEvent or the metadata query fails, or the 30 s of readCtx are over.   *)
ReadFails ==
  /\ pc = "read"
  /\ Return("error")
  /\ UNCHANGED <<filtered, log, width, start, end, origin, expected, read, current, currentThread, changes>>

Returned ==
  /\ pc = "done"
  /\ UNCHANGED vars

Next ==
  \/ Writes \/ Alters \/ Rotate
  \/ StartPosition \/ Execute \/ EndPosition \/ StartSync \/ ReadEvent \/ ReadFails
  \/ Returned

Spec == Init /\ [][Next]_vars

(* The dump thread of the target sends what is in the log; the 30 s timer   *)
(* is not needed for Collect to return then.                                *)
FairSpec == Spec /\ WF_vars(ReadEvent)

----------------------------------------------------------------------------
TypeOK ==
  /\ filtered \in BOOLEAN
  /\ log \in Seq(Event)
  /\ width \in Nat
  /\ pc \in {"start", "exec", "end", "collect", "read", "done"}
  /\ start \in Position
  /\ end \in Position
  /\ origin \in Nat
  /\ expected \in Nat
  /\ read \in 0 .. Len(log)
  /\ current \in Position
  /\ currentThread \in Thread \cup {NoThread}
  /\ changes \in Seq(Nat)
  /\ outcome \in {"none", "ok", "error"}

IsMine(i) == log[i].type = "rows" /\ log[i].owner = Me

(* Collect never takes a row of another connection, nor one of its own      *)
(* connection from before the statement, and it takes its rows in log order *)
(* and only once (docs/PHASE_1_5:47, rows are filtered by the thread id of  *)
(* the transaction's Query event).                                          *)
OnlyOwnRows ==
  \A k \in DOMAIN changes :
     /\ changes[k] \in origin + 1 .. read
     /\ IsMine(changes[k])
     /\ \A j \in 1 .. k - 1 : changes[j] < changes[k]

(* ... and skips none of its own that it has read, unless it has failed.    *)
NoOwnRowSkipped ==
  outcome # "error" =>
    \A i \in origin + 1 .. read : IsMine(i) => \E k \in DOMAIN changes : changes[k] = i

(* A capture that succeeds holds as many rows as the statement reported,    *)
(* and every row of the statement that is in the log: rotations, a position *)
(* that wraps and statements of other connections may lie between the two   *)
(* positions.  The one exception: the log leaves the schema out and nobody  *)
(* else has written meanwhile, so that the two positions are equal and      *)
(* Collect returns no rows without an error (docs/PHASE_1_5:47 wants one).  *)
CompleteOnSuccess ==
  (outcome = "ok" /\ expected > 0) =>
     \/ filtered /\ start = end /\ changes = <<>>
     \/ /\ Len(changes) = expected
        /\ \A i \in origin + 1 .. Len(log) : IsMine(i) => i <= read

(* Collect returns even if the 30 s timer never fires, also when nobody     *)
(* writes after the statement.                                              *)
CollectReturns == (pc = "read") ~> (pc = "done")
=============================================================================
