------------------------------ MODULE Gateway ------------------------------
(***************************************************************************)
(* The MySQL-protocol front end: Server.Run accepts connections up to       *)
(* max_connections, one goroutine per connection runs serveConn, the        *)
(* process registry lets one connection KILL another's query, and a signal  *)
(* starts the shutdown, in which a closer goroutine closes the registered   *)
(* connections while Run waits for the goroutines to end.  main ends the    *)
(* process when Run, or the observability server, has returned.             *)
(***************************************************************************)
EXTENDS Naturals, FiniteSets

CONSTANTS Conns,           \* connections; ConnectionIDs are never reused
          MaxConnections,  \* largest server.max_connections considered
          MaxQueries,      \* queries considered per connection
          NoEntry,         \* not in the registry
          NoKill           \* no KILL under way

ASSUME ConnsAssumption == IsFiniteSet(Conns)
ASSUME BoundsAssumption == MaxConnections \in Nat \ {0} /\ MaxQueries \in Nat

Queries == 0 .. MaxQueries   \* 0 stands for the nil cancel function
ASSUME NoEntryAssumption == NoEntry \notin Queries

VARIABLES
  limit,     \* server.max_connections, the capacity of Run's semaphore
  conn,      \* where each connection's goroutine stands
  sock,      \* its server-side socket
  query,     \* the number of its current or last query
  registry,  \* processRegistry: the cancel function of its running query
  cancelled, \* <<connection, query>> pairs whose context is cancelled
  kill,      \* the KILL its query is carrying out, after the look-up
  aimed,     \* running queries that some KILL has looked up (history)
  stopping,  \* the signal context is done
  closer,    \* the shutdown goroutine of Run
  toClose,   \* its copy of the registry, still to be closed
  missed,    \* connections active but not registered when it looked (history)
  run,       \* Server.Run
  observer,  \* observability.Service.Run, "off" unless observability.enabled
  process    \* the whole program

vars == <<limit, conn, sock, query, registry, cancelled, kill, aimed, stopping,
          closer, toClose, missed, run, observer, process>>
shutdownVars == <<limit, stopping, closer, toClose, missed, run, observer, process>>

(* Inside HandleQuery: an audit or any other statement, or a KILL between   *)
(* its two halves and after them.                                           *)
InQuery == {"query", "killing", "killed"}
Active == {c \in Conns : conn[c] \in {"handshake", "idle"} \cup InQuery}
Registered == {c \in Conns : registry[c] # NoEntry}

Init ==
  /\ limit \in 1 .. MaxConnections
  /\ conn = [c \in Conns |-> "new"]
  /\ sock = [c \in Conns |-> "open"]
  /\ query = [c \in Conns |-> 0]
  /\ registry = [c \in Conns |-> NoEntry]
  /\ cancelled = {}
  /\ kill = [c \in Conns |-> NoKill]
  /\ aimed = {}
  /\ stopping = FALSE
  /\ closer = "waiting"
  /\ toClose = {}
  /\ missed = {}
  /\ run = "accept"
  /\ observer \in {"serving", "off"}
  /\ process = "up"

Up == process = "up"

----------------------------------------------------------------------------
(* Server.Run: Accept works until the closer has closed the listener.       *)
Accept(c) ==
  /\ Up /\ run = "accept" /\ closer = "waiting"
  /\ conn[c] = "new"
  /\ \/ /\ Cardinality(Active) < limit
        /\ conn' = [conn EXCEPT ![c] = "handshake"]
     \/ /\ Cardinality(Active) = limit
        /\ conn' = [conn EXCEPT ![c] = "gone"]
  /\ UNCHANGED <<sock, query, registry, cancelled, kill, aimed, shutdownVars>>

(* NewCustomizedConn: nothing bounds how long a client takes here.          *)
Handshake(c) ==
  /\ Up /\ conn[c] = "handshake"
  /\ conn' = [conn EXCEPT ![c] = "idle"]
  /\ registry' = [registry EXCEPT ![c] = 0]
  /\ UNCHANGED <<sock, query, cancelled, kill, aimed, shutdownVars>>

HandshakeFails(c) ==
  /\ Up /\ conn[c] = "handshake"
  /\ conn' = [conn EXCEPT ![c] = "gone"]
  /\ UNCHANGED <<sock, query, registry, cancelled, kill, aimed, shutdownVars>>

(* HandleCommand reads a query and HandleQuery registers its cancel         *)
(* function.  The query's context is a child of the signal context.         *)
BeginQuery(c) ==
  /\ Up /\ conn[c] = "idle"
  /\ sock[c] = "open"
  /\ query[c] < MaxQueries
  /\ conn' = [conn EXCEPT ![c] = "query"]
  /\ query' = [query EXCEPT ![c] = @ + 1]
  /\ registry' = [registry EXCEPT ![c] = query[c] + 1]
  /\ UNCHANGED <<sock, cancelled, kill, aimed, shutdownVars>>

Done(c, q) == stopping \/ <<c, q>> \in cancelled

(* HandleQuery returns: cancel and registry.end; serveConn goes on to the   *)
(* next command, or leaves if the answer cannot be written or ctx is done.  *)
EndQueryKeepsCancel(c) ==
  /\ Up /\ conn[c] \in {"query", "killed"}
  /\ cancelled' = cancelled \cup {<<c, query[c]>>}
  /\ aimed' = aimed \ {<<c, query[c]>>}
  /\ conn' = [conn EXCEPT ![c] = "idle"]
  /\ UNCHANGED <<sock, query, registry, kill, shutdownVars>>
EndQuery(c) ==
  /\ Up /\ conn[c] \in {"query", "killed"}
  /\ cancelled' = cancelled \cup {<<c, query[c]>>}
  /\ aimed' = aimed \ {<<c, query[c]>>}
  /\ \/ /\ ~stopping /\ sock[c] = "open"
        /\ conn' = [conn EXCEPT ![c] = "idle"]
        /\ registry' = [registry EXCEPT ![c] = 0]
        /\ UNCHANGED sock
     \/ /\ conn' = [conn EXCEPT ![c] = "gone"]
        /\ registry' = [registry EXCEPT ![c] = NoEntry]
        /\ sock' = [sock EXCEPT ![c] = "closed"]
  /\ UNCHANGED <<query, kill, shutdownVars>>

(* HandleCommand fails on an idle connection: the socket was closed, the    *)
(* client has gone or the idle deadline has passed.                         *)
Leave(c) ==
  /\ Up /\ conn[c] = "idle"
  /\ conn' = [conn EXCEPT ![c] = "gone"]
  /\ registry' = [registry EXCEPT ![c] = NoEntry]
  /\ sock' = [sock EXCEPT ![c] = "closed"]
  /\ UNCHANGED <<query, cancelled, kill, aimed, shutdownVars>>

(* audit_timeout. *)
AuditTimeout(c) ==
  /\ Up /\ conn[c] = "query"
  /\ ~Done(c, query[c])
  /\ cancelled' = cancelled \cup {<<c, query[c]>>}
  /\ UNCHANGED <<conn, sock, query, registry, kill, aimed, shutdownVars>>

----------------------------------------------------------------------------
(* KILL [QUERY | CONNECTION] id: the look-up under the read lock ...        *)
KillLooks(k, c, connection) ==
  /\ Up /\ conn[k] = "query"
  /\ c \in Registered
  /\ conn' = [conn EXCEPT ![k] = "killing"]
  /\ kill' = [kill EXCEPT ![k] = [target |-> c, cancel |-> registry[c], connection |-> connection]]
  /\ aimed' = aimed \cup ({<<c, registry[c]>>} \ {<<c, 0>>})
  /\ UNCHANGED <<sock, query, registry, cancelled, shutdownVars>>

(* ... and, with the lock released, what was looked up is called.           *)
KillFiresUnchecked(k) ==
  /\ Up /\ conn[k] = "killing"
  /\ conn' = [conn EXCEPT ![k] = "killed"]
  /\ cancelled' = cancelled \cup {<<kill[k].target, kill[k].cancel>>}
  /\ kill' = [kill EXCEPT ![k] = NoKill]
  /\ UNCHANGED <<sock, query, registry, aimed, shutdownVars>>
KillFiresLate(k) ==
  /\ Up /\ conn[k] = "killing"
  /\ conn' = [conn EXCEPT ![k] = "killed"]
  /\ LET c == kill[k].target
     IN  /\ cancelled' = cancelled \cup ({<<c, registry[c]>>} \ {<<c, 0>>, <<c, NoEntry>>})
         /\ sock' = IF kill[k].connection THEN [sock EXCEPT ![c] = "closed"] ELSE sock
  /\ kill' = [kill EXCEPT ![k] = NoKill]
  /\ UNCHANGED <<query, registry, aimed, shutdownVars>>
KillFires(k) ==
  /\ Up /\ conn[k] = "killing"
  /\ conn' = [conn EXCEPT ![k] = "killed"]
  /\ LET c == kill[k].target
     IN  /\ cancelled' = cancelled \cup ({<<c, kill[k].cancel>>} \ {<<c, 0>>})
         /\ sock' = IF kill[k].connection THEN [sock EXCEPT ![c] = "closed"] ELSE sock
  /\ kill' = [kill EXCEPT ![k] = NoKill]
  /\ UNCHANGED <<query, registry, aimed, shutdownVars>>

----------------------------------------------------------------------------
(* SIGINT or SIGTERM. *)
Signal ==
  /\ Up /\ ~stopping
  /\ stopping' = TRUE
  /\ UNCHANGED <<limit, conn, sock, query, registry, cancelled, kill, aimed,
                 closer, toClose, missed, run, observer, process>>

CloseListener ==
  /\ Up /\ stopping /\ closer = "waiting"
  /\ closer' = "listenerClosed"
  /\ UNCHANGED <<limit, conn, sock, query, registry, cancelled, kill, aimed,
                 stopping, toClose, missed, run, observer, process>>

(* closeAll copies the registry under the read lock ...                     *)
CloseAllLooksAtQueries ==
  /\ Up /\ closer = "listenerClosed"
  /\ closer' = "closing"
  /\ toClose' = {c \in Registered : registry[c] # 0}
  /\ missed' = Active \ Registered
  /\ UNCHANGED <<limit, conn, sock, query, registry, cancelled, kill, aimed, stopping, run, observer, process>>
CloseAllLooks ==
  /\ Up /\ closer = "listenerClosed"
  /\ closer' = "closing"
  /\ toClose' = Registered
  /\ missed' = Active \ Registered
  /\ UNCHANGED <<limit, conn, sock, query, registry, cancelled, kill, aimed, stopping, run, observer, process>>

(* ... and closes one connection after the other.  Their contexts are done  *)
(* already, as children of the signal context.                              *)
CloseOne(c) ==
  /\ Up /\ closer = "closing"
  /\ c \in toClose
  /\ toClose' = toClose \ {c}
  /\ sock' = [sock EXCEPT ![c] = "closed"]
  /\ UNCHANGED <<limit, conn, query, registry, cancelled, kill, aimed,
                 stopping, closer, missed, run, observer, process>>

AllClosed ==
  /\ Up /\ closer = "closing"
  /\ toClose = {}
  /\ closer' = "finished"
  /\ UNCHANGED <<limit, conn, sock, query, registry, cancelled, kill, aimed,
                 stopping, toClose, missed, run, observer, process>>

(* Run after Accept has failed: for the shutdown, or for a reason of its    *)
(* own, in which case it returns at once.                                   *)
AcceptError ==
  /\ Up /\ run = "accept"
  /\ \/ /\ stopping /\ closer # "waiting"
        /\ run' = "drain"
     \/ /\ ~stopping
        /\ run' = "failed"
  /\ UNCHANGED <<limit, conn, sock, query, registry, cancelled, kill, aimed,
                 stopping, closer, toClose, missed, observer, process>>

(* wg.Wait ends, or shutdown_timeout passes.                                *)
DrainedAtOnce ==
  /\ Up /\ run = "drain"
  /\ run' = "drained"
  /\ UNCHANGED <<limit, conn, sock, query, registry, cancelled, kill, aimed,
                 stopping, closer, toClose, missed, observer, process>>
Drained ==
  /\ Up /\ run = "drain"
  /\ Active = {}
  /\ run' = "drained"
  /\ UNCHANGED <<limit, conn, sock, query, registry, cancelled, kill, aimed,
                 stopping, closer, toClose, missed, observer, process>>

ShutdownTimeout ==
  /\ Up /\ run = "drain"
  /\ run' = "timedOut"
  /\ UNCHANGED <<limit, conn, sock, query, registry, cancelled, kill, aimed,
                 stopping, closer, toClose, missed, observer, process>>

(* http.Server.Shutdown makes Serve return at once.  Without a signal the   *)
(* observability server returns only if it cannot listen or serve.          *)
ObserverReturns ==
  /\ Up /\ stopping /\ observer = "serving"
  /\ observer' = "returned"
  /\ UNCHANGED <<limit, conn, sock, query, registry, cancelled, kill, aimed,
                 stopping, closer, toClose, missed, run, process>>

ObserverFails ==
  /\ Up /\ observer = "serving"
  /\ observer' = "failed"
  /\ UNCHANGED <<limit, conn, sock, query, registry, cancelled, kill, aimed,
                 stopping, closer, toClose, missed, run, process>>

(* main after an error of the observability server or of a Run beside it:   *)
(* stop, which ends the signal context, and a short sleep before exitError. *)
ErrorBeside == observer = "failed" \/ (observer # "off" /\ run = "failed")

StopOnError ==
  /\ Up /\ ErrorBeside /\ ~stopping
  /\ stopping' = TRUE
  /\ UNCHANGED <<limit, conn, sock, query, registry, cancelled, kill, aimed,
                 closer, toClose, missed, run, observer, process>>

(* main returns, or exitError is called.                                    *)
Exit ==
  /\ Up
  /\ run \in {"drained", "timedOut", "failed"} \/ observer \in {"returned", "failed"}
  /\ ErrorBeside => stopping
  /\ process' = "exited"
  /\ UNCHANGED <<limit, conn, sock, query, registry, cancelled, kill, aimed,
                 stopping, closer, toClose, missed, run, observer>>

Exited ==
  /\ ~Up
  /\ UNCHANGED vars

Next ==
  \/ \E c \in Conns :
       \/ Accept(c) \/ Handshake(c) \/ HandshakeFails(c)
       \/ BeginQuery(c) \/ EndQuery(c) \/ Leave(c) \/ AuditTimeout(c)
       \/ KillFires(c) \/ CloseOne(c)
       \/ \E t \in Conns, connection \in BOOLEAN : KillLooks(c, t, connection)
  \/ Signal \/ CloseListener \/ CloseAllLooks \/ AllClosed
  \/ AcceptError \/ Drained \/ ShutdownTimeout \/ ObserverReturns \/ ObserverFails
  \/ StopOnError \/ Exit \/ Exited

Spec == Init /\ [][Next]_vars

(***************************************************************************)
(* Runnable goroutines run, a read on a closed socket fails, and an audit   *)
(* returns once its context is done (CancelledRequestEnds of Execution).    *)
(* Neither clients nor signals are fair, and the idle deadline and          *)
(* shutdown_timeout are left out: the shutdown should not need them.        *)
(***************************************************************************)
FairSpec ==
  /\ Spec
  /\ \A c \in Conns :
       /\ WF_vars(sock[c] = "closed" /\ Leave(c))
       /\ WF_vars(Done(c, query[c]) /\ EndQuery(c))
       /\ WF_vars(KillFires(c))
       /\ WF_vars(CloseOne(c))
  /\ WF_vars(CloseListener) /\ WF_vars(CloseAllLooks) /\ WF_vars(AllClosed)
  /\ WF_vars(stopping /\ AcceptError) /\ WF_vars(Drained) /\ WF_vars(StopOnError) /\ WF_vars(Exit)

----------------------------------------------------------------------------
Kills == [target : Conns, cancel : Queries, connection : BOOLEAN]

TypeOK ==
  /\ limit \in 1 .. MaxConnections
  /\ conn \in [Conns -> {"new", "handshake", "idle", "gone"} \cup InQuery]
  /\ sock \in [Conns -> {"open", "closed"}]
  /\ query \in [Conns -> Queries]
  /\ registry \in [Conns -> Queries \cup {NoEntry}]
  /\ cancelled \subseteq Conns \X (Queries \ {0})
  /\ kill \in [Conns -> Kills \cup {NoKill}]
  /\ aimed \subseteq Conns \X Queries
  /\ stopping \in BOOLEAN
  /\ closer \in {"waiting", "listenerClosed", "closing", "finished"}
  /\ toClose \subseteq Conns
  /\ missed \subseteq Conns
  /\ run \in {"accept", "drain", "drained", "timedOut", "failed"}
  /\ observer \in {"off", "serving", "returned", "failed"}
  /\ process \in {"up", "exited"}

(* SHOW PROCESSLIST and KILL see exactly the authenticated connections that *)
(* are still served, each with the cancel function of the query it is       *)
(* running now and of no earlier one; at most max_connections are served.   *)
RegistryIsCurrent ==
  /\ \A c \in Conns :
       registry[c] = CASE conn[c] = "idle"     -> 0
                       [] conn[c] \in InQuery -> query[c]
                       [] OTHER                -> NoEntry
  /\ Cardinality(Active) <= limit

(* KILL uses what it looked up after the lock is released, and the victim   *)
(* may have gone on to its next query: a running query is only ever hit if  *)
(* a KILL has seen this very query.                                         *)
KillHitsOnlyItsQuery ==
  [][\A k, c \in Conns :
       conn[k] = "killing" /\ conn'[k] = "killed" /\ conn[c] \in InQuery
         /\ <<c, query[c]>> \in cancelled' \ cancelled
       => <<c, query[c]>> \in aimed]_vars

(* After the signal the server ends without shutdown_timeout and without    *)
(* the idle deadline, unless a connection was still in its handshake when   *)
(* the registry was copied.                                                 *)
ShutdownCompletes == stopping ~> (process = "exited" \/ missed # {})

(* Unless the observability server has returned or an error ends it, a      *)
(* process that ends before shutdown_timeout has served every connection to *)
(* its end: none is left, not even one that was in its handshake when the   *)
(* registry was copied.                                                     *)
DrainedUnlessObserved ==
  process = "exited" /\ run \notin {"timedOut", "failed"} /\ observer \notin {"returned", "failed"} => Active = {}

(* docs/PHASE_6: shutdown waits for the connections and the process exits   *)
(* on a signal: unless an error ends it, it does not exit under a running   *)
(* query before shutdown_timeout.                                           *)
DrainBeforeExit ==
  process = "exited" /\ run \notin {"timedOut", "failed"} /\ observer # "failed" =>
    \A c \in Conns : conn[c] \notin InQuery
=============================================================================
