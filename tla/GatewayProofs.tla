--------------------------- MODULE GatewayProofs ---------------------------
(***************************************************************************)
(* Proofs about Gateway, for any number of connections and queries and any  *)
(* max_connections: type correctness, the registry, and what a KILL may     *)
(* hit.                                                                     *)
(***************************************************************************)
EXTENDS Gateway, TLAPS, FiniteSetTheorems

Aim(k) == <<kill[k].target, kill[k].cancel>>

(* What a KILL has looked up is a query the victim has begun; as long as    *)
(* the victim is still in it, the query is among those aimed at.  Query     *)
(* numbers only grow, so a later query is never the one that was looked up. *)
KillInv ==
  /\ \A c \in Conns : conn[c] \in InQuery => query[c] > 0
  /\ \A k \in Conns : conn[k] = "killing" =>
       /\ kill[k] \in Kills
       /\ kill[k].cancel <= query[kill[k].target]
       /\ conn[kill[k].target] \in InQuery /\ kill[k].cancel = query[kill[k].target]
            => Aim(k) \in aimed

(* wg.Wait has seen every goroutine end and none starts afterwards; the     *)
(* process ends for one of main's reasons.                                  *)
DrainInv ==
  /\ run = "drained" => Active = {}
  /\ process = "exited" => run \in {"drained", "timedOut", "failed"} \/ observer \in {"returned", "failed"}

IInv == TypeOK /\ RegistryIsCurrent /\ KillInv /\ DrainInv

----------------------------------------------------------------------------
(* The goroutines that hold a slot of the semaphore are finitely many.      *)
LEMMA ActiveFinite == IsFiniteSet(Active) /\ Cardinality(Active) \in Nat
<1>1. Active \subseteq Conns
  BY DEF Active
<1>2. IsFiniteSet(Active)
  BY <1>1, ConnsAssumption, FS_Subset
<1> QED  BY <1>2, FS_CardinalityType

(* A step that starts no goroutine keeps the number within the limit.       *)
LEMMA SlotsKept ==
  ASSUME Cardinality(Active) <= limit, Active' \subseteq Active, limit' = limit, limit \in Nat
  PROVE  Cardinality(Active') <= limit'
<1>1. Cardinality(Active') <= Cardinality(Active) /\ Cardinality(Active') \in Nat
  BY ActiveFinite, FS_Subset, FS_CardinalityType
<1> QED  BY <1>1, ActiveFinite

LEMMA InitInv == Init => IInv
<1> SUFFICES ASSUME Init PROVE IInv
  OBVIOUS
<1>1. TypeOK
  <2>1. 0 \in Queries
    BY BoundsAssumption DEF Queries
  <2> QED  BY <2>1 DEF Init, TypeOK
<1>2. Active = {}
  BY DEF Init, Active, InQuery
<1>3. RegistryIsCurrent
  <2>1. Cardinality(Active) <= limit
    BY <1>1, <1>2, FS_EmptySet, BoundsAssumption DEF TypeOK
  <2> QED  BY <2>1 DEF Init, RegistryIsCurrent, InQuery
<1>4. KillInv
  BY DEF Init, KillInv, InQuery
<1> QED  BY <1>1, <1>3, <1>4 DEF IInv, Init, DrainInv

(* Accept: the one step that takes a slot, and only one that is free.       *)
LEMMA AcceptStep ==
  ASSUME IInv, NEW c \in Conns, Accept(c)
  PROVE  IInv'
<1>1. TypeOK'
  BY DEF IInv, TypeOK, Accept, shutdownVars
<1>2. CASE conn' = [conn EXCEPT ![c] = "handshake"] /\ Cardinality(Active) < limit
  <2>1. Active' = Active \cup {c} /\ c \notin Active
    BY <1>2 DEF IInv, TypeOK, Accept, Active, InQuery
  <2>2. Cardinality(Active') = Cardinality(Active) + 1
    BY <2>1, ActiveFinite, FS_AddElement
  <2>3. Cardinality(Active') <= limit'
    BY <1>2, <2>2, ActiveFinite, BoundsAssumption DEF IInv, TypeOK, Accept, shutdownVars
  <2> QED  BY <1>1, <1>2, <2>3
      DEF IInv, TypeOK, Accept, shutdownVars, RegistryIsCurrent, KillInv, Aim, InQuery, DrainInv
<1>3. CASE conn' = [conn EXCEPT ![c] = "gone"]
  <2>1. Active' \subseteq Active
    BY <1>3 DEF IInv, TypeOK, Accept, Active, InQuery
  <2>2. Cardinality(Active') <= limit'
    BY <2>1, SlotsKept, BoundsAssumption DEF IInv, TypeOK, RegistryIsCurrent, Accept, shutdownVars
  <2> QED  BY <1>1, <1>3, <2>2
      DEF IInv, TypeOK, Accept, shutdownVars, RegistryIsCurrent, KillInv, Aim, InQuery, DrainInv
<1> QED  BY <1>2, <1>3 DEF Accept

(* A connection authenticates, goes idle, begins or ends a query, or goes.  *)
LEMMA ConnStep ==
  ASSUME IInv, NEW c \in Conns,
         \/ Handshake(c) \/ HandshakeFails(c) \/ BeginQuery(c)
         \/ EndQuery(c) \/ Leave(c) \/ AuditTimeout(c)
  PROVE  IInv'
<1> USE DEF Handshake, HandshakeFails, BeginQuery, EndQuery, Leave, AuditTimeout, shutdownVars
<1>1. TypeOK'
  BY BoundsAssumption DEF IInv, TypeOK, Queries, KillInv, InQuery
<1>2. Active' \subseteq Active /\ limit' = limit
  BY DEF IInv, TypeOK, Active, InQuery
<1>3. Cardinality(Active') <= limit'
  BY <1>2, SlotsKept, BoundsAssumption DEF IInv, TypeOK, RegistryIsCurrent
<1>4. RegistryIsCurrent'
  BY <1>1, <1>3 DEF IInv, TypeOK, RegistryIsCurrent, InQuery
<1>5. KillInv'
  BY <1>1 DEF IInv, TypeOK, KillInv, Aim, InQuery, Kills, Queries
<1> QED  BY <1>1, <1>2, <1>4, <1>5 DEF IInv, DrainInv, Up

(* The first half of a KILL.                                                *)
LEMMA KillLooksStep ==
  ASSUME IInv, NEW k \in Conns, NEW t \in Conns, NEW connection \in BOOLEAN,
         KillLooks(k, t, connection)
  PROVE  IInv'
<1> DEFINE entry == [target |-> t, cancel |-> registry[t], connection |-> connection]
<1>1. registry[t] \in Queries /\ entry \in Kills
  BY DEF IInv, TypeOK, KillLooks, Registered, Kills
<1>2. registry[t] = (IF conn[t] = "idle" THEN 0 ELSE query[t]) /\ conn[t] \in {"idle"} \cup InQuery
  BY <1>1, NoEntryAssumption DEF IInv, TypeOK, KillLooks, RegistryIsCurrent, Registered, InQuery
<1>3. TypeOK'
  BY <1>1 DEF IInv, TypeOK, KillLooks, shutdownVars, InQuery
<1>4. Active' = Active /\ limit' = limit
  BY DEF IInv, TypeOK, KillLooks, shutdownVars, Active, InQuery
<1>5. RegistryIsCurrent'
  BY <1>3, <1>4 DEF IInv, TypeOK, KillLooks, RegistryIsCurrent, InQuery
<1>6. ASSUME NEW j \in Conns, conn'[j] = "killing"
      PROVE  /\ kill'[j] \in Kills
             /\ kill'[j].cancel <= query'[kill'[j].target]
             /\ conn'[kill'[j].target] \in InQuery /\ kill'[j].cancel = query'[kill'[j].target]
                  => Aim(j)' \in aimed'
  <2>1. CASE j = k
    <3>1. kill'[j] = entry
      BY <2>1 DEF IInv, TypeOK, KillLooks
    <3>2. conn'[t] \in InQuery => conn[t] \in InQuery
      BY DEF IInv, TypeOK, KillLooks, InQuery
    <3>3. conn[t] \in InQuery => query[t] > 0
      BY DEF IInv, KillInv
    <3>4. registry[t] <= query[t]
      BY <1>1, <1>2 DEF IInv, TypeOK, Queries
    <3>5. conn[t] \in InQuery => <<t, registry[t]>> \in aimed'
      BY <1>1, <1>2, <3>3 DEF KillLooks, Queries, InQuery
    <3> QED  BY <1>1, <3>1, <3>2, <3>4, <3>5 DEF KillLooks, Aim
  <2>2. CASE j # k
    BY <1>6, <2>2 DEF IInv, TypeOK, KillLooks, KillInv, Aim, InQuery
  <2> QED  BY <2>1, <2>2
<1>7. KillInv'
  BY <1>6 DEF IInv, TypeOK, KillLooks, KillInv, InQuery
<1> QED  BY <1>3, <1>4, <1>5, <1>7 DEF IInv, DrainInv, KillLooks, shutdownVars

(* The second half.                                                         *)
LEMMA KillFiresStep ==
  ASSUME IInv, NEW k \in Conns, KillFires(k)
  PROVE  IInv'
<1>1. kill[k] \in Kills
  BY DEF IInv, KillInv, KillFires
<1>2. TypeOK'
  BY <1>1 DEF IInv, TypeOK, KillFires, shutdownVars, Kills, InQuery
<1>3. Active' = Active /\ limit' = limit
  BY DEF IInv, TypeOK, KillFires, shutdownVars, Active, InQuery
<1>4. RegistryIsCurrent'
  BY <1>3 DEF IInv, TypeOK, KillFires, RegistryIsCurrent, InQuery
<1>5. KillInv'
  BY <1>1 DEF IInv, TypeOK, KillFires, KillInv, Aim, InQuery, Kills
<1> QED  BY <1>2, <1>3, <1>4, <1>5 DEF IInv, DrainInv, KillFires, shutdownVars

(* The shutdown, the listener and the end of the process: the connections'  *)
(* goroutines and the registry are left alone, sockets apart.               *)
LEMMA ShutdownStep ==
  ASSUME IInv,
         \/ \E c \in Conns : CloseOne(c)
         \/ Signal \/ CloseListener \/ CloseAllLooks \/ AllClosed
         \/ AcceptError \/ Drained \/ ShutdownTimeout \/ ObserverReturns \/ ObserverFails
         \/ StopOnError \/ Exit \/ Exited \/ UNCHANGED vars
  PROVE  IInv'
<1> USE DEF CloseOne, Signal, CloseListener, CloseAllLooks, AllClosed, AcceptError, Drained,
            ShutdownTimeout, ObserverReturns, ObserverFails, StopOnError, Exit, Exited, vars
<1>1. UNCHANGED <<limit, conn, query, registry, kill, aimed>>
  OBVIOUS
<1>2. TypeOK'
  <2>1. sock' \in [Conns -> {"open", "closed"}] /\ cancelled' \subseteq Conns \X (Queries \ {0})
    BY DEF IInv, TypeOK
  <2>2. stopping' \in BOOLEAN
    BY DEF IInv, TypeOK
  <2>3. closer' \in {"waiting", "listenerClosed", "closing", "finished"} /\ process' \in {"up", "exited"}
    BY DEF IInv, TypeOK
  <2>4. toClose' \subseteq Conns /\ missed' \subseteq Conns
    BY DEF IInv, TypeOK, Registered, Active
  <2>5. run' \in {"accept", "drain", "drained", "timedOut", "failed"} /\ observer' \in {"off", "serving", "returned", "failed"}
    BY DEF IInv, TypeOK
  <2>6. TypeOK
    BY DEF IInv
  <2> QED  BY <1>1, <2>1, <2>2, <2>3, <2>4, <2>5, <2>6 DEF TypeOK
<1>3. Active' = Active
  BY <1>1 DEF Active
<1>4. RegistryIsCurrent' /\ KillInv'
  BY <1>1, <1>3 DEF IInv, RegistryIsCurrent, KillInv, Aim
<1>5. DrainInv'
  BY <1>3 DEF IInv, TypeOK, DrainInv
<1> QED  BY <1>2, <1>4, <1>5 DEF IInv

(* Every step preserves the invariant.                                      *)
LEMMA NextInv == IInv /\ [Next]_vars => IInv'
<1> SUFFICES ASSUME IInv, [Next]_vars PROVE IInv'
  OBVIOUS
<1> QED
  BY AcceptStep, ConnStep, KillLooksStep, KillFiresStep, ShutdownStep DEF Next

(* The invariant holds throughout.                                          *)
LEMMA Invariance == Spec => []IInv
<1> QED  BY InitInv, NextInv, PTL DEF Spec

----------------------------------------------------------------------------
(* Every variable stays in its type, whatever the clients, the KILLs and    *)
(* the signal do.                                                           *)
THEOREM TypeCorrect == Spec => []TypeOK
<1>1. IInv => TypeOK
  BY DEF IInv
<1> QED  BY <1>1, Invariance, PTL

(* The process registry shows the connections that are served, each with    *)
(* its current query, and Run's semaphore keeps them within                 *)
(* max_connections.                                                         *)
THEOREM RegistryCorrect == Spec => []RegistryIsCurrent
<1>1. IInv => RegistryIsCurrent
  BY DEF IInv
<1> QED  BY <1>1, Invariance, PTL

(* The only ways to leave a connection unserved at the end of the process   *)
(* before shutdown_timeout are the return of the observability server and   *)
(* an error of it or of the listener.                                       *)
THEOREM DrainCorrect == Spec => []DrainedUnlessObserved
<1>1. IInv => DrainedUnlessObserved
  BY DEF IInv, DrainInv, DrainedUnlessObserved
<1> QED  BY <1>1, Invariance, PTL

(* A KILL cancels a running query only if it has looked up this very query, *)
(* however long it waits between the look-up and the call.                  *)
THEOREM KillCorrect == Spec => KillHitsOnlyItsQuery
<1> DEFINE Hit(k, c) ==
      conn[k] = "killing" /\ conn'[k] = "killed" /\ conn[c] \in InQuery
        /\ <<c, query[c]>> \in cancelled' \ cancelled
<1>1. ASSUME IInv, NEW k \in Conns, NEW c \in Conns, [Next]_vars, Hit(k, c)
      PROVE  <<c, query[c]>> \in aimed
  <2>1. KillFires(k)
    <3> USE DEF IInv, TypeOK
    <3>1. ASSUME NEW b \in Conns, Accept(b) \/ Handshake(b) \/ HandshakeFails(b) PROVE FALSE
      BY <1>1, <3>1 DEF Accept, Handshake, HandshakeFails
    <3>2. ASSUME NEW b \in Conns, BeginQuery(b) \/ EndQuery(b) \/ Leave(b) \/ AuditTimeout(b) PROVE FALSE
      BY <1>1, <3>2 DEF BeginQuery, EndQuery, Leave, AuditTimeout
    <3>3. ASSUME NEW b \in Conns, NEW t \in Conns, NEW n \in BOOLEAN, KillLooks(b, t, n) PROVE FALSE
      BY <1>1, <3>3 DEF KillLooks
    <3>4. ASSUME NEW b \in Conns, KillFires(b) PROVE b = k
      BY <1>1, <3>4 DEF KillFires
    <3>5. ASSUME UNCHANGED conn PROVE FALSE
      BY <1>1, <3>5
    <3> QED
      BY <1>1, <3>1, <3>2, <3>3, <3>4, <3>5
      DEF Next, vars, CloseOne, Signal, CloseListener, CloseAllLooks, AllClosed, AcceptError,
          Drained, ShutdownTimeout, ObserverReturns, ObserverFails, StopOnError, Exit, Exited
  <2>2. c = kill[k].target /\ query[c] = kill[k].cancel
    BY <1>1, <2>1 DEF KillFires
  <2> QED  BY <1>1, <2>1, <2>2 DEF KillFires, IInv, KillInv, Aim
<1>2. IInv /\ [Next]_vars => [\A k, c \in Conns : Hit(k, c) => <<c, query[c]>> \in aimed]_vars
  BY <1>1
<1> QED  BY <1>2, Invariance, PTL DEF Spec, KillHitsOnlyItsQuery
=============================================================================
