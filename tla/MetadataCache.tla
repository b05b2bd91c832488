--------------------------- MODULE MetadataCache ---------------------------
(***************************************************************************)
(* metadata.Provider, the request cache in front of the target's            *)
(* information_schema: LoadSchema and LoadTable (one protocol, two key       *)
(* spaces) called by any number of goroutines.  The first caller of a key   *)
(* opens a flight and asks the target with the mutex released; the others   *)
(* wait for the flight and then look again.  The target's schema may change *)
(* between two questions, and a question may fail.                          *)
(***************************************************************************)
EXTENDS Naturals, FiniteSets

CONSTANTS Callers,    \* goroutines
          Keys,       \* normalized "schema:..." and "table:..." keys
          MaxVersion, \* how often the target may change one object
          NotCached,  \* no entry in the map
          Nobody      \* no flight in the map

ASSUME CallersAssumption == Callers # {} /\ IsFiniteSet(Callers)
ASSUME KeysAssumption == Keys # {}
ASSUME VersionAssumption == MaxVersion \in Nat

(* What the target has under a key: a definition, or ErrMetadataNotFound    *)
(* (version 0), which is cached just the same.                              *)
Version == 0 .. MaxVersion

ASSUME NotCachedAssumption == NotCached \notin Version
ASSUME NobodyAssumption == Nobody \notin Callers

VARIABLES
  source,    \* the target's definition of each key
  entries,   \* p.schemas and p.tables
  flights,   \* p.flights: who flies for the key
  state,     \* what each caller is doing
  key,       \* the key of its current call
  cancelled, \* callers whose ctx is done
  asked,     \* cacheable answers obtained from the target, per key (history)
  returned   \* cacheable answers handed to callers, per key (history)

vars == <<source, entries, flights, state, key, cancelled, asked, returned>>

Init ==
  /\ source \in [Keys -> Version]
  /\ entries = [k \in Keys |-> NotCached]
  /\ flights = [k \in Keys |-> Nobody]
  /\ state = [c \in Callers |-> "idle"]
  /\ key \in [Callers -> Keys]
  /\ cancelled = {}
  /\ asked = [k \in Keys |-> 0]
  /\ returned = [k \in Keys |-> {}]

(* Another client changes the object on the target. *)
TargetChanges(k) ==
  /\ source[k] < MaxVersion
  /\ source' = [source EXCEPT ![k] = @ + 1]
  /\ UNCHANGED <<entries, flights, state, key, cancelled, asked, returned>>

Call(c, k) ==
  /\ state[c] = "idle"
  /\ c \notin cancelled
  /\ state' = [state EXCEPT ![c] = "look"]
  /\ key' = [key EXCEPT ![c] = k]
  /\ UNCHANGED <<source, entries, flights, cancelled, asked, returned>>

(* The critical section at the head of the loop. *)
Hit(c) ==
  /\ state[c] = "look"
  /\ entries[key[c]] # NotCached
  /\ state' = [state EXCEPT ![c] = "idle"]
  /\ returned' = [returned EXCEPT ![key[c]] = @ \cup {entries[key[c]]}]
  /\ UNCHANGED <<source, entries, flights, key, cancelled, asked>>

Join(c) ==
  /\ state[c] = "look"
  /\ entries[key[c]] = NotCached
  /\ flights[key[c]] # Nobody
  /\ state' = [state EXCEPT ![c] = "wait"]
  /\ UNCHANGED <<source, entries, flights, key, cancelled, asked, returned>>

StartFlightAnyway(c) ==
  /\ state[c] = "look"
  /\ entries[key[c]] = NotCached
  /\ state' = [state EXCEPT ![c] = "fly"]
  /\ flights' = [flights EXCEPT ![key[c]] = c]
  /\ UNCHANGED <<source, entries, key, cancelled, asked, returned>>
StartFlight(c) ==
  /\ state[c] = "look"
  /\ entries[key[c]] = NotCached
  /\ flights[key[c]] = Nobody
  /\ state' = [state EXCEPT ![c] = "fly"]
  /\ flights' = [flights EXCEPT ![key[c]] = c]
  /\ UNCHANGED <<source, entries, key, cancelled, asked, returned>>

(* The select of a caller that joined: done is closed, and it looks again, *)
(* or its own ctx is done; when both are ready either branch may be taken.  *)
LookAgain(c) ==
  /\ state[c] = "woken"
  /\ state' = [state EXCEPT ![c] = "look"]
  /\ UNCHANGED <<source, entries, flights, key, cancelled, asked, returned>>

WaitUncancellable(c) ==
  /\ state[c] = "woken"
  /\ c \in cancelled
  /\ state' = [state EXCEPT ![c] = "idle"]
  /\ UNCHANGED <<source, entries, flights, key, cancelled, asked, returned>>
WaitCancelled(c) ==
  /\ state[c] \in {"wait", "woken"}
  /\ c \in cancelled
  /\ state' = [state EXCEPT ![c] = "idle"]
  /\ UNCHANGED <<source, entries, flights, key, cancelled, asked, returned>>

(* close(current.done): the waiters of the flight, in the same critical     *)
(* section that deletes it.                                                 *)
WakeNobody(k) == state
Wake(k) ==
  [w \in Callers |-> IF state[w] = "wait" /\ key[w] = k THEN "woken" ELSE state[w]]

(* The target answers (a definition or not-found): cached, flight deleted   *)
(* and its waiters woken in one critical section.                           *)
LandUncached(c) ==
  /\ state[c] = "fly"
  /\ flights' = [flights EXCEPT ![key[c]] = Nobody]
  /\ state' = [Wake(key[c]) EXCEPT ![c] = "idle"]
  /\ asked' = [asked EXCEPT ![key[c]] = @ + 1]
  /\ returned' = [returned EXCEPT ![key[c]] = @ \cup {source[key[c]]}]
  /\ UNCHANGED <<source, entries, key, cancelled>>
Land(c) ==
  /\ state[c] = "fly"
  /\ entries' = [entries EXCEPT ![key[c]] = source[key[c]]]
  /\ flights' = [flights EXCEPT ![key[c]] = Nobody]
  /\ state' = [Wake(key[c]) EXCEPT ![c] = "idle"]
  /\ asked' = [asked EXCEPT ![key[c]] = @ + 1]
  /\ returned' = [returned EXCEPT ![key[c]] = @ \cup {source[key[c]]}]
  /\ UNCHANGED <<source, key, cancelled>>

(* Any other error, a done ctx included, is not cacheable.                  *)
CrashLandCached(c) ==
  /\ state[c] = "fly"
  /\ entries' = [entries EXCEPT ![key[c]] = MaxVersion + 1]
  /\ flights' = [flights EXCEPT ![key[c]] = Nobody]
  /\ state' = [Wake(key[c]) EXCEPT ![c] = "idle"]
  /\ UNCHANGED <<source, key, cancelled, asked, returned>>
CrashLand(c) ==
  /\ state[c] = "fly"
  /\ flights' = [flights EXCEPT ![key[c]] = Nobody]
  /\ state' = [Wake(key[c]) EXCEPT ![c] = "idle"]
  /\ UNCHANGED <<source, entries, key, cancelled, asked, returned>>

(* PutTable, PutSchema, DeleteTable and DeleteSchema lay the effect of an   *)
(* audited DDL over the source.  The session issues them from the goroutine *)
(* that also loads, so no flight of the key is open.                        *)
Put(k, v) ==
  /\ flights[k] = Nobody
  /\ entries' = [entries EXCEPT ![k] = v]
  /\ returned' = [returned EXCEPT ![k] = {}]
  /\ UNCHANGED <<source, flights, state, key, cancelled, asked>>

(* The request's ctx, as one caller sees it.                                *)
Cancel(c) ==
  /\ c \notin cancelled
  /\ cancelled' = cancelled \cup {c}
  /\ UNCHANGED <<source, entries, flights, state, key, asked, returned>>

CallerStep(c) ==
  Hit(c) \/ Join(c) \/ StartFlight(c) \/ LookAgain(c) \/ WaitCancelled(c)

Next ==
  \/ \E c \in Callers : \/ \E k \in Keys : Call(c, k)
                        \/ CallerStep(c) \/ Land(c) \/ CrashLand(c) \/ Cancel(c)
  \/ \E k \in Keys : TargetChanges(k) \/ \E v \in Version : Put(k, v)

Spec == Init /\ [][Next]_vars

(* A runnable goroutine runs; select picks among its ready branches at      *)
(* random, so it does not pass over a done ctx for ever.  The source may    *)
(* stay silent for ever, except that its driver returns once the flying     *)
(* caller's ctx is done.                                                    *)
FairSpec ==
  /\ Spec
  /\ \A c \in Callers :
       /\ WF_vars(CallerStep(c))
       /\ SF_vars(WaitCancelled(c))
       /\ WF_vars(c \in cancelled /\ (Land(c) \/ CrashLand(c)))

----------------------------------------------------------------------------
TypeOK ==
  /\ source \in [Keys -> Version]
  /\ entries \in [Keys -> Version \cup {NotCached}]
  /\ flights \in [Keys -> Callers \cup {Nobody}]
  /\ state \in [Callers -> {"idle", "look", "wait", "woken", "fly"}]
  /\ key \in [Callers -> Keys]
  /\ cancelled \subseteq Callers
  /\ asked \in [Keys -> Nat]
  /\ returned \in [Keys -> SUBSET Version]

(* docs/ROADMAP.md: an object is loaded from the target at most once per    *)
(* request, however the calls interleave and fail.                          *)
LoadedOnce == \A k \in Keys : asked[k] <= 1

(* All statements of a request see one catalog: every answer since the      *)
(* request's own last DDL on the object is the entry the cache holds now,   *)
(* although the target may have changed meanwhile.                          *)
AnswersAgree == \A k \in Keys : returned[k] \subseteq {entries[k]}

(* No lost wakeup: a caller blocked on a flight has a flight to wait for,   *)
(* whose flier is really flying for that key.                               *)
WaitersHaveFlight ==
  \A c \in Callers : state[c] = "wait" =>
     /\ flights[key[c]] # Nobody
     /\ state[flights[key[c]]] = "fly" /\ key[flights[key[c]]] = key[c]

(* A caller whose ctx is done returns, even if the source never answers     *)
(* the caller it waits for.                                                 *)
CancelledCallReturns == \A c \in Callers : c \in cancelled ~> state[c] = "idle"
=============================================================================
