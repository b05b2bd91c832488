------------------------ MODULE MetadataCacheProofs ------------------------
(***************************************************************************)
(* Proofs about MetadataCache, for any number of goroutines, any set of     *)
(* objects and any history of the target.                                   *)
(***************************************************************************)
EXTENDS MetadataCache, TLAPS

(* Flights and fliers correspond: at most one caller asks about a key.      *)
FlightInv ==
  /\ \A c \in Callers : state[c] = "fly" => flights[key[c]] = c
  /\ \A k \in Keys : flights[k] # Nobody => state[flights[k]] = "fly" /\ key[flights[k]] = k

(* Nobody asks about a key that has an entry, and an answer leaves one.     *)
EntryInv ==
  \A k \in Keys : /\ entries[k] # NotCached => flights[k] = Nobody
                  /\ asked[k] <= 1
                  /\ asked[k] = 1 => entries[k] # NotCached

IInv == TypeOK /\ FlightInv /\ EntryInv /\ AnswersAgree /\ WaitersHaveFlight

(* The cache of a new request.                                              *)
LEMMA InitInv == Init => IInv
BY NobodyAssumption, NotCachedAssumption, VersionAssumption
   DEF Init, IInv, TypeOK, FlightInv, EntryInv, AnswersAgree, WaitersHaveFlight, Version

(* Another client changes the object.                                       *)
LEMMA TargetChangesStep == ASSUME IInv, NEW k \in Keys, TargetChanges(k) PROVE IInv'
<1>1. TypeOK'
  BY VersionAssumption DEF IInv, TypeOK, TargetChanges, Version
<1>2. FlightInv'
  BY NobodyAssumption DEF IInv, TypeOK, FlightInv, TargetChanges
<1>3. EntryInv'
  BY NobodyAssumption, NotCachedAssumption DEF IInv, TypeOK, FlightInv, EntryInv, TargetChanges
<1>4. AnswersAgree'
  BY NobodyAssumption, NotCachedAssumption DEF IInv, TypeOK, FlightInv, EntryInv, AnswersAgree, TargetChanges
<1>5. WaitersHaveFlight'
  BY NobodyAssumption DEF IInv, TypeOK, FlightInv, WaitersHaveFlight, TargetChanges
<1> QED  BY <1>1, <1>2, <1>3, <1>4, <1>5 DEF IInv

(* A goroutine calls Load.                                                  *)
LEMMA CallStep == ASSUME IInv, NEW c \in Callers, NEW k \in Keys, Call(c, k) PROVE IInv'
<1>1. TypeOK'
  BY VersionAssumption DEF IInv, TypeOK, Call, Version
<1>2. FlightInv'
  BY NobodyAssumption DEF IInv, TypeOK, FlightInv, Call
<1>3. EntryInv'
  BY NobodyAssumption, NotCachedAssumption DEF IInv, TypeOK, FlightInv, EntryInv, Call
<1>4. AnswersAgree'
  BY NobodyAssumption, NotCachedAssumption DEF IInv, TypeOK, FlightInv, EntryInv, AnswersAgree, Call
<1>5. WaitersHaveFlight'
  BY NobodyAssumption DEF IInv, TypeOK, FlightInv, WaitersHaveFlight, Call
<1> QED  BY <1>1, <1>2, <1>3, <1>4, <1>5 DEF IInv

(* The entry is there.                                                      *)
LEMMA HitStep == ASSUME IInv, NEW c \in Callers, Hit(c) PROVE IInv'
<1>1. TypeOK'
  BY VersionAssumption DEF IInv, TypeOK, Hit, Version
<1>2. FlightInv'
  BY NobodyAssumption DEF IInv, TypeOK, FlightInv, Hit
<1>3. EntryInv'
  BY NobodyAssumption, NotCachedAssumption DEF IInv, TypeOK, FlightInv, EntryInv, Hit
<1>4. AnswersAgree'
  BY NobodyAssumption, NotCachedAssumption DEF IInv, TypeOK, FlightInv, EntryInv, AnswersAgree, Hit
<1>5. WaitersHaveFlight'
  BY NobodyAssumption DEF IInv, TypeOK, FlightInv, WaitersHaveFlight, Hit
<1> QED  BY <1>1, <1>2, <1>3, <1>4, <1>5 DEF IInv

(* A flight is open: wait for it.                                           *)
LEMMA JoinStep == ASSUME IInv, NEW c \in Callers, Join(c) PROVE IInv'
<1>1. TypeOK'
  BY VersionAssumption DEF IInv, TypeOK, Join, Version
<1>2. FlightInv'
  BY NobodyAssumption DEF IInv, TypeOK, FlightInv, Join
<1>3. EntryInv'
  BY NobodyAssumption, NotCachedAssumption DEF IInv, TypeOK, FlightInv, EntryInv, Join
<1>4. AnswersAgree'
  BY NobodyAssumption, NotCachedAssumption DEF IInv, TypeOK, FlightInv, EntryInv, AnswersAgree, Join
<1>5. WaitersHaveFlight'
  BY NobodyAssumption DEF IInv, TypeOK, FlightInv, WaitersHaveFlight, Join
<1> QED  BY <1>1, <1>2, <1>3, <1>4, <1>5 DEF IInv

(* The first caller of a key opens the flight.                              *)
LEMMA StartFlightStep == ASSUME IInv, NEW c \in Callers, StartFlight(c) PROVE IInv'
<1>1. TypeOK'
  BY VersionAssumption DEF IInv, TypeOK, StartFlight, Version
<1>2. FlightInv'
  BY NobodyAssumption DEF IInv, TypeOK, FlightInv, StartFlight
<1>3. EntryInv'
  BY NobodyAssumption, NotCachedAssumption DEF IInv, TypeOK, FlightInv, EntryInv, StartFlight
<1>4. AnswersAgree'
  BY NobodyAssumption, NotCachedAssumption DEF IInv, TypeOK, FlightInv, EntryInv, AnswersAgree, StartFlight
<1>5. WaitersHaveFlight'
  BY NobodyAssumption DEF IInv, TypeOK, FlightInv, WaitersHaveFlight, StartFlight
<1> QED  BY <1>1, <1>2, <1>3, <1>4, <1>5 DEF IInv

(* A woken caller takes the lock again.                                     *)
LEMMA LookAgainStep == ASSUME IInv, NEW c \in Callers, LookAgain(c) PROVE IInv'
<1>1. TypeOK'
  BY VersionAssumption DEF IInv, TypeOK, LookAgain, Version
<1>2. FlightInv'
  BY NobodyAssumption DEF IInv, TypeOK, FlightInv, LookAgain
<1>3. EntryInv'
  BY NobodyAssumption, NotCachedAssumption DEF IInv, TypeOK, FlightInv, EntryInv, LookAgain
<1>4. AnswersAgree'
  BY NobodyAssumption, NotCachedAssumption DEF IInv, TypeOK, FlightInv, EntryInv, AnswersAgree, LookAgain
<1>5. WaitersHaveFlight'
  BY NobodyAssumption DEF IInv, TypeOK, FlightInv, WaitersHaveFlight, LookAgain
<1> QED  BY <1>1, <1>2, <1>3, <1>4, <1>5 DEF IInv

(* A waiting caller's ctx is done.                                          *)
LEMMA WaitCancelledStep == ASSUME IInv, NEW c \in Callers, WaitCancelled(c) PROVE IInv'
<1>1. TypeOK'
  BY VersionAssumption DEF IInv, TypeOK, WaitCancelled, Version
<1>2. FlightInv'
  BY NobodyAssumption DEF IInv, TypeOK, FlightInv, WaitCancelled
<1>3. EntryInv'
  BY NobodyAssumption, NotCachedAssumption DEF IInv, TypeOK, FlightInv, EntryInv, WaitCancelled
<1>4. AnswersAgree'
  BY NobodyAssumption, NotCachedAssumption DEF IInv, TypeOK, FlightInv, EntryInv, AnswersAgree, WaitCancelled
<1>5. WaitersHaveFlight'
  BY NobodyAssumption DEF IInv, TypeOK, FlightInv, WaitersHaveFlight, WaitCancelled
<1> QED  BY <1>1, <1>2, <1>3, <1>4, <1>5 DEF IInv

(* The flier returns with an answer: nobody else has been given one.        *)
LEMMA LandStep == ASSUME IInv, NEW c \in Callers, Land(c) PROVE IInv'
<1>1. TypeOK'
  BY VersionAssumption DEF IInv, TypeOK, Land, Wake, Version
<1>2. FlightInv'
  BY NobodyAssumption DEF IInv, TypeOK, FlightInv, Land, Wake
<1>3. EntryInv'
  BY NobodyAssumption, NotCachedAssumption DEF IInv, TypeOK, FlightInv, EntryInv, Land, Wake
<1>4. AnswersAgree'
  BY NobodyAssumption, NotCachedAssumption DEF IInv, TypeOK, FlightInv, EntryInv, AnswersAgree, Land, Wake
<1>5. WaitersHaveFlight'
  BY NobodyAssumption DEF IInv, TypeOK, FlightInv, WaitersHaveFlight, Land, Wake
<1> QED  BY <1>1, <1>2, <1>3, <1>4, <1>5 DEF IInv

(* The flier returns with an error, leaving no entry.                       *)
LEMMA CrashLandStep == ASSUME IInv, NEW c \in Callers, CrashLand(c) PROVE IInv'
<1>1. TypeOK'
  BY VersionAssumption DEF IInv, TypeOK, CrashLand, Wake, Version
<1>2. FlightInv'
  BY NobodyAssumption DEF IInv, TypeOK, FlightInv, CrashLand, Wake
<1>3. EntryInv'
  BY NobodyAssumption, NotCachedAssumption DEF IInv, TypeOK, FlightInv, EntryInv, CrashLand, Wake
<1>4. AnswersAgree'
  BY NobodyAssumption, NotCachedAssumption DEF IInv, TypeOK, FlightInv, EntryInv, AnswersAgree, CrashLand, Wake
<1>5. WaitersHaveFlight'
  BY NobodyAssumption DEF IInv, TypeOK, FlightInv, WaitersHaveFlight, CrashLand, Wake
<1> QED  BY <1>1, <1>2, <1>3, <1>4, <1>5 DEF IInv

(* A ctx ends.                                                              *)
LEMMA CancelStep == ASSUME IInv, NEW c \in Callers, Cancel(c) PROVE IInv'
<1>1. TypeOK'
  BY VersionAssumption DEF IInv, TypeOK, Cancel, Version
<1>2. FlightInv'
  BY NobodyAssumption DEF IInv, TypeOK, FlightInv, Cancel
<1>3. EntryInv'
  BY NobodyAssumption, NotCachedAssumption DEF IInv, TypeOK, FlightInv, EntryInv, Cancel
<1>4. AnswersAgree'
  BY NobodyAssumption, NotCachedAssumption DEF IInv, TypeOK, FlightInv, EntryInv, AnswersAgree, Cancel
<1>5. WaitersHaveFlight'
  BY NobodyAssumption DEF IInv, TypeOK, FlightInv, WaitersHaveFlight, Cancel
<1> QED  BY <1>1, <1>2, <1>3, <1>4, <1>5 DEF IInv

(* The session lays its own DDL over the source.                            *)
LEMMA PutStep == ASSUME IInv, NEW k \in Keys, NEW v \in Version, Put(k, v) PROVE IInv'
<1>1. TypeOK'
  BY VersionAssumption DEF IInv, TypeOK, Put, Version
<1>2. FlightInv'
  BY NobodyAssumption DEF IInv, TypeOK, FlightInv, Put
<1>3. EntryInv'
  BY NobodyAssumption, NotCachedAssumption DEF IInv, TypeOK, FlightInv, EntryInv, Put
<1>4. AnswersAgree'
  BY NobodyAssumption, NotCachedAssumption DEF IInv, TypeOK, FlightInv, EntryInv, AnswersAgree, Put
<1>5. WaitersHaveFlight'
  BY NobodyAssumption DEF IInv, TypeOK, FlightInv, WaitersHaveFlight, Put
<1> QED  BY <1>1, <1>2, <1>3, <1>4, <1>5 DEF IInv

(* Every step preserves the invariant.                                      *)
LEMMA NextInv == IInv /\ [Next]_vars => IInv'
<1> SUFFICES ASSUME IInv, [Next]_vars PROVE IInv'
  OBVIOUS
<1>1. CASE UNCHANGED vars
  BY <1>1 DEF IInv, TypeOK, FlightInv, EntryInv, AnswersAgree, WaitersHaveFlight, vars
<1>2. CASE Next
  BY <1>2, TargetChangesStep, CallStep, HitStep, JoinStep, StartFlightStep, LookAgainStep, WaitCancelledStep,
     LandStep, CrashLandStep, CancelStep, PutStep DEF Next, CallerStep
<1> QED  BY <1>1, <1>2

(* The invariant holds throughout.                                          *)
LEMMA Invariance == Spec => []IInv
<1>1. IInv /\ [Next]_vars => IInv'
  BY NextInv
<1> QED  BY <1>1, InitInv, PTL DEF Spec

(* The state of the cache keeps its types.                                  *)
THEOREM TypeCorrect == Spec => []TypeOK
<1>1. IInv => TypeOK
  BY DEF IInv
<1> QED  BY <1>1, Invariance, PTL

(* An object is loaded from the target at most once per request.            *)
THEOREM LoadedOnceCorrect == Spec => []LoadedOnce
<1>1. IInv => LoadedOnce
  BY DEF IInv, EntryInv, LoadedOnce
<1> QED  BY <1>1, Invariance, PTL

(* All callers are given one definition of an object.                       *)
THEOREM AnswersAgreeCorrect == Spec => []AnswersAgree
<1>1. IInv => AnswersAgree
  BY DEF IInv
<1> QED  BY <1>1, Invariance, PTL

(* No caller waits for a flight that is over.                               *)
THEOREM NoLostWakeup == Spec => []WaitersHaveFlight
<1>1. IInv => WaitersHaveFlight
  BY DEF IInv
<1> QED  BY <1>1, Invariance, PTL
=============================================================================
