-------------------------- MODULE MCMetadataCache --------------------------
(* Three goroutines over one key meet in every way the flight protocol      *)
(* allows.  Keys share nothing but the lock, and the proofs are about any   *)
(* set of them.                                                             *)
EXTENDS MetadataCache

CONSTANTS c1, c2, c3, k1

MCCallers == {c1, c2, c3}
MCKeys == {k1}
=============================================================================
