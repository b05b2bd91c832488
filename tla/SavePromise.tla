---------------------------- MODULE SavePromise ----------------------------
(***************************************************************************)
(* What backup.Store promises the engine about Save for one statement: the  *)
(* rollback becomes complete at most once and stays so, success is returned *)
(* only for a complete rollback, and a failure (or the end of the process)  *)
(* says nothing about it.                                                   *)
(***************************************************************************)
VARIABLES complete, answer

vars == <<complete, answer>>

Init == complete = FALSE /\ answer = "none"

BecomeComplete == complete' = TRUE /\ UNCHANGED answer

Succeed == answer = "none" /\ complete /\ answer' = "ok" /\ UNCHANGED complete

Fail ==
  /\ answer = "none"
  /\ answer' \in {"error", "crashed"}
  /\ complete' \in {complete, TRUE}

Next == BecomeComplete \/ Succeed \/ Fail

Spec == Init /\ [][Next]_vars
=============================================================================
