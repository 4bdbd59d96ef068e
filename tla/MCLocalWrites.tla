---------------------------- MODULE MCLocalWrites ----------------------------
(***************************************************************************)
(* Values for model-checking LocalWrites: three requests that may each      *)
(* create an object, committed once each; or one that does, and one for the *)
(* same object whose token is committed twice beside a direct caller.       *)
(***************************************************************************)
EXTENDS LocalWrites, TLC

CONSTANTS r1, r2, r3, q1, q2, q3, c1, c2, c3, w1

OneResource == {r1}
ThreeResources == {r1, r2, r3}
TwoRequests == {q1, q2}
ThreeRequests == {q1, q2, q3}
FirstCreates == q1 :> r1
ThreeObjects == FirstCreates @@ (q2 :> r2) @@ (q3 :> r3)
CommitEach == (c1 :> q1) @@ (c2 :> q2) @@ (c3 :> q3)
ThreeCommits == {c1, c2, c3}
CommitsAndCaller == {c1, c2, c3, w1}
CommitSecondTwice == (c1 :> q1) @@ (c2 :> q2) @@ (c3 :> q2)
=============================================================================
