------------------------- MODULE MCResourceRevisions -------------------------
(***************************************************************************)
(* Values for model-checking ResourceRevisions: transactions racing for one *)
(* resource.                                                                *)
(***************************************************************************)
EXTENDS ResourceRevisions

CONSTANTS r1, w1, w2, w3

OneResource == {r1}
ThreeWriters == {w1, w2, w3}
=============================================================================
