--------------------------- MODULE RevisionHistory ---------------------------
(***************************************************************************)
(* What the revision store promises a reader: each resource has a history   *)
(* that only grows, one revision at a time, keeps every revision as it was  *)
(* written, and ends for good with a deletion.                              *)
(***************************************************************************)
EXTENDS Naturals, Sequences

CONSTANTS
  Resources,  \* canonical resources
  Documents,  \* documents a revision may hold
  None        \* the document of a whiteout or of an unavailable revision

VARIABLES
  kinds,     \* the kinds of each resource's revisions, oldest first
  documents  \* their documents

vars == <<kinds, documents>>

Init ==
  /\ kinds = [r \in Resources |-> <<>>]
  /\ documents = [r \in Resources |-> <<>>]

Deleted(r) == kinds[r] # <<>> /\ kinds[r][Len(kinds[r])] = "whiteout"

Grow(r, revisionKind, document) ==
  /\ ~Deleted(r)
  /\ kinds' = [kinds EXCEPT ![r] = Append(@, revisionKind)]
  /\ documents' = [documents EXCEPT ![r] = Append(@, document)]

\* New content; only the first revision may be unavailable.
Save(r, document) ==
  IF document # None THEN Grow(r, "snapshot", document)
  ELSE kinds[r] = <<>> /\ Grow(r, "unavailable", None)

\* A deletion of something saved.
Delete(r) == kinds[r] # <<>> /\ Grow(r, "whiteout", None)

Next ==
  \E r \in Resources :
    \/ \E document \in Documents : Save(r, document)
    \/ Delete(r)

Spec == Init /\ [][Next]_vars
=============================================================================
