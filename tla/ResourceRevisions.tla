-------------------------- MODULE ResourceRevisions --------------------------
(***************************************************************************)
(* The retained history of objects and activities: canonical resources,     *)
(* their revisions, the head naming the latest one, and the legacy typed    *)
(* rows that must stay in step (models resource-revision.ts, resource.ts    *)
(* and the triggers of the drizzle migrations).                             *)
(*                                                                         *)
(* A writer is one transaction.  Three forms reach the history:             *)
(*   append  appendResourceRevision(), for a resource without a typed row;  *)
(*   typed   writeTypedResourceRevision(), for an object with one;          *)
(*   insert  promoteResource() with a typed row, and the capture of that    *)
(*           row as the first revision, as inboxes and createObject do.     *)
(* Each takes the resource's row lock, reads the head again under it and    *)
(* decides, then writes, where the triggers check the rules once more.      *)
(* Under READ COMMITTED others see what a transaction wrote when it         *)
(* commits, so its writes are one step; its lock and its reads come before. *)
(***************************************************************************)
EXTENDS Naturals, Sequences

CONSTANTS
  Resources,    \* canonical resources, all registered
  Writers,      \* transactions; each also names the document it writes
  MaxRewrites,  \* bound on rewrites of typed rows outside this API
  Foreign,      \* a document only such a rewrite stores
  None          \* no document, no resource, no transaction

ASSUME RevisionsAssumption ==
  /\ MaxRewrites \in Nat
  /\ None \notin Writers \union Resources
  /\ Foreign \notin Writers \union {None}

VARIABLES
  kind,     \* resources.kind
  history,  \* resource_revisions in sequence order
  head,     \* resource_heads: the sequence of the current revision, 0 for none
  typed,    \* the objects or activities row of each resource
  lock,     \* the transaction holding the resource row FOR NO KEY UPDATE
  write,    \* each transaction: its input, where it stands, what it read
  rewrites  \* how many typed rows were rewritten or removed

vars == <<kind, history, head, typed, lock, write, rewrites>>
store == <<kind, history, head, typed>>

ResourceKinds == {"object", "activity"}
Forms == {"append", "typed", "insert"}
Ended == {"done", "refused", "guarded", "aborted"}
Points == {"idle", "lock", "check", "write"} \union Ended
Documents == Writers \union {Foreign, None}

NoRow == [present |-> FALSE, document |-> None, deleted |-> FALSE]
Row(document) == [present |-> TRUE, document |-> document, deleted |-> FALSE]
Idle == [at |-> "idle", on |-> None, form |-> "append", as |-> "object",
         revision |-> "snapshot", document |-> None, expected |-> 0,
         previous |-> 0]

Init ==
  /\ kind = [r \in Resources |-> "unknown"]
  /\ history = [r \in Resources |-> <<>>]
  /\ head = [r \in Resources |-> 0]
  /\ typed = [r \in Resources |-> NoRow]
  /\ lock = [r \in Resources |-> None]
  /\ write = [w \in Writers |-> Idle]
  /\ rewrites = 0

-----------------------------------------------------------------------------
(* The rules.                                                              *)

\* A typed row without a document is captured as an unavailable revision.
Captured(document) == IF document = None THEN "unavailable" ELSE "snapshot"

HeadIs(r, revisionKind) == head[r] # 0 /\ history[r][head[r]].kind = revisionKind

\* Mutant: the expected revision is not compared with the current one.
AppendableBlindly(q) ==
  /\ kind[q.on] \in {"unknown", q.as}
  /\ q.as = "activity" => head[q.on] = 0
  /\ ~HeadIs(q.on, "whiteout")
  /\ q.revision = "whiteout" => head[q.on] # 0

\* What lockRevisionTarget() refuses whatever the form, once the expected
\* revision is the current one.
Appendable(q) ==
  /\ q.expected = head[q.on]
  /\ kind[q.on] \in {"unknown", q.as}
  /\ q.as = "activity" => head[q.on] = 0
  /\ ~HeadIs(q.on, "whiteout")
  /\ q.revision = "whiteout" => head[q.on] # 0

\* sameTypedState(): the live typed row still holds the current revision.
SameTypedState(r) ==
  /\ ~typed[r].deleted
  /\ typed[r].document = history[r][head[r]].document

\* The capture of a typed row that has a revision already: the row is still
\* what the first revision copied, and nothing but its deletion followed.
Agrees(r) ==
  /\ typed[r].present
  /\ head[r] = IF typed[r].deleted THEN 2 ELSE 1
  /\ history[r][1].document = typed[r].document
  /\ history[r][1].kind = Captured(typed[r].document)
  /\ typed[r].deleted => HeadIs(r, "whiteout")

Admits(q) ==
  \/ /\ q.form = "append"
     /\ Appendable(q)
     /\ ~typed[q.on].present
  \/ /\ q.form = "typed"
     /\ Appendable(q)
     /\ kind[q.on] = "object"
     /\ typed[q.on].present
     /\ HeadIs(q.on, "snapshot")
     /\ SameTypedState(q.on)
  \/ /\ q.form = "insert"
     /\ \/ kind[q.on] = "unknown"
        \/ kind[q.on] = q.as /\ Agrees(q.on)

\* The triggers on resource_revisions and resource_heads, for a row whose
\* sequence is one more than the head the transaction read.
GuardsAllow(q) ==
  LET latest == Len(history[q.on]) IN
  /\ q.previous = latest
  /\ latest # 0 => history[q.on][latest].kind # "whiteout"
  /\ q.as = "activity" => latest = 0
  /\ q.revision = "whiteout" => latest # 0
  /\ q.previous + 1 > head[q.on]

-----------------------------------------------------------------------------
(* A transaction, up to its writes.                                        *)

\* The caller names the current revision it loaded, long before the lock; an
\* insertion names none, and a typed write must name one.
Call(w, r, form, as, revision, document) ==
  /\ write[w].at = "idle"
  /\ form = "insert" => revision = "snapshot"
  /\ form # "insert" => document # None
  /\ form = "typed" => as = "object" /\ head[r] # 0
  /\ write' = [write EXCEPT ![w] =
                 [at |-> "lock", on |-> r, form |-> form, as |-> as,
                  revision |-> revision, document |-> document,
                  expected |-> IF form = "insert" THEN 0 ELSE head[r],
                  previous |-> 0]]
  /\ UNCHANGED <<store, lock, rewrites>>

\* Mutant: the row is read without FOR NO KEY UPDATE, so nobody waits.
LockNothing(w) ==
  /\ write[w].at = "lock"
  /\ lock' = [lock EXCEPT ![write[w].on] = w]
  /\ write' = [write EXCEPT ![w].at = "check"]
  /\ UNCHANGED <<store, rewrites>>

\* SELECT ... FOR NO KEY UPDATE waits for the transaction that holds the row.
Lock(w) ==
  /\ write[w].at = "lock"
  /\ lock[write[w].on] = None
  /\ lock' = [lock EXCEPT ![write[w].on] = w]
  /\ write' = [write EXCEPT ![w].at = "check"]
  /\ UNCHANGED <<store, rewrites>>

\* Mutant: the transaction is left open.
EndUnreleased(w, at) ==
  /\ write' = [write EXCEPT ![w].at = at]
  /\ UNCHANGED lock

End(w, at) ==
  /\ write' = [write EXCEPT ![w].at = at]
  /\ lock' = [lock EXCEPT ![write[w].on] = IF @ = w THEN None ELSE @]

\* The head is read by a statement after the one that took the lock.
Check(w) ==
  /\ write[w].at = "check"
  /\ IF Admits(write[w])
     THEN /\ write' = [write EXCEPT ![w].at = "write",
                                    ![w].previous = head[write[w].on]]
          /\ UNCHANGED lock
     ELSE End(w, "refused")
  /\ UNCHANGED <<store, rewrites>>

\* Any error after the lock was asked for rolls the transaction back.
Abort(w) ==
  /\ write[w].at \in {"lock", "check", "write"}
  /\ End(w, "aborted")
  /\ UNCHANGED <<store, rewrites>>

-----------------------------------------------------------------------------
(* The writes and the commit.                                              *)

Revision(w, q) ==
  [kind |-> IF q.form = "insert" THEN Captured(q.document) ELSE q.revision,
   document |-> IF q.revision = "whiteout" THEN None ELSE q.document,
   base |-> q.expected, by |-> w]

\* Mutant: the kind a promoted resource was registered with is kept.
AppendUnpromoted(w, q) ==
  /\ history' = [history EXCEPT ![q.on] = Append(@, Revision(w, q))]
  /\ head' = [head EXCEPT ![q.on] = q.previous + 1]
  /\ UNCHANGED kind

\* Mutant: the current revision is replaced.
ReplaceCurrent(w, q) ==
  /\ IF q.previous = 0
     THEN /\ history' = [history EXCEPT ![q.on] = <<Revision(w, q)>>]
          /\ head' = [head EXCEPT ![q.on] = 1]
     ELSE /\ history' = [history EXCEPT ![q.on][q.previous] = Revision(w, q)]
          /\ UNCHANGED head
  /\ kind' = [kind EXCEPT ![q.on] = q.as]

\* appendPrepared(): the revision after the one read, and the head moved to it.
AppendPrepared(w, q) ==
  /\ history' = [history EXCEPT ![q.on] = Append(@, Revision(w, q))]
  /\ head' = [head EXCEPT ![q.on] = q.previous + 1]
  /\ kind' = [kind EXCEPT ![q.on] = q.as]

\* Mutant: an edit leaves the typed row as it was.
TypedUnchanged(q) ==
  CASE q.form = "append" -> NoRow
    [] q.form = "insert" -> Row(q.document)
    [] q.form = "typed" ->
         IF q.revision = "whiteout" THEN [typed[q.on] EXCEPT !.deleted = TRUE]
         ELSE typed[q.on]

\* The typed row takes the same document; a deletion keeps its content.
TypedAfter(q) ==
  CASE q.form = "append" -> NoRow
    [] q.form = "insert" -> Row(q.document)
    [] q.form = "typed" ->
         IF q.revision = "whiteout" THEN [typed[q.on] EXCEPT !.deleted = TRUE]
         ELSE Row(q.document)

\* An insertion that found its resource promoted reuses it and writes nothing.
Reuses(q) == q.form = "insert" /\ kind[q.on] # "unknown"

Write(w) ==
  LET q == write[w] IN
  /\ q.at = "write"
  /\ IF Reuses(q) THEN End(w, "done") /\ UNCHANGED store
     ELSE IF ~GuardsAllow(q) THEN End(w, "guarded") /\ UNCHANGED store
     ELSE /\ AppendPrepared(w, q)
          /\ typed' = [typed EXCEPT ![q.on] = TypedAfter(q)]
          /\ End(w, "done")
  /\ UNCHANGED rewrites

-----------------------------------------------------------------------------
(* A typed row rewritten or removed outside this API, which no part of the  *)
(* program does on purpose and the comparisons above are there for.  A      *)
(* transaction that compared the row holds its lock until it ends.          *)

RowLocked(r) ==
  \E w \in Writers : /\ write[w].at = "write"
                     /\ write[w].on = r
                     /\ write[w].form \in {"typed", "insert"}

Rewrite(r) ==
  /\ rewrites < MaxRewrites
  /\ typed[r].present
  /\ ~RowLocked(r)
  /\ \/ typed' = [typed EXCEPT ![r].document = Foreign]
     \/ typed' = [typed EXCEPT ![r] = NoRow]
  /\ rewrites' = rewrites + 1
  /\ UNCHANGED <<kind, history, head, lock, write>>

-----------------------------------------------------------------------------
Transaction(w) == Lock(w) \/ Check(w) \/ Write(w)

Next ==
  \/ \E w \in Writers :
       \/ \E r \in Resources, form \in Forms, as \in ResourceKinds,
             revision \in {"snapshot", "whiteout"}, document \in {w, None} :
            Call(w, r, form, as, revision, document)
       \/ Transaction(w)
       \/ Abort(w)
  \/ \E r \in Resources : Rewrite(r)

Spec == Init /\ [][Next]_vars

\* The database hands a lock on when its holder ends, and a transaction that
\* is not waiting goes on.
FairSpec == Spec /\ \A w \in Writers : WF_vars(Transaction(w))

-----------------------------------------------------------------------------
(* Properties.                                                             *)

RevisionRecord ==
  [kind : {"snapshot", "unavailable", "whiteout"}, document : Documents,
   base : Nat, by : Writers]
TypedRow == [present : BOOLEAN, document : Documents, deleted : BOOLEAN]
WriteRecord ==
  [at : Points, on : Resources \union {None}, form : Forms,
   as : ResourceKinds, revision : {"snapshot", "whiteout"},
   document : Documents, expected : Nat, previous : Nat]

\* Every variable keeps its type.
TypeOK ==
  /\ kind \in [Resources -> ResourceKinds \union {"unknown"}]
  /\ history \in [Resources -> Seq(RevisionRecord)]
  /\ head \in [Resources -> Nat]
  /\ typed \in [Resources -> TypedRow]
  /\ lock \in [Resources -> Writers \union {None}]
  /\ write \in [Writers -> WriteRecord]
  /\ rewrites \in 0 .. MaxRewrites

\* The head always names the latest revision, so that a caller comparing
\* against the head compares against the whole history.
HeadIsLatest == \A r \in Resources : head[r] = Len(history[r])

\* No update is lost: every revision was written by a caller that had loaded
\* exactly the revision before it, however many loaded the same one.
NoLostUpdate ==
  \A r \in Resources : \A n \in DOMAIN history[r] : history[r][n].base = n - 1

\* A whiteout follows content and ends a history, and a saved activity never
\* gets a second revision.
HistoryWellFormed ==
  \A r \in Resources :
    /\ \A n \in DOMAIN history[r] :
         history[r][n].kind = "whiteout" => n # 1 /\ n = Len(history[r])
    /\ kind[r] = "activity" => Len(history[r]) <= 1
    /\ kind[r] = "unknown" => history[r] = <<>>

\* A typed row nobody rewrote holds the document of the last content revision,
\* and is deleted exactly when the history says so.
TypedInStep ==
  \A r \in Resources :
    typed[r].present /\ typed[r].document # Foreign =>
      /\ head[r] # 0
      /\ typed[r].deleted <=> HeadIs(r, "whiteout")
      /\ typed[r].document =
           history[r][IF typed[r].deleted THEN head[r] - 1 ELSE head[r]].document

\* Two transactions never write one history at once, and what a transaction
\* read under the lock is still so when it writes: the triggers that check it
\* again, in the database, never have anything to refuse.
ReadsStayCurrent ==
  \A w \in Writers : write[w].at = "write" =>
    /\ lock[write[w].on] = w
    /\ write[w].previous = head[write[w].on]
    /\ Admits(write[w])

NoGuardFires == \A w \in Writers : write[w].at # "guarded"

\* The history of each resource as RevisionHistory promises it.
Abstract == INSTANCE RevisionHistory WITH
  kinds <- [r \in Resources |-> [n \in DOMAIN history[r] |-> history[r][n].kind]],
  documents <- [r \in Resources |->
                  [n \in DOMAIN history[r] |-> history[r][n].document]]

\* Whatever the forms, the races and the rewrites, each history only grows by
\* one revision at a time, and not past a deletion.
ImplementsHistory == Abstract!Spec

\* Every transaction that asked for a lock ends: a lock is always handed on.
WritersEnd == \A w \in Writers : write[w].at = "lock" ~> write[w].at \in Ended
=============================================================================
