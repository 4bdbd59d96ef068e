------------------------------ MODULE LocalWrites ------------------------------
(***************************************************************************)
(* The local write operations of one actor (federation local-write/): a     *)
(* member loads an object, previews a write, and commits it with the token  *)
(* of the preview, perhaps several times.  A commit is a ResourceRevisions  *)
(* transaction with steps of its own around it: it locks the actor, reads   *)
(* permission, prepares the write again from unlocked reads, and saves the  *)
(* generated activity and the outbox item in the transaction that changes   *)
(* the object.  Direct callers of the revision API, which take no actor     *)
(* lock, are the writers that are no commit.                                *)
(*                                                                         *)
(* The dispatch reservation persists in the same transaction as the outbox  *)
(* item and is not told apart from it; a reservation that throws is an      *)
(* Abort.  A create saves an object and the activity around it.             *)
(***************************************************************************)
EXTENDS ResourceRevisions

CONSTANTS
  Requests,   \* write requests, named as the activities they generate
  NewObject,  \* the object a request creates, of those that may create one
  CommitOf    \* the request each commit attempt is for

Commits == DOMAIN CommitOf

ASSUME LocalWritesAssumption ==
  /\ Commits \subseteq Writers
  /\ CommitOf \in [Commits -> Requests]
  /\ DOMAIN NewObject \subseteq Requests
  /\ NewObject \in [DOMAIN NewObject -> Resources]
  /\ \A q1, q2 \in DOMAIN NewObject : NewObject[q1] = NewObject[q2] => q1 = q2

VARIABLES
  member,     \* whether the principal may write as the actor
  actorLock,  \* the commit holding the actor row FOR UPDATE
  request,    \* each request, from the client's load to its preview's expiry
  commit,     \* where each commit stands before its writes
  outbox,     \* the actor's outbox, newest first
  saved,      \* requests whose activity is saved
  clock,      \* time, advanced by every allocation of a timestamp
  late        \* history: commits that got the actor lock after the revocation

localVars == <<member, actorLock, request, commit, outbox, saved, clock, late>>
allVars == <<vars, localVars>>

Operations == {"create", "edit", "delete", "createObject"}
RequestPoints == {"none", "loaded", "allocated", "previewed", "denied", "expired"}
CommitPoints == {"idle", "actor", "permit", "prepare", "write", "over"}

NoRequest == [at |-> "none", operation |-> "create", target |-> None,
              expected |-> 0, publish |-> FALSE, timestamp |-> 0]

LocalInit ==
  /\ Init
  /\ member = TRUE
  /\ actorLock = None
  /\ request = [q \in Requests |-> NoRequest]
  /\ commit = [c \in Commits |-> "idle"]
  /\ outbox = <<>>
  /\ saved = {}
  /\ clock = 0
  /\ late = {}

-----------------------------------------------------------------------------
(* The client: load, preview, and later the token's end.                   *)

\* The client names the revision it loaded; a create has nothing to load.
Load(q, operation, r, publish) ==
  /\ request[q].at = "none"
  /\ IF operation \in {"edit", "delete"} THEN head[r] # 0 /\ publish
     ELSE /\ q \in DOMAIN NewObject /\ r = NewObject[q]
          /\ operation = "createObject" => publish
  /\ request' = [request EXCEPT ![q] =
       [at |-> "loaded", operation |-> operation, target |-> r,
        expected |-> head[r], publish |-> publish, timestamp |-> 0]]
  /\ UNCHANGED <<vars, member, actorLock, commit, outbox, saved, clock, late>>

\* Mutant: the request keeps the timestamp it had when it was loaded.
AllocateLoaded(q) ==
  /\ request[q].at = "loaded"
  /\ request[q].operation # "createObject"
  /\ request' = [request EXCEPT ![q] =
       [@ EXCEPT !.at = IF member THEN "allocated" ELSE "denied",
                 !.timestamp = clock]]
  /\ UNCHANGED <<vars, member, actorLock, commit, outbox, saved, clock, late>>

\* A preview reads permission, then allocates its IRIs and its timestamp, and
\* only then reads the object, all without a lock.
Allocate(q) ==
  /\ request[q].at = "loaded"
  /\ request[q].operation # "createObject"
  /\ request' = [request EXCEPT ![q] =
       [@ EXCEPT !.at = IF member THEN "allocated" ELSE "denied",
                 !.timestamp = clock + 1]]
  /\ clock' = clock + 1
  /\ UNCHANGED <<vars, member, actorLock, commit, outbox, saved, late>>

\* loadTarget(): the current revision is the expected local content, and a
\* typed row still serves it.
Loadable(q) ==
  LET r == request[q].target IN
  /\ kind[r] = "object"
  /\ head[r] = request[q].expected
  /\ HeadIs(r, "snapshot")
  /\ typed[r].present => SameTypedState(r)

\* loadTarget() for an edit or deletion; IRIs a create allocates must be new.
\* The legacy mutation allocates its own IRIs under the actor lock.
Preparable(q) ==
  CASE request[q].operation \in {"edit", "delete"} ->
         Loadable(q) /\ q \notin saved
    [] request[q].operation = "create" ->
         kind[request[q].target] = "unknown" /\ q \notin saved
    [] OTHER -> TRUE

Preview(q) ==
  /\ request[q].at = "allocated"
  /\ request' = [request EXCEPT ![q].at =
       IF request[q].operation \in {"edit", "delete"} => Loadable(q)
       THEN "previewed" ELSE "denied"]
  /\ UNCHANGED <<vars, member, actorLock, commit, outbox, saved, clock, late>>

\* An hour passed, or a restarted server lost its key.
Expire(q) ==
  /\ request[q].at = "previewed"
  /\ request' = [request EXCEPT ![q].at = "expired"]
  /\ UNCHANGED <<vars, member, actorLock, commit, outbox, saved, clock, late>>

\* The membership is revoked, the instance expires or the actor is deleted.
Revoke ==
  /\ member
  /\ member' = FALSE
  /\ UNCHANGED <<vars, actorLock, request, commit, outbox, saved, clock, late>>

-----------------------------------------------------------------------------
(* A commit, up to its writes.                                             *)

Going(c, at) == commit' = [commit EXCEPT ![c] = at]

\* The transaction rolls back before it wrote and releases what it holds.
Refuse(c) ==
  /\ Going(c, "over")
  /\ actorLock' = IF actorLock = c THEN None ELSE actorLock
  /\ UNCHANGED vars

\* readToken(): a createObject mutation has no preview, and runs once.
Begin(c) ==
  LET q == CommitOf[c] IN
  /\ commit[c] = "idle"
  /\ IF request[q].operation = "createObject"
     THEN /\ request[q].at = "loaded"
          /\ \A other \in Commits : CommitOf[other] = q => commit[other] = "idle"
     ELSE request[q].at \in {"previewed", "expired"}
  /\ IF request[q].at = "expired"
     THEN Refuse(c)
     ELSE Going(c, "actor") /\ UNCHANGED <<vars, actorLock>>
  /\ UNCHANGED <<member, request, outbox, saved, clock, late>>

LockActor(c) ==
  /\ commit[c] = "actor"
  /\ actorLock = None
  /\ actorLock' = c
  /\ Going(c, "permit")
  /\ late' = IF member THEN late ELSE late \union {c}
  /\ UNCHANGED <<vars, member, request, outbox, saved, clock>>

\* Mutant: the permission the preview read is trusted.
PermitPreviewed(c) ==
  /\ commit[c] = "permit"
  /\ Going(c, "prepare")
  /\ UNCHANGED <<vars, member, actorLock, request, outbox, saved, clock, late>>

\* findWritingActor(): permission is read by a statement after the lock.  The
\* outbox's lock follows; whoever takes it holds the actor's lock.
Permit(c) ==
  /\ commit[c] = "permit"
  /\ IF member THEN Going(c, "prepare") /\ UNCHANGED <<vars, actorLock>>
     ELSE Refuse(c)
  /\ UNCHANGED <<member, request, outbox, saved, clock, late>>

\* Mutant: the token's document is saved on whatever is current now.
PrepareOnCurrent(c) ==
  LET q == CommitOf[c]
      r == request[q].target
      operation == request[q].operation
  IN
  /\ commit[c] = "prepare"
  /\ Going(c, "write")
  /\ write' = [write EXCEPT ![c] =
       [at |-> "lock", on |-> r,
        form |-> IF typed[r].present THEN "typed" ELSE "append",
        as |-> "object",
        revision |-> IF operation = "delete" THEN "whiteout" ELSE "snapshot",
        document |-> c, expected |-> head[r], previous |-> 0]]
  /\ UNCHANGED <<store, lock, rewrites, actorLock, member, request, outbox,
                 saved, clock, late>>

\* Mutant: the token's document is taken as prepared.
PrepareNothing(c) ==
  LET q == CommitOf[c]
      r == request[q].target
      operation == request[q].operation
  IN
  /\ commit[c] = "prepare"
  /\ Going(c, "write")
  /\ write' = [write EXCEPT ![c] =
       [at |-> "lock", on |-> r,
        form |-> IF typed[r].present THEN "typed" ELSE "append",
        as |-> "object",
        revision |-> IF operation = "delete" THEN "whiteout" ELSE "snapshot",
        document |-> c, expected |-> request[q].expected, previous |-> 0]]
  /\ UNCHANGED <<store, lock, rewrites, actorLock, member, request, outbox,
                 saved, clock, late>>

\* The document is prepared again with the token's values.  These reads take
\* no lock on the object; the transaction's own checks follow in Check.
Prepare(c) ==
  LET q == CommitOf[c]
      r == request[q].target
      operation == request[q].operation
  IN
  /\ commit[c] = "prepare"
  /\ IF Preparable(q)
     THEN /\ Going(c, "write")
          /\ write' = [write EXCEPT ![c] =
               [at |-> "lock", on |-> r,
                form |-> IF operation = "createObject" THEN "insert"
                        ELSE IF typed[r].present THEN "typed" ELSE "append",
                as |-> "object",
                revision |-> IF operation = "delete" THEN "whiteout"
                             ELSE "snapshot",
                document |-> c, expected |-> request[q].expected,
                previous |-> 0]]
          /\ UNCHANGED <<store, lock, rewrites, actorLock>>
     ELSE Refuse(c)
  /\ IF operation = "createObject"
     THEN /\ request' = [request EXCEPT ![q].timestamp = clock + 1]
          /\ clock' = clock + 1
     ELSE UNCHANGED <<request, clock>>
  /\ UNCHANGED <<member, outbox, saved, late>>

-----------------------------------------------------------------------------
(* Its transaction.                                                        *)

\* Mutant: a transaction that was refused keeps the actor.
ReleaseSaved(c) ==
  IF write'[c].at \in Ended
  THEN /\ Going(c, "over")
       /\ actorLock' = IF write'[c].at = "done" THEN None ELSE actorLock
  ELSE UNCHANGED <<commit, actorLock>>

\* Whatever ends the transaction releases the actor's row too.
ReleaseActor(c) ==
  IF write'[c].at \in Ended
  THEN Going(c, "over") /\ actorLock' = IF actorLock = c THEN None ELSE actorLock
  ELSE UNCHANGED <<commit, actorLock>>

LockTarget(c) ==
  /\ Lock(c)
  /\ UNCHANGED localVars

CheckTarget(c) ==
  /\ Check(c)
  /\ ReleaseActor(c)
  /\ UNCHANGED <<member, request, outbox, saved, clock, late>>

\* Mutant: the item gets the largest position.
AddToOutboxLast(q) == outbox' = Append(outbox, q)

\* addActorCollectionItem(): an outbox is reverse chronological, so an item
\* gets the smallest position, and an item that is there stays where it is.
AddToOutbox(q) ==
  outbox' = IF \E i \in DOMAIN outbox : outbox[i] = q THEN outbox
            ELSE <<q>> \o outbox

\* The object's revision, the activity's, and the outbox item.
Save(c) ==
  LET q == CommitOf[c] IN
  /\ Write(c)
  /\ ReleaseActor(c)
  /\ IF write'[c].at = "done"
     THEN /\ saved' = saved \union {q}
          /\ IF request[q].publish THEN AddToOutbox(q) ELSE UNCHANGED outbox
     ELSE UNCHANGED <<saved, outbox>>
  /\ UNCHANGED <<member, request, clock, late>>

\* A database error, or a dispatch reservation that throws.
RollBack(c) ==
  /\ Abort(c)
  /\ ReleaseActor(c)
  /\ UNCHANGED <<member, request, outbox, saved, clock, late>>

-----------------------------------------------------------------------------
Client(q) ==
  \/ \E operation \in Operations, r \in Resources, publish \in BOOLEAN :
       Load(q, operation, r, publish)
  \/ Allocate(q)
  \/ Preview(q)
  \/ Expire(q)

Commit(c) ==
  \/ LockActor(c) \/ Permit(c) \/ Prepare(c)
  \/ LockTarget(c) \/ CheckTarget(c) \/ Save(c)

\* A direct caller writes a snapshot or a whiteout of a saved object.
Direct(w) ==
  /\ \/ \E r \in Resources, form \in {"append", "typed"},
           revision \in {"snapshot", "whiteout"} :
          head[r] # 0 /\ Call(w, r, form, "object", revision, w)
     \/ Transaction(w)
     \/ Abort(w)
  /\ UNCHANGED localVars

LocalNext ==
  \/ \E q \in Requests : Client(q)
  \/ Revoke
  \/ \E c \in Commits : Begin(c) \/ Commit(c) \/ RollBack(c)
  \/ \E w \in Writers \ Commits : Direct(w)
  \/ \E r \in Resources : Rewrite(r) /\ UNCHANGED localVars

LocalSpec == LocalInit /\ [][LocalNext]_allVars

\* A commit that began is run to its end, and a direct caller's transaction
\* too; nothing makes a client write.
LocalFairSpec ==
  /\ LocalSpec
  /\ \A c \in Commits : WF_allVars(Commit(c))
  /\ \A w \in Writers \ Commits :
       WF_allVars(Transaction(w) /\ UNCHANGED localVars)

-----------------------------------------------------------------------------
(* Properties.                                                             *)

RequestRecord ==
  [at : RequestPoints, operation : Operations,
   target : Resources \union {None}, expected : Nat, publish : BOOLEAN,
   timestamp : Nat]

\* Every variable of the local writes keeps its type.
LocalTypeOK ==
  /\ TypeOK
  /\ member \in BOOLEAN
  /\ actorLock \in Commits \union {None}
  /\ request \in [Requests -> RequestRecord]
  /\ commit \in [Commits -> CommitPoints]
  /\ outbox \in Seq(Requests)
  /\ saved \in SUBSET Requests
  /\ clock \in Nat
  /\ late \in SUBSET Commits

Saves(c) == write[c].at = "done"

\* A token saves its values once, however often and however concurrently it
\* is committed.
TokenSavesOnce ==
  \A c1, c2 \in Commits :
    CommitOf[c1] = CommitOf[c2] /\ Saves(c1) /\ Saves(c2) => c1 = c2

\* "A membership revoked while this transaction waited for the lock is seen":
\* a commit that got the lock after the revocation saves nothing.
NoWriteAfterRevocation == \A c \in Commits : Saves(c) => c \notin late

Change(r, n) == history[r][n].by
ByCommit(r, n) == n \in DOMAIN history[r] /\ Change(r, n) \in Commits

\* The values a commit saves were allocated by its preview, long before: the
\* timestamps saved along a history still only increase.
UpdatedAdvances ==
  \A r \in Resources : \A m, n \in DOMAIN history[r] :
    m < n /\ ByCommit(r, m) /\ ByCommit(r, n) =>
      request[CommitOf[Change(r, m)]].timestamp
        < request[CommitOf[Change(r, n)]].timestamp

Announced(q) == \E i \in DOMAIN outbox : outbox[i] = q

\* Every version an edit, a deletion or a publication saved is announced in
\* the outbox, and an announced activity changed the object it says it did.
ChangesAreAnnounced ==
  /\ \A r \in Resources : \A n \in DOMAIN history[r] :
       ByCommit(r, n) /\ request[CommitOf[Change(r, n)]].publish
         => Announced(CommitOf[Change(r, n)])
  /\ \A q \in Requests : Announced(q) =>
       \E n \in DOMAIN history[request[q].target] :
         /\ ByCommit(request[q].target, n)
         /\ CommitOf[Change(request[q].target, n)] = q

\* The outbox announces the changes of one object in the order it went
\* through them, newest first.
OutboxFollowsHistory ==
  \A r \in Resources : \A m, n \in DOMAIN history[r] :
    m < n /\ ByCommit(r, m) /\ ByCommit(r, n) =>
      \A i, j \in DOMAIN outbox :
        /\ outbox[i] = CommitOf[Change(r, m)]
        /\ outbox[j] = CommitOf[Change(r, n)]
        => j < i

\* The outbox tells the history of the objects: every change a commit meant to
\* publish and no other, in the order they went through (writeObjectVersion() and
\* addActorCollectionItem(), statements of one transaction).
OutboxTellsHistory == ChangesAreAnnounced /\ OutboxFollowsHistory

\* A commit changes the history by transactions of ResourceRevisions alone: the
\* revision its client loaded is still the head where it asks for the lock.
CommitsAreTransactions == Spec

\* Commits of one actor never wait for each other in a cycle, nor with the
\* direct callers: each one that began ends.
CommitsEnd == \A c \in Commits : commit[c] = "actor" ~> commit[c] = "over"
=============================================================================
