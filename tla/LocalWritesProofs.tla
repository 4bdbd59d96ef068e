--------------------------- MODULE LocalWritesProofs ---------------------------
(***************************************************************************)
(* Proofs about LocalWrites, for any number of requests, commit attempts    *)
(* and direct callers: commits change the history only by transactions of   *)
(* ResourceRevisions, so that whatever holds of those holds of local        *)
(* writes; a token saves once; a revocation is seen; the timestamps saved   *)
(* along a history increase; and the outbox tells the histories.            *)
(***************************************************************************)
EXTENDS LocalWrites, ResourceRevisionsProofs

Creates(q) == request[q].operation \in {"create", "createObject"}
Holding == {"permit", "prepare", "write"}

\* What a request names: a create its own new object, without a revision.
RequestsOK ==
  \A q \in Requests : request[q].at # "none" =>
    /\ request[q].target \in Resources
    /\ Creates(q) => /\ q \in DOMAIN NewObject
                     /\ request[q].target = NewObject[q]
                     /\ request[q].expected = 0

\* Nobody touches the new object of a request that is not made yet.
NewObjectsAreNew ==
  \A q \in DOMAIN NewObject : request[q].at = "none" =>
    /\ head[NewObject[q]] = 0
    /\ \A p \in Requests :
         request[p].at # "none" => request[p].target # NewObject[q]
    /\ \A w \in Writers :
         write[w].at # "idle" => write[w].on # NewObject[q]

\* How a commit's own steps go with its transaction's.
CommitsOK ==
  \A c \in Commits :
    /\ write[c].at # "idle" => commit[c] \in {"write", "over"}
    /\ write[c].at \in {"lock", "check", "write"} => commit[c] = "write"
    /\ commit[c] # "idle" => request[CommitOf[c]].at # "none"
    /\ commit[c] \in Holding => actorLock = c

\* A typed row belongs to a resource with a history.
RowsHaveHistory == \A r \in Resources : typed[r].present => head[r] # 0

\* Why a token saves once.
SavesOK ==
  \A c \in Commits :
    /\ Saves(c) => CommitOf[c] \in saved /\ commit[c] = "over"
    /\ commit[c] = "write" /\ request[CommitOf[c]].operation # "createObject"
         => CommitOf[c] \notin saved
    /\ request[CommitOf[c]].operation = "createObject" =>
         \A d \in Commits :
           CommitOf[d] = CommitOf[c] /\ commit[c] # "idle" /\ commit[d] # "idle"
             => c = d

\* Why a revocation is seen: membership does not come back.
LateOK ==
  \A c \in late : /\ ~member
                  /\ commit[c] \in {"permit", "over"}
                  /\ write[c].at = "idle"

LInv ==
  /\ Inv
  /\ LocalTypeOK
  /\ RequestsOK
  /\ NewObjectsAreNew
  /\ CommitsOK
  /\ RowsHaveHistory
  /\ SavesOK
  /\ TokenSavesOnce
  /\ LateOK
-----------------------------------------------------------------------------
(* What the steps of a transaction do, whoever takes them.                 *)

LEMMA TransactionStep ==
  ASSUME LInv, NEW w \in Writers, Transaction(w) \/ Abort(w)
  PROVE  /\ write[w].at \in {"lock", "check", "write"}
         /\ write'[w].at # "idle"
         /\ write'[w].on = write[w].on
         /\ \A x \in Writers : x # w => write'[x] = write[x]
         /\ \A r \in Resources : r # write[w].on => head'[r] = head[r]
         /\ RowsHaveHistory'
  <1> USE DEF LInv, Inv, TypeOK, WriteRecord
  <1>1. CASE Lock(w)
    BY <1>1 DEF Lock, store, RowsHaveHistory
  <1>2. CASE Check(w)
    BY <1>2 DEF Check, End, Ended, store, RowsHaveHistory
  <1>3. CASE Abort(w)
    BY <1>3 DEF Abort, End, Ended, store, RowsHaveHistory
  <1>4. CASE Write(w)
    <2>1. /\ write[w].at = "write"
          /\ write[w].on \in Resources
      BY <1>4 DEF Write, InputOK
    <2>2. /\ write'[w].at # "idle"
          /\ write'[w].on = write[w].on
          /\ \A x \in Writers : x # w => write'[x] = write[x]
      BY <1>4 DEF Write, End
    <2>3. CASE UNCHANGED store
      BY <2>1, <2>2, <2>3 DEF store, RowsHaveHistory
    <2>4. CASE /\ AppendPrepared(w, write[w])
               /\ typed' = [typed EXCEPT ![write[w].on] = TypedAfter(write[w])]
      <3>1. /\ head'[write[w].on] # 0
            /\ \A r \in Resources : r # write[w].on =>
                 head'[r] = head[r] /\ typed'[r] = typed[r]
        BY <2>1, <2>4 DEF AppendPrepared
      <3> QED
        BY <2>1, <2>2, <3>1 DEF RowsHaveHistory
    <2> QED
      BY <1>4, <2>3, <2>4 DEF Write
  <1> QED
    BY <1>1, <1>2, <1>3, <1>4 DEF Transaction

-----------------------------------------------------------------------------
(* The steps of local writes are steps of ResourceRevisions.               *)

\* A commit asks for the lock as a caller of the revision API does.
LEMMA PrepareCalls ==
  ASSUME RevisionsAssumption, LocalWritesAssumption, LInv,
         NEW c \in Commits, Prepare(c)
  PROVE  Next \/ UNCHANGED vars
  <1> DEFINE q == CommitOf[c]
             r == request[q].target
             operation == request[q].operation
             form == IF operation = "createObject" THEN "insert"
                     ELSE IF typed[r].present THEN "typed" ELSE "append"
             revision == IF operation = "delete" THEN "whiteout" ELSE "snapshot"
  <1>1. /\ q \in Requests
        /\ c \in Writers
        /\ c # None
        /\ commit[c] = "prepare"
        /\ write[c].at = "idle"
        /\ request[q].at # "none"
        /\ r \in Resources
    BY DEF LocalWritesAssumption, RevisionsAssumption, Prepare, LInv, CommitsOK,
           RequestsOK
  <1>2. CASE ~Preparable(q)
    BY <1>2 DEF Prepare, Refuse
  <1>3. CASE Preparable(q)
    <2>1. operation # "createObject" =>
            /\ request[q].expected = head[r]
            /\ typed[r].present => head[r] # 0
      <3>1. CASE operation = "create"
        <4>1. kind[r] = "unknown" /\ request[q].expected = 0
          BY <1>1, <1>3, <3>1 DEF Preparable, LInv, RequestsOK, Creates
        <4>2. head[r] = 0
          BY <1>1, <4>1 DEF LInv, Inv, HistoryWellFormed, HeadIsLatest
        <4> QED
          BY <1>1, <4>1, <4>2 DEF LInv, RowsHaveHistory
      <3>2. CASE operation \in {"edit", "delete"}
        BY <1>1, <1>3, <3>2 DEF Preparable, Loadable, LInv, RowsHaveHistory
      <3> QED
        BY <1>1, <3>1, <3>2 DEF LInv, LocalTypeOK, RequestRecord, Operations
    <2>2. operation = "createObject" =>
            request[q].expected = 0 /\ revision = "snapshot"
      BY <1>1 DEF LInv, RequestsOK, Creates
    <2>3. /\ form \in Forms
          /\ form = "insert" <=> operation = "createObject"
          /\ form = "typed" => operation # "createObject" /\ typed[r].present
      BY DEF Forms
    <2>4. write' = [write EXCEPT ![c] =
               [at |-> "lock", on |-> r, form |-> form, as |-> "object",
                revision |-> revision, document |-> c,
                expected |-> request[q].expected, previous |-> 0]]
          /\ UNCHANGED <<store, lock, rewrites>>
      BY <1>3 DEF Prepare
    <2> HIDE DEF form
    <2>5. Call(c, r, form, "object", revision, c)
      BY <1>1, <2>1, <2>2, <2>3, <2>4 DEF Call
    <2>6. revision \in {"snapshot", "whiteout"} /\ c \in {c, None}
      OBVIOUS
    <2> HIDE DEF revision
    <2> QED
      BY <1>1, <2>3, <2>5, <2>6 DEF Next, ResourceKinds
  <1> QED
    BY <1>2, <1>3

LEMMA LocalStep ==
  ASSUME RevisionsAssumption, LocalWritesAssumption, LInv, [LocalNext]_allVars
  PROVE  [Next]_vars
  <1>1. ASSUME NEW q \in Requests, Client(q)
        PROVE  UNCHANGED vars
    BY <1>1 DEF Client, Load, Allocate, Preview, Expire
  <1>2. ASSUME Revoke PROVE UNCHANGED vars
    BY <1>2 DEF Revoke
  <1>3. ASSUME NEW c \in Commits, Begin(c) \/ LockActor(c) \/ Permit(c)
        PROVE  UNCHANGED vars
    BY <1>3 DEF Begin, LockActor, Permit, Refuse
  <1>4. ASSUME NEW c \in Commits,
               LockTarget(c) \/ CheckTarget(c) \/ Save(c) \/ RollBack(c)
        PROVE  Next
    BY <1>4 DEF LockTarget, CheckTarget, Save, RollBack, Next, Transaction,
                LocalWritesAssumption
  <1>5. ASSUME NEW w \in Writers \ Commits, Direct(w)
        PROVE  Next
    <2>1. CASE Transaction(w) \/ Abort(w)
      BY <2>1 DEF Next
    <2>2. ASSUME NEW r \in Resources, NEW form \in {"append", "typed"},
                 NEW revision \in {"snapshot", "whiteout"},
                 Call(w, r, form, "object", revision, w)
          PROVE  Next
      BY <2>2 DEF Next, Forms, ResourceKinds
    <2> QED
      BY <1>5, <2>1, <2>2 DEF Direct
  <1>6. ASSUME NEW r \in Resources, Rewrite(r)
        PROVE  Next
    BY <1>6 DEF Next
  <1>7. CASE UNCHANGED allVars
    BY <1>7 DEF allVars
  <1> QED
    BY <1>1, <1>2, <1>3, <1>4, <1>5, <1>6, <1>7, PrepareCalls
    DEF LocalNext, Commit
-----------------------------------------------------------------------------
(* The invariant, one lemma per kind of step.                              *)

LEMMA LocalInitInv ==
  ASSUME RevisionsAssumption, LocalWritesAssumption, LocalInit
  PROVE  LInv
  <1>1. Inv
    BY InitInv DEF LocalInit
  <1>2. LocalTypeOK
    BY <1>1 DEF LocalTypeOK, Inv, LocalInit, NoRequest, RequestRecord,
                RequestPoints, Operations, CommitPoints
  <1>3. /\ \A c \in Commits : c \in Writers /\ commit[c] = "idle"
        /\ \A w \in Writers : write[w].at = "idle"
        /\ \A q \in Requests : request[q].at = "none"
        /\ \A q \in DOMAIN NewObject : q \in Requests /\ NewObject[q] \in Resources
        /\ \A r \in Resources : head[r] = 0 /\ ~typed[r].present
    BY DEF LocalInit, Init, Idle, NoRequest, NoRow, LocalWritesAssumption
  <1>4. RequestsOK /\ NewObjectsAreNew /\ CommitsOK /\ RowsHaveHistory
    BY <1>3 DEF RequestsOK, NewObjectsAreNew, CommitsOK, Holding, RowsHaveHistory
  <1>5. SavesOK /\ TokenSavesOnce /\ LateOK
    BY <1>3 DEF SavesOK, Saves, TokenSavesOnce, LateOK, LocalInit
  <1> QED
    BY <1>1, <1>2, <1>4, <1>5 DEF LInv

LEMMA AllocatedType ==
  ASSUME NEW x \in RequestRecord, NEW n \in Nat, NEW at \in RequestPoints
  PROVE  [x EXCEPT !.at = at, !.timestamp = n + 1] \in RequestRecord
  <1> DEFINE m == n + 1
             y == [x EXCEPT !.at = at]
  <1>1. m \in Nat
    OBVIOUS
  <1> HIDE DEF m
  <1>2. y \in RequestRecord
    BY DEF RequestRecord
  <1> HIDE DEF y
  <1>3. [y EXCEPT !.timestamp = m] \in RequestRecord
    BY <1>1, <1>2 DEF RequestRecord
  <1>4. [x EXCEPT !.at = at, !.timestamp = m] = [y EXCEPT !.timestamp = m]
    BY DEF y, RequestRecord
  <1> QED
    BY <1>3, <1>4 DEF m

\* What allocating, previewing and expiring leave of a request.
LEMMA ClientMoves ==
  ASSUME request \in [Requests -> RequestRecord], NEW q \in Requests,
         Allocate(q) \/ Preview(q) \/ Expire(q)
  PROVE  /\ request[q].at # "none"
         /\ request'[q].at # "none"
         /\ request'[q].operation = request[q].operation
         /\ request'[q].target = request[q].target
         /\ request'[q].expected = request[q].expected
         /\ \A p \in Requests : p # q => request'[p] = request[p]
  <1>0. request[q] \in RequestRecord
    OBVIOUS
  <1>1. CASE Allocate(q)
    <2>1. PICK at \in {"allocated", "denied"} :
            request'[q] = [request[q] EXCEPT !.at = at, !.timestamp = clock + 1]
      BY <1>1 DEF Allocate
    <2>2. /\ request[q].at = "loaded"
          /\ \A p \in Requests : p # q => request'[p] = request[p]
      BY <1>1 DEF Allocate
    <2> QED
      BY <1>0, <2>1, <2>2 DEF RequestRecord
  <1>2. CASE Preview(q) \/ Expire(q)
    <2>1. PICK at \in RequestPoints \ {"none"} :
            request' = [request EXCEPT ![q].at = at]
      BY <1>2 DEF Preview, Expire, RequestPoints
    <2>2. request[q].at # "none"
      BY <1>2 DEF Preview, Expire
    <2>3. request'[q] = [request[q] EXCEPT !.at = at]
      BY <2>1
    <2> QED
      BY <1>0, <2>1, <2>2, <2>3 DEF RequestRecord
  <1> QED
    BY <1>1, <1>2

\* A step of one client: only its own request moves.
LEMMA ClientInv ==
  ASSUME LocalWritesAssumption, LInv, Inv', NEW q \in Requests, Client(q)
  PROVE  LInv'
  <1> USE DEF LInv
  <1>0. request \in [Requests -> RequestRecord]
    BY DEF LocalTypeOK
  <1>1. /\ UNCHANGED vars
        /\ UNCHANGED <<member, actorLock, commit, outbox, saved, late>>
        /\ \A p \in Requests : p # q => request'[p] = request[p]
        /\ request'[q].at # "none"
    <2>1. CASE Allocate(q) \/ Preview(q) \/ Expire(q)
      BY <1>0, <2>1, ClientMoves DEF Allocate, Preview, Expire
    <2>2. ASSUME NEW operation \in Operations, NEW r \in Resources,
                 NEW publish \in BOOLEAN, Load(q, operation, r, publish)
          PROVE  /\ UNCHANGED vars
                 /\ UNCHANGED <<member, actorLock, commit, outbox, saved, late>>
                 /\ \A p \in Requests : p # q => request'[p] = request[p]
                 /\ request'[q].at # "none"
      BY <1>0, <2>2 DEF Load
    <2> QED
      BY <2>1, <2>2 DEF Client
  <1>2. CASE \E operation \in Operations, r \in Resources, publish \in BOOLEAN :
               Load(q, operation, r, publish)
    <2> PICK operation \in Operations, r \in Resources, publish \in BOOLEAN :
               Load(q, operation, r, publish)
      BY <1>2
    <2>1. /\ request[q].at = "none"
          /\ request' = [request EXCEPT ![q] =
               [at |-> "loaded", operation |-> operation, target |-> r,
                expected |-> head[r], publish |-> publish, timestamp |-> 0]]
          /\ clock' = clock
      BY DEF Load
    <2>2. request'[q] = [at |-> "loaded", operation |-> operation,
                         target |-> r, expected |-> head[r],
                         publish |-> publish, timestamp |-> 0]
      BY <2>1 DEF LocalTypeOK, RequestRecord
    <2>3. LocalTypeOK'
      <3>1. head[r] \in Nat
        BY DEF Inv, TypeOK
      <3>2. request' \in [Requests -> RequestRecord]
        BY <2>1, <3>1 DEF LocalTypeOK, RequestRecord, RequestPoints
      <3> QED
        BY <1>1, <2>1, <3>2 DEF LocalTypeOK, Inv
    <2>4. \/ operation \in {"edit", "delete"} /\ head[r] # 0
          \/ /\ operation \in {"create", "createObject"}
             /\ q \in DOMAIN NewObject /\ r = NewObject[q]
      BY DEF Load, Operations
    <2>5. RequestsOK'
      <3>1. operation \in {"create", "createObject"} => head[r] = 0
        BY <2>1, <2>4 DEF NewObjectsAreNew
      <3> QED
        BY <1>1, <2>2, <2>4, <3>1 DEF RequestsOK, Creates
    <2>6. NewObjectsAreNew'
      <3>1. \A p \in DOMAIN NewObject : request[p].at = "none" /\ p # q => r # NewObject[p]
        BY <2>4 DEF NewObjectsAreNew, LocalWritesAssumption
      <3> QED
        BY <1>1, <2>2, <3>1 DEF NewObjectsAreNew, vars
    <2>7. \A c \in Commits : CommitOf[c] = q => commit[c] = "idle"
      BY <2>1 DEF CommitsOK
    <2>8. CommitsOK' /\ SavesOK'
      <3>1. \A c \in Commits : CommitOf[c] \in Requests
        BY DEF LocalWritesAssumption
      <3> QED
        BY <1>1, <2>2, <2>7, <3>1 DEF CommitsOK, SavesOK, Saves, vars
    <2> QED
      BY <1>1, <2>3, <2>5, <2>6, <2>8
      DEF RowsHaveHistory, TokenSavesOnce, Saves, LateOK, vars
  <1>3. CASE Allocate(q) \/ Preview(q) \/ Expire(q)
    <2>1. /\ request[q].at # "none"
          /\ request'[q].operation = request[q].operation
          /\ request'[q].target = request[q].target
          /\ request'[q].expected = request[q].expected
      BY <1>0, <1>3, ClientMoves
    <2>2. LocalTypeOK'
      <3>1. clock \in Nat /\ clock' \in Nat /\ request[q] \in RequestRecord
        BY <1>3 DEF Allocate, Preview, Expire, LocalTypeOK
      <3>2. request' \in [Requests -> RequestRecord]
        <4>1. CASE Allocate(q)
          <5> DEFINE at == IF member THEN "allocated" ELSE "denied"
          <5>1. at \in RequestPoints
            BY DEF RequestPoints
          <5>2. request' = [request EXCEPT ![q] =
                  [@ EXCEPT !.at = at, !.timestamp = clock + 1]]
            BY <4>1 DEF Allocate
          <5> HIDE DEF at
          <5>3. [request[q] EXCEPT !.at = at, !.timestamp = clock + 1]
                  \in RequestRecord
            BY <3>1, <5>1, AllocatedType
          <5> QED
            BY <5>2, <5>3 DEF LocalTypeOK
        <4>2. CASE Preview(q) \/ Expire(q)
          <5>1. PICK at \in RequestPoints : request' = [request EXCEPT ![q].at = at]
            BY <4>2 DEF Preview, Expire, RequestPoints
          <5>2. [request[q] EXCEPT !.at = at] \in RequestRecord
            BY <3>1 DEF RequestRecord
          <5> QED
            BY <5>1, <5>2 DEF LocalTypeOK
        <4> QED
          BY <1>3, <4>1, <4>2
      <3> QED
        BY <1>1, <3>1, <3>2 DEF LocalTypeOK, Inv
    <2>3. RequestsOK' /\ NewObjectsAreNew'
      BY <1>1, <2>1 DEF RequestsOK, Creates, NewObjectsAreNew, vars
    <2>4. \A c \in Commits : CommitOf[c] \in Requests
      BY DEF LocalWritesAssumption
    <2>5. CommitsOK' /\ SavesOK'
      BY <1>1, <2>1, <2>4 DEF CommitsOK, SavesOK, Saves, vars
    <2> QED
      BY <1>1, <2>2, <2>3, <2>5
      DEF RowsHaveHistory, TokenSavesOnce, Saves, LateOK, vars
  <1> QED
    BY <1>2, <1>3 DEF Client

\* Revoking only ever takes the membership away.
LEMMA RevokeInv ==
  ASSUME LInv, Inv', Revoke
  PROVE  LInv'
  BY DEF Revoke, LInv, Inv, LocalTypeOK, RequestsOK, Creates, NewObjectsAreNew,
         CommitsOK, RowsHaveHistory, SavesOK, Saves, TokenSavesOnce, LateOK, vars

\* A step of a commit alone, before it asks for its object.
LEMMA CommitMoves ==
  ASSUME LocalWritesAssumption, LInv, Inv', NEW c \in Commits,
         UNCHANGED <<vars, member, request, outbox, saved, clock>>,
         NEW at \in CommitPoints \ {"idle", "write"}, Going(c, at),
         write[c].at = "idle",
         request[CommitOf[c]].at # "none",
         commit[c] = "idle" /\ request[CommitOf[c]].operation = "createObject" =>
           \A d \in Commits : CommitOf[d] = CommitOf[c] => commit[d] = "idle",
         \/ actorLock' = c /\ actorLock \in {c, None}
         \/ actorLock' = None /\ at \notin Holding /\ actorLock = c
         \/ actorLock' = actorLock /\ at \notin Holding,
         c \in late => at = "over" /\ ~member,
         \/ late' = late
         \/ late' = late \union {c} /\ at = "permit" /\ ~member
  PROVE  LInv'
  <1> USE DEF LInv
  <1>1. /\ commit'[c] = at
        /\ \A d \in Commits : d # c => commit'[d] = commit[d]
        /\ commit' \in [Commits -> CommitPoints]
    BY DEF Going, LocalTypeOK
  <1>2. LocalTypeOK'
    BY <1>1 DEF LocalTypeOK, Inv
  <1>3. RequestsOK' /\ NewObjectsAreNew' /\ RowsHaveHistory' /\ TokenSavesOnce'
    BY DEF RequestsOK, Creates, NewObjectsAreNew, RowsHaveHistory,
           TokenSavesOnce, Saves, vars
  <1>4. CommitsOK'
    <2>1. \A d \in Commits : d # c /\ commit[d] \in Holding => actorLock' = d
      <3>1. None \notin Commits
        BY RevisionsAssumption, LocalWritesAssumption DEF RevisionsAssumption,
           LocalWritesAssumption
      <3> QED
        BY <3>1 DEF CommitsOK
    <2> QED
      BY <1>1, <2>1 DEF CommitsOK, vars, Holding
  <1>5. SavesOK'
    BY <1>1 DEF SavesOK, Saves, vars
  <1>6. LateOK'
    <2>1. \A d \in late : d \in Commits
      BY DEF LocalTypeOK
    <2> QED
      BY <1>1, <2>1 DEF LateOK, vars
  <1> QED
    BY <1>2, <1>3, <1>4, <1>5, <1>6, Inv'

LEMMA BeforeWriteInv ==
  ASSUME RevisionsAssumption, LocalWritesAssumption, LInv, Inv',
         NEW c \in Commits, Begin(c) \/ LockActor(c) \/ Permit(c)
  PROVE  LInv'
  <1>1. /\ UNCHANGED <<vars, member, request, outbox, saved, clock>>
        /\ write[c].at = "idle"
        /\ request[CommitOf[c]].at # "none"
        /\ c \in late => commit[c] \in {"permit", "over"} /\ ~member
    BY DEF Begin, LockActor, Permit, Refuse, LInv, CommitsOK, LateOK
  <1>2. CASE Begin(c)
    <2>1. /\ c \notin late
          /\ late' = late
          /\ request[CommitOf[c]].operation = "createObject" =>
               \A d \in Commits : CommitOf[d] = CommitOf[c] => commit[d] = "idle"
      BY <1>1, <1>2 DEF Begin
    <2>2. PICK at \in {"actor", "over"} : Going(c, at)
      BY <1>2 DEF Begin, Refuse
    <2>3. \/ actorLock' = actorLock
          \/ actorLock' = None /\ actorLock = c
      BY <1>2 DEF Begin, Refuse
    <2>4. at \in CommitPoints \ {"idle", "write"} /\ at \notin Holding
      BY DEF CommitPoints, Holding
    <2> QED
      BY <1>1, <2>1, <2>2, <2>3, <2>4, CommitMoves
  <1>3. CASE LockActor(c)
    <2>1. /\ commit[c] = "actor"
          /\ actorLock = None
          /\ actorLock' = c
          /\ Going(c, "permit")
          /\ late' = IF member THEN late ELSE late \union {c}
      BY <1>3 DEF LockActor
    <2>2. \/ late' = late
          \/ late' = late \union {c} /\ ~member
      BY <2>1
    <2>3. "permit" \in CommitPoints \ {"idle", "write"}
      BY DEF CommitPoints
    <2> QED
      BY <1>1, <2>1, <2>2, <2>3, CommitMoves
  <1>4. CASE Permit(c)
    <2>1. commit[c] = "permit" /\ actorLock = c /\ late' = late
      BY <1>4 DEF Permit, LInv, CommitsOK, Holding
    <2>2. CASE member
      <3>1. Going(c, "prepare") /\ actorLock' = c /\ c \notin late
        BY <1>1, <1>4, <2>1, <2>2 DEF Permit
      <3>2. "prepare" \in CommitPoints \ {"idle", "write"}
        BY DEF CommitPoints
      <3> QED
        BY <1>1, <2>1, <3>1, <3>2, CommitMoves
    <2>3. CASE ~member
      <3>1. Going(c, "over") /\ actorLock' = None
        BY <1>4, <2>1, <2>3 DEF Permit, Refuse
      <3>2. "over" \in CommitPoints \ {"idle", "write"} /\ "over" \notin Holding
        BY DEF CommitPoints, Holding
      <3> QED
        BY <1>1, <2>1, <2>3, <3>1, <3>2, CommitMoves
    <2> QED
      BY <2>2, <2>3
  <1> QED
    BY <1>2, <1>3, <1>4

\* A commit asks for its object: only its own request, write and place move.
LEMMA PrepareInv ==
  ASSUME RevisionsAssumption, LocalWritesAssumption, LInv, Inv',
         NEW c \in Commits, Prepare(c)
  PROVE  LInv'
  <1> DEFINE q == CommitOf[c]
  <1>1. /\ q \in Requests
        /\ c \in Writers
        /\ commit[c] = "prepare"
        /\ write[c].at = "idle"
        /\ actorLock = c
        /\ request[q].at # "none"
        /\ request[q].target \in Resources
        /\ c \notin late
    BY DEF LocalWritesAssumption, Prepare, LInv, CommitsOK, RequestsOK, Holding,
           LateOK
  <1>2. /\ UNCHANGED <<store, member, outbox, saved, late>>
        /\ request \in [Requests -> RequestRecord]
        /\ commit \in [Commits -> CommitPoints]
        /\ clock \in Nat
    BY DEF Prepare, Refuse, vars, store, LInv, LocalTypeOK
  <1>3. \/ /\ Preparable(q)
           /\ Going(c, "write")
           /\ actorLock' = actorLock
           /\ write'[c].at = "lock"
           /\ write'[c].on = request[q].target
        \/ /\ Going(c, "over")
           /\ actorLock' = None
           /\ write'[c] = write[c]
    <2>1. CASE Preparable(q)
      BY <1>1, <2>1 DEF Prepare, LInv, Inv, TypeOK
    <2>2. CASE ~Preparable(q)
      BY <1>1, <2>2 DEF Prepare, Refuse, vars
    <2> QED
      BY <2>1, <2>2
  <1>4. /\ \A d \in Commits : d # c => commit'[d] = commit[d]
        /\ commit' \in [Commits -> CommitPoints]
        /\ commit'[c] \in {"write", "over"}
    BY <1>2, <1>3 DEF Going, CommitPoints
  <1>5. \A w \in Writers : w # c => write'[w] = write[w]
    BY <1>1 DEF Prepare, Refuse, vars, LInv, Inv, TypeOK
  <1>6. /\ \A p \in Requests : /\ request'[p].at = request[p].at
                                /\ request'[p].operation = request[p].operation
                                /\ request'[p].target = request[p].target
                                /\ request'[p].expected = request[p].expected
        /\ request' \in [Requests -> RequestRecord]
        /\ clock' \in Nat
    <2>1. CASE UNCHANGED <<request, clock>>
      BY <1>2, <2>1
    <2>2. CASE /\ request' = [request EXCEPT ![q].timestamp = clock + 1]
               /\ clock' = clock + 1
      <3> DEFINE t == clock + 1
      <3>1. t \in Nat /\ request[q] \in RequestRecord
        BY <1>1, <1>2
      <3>2. request' = [request EXCEPT ![q].timestamp = t] /\ clock' = t
        BY <2>2
      <3> HIDE DEF t
      <3>3. [request[q] EXCEPT !.timestamp = t] \in RequestRecord
        BY <3>1 DEF RequestRecord
      <3>4. request'[q] = [request[q] EXCEPT !.timestamp = t]
        BY <1>1, <1>2, <3>2
      <3>5. request' \in [Requests -> RequestRecord]
        BY <1>1, <1>2, <3>2, <3>3
      <3>6. /\ request'[q].at = request[q].at
            /\ request'[q].operation = request[q].operation
            /\ request'[q].target = request[q].target
            /\ request'[q].expected = request[q].expected
        BY <3>1, <3>4 DEF RequestRecord
      <3>7. \A p \in Requests : p # q => request'[p] = request[p]
        BY <1>1, <1>2, <3>2
      <3> QED
        BY <3>1, <3>2, <3>5, <3>6, <3>7
    <2> QED
      BY <2>1, <2>2 DEF Prepare
  <1>7. LocalTypeOK'
    BY <1>1, <1>2, <1>3, <1>4, <1>6 DEF LInv, Inv, LocalTypeOK
  <1>8. RequestsOK' /\ NewObjectsAreNew'
    <2>1. RequestsOK'
      BY <1>6 DEF LInv, RequestsOK, Creates
    <2>2. \A p \in DOMAIN NewObject : request[p].at = "none" =>
            request[q].target # NewObject[p]
      BY <1>1 DEF LInv, NewObjectsAreNew
    <2>3. head' = head
      BY <1>2 DEF store
    <2>4. \A p \in DOMAIN NewObject : request[p].at = "none" =>
            \A w \in Writers : write'[w].at # "idle" =>
              write'[w].on # NewObject[p]
      BY <1>3, <1>5, <2>2 DEF LInv, NewObjectsAreNew
    <2>5. NewObjectsAreNew'
      BY <1>6, <2>3, <2>4 DEF LInv, NewObjectsAreNew
    <2> QED
      BY <2>1, <2>5
  <1>9. CommitsOK'
    <2>1. \A d \in Commits : d # c => commit[d] \notin Holding
      BY <1>1 DEF LInv, CommitsOK
    <2>2. \A d \in Commits : d \in Writers /\ CommitOf[d] \in Requests
      BY DEF LocalWritesAssumption
    <2> QED
      BY <1>1, <1>3, <1>4, <1>5, <1>6, <2>1, <2>2 DEF LInv, CommitsOK, Holding, Going
  <1>10. SavesOK' /\ TokenSavesOnce'
    <2>1. commit'[c] = "write" /\ request[q].operation # "createObject" =>
            q \notin saved
      BY <1>1, <1>2, <1>3 DEF Preparable, Going, RequestRecord, Operations
    <2>2. \A d \in Commits : d \in Writers /\ CommitOf[d] \in Requests
      BY DEF LocalWritesAssumption
    <2>3. \A d \in Commits : Saves(d)' <=> Saves(d)
      BY <1>1, <1>3, <1>5, <2>2 DEF Saves
    <2>4. TokenSavesOnce'
      BY <2>3 DEF LInv, TokenSavesOnce
    <2>5. \A d \in Commits : commit'[d] # "idle" <=> commit[d] # "idle"
      BY <1>1, <1>4
    <2>6. ~Saves(c)
      BY <1>1 DEF Saves
    <2>7. SavesOK'
      BY <1>2, <1>4, <1>6, <2>1, <2>2, <2>3, <2>5, <2>6 DEF LInv, SavesOK
    <2> QED
      BY <2>4, <2>7
  <1>11. LateOK'
    <2>1. \A d \in late : d \in Commits /\ d \in Writers
      BY DEF LInv, LocalTypeOK, LocalWritesAssumption
    <2> QED
      BY <1>1, <1>2, <1>4, <1>5, <2>1 DEF LInv, LateOK
  <1>12. RowsHaveHistory'
    BY <1>2 DEF LInv, RowsHaveHistory, store
  <1> QED
    BY <1>7, <1>8, <1>9, <1>10, <1>11, <1>12 DEF LInv

\* A step of any transaction keeps what concerns resources.
LEMMA ResourcesKept ==
  ASSUME LocalWritesAssumption, LInv, NEW w \in Writers,
         Transaction(w) \/ Abort(w), UNCHANGED request
  PROVE  RequestsOK' /\ NewObjectsAreNew' /\ RowsHaveHistory'
  <1>1. RequestsOK'
    BY DEF LInv, RequestsOK, Creates
  <1>2. /\ write[w].at # "idle"
        /\ write'[w].on = write[w].on
        /\ \A x \in Writers : x # w => write'[x] = write[x]
        /\ \A r \in Resources : r # write[w].on => head'[r] = head[r]
        /\ RowsHaveHistory'
    BY TransactionStep
  <1>3. \A q \in DOMAIN NewObject : q \in Requests /\ NewObject[q] \in Resources
    BY DEF LocalWritesAssumption
  <1>4. NewObjectsAreNew'
    BY <1>2, <1>3 DEF LInv, NewObjectsAreNew
  <1> QED
    BY <1>1, <1>2, <1>4

LEMMA TransactionInv ==
  ASSUME RevisionsAssumption, LocalWritesAssumption, LInv, Inv',
         NEW c \in Commits,
         LockTarget(c) \/ CheckTarget(c) \/ Save(c) \/ RollBack(c)
  PROVE  LInv'
  <1> DEFINE q == CommitOf[c]
  <1>1. /\ Transaction(c) \/ Abort(c)
        /\ UNCHANGED <<member, request, clock, late>>
        /\ c \in Writers
        /\ q \in Requests
    BY DEF LockTarget, CheckTarget, Save, RollBack, Transaction,
           LocalWritesAssumption, localVars
  <1>2. /\ write[c].at \in {"lock", "check", "write"}
        /\ write'[c].at # "idle"
        /\ \A x \in Writers : x # c => write'[x] = write[x]
    BY <1>1, TransactionStep
  <1>3. /\ commit[c] = "write"
        /\ actorLock = c
        /\ c \notin late
    BY <1>2 DEF LInv, CommitsOK, LateOK, Holding
  <1>4. write'[c].at \in Points
    BY <1>1 DEF LInv, Inv, TypeOK, WriteRecord
  <1>5. \/ /\ write'[c].at \in Ended
           /\ Going(c, "over")
           /\ actorLock' = None
        \/ /\ write'[c].at \notin Ended
           /\ UNCHANGED <<commit, actorLock>>
    <2>1. CASE LockTarget(c)
      <3>1. write'[c].at = "check"
        BY <1>1, <2>1 DEF LockTarget, Lock, LInv, Inv, TypeOK
      <3> QED
        BY <2>1, <3>1 DEF LockTarget, localVars, Ended
    <2>2. CASE ReleaseActor(c)
      BY <1>3, <2>2 DEF ReleaseActor
    <2> QED
      BY <2>1, <2>2 DEF CheckTarget, Save, RollBack
  <1>6. \/ write'[c].at = "done" /\ saved' = saved \union {q}
        \/ write'[c].at # "done" /\ saved' = saved
    <2>1. CASE LockTarget(c)
      <3>1. write'[c].at = "check"
        BY <1>1, <2>1 DEF LockTarget, Lock, LInv, Inv, TypeOK
      <3> QED
        BY <2>1, <3>1 DEF LockTarget, localVars
    <2>2. CASE CheckTarget(c)
      <3>1. write'[c].at \in {"refused", "write"}
        BY <1>1, <2>2 DEF CheckTarget, Check, End, LInv, Inv, TypeOK, WriteRecord
      <3> QED
        BY <2>2, <3>1 DEF CheckTarget
    <2>3. CASE Save(c)
      BY <2>3 DEF Save
    <2>4. CASE RollBack(c)
      <3>1. write'[c].at = "aborted"
        BY <1>1, <2>4 DEF RollBack, Abort, End, LInv, Inv, TypeOK, WriteRecord
      <3> QED
        BY <2>4, <3>1 DEF RollBack
    <2> QED
      BY <2>1, <2>2, <2>3, <2>4
  <1>7. /\ \A d \in Commits : d # c => commit'[d] = commit[d]
        /\ commit' \in [Commits -> CommitPoints]
        /\ commit'[c] \in {"write", "over"}
        /\ write'[c].at \in Ended <=> commit'[c] = "over"
    BY <1>3, <1>5 DEF LInv, LocalTypeOK, Going, CommitPoints
  <1>8. \A d \in Commits : d \in Writers /\ CommitOf[d] \in Requests
    BY DEF LocalWritesAssumption
  <1>9. LocalTypeOK'
    <2>1. outbox' \in Seq(Requests)
      <3>1. <<q>> \o outbox \in Seq(Requests)
        BY <1>1 DEF LInv, LocalTypeOK
      <3>2. outbox' \in {outbox, <<q>> \o outbox}
        BY DEF LockTarget, CheckTarget, Save, RollBack, AddToOutbox, localVars
      <3> QED
        BY <3>1, <3>2 DEF LInv, LocalTypeOK
    <2>2. saved' \in SUBSET Requests
      BY <1>1, <1>6 DEF LInv, LocalTypeOK
    <2>3. actorLock' \in Commits \union {None}
      BY <1>3, <1>5
    <2> QED
      BY <1>1, <1>7, <2>1, <2>2, <2>3 DEF LInv, Inv, LocalTypeOK
  <1>10. RequestsOK' /\ NewObjectsAreNew' /\ RowsHaveHistory'
    BY <1>1, ResourcesKept
  <1>11. CommitsOK'
    <2>1. \A d \in Commits : d # c => commit[d] \notin Holding
      BY <1>3 DEF LInv, CommitsOK
    <2>2. commit'[c] = "write" => actorLock' = c
      BY <1>3, <1>5 DEF Going, LInv, LocalTypeOK
    <2>3. commit'[c] # "over" => write'[c].at \notin Ended
      BY <1>7
    <2>4. commit'[c] = "over" => write'[c].at \notin {"lock", "check", "write"}
      BY <1>7 DEF Ended
    <2>5. request[CommitOf[c]].at # "none"
      BY <1>3 DEF LInv, CommitsOK
    <2> QED
      BY <1>1, <1>2, <1>7, <1>8, <2>1, <2>2, <2>4, <2>5 DEF LInv, CommitsOK, Holding
  <1>12. SavesOK'
    <2>1. \A d \in Commits : d # c /\ commit[d] = "write" => FALSE
      BY <1>3 DEF LInv, CommitsOK, Holding
    <2>2. Saves(c)' => q \in saved' /\ commit'[c] = "over"
      BY <1>6, <1>7 DEF Saves, Ended
    <2>3. commit'[c] = "write" /\ request'[q].operation # "createObject" =>
            q \notin saved'
      <3>1. commit'[c] = "write" => saved' = saved
        BY <1>6, <1>7 DEF Ended
      <3> QED
        BY <1>1, <1>3, <3>1 DEF LInv, SavesOK
    <2>4. \A d \in Commits : d # c =>
            /\ Saves(d)' <=> Saves(d)
            /\ CommitOf[d] \in saved => CommitOf[d] \in saved'
      BY <1>2, <1>6, <1>8 DEF Saves
    <2>5. \A d \in Commits : commit'[d] # "idle" <=> commit[d] # "idle"
      BY <1>3, <1>7
    <2> QED
      BY <1>1, <1>7, <2>1, <2>2, <2>3, <2>4, <2>5 DEF LInv, SavesOK
  <1>13. TokenSavesOnce'
    <2>1. \A d \in Commits : d # c /\ Saves(d) /\ CommitOf[d] = q =>
            ~(write'[c].at = "done")
      <3>1. CASE request[q].operation = "createObject"
        BY <1>3, <3>1 DEF LInv, SavesOK
      <3>2. CASE request[q].operation # "createObject"
        BY <1>3, <3>2 DEF LInv, SavesOK
      <3> QED
        BY <3>1, <3>2
    <2>2. \A d \in Commits : d # c => (Saves(d)' <=> Saves(d))
      BY <1>2, <1>8 DEF Saves
    <2>3. Saves(c)' <=> write'[c].at = "done"
      BY DEF Saves
    <2> QED
      BY <2>1, <2>2, <2>3 DEF LInv, TokenSavesOnce
  <1>14. LateOK'
    <2>1. \A d \in late : d \in Commits /\ d \in Writers
      BY <1>8 DEF LInv, LocalTypeOK
    <2> QED
      BY <1>1, <1>2, <1>3, <1>7, <2>1 DEF LInv, LateOK
  <1> QED
    BY <1>9, <1>10, <1>11, <1>12, <1>13, <1>14 DEF LInv

\* A direct caller changes nothing of the local writes.
LEMMA DirectInv ==
  ASSUME RevisionsAssumption, LocalWritesAssumption, LInv, Inv',
         NEW w \in Writers \ Commits, Direct(w)
  PROVE  LInv'
  <1>1. UNCHANGED localVars
    BY DEF Direct
  <1>2. \A x \in Writers : x # w => write'[x] = write[x]
    <2>1. CASE Transaction(w) \/ Abort(w)
      BY <2>1, TransactionStep
    <2>2. CASE \E r \in Resources, form \in {"append", "typed"},
                  revision \in {"snapshot", "whiteout"} :
                 head[r] # 0 /\ Call(w, r, form, "object", revision, w)
      BY <2>2 DEF Call, LInv, Inv, TypeOK
    <2> QED
      BY <2>1, <2>2 DEF Direct
  <1>3. \A c \in Commits : c \in Writers /\ c # w
    BY DEF LocalWritesAssumption
  <1>4. LocalTypeOK' /\ RequestsOK'
    BY <1>1 DEF LInv, Inv, LocalTypeOK, RequestsOK, Creates, localVars
  <1>5. CommitsOK' /\ SavesOK' /\ TokenSavesOnce'
    BY <1>1, <1>2, <1>3 DEF LInv, CommitsOK, SavesOK, Saves, TokenSavesOnce,
                            localVars
  <1>6. LateOK'
    <2>1. \A c \in late : c \in Commits
      BY DEF LInv, LocalTypeOK
    <2> QED
      BY <1>1, <1>2, <1>3, <2>1 DEF LInv, LateOK, localVars
  <1>7. NewObjectsAreNew' /\ RowsHaveHistory'
    <2>1. CASE Transaction(w) \/ Abort(w)
      BY <1>1, <2>1, ResourcesKept DEF localVars
    <2>2. ASSUME NEW r \in Resources, NEW form \in {"append", "typed"},
                 NEW revision \in {"snapshot", "whiteout"},
                 head[r] # 0, Call(w, r, form, "object", revision, w)
          PROVE  NewObjectsAreNew' /\ RowsHaveHistory'
      <3>1. write'[w].on = r
        BY <2>2 DEF Call, LInv, Inv, TypeOK
      <3>2. UNCHANGED <<store, request>>
        BY <1>1, <2>2 DEF Call, localVars
      <3> QED
        BY <1>2, <2>2, <3>1, <3>2
        DEF LInv, NewObjectsAreNew, RowsHaveHistory, store
    <2> QED
      BY <2>1, <2>2 DEF Direct
  <1> QED
    BY <1>4, <1>5, <1>6, <1>7 DEF LInv

LEMMA RowsInv ==
  ASSUME LInv, Inv', UNCHANGED localVars,
         UNCHANGED vars \/ \E r \in Resources : Rewrite(r)
  PROVE  LInv'
  <1>1. UNCHANGED <<head, write>>
    BY DEF vars, Rewrite
  <1>2. RowsHaveHistory'
    <2>1. CASE UNCHANGED vars
      BY <2>1 DEF vars, LInv, RowsHaveHistory
    <2>2. ASSUME NEW r \in Resources, Rewrite(r)
          PROVE  RowsHaveHistory'
      <3>1. /\ typed[r].present
            /\ \A s \in Resources : s # r => typed'[s] = typed[s]
        BY <2>2 DEF Rewrite, LInv, Inv, TypeOK
      <3> QED
        BY <1>1, <3>1 DEF LInv, RowsHaveHistory
    <2> QED
      BY <2>1, <2>2
  <1>3. LocalTypeOK' /\ RequestsOK' /\ NewObjectsAreNew' /\ CommitsOK'
    BY <1>1 DEF LInv, Inv, LocalTypeOK, RequestsOK, Creates, NewObjectsAreNew,
                CommitsOK, localVars
  <1>4. SavesOK' /\ TokenSavesOnce' /\ LateOK'
    BY <1>1 DEF LInv, SavesOK, Saves, TokenSavesOnce, LateOK, localVars
  <1> QED
    BY <1>2, <1>3, <1>4 DEF LInv

LEMMA LocalNextInv ==
  ASSUME RevisionsAssumption, LocalWritesAssumption, LInv, [LocalNext]_allVars
  PROVE  LInv'
  <1>1. Inv'
    BY LocalStep, NextInv DEF LInv
  <1>2. CASE UNCHANGED allVars
    BY <1>1, <1>2, RowsInv DEF allVars
  <1>3. CASE \E r \in Resources : Rewrite(r) /\ UNCHANGED localVars
    BY <1>1, <1>3, RowsInv
  <1> QED
    BY <1>1, <1>2, <1>3, ClientInv, RevokeInv, BeforeWriteInv, PrepareInv,
       TransactionInv, DirectInv
    DEF LocalNext, Commit

-----------------------------------------------------------------------------
(* The theorems.                                                           *)

LEMMA LocalInvariance == LocalSpec => []LInv
  <1>1. LocalInit => LInv
    BY RevisionsAssumption, LocalWritesAssumption, LocalInitInv
  <1>2. LInv /\ [LocalNext]_allVars => LInv'
    BY RevisionsAssumption, LocalWritesAssumption, LocalNextInv
  <1> QED
    BY <1>1, <1>2, PTL DEF LocalSpec

\* Local writes reach the history by transactions of ResourceRevisions alone:
\* between a commit's unlocked preparation and its lock nothing it could do
\* is outside what any caller of the revision API may do.
THEOREM CommitsImplement == LocalSpec => CommitsAreTransactions
  <1>1. LocalInit => Init
    BY DEF LocalInit
  <1>2. LInv /\ [LocalNext]_allVars => [Next]_vars
    BY RevisionsAssumption, LocalWritesAssumption, LocalStep
  <1> QED
    BY <1>1, <1>2, LocalInvariance, PTL DEF LocalSpec, CommitsAreTransactions, Spec

\* So what is proved of every transaction holds of local writes: no trigger
\* refuses a commit, and typed rows stay in step with their history.
THEOREM LocalWritesKeepStep == LocalSpec => [](NoGuardFires /\ TypedInStep)
  BY CommitsImplement, TriggersNeverRefuse, TypedRowsStayInStep, PTL
  DEF CommitsAreTransactions

\* However often and however concurrently a token is committed, it saves once.
THEOREM TokensSaveOnce == LocalSpec => []TokenSavesOnce
  BY LocalInvariance, PTL DEF LInv

\* A commit that waited for the actor's lock sees a revocation made meanwhile.
THEOREM RevocationIsSeen == LocalSpec => []NoWriteAfterRevocation
  <1>1. LInv => NoWriteAfterRevocation
    BY DEF LInv, LateOK, NoWriteAfterRevocation, Saves
  <1> QED
    BY <1>1, LocalInvariance, PTL

-----------------------------------------------------------------------------
(* What the histories and the outbox tell.  A preview allocates its         *)
(* timestamp after its client learned the revision it expects, StampsOK;    *)
(* and a commit's revision and its outbox item are its own, RevisionsOK.    *)

\* What a transaction of a commit asks for is what its request names.
WritesOK ==
  \A c \in Commits : write[c].at # "idle" =>
    LET q == CommitOf[c] IN
    /\ write[c].on = request[q].target
    /\ write[c].expected = request[q].expected
    /\ write[c].form = "insert" <=> request[q].operation = "createObject"

\* A preview precedes a commit, except for the mutation that has none.
PreviewsOK ==
  \A c \in Commits : commit[c] # "idle" =>
    \/ request[CommitOf[c]].operation = "createObject"
    \/ request[CommitOf[c]].at \in {"previewed", "expired"}

\* A revision by a commit is one that it saved.
RevisionsOK ==
  \A r \in Resources : \A n \in DOMAIN history[r] : ByCommit(r, n) =>
    Saves(Change(r, n)) /\ write[Change(r, n)].on = r

Stamp(r, n) == request[CommitOf[Change(r, n)]].timestamp

\* A preview's timestamp is later than those of the revisions its client knew.
StampsOK ==
  \A q \in Requests : request[q].at # "none" =>
    /\ request[q].timestamp <= clock
    /\ request[q].expected <= head[request[q].target]
    /\ request[q].at \in {"allocated", "previewed", "expired"} =>
         \A n \in DOMAIN history[request[q].target] :
           n <= request[q].expected /\ ByCommit(request[q].target, n) =>
             Stamp(request[q].target, n) < request[q].timestamp

\* Until a request creates its object, nobody else can name it.
UnsavedOK ==
  \A q \in DOMAIN NewObject :
    /\ request[q].at # "none"
    /\ Creates(q)
    /\ \A c \in Commits : CommitOf[c] = q => ~Saves(c)
    => /\ head[NewObject[q]] = 0
       /\ \A w \in Writers : write[w].at # "idle" /\ write[w].on = NewObject[q] =>
            w \in Commits /\ CommitOf[w] = q

KindsOK == \A r \in Resources : head[r] = 0 => kind[r] = "unknown"

AnnouncedOK == \A q \in Requests : Announced(q) => request[q].at # "none"

TellsOK ==
  /\ WritesOK
  /\ PreviewsOK
  /\ RevisionsOK
  /\ StampsOK
  /\ UnsavedOK
  /\ KindsOK
  /\ AnnouncedOK

TellInv == TellsOK /\ UpdatedAdvances /\ OutboxTellsHistory

LEMMA TellInitially == ASSUME LocalWritesAssumption, LocalInit PROVE TellInv
  <1>1. /\ \A c \in Commits : c \in Writers /\ commit[c] = "idle"
        /\ \A w \in Writers : write[w].at = "idle"
        /\ \A q \in Requests : request[q].at = "none"
        /\ \A r \in Resources : /\ head[r] = 0 /\ kind[r] = "unknown"
                                /\ history[r] = <<>>
        /\ outbox = <<>>
    BY DEF LocalInit, Init, Idle, NoRequest, LocalWritesAssumption
  <1>2. TellsOK
    BY <1>1 DEF TellsOK, WritesOK, PreviewsOK, RevisionsOK, StampsOK, UnsavedOK, KindsOK,
                AnnouncedOK, Announced
  <1>3. UpdatedAdvances /\ OutboxTellsHistory
    BY <1>1 DEF UpdatedAdvances, OutboxTellsHistory, ChangesAreAnnounced,
                OutboxFollowsHistory, Announced
  <1> QED
    BY <1>2, <1>3 DEF TellInv

\* What is known of the commit that made a revision, and of its request.
LEMMA RevisionFacts ==
  ASSUME LocalWritesAssumption, LInv, TellInv, NEW r \in Resources,
         NEW n \in DOMAIN history[r], ByCommit(r, n)
  PROVE  LET c == Change(r, n)
             q == CommitOf[c]
         IN /\ c \in Commits /\ c \in Writers /\ q \in Requests
            /\ Saves(c) /\ commit[c] = "over"
            /\ write[c].on = r /\ request[q].target = r
            /\ request[q].at # "none"
            /\ \/ request[q].operation = "createObject"
               \/ request[q].at \in {"previewed", "expired"}
            /\ request[q].timestamp \in Nat /\ request[q].timestamp <= clock
  <1> DEFINE c == Change(r, n)
             q == CommitOf[c]
  <1>1. c \in Commits /\ c \in Writers /\ q \in Requests
    BY DEF ByCommit, LocalWritesAssumption
  <1>2. Saves(c) /\ write[c].on = r
    BY DEF TellInv, TellsOK, RevisionsOK
  <1>3. commit[c] = "over"
    BY <1>1, <1>2 DEF LInv, SavesOK
  <1>4. request[q].at # "none"
    BY <1>1, <1>3 DEF LInv, CommitsOK
  <1>5. request[q].target = r
    BY <1>1, <1>2 DEF TellInv, TellsOK, WritesOK, Saves
  <1>6. \/ request[q].operation = "createObject"
        \/ request[q].at \in {"previewed", "expired"}
    BY <1>1, <1>3 DEF TellInv, TellsOK, PreviewsOK
  <1>7. request[q].timestamp \in Nat /\ request[q].timestamp <= clock
    BY <1>1, <1>4 DEF TellInv, TellsOK, StampsOK, LInv, LocalTypeOK, RequestRecord
  <1> QED
    BY <1>1, <1>2, <1>3, <1>4, <1>5, <1>6, <1>7

\* What the histories tell stays while the store, the outbox and the requests
\* whose revisions are saved do.
LEMMA StoryKept ==
  ASSUME LocalWritesAssumption, LInv, TellInv,
         UNCHANGED <<history, head, kind, outbox>>,
         \A q \in Requests : request[q].at # "none" => request'[q].at # "none",
         \A r \in Resources : \A n \in DOMAIN history[r] : ByCommit(r, n) =>
           LET q == CommitOf[Change(r, n)] IN
           /\ request'[q].timestamp = request[q].timestamp
           /\ request'[q].publish = request[q].publish
           /\ request'[q].target = request[q].target
  PROVE  UpdatedAdvances' /\ OutboxTellsHistory' /\ KindsOK' /\ AnnouncedOK'
  <1>1. /\ \A r, n : Change(r, n)' = Change(r, n) /\ ByCommit(r, n)' = ByCommit(r, n)
        /\ \A q : Announced(q)' <=> Announced(q)
    BY DEF Change, ByCommit, Announced
  <1>2. UpdatedAdvances'
    BY <1>1 DEF TellInv, UpdatedAdvances
  <1>3. ChangesAreAnnounced'
    <2>1. \A r \in Resources : \A n \in DOMAIN history[r] :
            ByCommit(r, n) /\ request[CommitOf[Change(r, n)]].publish
              => Announced(CommitOf[Change(r, n)])
      BY DEF TellInv, OutboxTellsHistory, ChangesAreAnnounced
    <2>2. ASSUME NEW q \in Requests, Announced(q)
          PROVE  \E n \in DOMAIN history[request'[q].target] :
                   /\ ByCommit(request'[q].target, n)
                   /\ CommitOf[Change(request'[q].target, n)] = q
      <3>1. PICK n \in DOMAIN history[request[q].target] :
              /\ ByCommit(request[q].target, n)
              /\ CommitOf[Change(request[q].target, n)] = q
        BY <2>2 DEF TellInv, OutboxTellsHistory, ChangesAreAnnounced
      <3>2. request[q].target \in Resources
        BY <2>2 DEF TellInv, TellsOK, AnnouncedOK, LInv, RequestsOK
      <3>3. request'[q].target = request[q].target
        BY <3>1, <3>2
      <3> QED
        BY <3>1, <3>3
    <2>3. \A r \in Resources : \A n \in DOMAIN history[r] :
            ByCommit(r, n) /\ request'[CommitOf[Change(r, n)]].publish
              => Announced(CommitOf[Change(r, n)])
      BY <2>1
    <2> QED
      BY <2>2, <2>3 DEF ChangesAreAnnounced, ByCommit, Change, Announced
  <1>4. OutboxFollowsHistory'
    BY <1>1 DEF TellInv, OutboxTellsHistory, OutboxFollowsHistory
  <1>5. KindsOK'
    BY DEF TellInv, TellsOK, KindsOK
  <1>6. AnnouncedOK'
    BY <1>1 DEF TellInv, TellsOK, AnnouncedOK
  <1> QED
    BY <1>2, <1>3, <1>4, <1>5, <1>6 DEF OutboxTellsHistory

\* The client's step changes its own request alone, before it has a commit or
\* without touching what a commit reads.
LEMMA LoadTells ==
  ASSUME LocalWritesAssumption, LInv, TellInv, NEW q \in Requests,
         NEW operation \in Operations, NEW r \in Resources,
         NEW publish \in BOOLEAN, Load(q, operation, r, publish)
  PROVE  TellInv'
  <1>1. request \in [Requests -> RequestRecord] /\ head[r] \in Nat /\ clock \in Nat
    BY DEF LInv, Inv, TypeOK, LocalTypeOK
  <1>2. /\ request[q].at = "none"
        /\ UNCHANGED <<vars, commit, outbox, clock>>
        /\ UNCHANGED <<history, head, kind, write>>
        /\ \A p \in Requests : p # q => request'[p] = request[p]
        /\ request'[q] = [at |-> "loaded", operation |-> operation, target |-> r,
                          expected |-> head[r], publish |-> publish, timestamp |-> 0]
    BY <1>1 DEF Load, vars
  <1>3. \A c \in Commits : commit[c] # "idle" => CommitOf[c] # q /\ CommitOf[c] \in Requests
    BY <1>2 DEF LInv, CommitsOK, LocalWritesAssumption
  <1>4. \A c \in Commits : write[c].at # "idle" => CommitOf[c] # q /\ CommitOf[c] \in Requests
    BY <1>3 DEF LInv, CommitsOK
  <1>5. \A s \in Resources : \A n \in DOMAIN history[s] : ByCommit(s, n) =>
          /\ CommitOf[Change(s, n)] # q /\ CommitOf[Change(s, n)] \in Requests
          /\ request'[CommitOf[Change(s, n)]] = request[CommitOf[Change(s, n)]]
    BY <1>2, RevisionFacts
  <1>6. UpdatedAdvances' /\ OutboxTellsHistory' /\ KindsOK' /\ AnnouncedOK'
    <2>1. \A p \in Requests : request[p].at # "none" => request'[p].at # "none"
      BY <1>2
    <2> QED
      BY <1>2, <1>5, <2>1, StoryKept
  <1>7. WritesOK' /\ PreviewsOK'
    BY <1>2, <1>3, <1>4 DEF TellInv, TellsOK, WritesOK, PreviewsOK
  <1>8. RevisionsOK'
    BY <1>2 DEF TellInv, TellsOK, RevisionsOK, ByCommit, Change, Saves
  <1>9. StampsOK'
    <2>0. \A s \in Resources : \A n \in DOMAIN history[s] : ByCommit(s, n) =>
            Stamp(s, n)' = Stamp(s, n)
      <3>1. UNCHANGED history
        BY <1>2
      <3> QED
        BY <1>5, <3>1 DEF Stamp, Change
    <2>1. /\ request'[q].timestamp = 0 /\ request'[q].expected = head[r]
          /\ request'[q].target = r /\ request'[q].at = "loaded"
      BY <1>2
    <2>2. ASSUME NEW p \in Requests, p # q, request[p].at # "none"
          PROVE  /\ request[p].timestamp <= clock
                 /\ request[p].expected <= head[request[p].target]
                 /\ request[p].at \in {"allocated", "previewed", "expired"} =>
                      \A n \in DOMAIN history[request[p].target] :
                        n <= request[p].expected /\ ByCommit(request[p].target, n) =>
                          Stamp(request[p].target, n)' < request[p].timestamp
      <3>1. request[p].target \in Resources
        BY <2>2 DEF LInv, RequestsOK
      <3>2. \A n \in DOMAIN history[request[p].target] :
              ByCommit(request[p].target, n) =>
                Stamp(request[p].target, n)' = Stamp(request[p].target, n)
        <4>1. request'[p] = request[p]
          BY <1>2, <2>2
        <4> QED
          BY <2>0, <3>1, <4>1
      <3>3. /\ request[p].timestamp <= clock
            /\ request[p].expected <= head[request[p].target]
            /\ request[p].at \in {"allocated", "previewed", "expired"} =>
                 \A n \in DOMAIN history[request[p].target] :
                   n <= request[p].expected /\ ByCommit(request[p].target, n) =>
                     Stamp(request[p].target, n) < request[p].timestamp
        BY <2>2 DEF TellInv, TellsOK, StampsOK
      <3> QED
        BY <3>2, <3>3
    <2> QED
      BY <1>1, <1>2, <2>1, <2>2 DEF StampsOK, ByCommit, Change
  <1>10. UnsavedOK'
    <2>1. Creates(q)' => q \in DOMAIN NewObject /\ r = NewObject[q]
      BY <1>2 DEF Load, Creates
    <2>2. q \in DOMAIN NewObject =>
            /\ head[NewObject[q]] = 0
            /\ \A w \in Writers : write[w].at # "idle" => write[w].on # NewObject[q]
      BY <1>2 DEF LInv, NewObjectsAreNew
    <2> QED
      BY <1>2, <2>1, <2>2 DEF TellInv, TellsOK, UnsavedOK, Creates, Saves
  <1> QED
    BY <1>6, <1>7, <1>8, <1>9, <1>10 DEF TellInv, TellsOK

LEMMA ClientTells ==
  ASSUME LocalWritesAssumption, LInv, TellInv, NEW q \in Requests,
         Allocate(q) \/ Preview(q) \/ Expire(q)
  PROVE  TellInv'
  <1>1. request \in [Requests -> RequestRecord] /\ clock \in Nat
    BY DEF LInv, LocalTypeOK
  <1>2. /\ UNCHANGED <<vars, commit, outbox>>
        /\ UNCHANGED <<history, head, kind, write>>
    BY DEF Allocate, Preview, Expire, vars
  <1>3. /\ request[q].at # "none"
        /\ request'[q].at # "none"
        /\ request'[q].operation = request[q].operation
        /\ request'[q].target = request[q].target
        /\ request'[q].expected = request[q].expected
        /\ \A p \in Requests : p # q => request'[p] = request[p]
    BY <1>1, ClientMoves
  <1>4. /\ request'[q].publish = request[q].publish
        /\ \/ /\ request[q].at = "loaded" /\ request[q].operation # "createObject"
              /\ request'[q].timestamp = clock + 1 /\ clock' = clock + 1
           \/ /\ request[q].at = "allocated" /\ clock' = clock
              /\ request'[q].timestamp = request[q].timestamp
           \/ /\ request[q].at = "previewed" /\ request'[q].at = "expired"
              /\ clock' = clock
              /\ request'[q].timestamp = request[q].timestamp
    <2>1. CASE Allocate(q)
      <3> DEFINE at == IF member THEN "allocated" ELSE "denied"
      <3>1. /\ request[q].at = "loaded" /\ request[q].operation # "createObject"
            /\ clock' = clock + 1
            /\ request'[q] = [request[q] EXCEPT !.at = at, !.timestamp = clock + 1]
        BY <1>1, <2>1 DEF Allocate
      <3> HIDE DEF at
      <3>2. request[q] \in RequestRecord
        BY <1>1
      <3> QED
        BY <3>1, <3>2 DEF RequestRecord
    <2>2. CASE Preview(q)
      <3>1. PICK at \in {"previewed", "denied"} : request' = [request EXCEPT ![q].at = at]
        BY <2>2 DEF Preview
      <3> QED
        BY <1>1, <2>2, <3>1 DEF Preview, RequestRecord
    <2>3. CASE Expire(q)
      BY <1>1, <2>3 DEF Expire, RequestRecord
    <2> QED
      BY <2>1, <2>2, <2>3
  <1>5. \A c \in Commits : commit[c] # "idle" /\ CommitOf[c] = q =>
          \/ request[q].operation = "createObject"
          \/ request[q].at = "previewed" /\ request'[q].at = "expired"
    BY <1>4 DEF TellInv, TellsOK, PreviewsOK
  <1>6. \A s \in Resources : \A n \in DOMAIN history[s] : ByCommit(s, n) =>
          LET p == CommitOf[Change(s, n)] IN
          /\ request'[p].timestamp = request[p].timestamp
          /\ request'[p].publish = request[p].publish
          /\ request'[p].target = request[p].target
    BY <1>3, <1>4, RevisionFacts
  <1>7. UpdatedAdvances' /\ OutboxTellsHistory' /\ KindsOK' /\ AnnouncedOK'
    <2>1. \A p \in Requests : request[p].at # "none" => request'[p].at # "none"
      BY <1>3
    <2> QED
      BY <1>2, <1>6, <2>1, StoryKept
  <1>8. WritesOK' /\ PreviewsOK'
    <2>1. \A c \in Commits : CommitOf[c] \in Requests
      BY DEF LocalWritesAssumption
    <2> QED
      BY <1>2, <1>3, <1>5, <2>1 DEF TellInv, TellsOK, WritesOK, PreviewsOK
  <1>9. RevisionsOK'
    BY <1>2 DEF TellInv, TellsOK, RevisionsOK, ByCommit, Change, Saves
  <1>10. StampsOK'
    <2>1. \A s \in Resources : \A n \in DOMAIN history[s] : ByCommit(s, n) =>
            Stamp(s, n)' = Stamp(s, n) /\ Stamp(s, n) \in Nat /\ Stamp(s, n) <= clock
      BY <1>2, <1>6, RevisionFacts DEF Stamp, Change
    <2>2. ASSUME NEW p \in Requests, request'[p].at # "none"
          PROVE  /\ request'[p].timestamp <= clock'
                 /\ request'[p].expected <= head'[request'[p].target]
                 /\ request'[p].at \in {"allocated", "previewed", "expired"} =>
                      \A n \in DOMAIN history[request'[p].target] :
                        n <= request'[p].expected /\ ByCommit(request'[p].target, n) =>
                          Stamp(request'[p].target, n) < request'[p].timestamp
      <3>1. /\ request[p].at # "none" /\ request[p].target \in Resources
            /\ request'[p].target = request[p].target
            /\ request'[p].expected = request[p].expected
            /\ request[p].timestamp \in Nat /\ clock' \in Nat /\ clock <= clock'
        BY <1>1, <1>3, <1>4, <2>2 DEF LInv, RequestsOK, RequestRecord
      <3>2. /\ request[p].timestamp <= clock
            /\ request[p].expected <= head[request[p].target]
            /\ request[p].at \in {"allocated", "previewed", "expired"} =>
                 \A n \in DOMAIN history[request[p].target] :
                   n <= request[p].expected /\ ByCommit(request[p].target, n) =>
                     Stamp(request[p].target, n) < request[p].timestamp
        BY <3>1 DEF TellInv, TellsOK, StampsOK
      <3>3. CASE p = q /\ request[q].at = "loaded"
        <4>1. request'[p].timestamp = clock + 1 /\ clock' = clock + 1
          BY <1>4, <3>3
        <4>2. \A n \in DOMAIN history[request[p].target] :
                ByCommit(request[p].target, n) =>
                  Stamp(request[p].target, n) < clock + 1
          BY <1>1, <2>1, <3>1
        <4> QED
          BY <1>1, <1>2, <3>1, <3>2, <4>1, <4>2
      <3>4. CASE p # q \/ request[q].at # "loaded"
        <4>1. /\ request'[p].timestamp = request[p].timestamp
              /\ request'[p].at \in {"allocated", "previewed", "expired"} =>
                   request[p].at \in {"allocated", "previewed", "expired"}
          BY <1>3, <1>4, <3>4
        <4>2. request[p].timestamp <= clock'
          BY <1>1, <3>1, <3>2
        <4> QED
          BY <1>2, <3>1, <3>2, <4>1, <4>2
      <3> QED
        BY <3>3, <3>4
    <2> HIDE DEF Stamp
    <2>3. \A s, n : ByCommit(s, n)' <=> ByCommit(s, n)
      BY <1>2 DEF ByCommit, Change
    <2>4. \A p \in Requests : request'[p].at # "none" => request'[p].target \in Resources
      BY <1>3 DEF LInv, RequestsOK
    <2> QED
      BY <1>2, <2>1, <2>2, <2>3, <2>4 DEF StampsOK
  <1>11. UnsavedOK'
    BY <1>2, <1>3 DEF TellInv, TellsOK, UnsavedOK, Creates, Saves
  <1> QED
    BY <1>7, <1>8, <1>9, <1>10, <1>11 DEF TellInv, TellsOK

\* A step that changes neither the histories nor the requests, and lets no
\* commit ask for an object.
LEMMA SameStoreTells ==
  ASSUME LocalWritesAssumption, LInv, TellInv,
         UNCHANGED <<history, head, kind, outbox, request, clock>>,
         \A c \in Commits : commit'[c] # "idle" =>
           \/ commit[c] # "idle"
           \/ request[CommitOf[c]].operation = "createObject"
           \/ request[CommitOf[c]].at \in {"previewed", "expired"},
         \A c \in Commits : Saves(c)' <=> Saves(c),
         \A w \in Writers : write'[w].at # "idle" =>
           \/ /\ write[w].at # "idle"
              /\ write'[w].on = write[w].on
              /\ write'[w].expected = write[w].expected
              /\ write'[w].form = write[w].form
           \/ w \notin Commits /\ head[write'[w].on] # 0
  PROVE  TellInv'
  <1>1. \A c \in Commits : c \in Writers /\ CommitOf[c] \in Requests
    BY DEF LocalWritesAssumption
  <1>2. UpdatedAdvances' /\ OutboxTellsHistory' /\ KindsOK' /\ AnnouncedOK'
    BY StoryKept
  <1>3. WritesOK'
    BY <1>1 DEF TellInv, TellsOK, WritesOK
  <1>4. PreviewsOK'
    BY <1>1 DEF TellInv, TellsOK, PreviewsOK
  <1>5. RevisionsOK'
    <2>1. \A c \in Commits : Saves(c) => Saves(c)' /\ write'[c].on = write[c].on
      BY <1>1 DEF Saves
    <2>2. \A r \in Resources : \A n \in DOMAIN history[r] : ByCommit(r, n) =>
            /\ Change(r, n) \in Commits
            /\ Saves(Change(r, n)) /\ write[Change(r, n)].on = r
      BY DEF TellInv, TellsOK, RevisionsOK, ByCommit
    <2>3. \A r \in Resources : \A n \in DOMAIN history[r] : ByCommit(r, n) =>
            write'[Change(r, n)].at = "done" /\ write'[Change(r, n)].on = r
      BY <2>1, <2>2 DEF Saves
    <2> QED
      BY <2>3 DEF RevisionsOK, ByCommit, Change, Saves
  <1>6. StampsOK'
    BY DEF TellInv, TellsOK, StampsOK, Stamp, ByCommit, Change
  <1>7. UnsavedOK'
    <2>1. \A q \in Requests : (\A c \in Commits : CommitOf[c] = q => ~Saves(c)')
            => \A c \in Commits : CommitOf[c] = q => ~Saves(c)
      OBVIOUS
    <2> HIDE DEF Saves
    <2> QED
      BY <2>1 DEF TellInv, TellsOK, UnsavedOK, Creates
  <1> QED
    BY <1>2, <1>3, <1>4, <1>5, <1>6, <1>7 DEF TellInv, TellsOK

\* What a transaction was asked for does not change while it runs.
LEMMA InputsStay ==
  ASSUME LInv, NEW w \in Writers, Transaction(w) \/ Abort(w)
  PROVE  /\ write[w].at # "idle"
         /\ write'[w].on = write[w].on
         /\ write'[w].expected = write[w].expected
         /\ write'[w].form = write[w].form
         /\ \A x \in Writers : x # w => write'[x] = write[x]
  <1>1. write[w] \in WriteRecord /\ write \in [Writers -> WriteRecord]
    BY DEF LInv, Inv, TypeOK
  <1>2. ASSUME NEW at, End(w, at)
        PROVE  /\ write'[w] = [write[w] EXCEPT !.at = at]
               /\ \A x \in Writers : x # w => write'[x] = write[x]
    BY <1>1, <1>2 DEF End
  <1>3. \/ \E at : /\ write'[w] = [write[w] EXCEPT !.at = at]
                   /\ \A x \in Writers : x # w => write'[x] = write[x]
        \/ \E n : /\ write'[w] = [write[w] EXCEPT !.at = "write", !.previous = n]
                  /\ \A x \in Writers : x # w => write'[x] = write[x]
    <2>1. CASE Lock(w)
      BY <1>1, <2>1 DEF Lock
    <2>2. CASE Check(w)
      BY <1>1, <1>2, <2>2 DEF Check
    <2>3. CASE Write(w)
      BY <1>2, <2>3 DEF Write
    <2>4. CASE Abort(w)
      BY <1>2, <2>4 DEF Abort
    <2> QED
      BY <2>1, <2>2, <2>3, <2>4 DEF Transaction
  <1>4. write[w].at # "idle"
    BY DEF Transaction, Lock, Check, Write, Abort
  <1> QED
    BY <1>1, <1>3, <1>4 DEF WriteRecord

\* The steps around a transaction, and those of it that add no revision.
LEMMA QuietTells ==
  ASSUME RevisionsAssumption, LocalWritesAssumption, LInv, TellInv,
         \/ Revoke
         \/ \E c \in Commits : \/ Begin(c) \/ LockActor(c) \/ Permit(c)
                               \/ LockTarget(c) \/ CheckTarget(c) \/ RollBack(c)
         \/ \E w \in Writers \ Commits : Direct(w) /\ UNCHANGED store
         \/ UNCHANGED localVars /\ \E r \in Resources : Rewrite(r)
         \/ UNCHANGED allVars
  PROVE  TellInv'
  <1>1. \A c \in Commits : c \in Writers
    BY DEF LocalWritesAssumption
  <1>2. ASSUME UNCHANGED <<history, head, kind, write>>,
               UNCHANGED <<outbox, request, clock>>,
               \A c \in Commits : commit'[c] # "idle" =>
                 \/ commit[c] # "idle"
                 \/ request[CommitOf[c]].operation = "createObject"
                 \/ request[CommitOf[c]].at \in {"previewed", "expired"}
        PROVE  TellInv'
    BY <1>1, <1>2, SameStoreTells DEF Saves
  <1>3. ASSUME NEW w \in Writers, Transaction(w) \/ Abort(w), UNCHANGED store,
               UNCHANGED <<outbox, request, clock>>,
               w \in Commits => write'[w].at # "done",
               \A c \in Commits : commit'[c] # "idle" => commit[c] # "idle"
        PROVE  TellInv'
    <2>1. /\ write[w].at # "idle"
          /\ write'[w].on = write[w].on
          /\ write'[w].expected = write[w].expected
          /\ write'[w].form = write[w].form
          /\ \A x \in Writers : x # w => write'[x] = write[x]
      BY <1>3, InputsStay
    <2>2. w \in Commits => ~Saves(w)
      BY <1>3, TransactionStep DEF Saves
    <2>3. \A c \in Commits : Saves(c)' <=> Saves(c)
      BY <1>1, <1>3, <2>1, <2>2 DEF Saves
    <2>4. UNCHANGED <<history, head, kind>>
      BY <1>3 DEF store
    <2> QED
      BY <1>3, <2>1, <2>3, <2>4, SameStoreTells
  <1>4. CASE Revoke
    BY <1>2, <1>4 DEF Revoke, vars
  <1>5. ASSUME NEW c \in Commits, Begin(c) \/ LockActor(c) \/ Permit(c)
        PROVE  TellInv'
    <2>1. UNCHANGED <<history, head, kind, write>> /\ UNCHANGED <<outbox, request, clock>>
      BY <1>5 DEF Begin, LockActor, Permit, Refuse, vars
    <2>2. /\ \A d \in Commits : d # c => commit'[d] = commit[d]
          /\ \/ commit[c] # "idle"
             \/ request[CommitOf[c]].operation = "createObject"
             \/ request[CommitOf[c]].at \in {"previewed", "expired"}
      BY <1>5 DEF Begin, LockActor, Permit, Refuse, Going, LInv, LocalTypeOK
    <2> QED
      BY <1>2, <2>1, <2>2
  <1>6. ASSUME NEW c \in Commits, LockTarget(c) \/ CheckTarget(c) \/ RollBack(c)
        PROVE  TellInv'
    <2>1. /\ Transaction(c) \/ Abort(c)
          /\ UNCHANGED store
          /\ UNCHANGED <<outbox, request, clock>>
          /\ c \in Writers
      BY <1>1, <1>6 DEF LockTarget, CheckTarget, RollBack, Transaction, Lock, Check, Abort,
                        localVars, store
    <2>2. write'[c].at # "done"
      <3>1. write[c] \in WriteRecord /\ write \in [Writers -> WriteRecord]
        BY <2>1 DEF LInv, Inv, TypeOK
      <3> QED
        BY <1>6, <2>1, <3>1 DEF LockTarget, CheckTarget, RollBack, Lock, Check, Abort,
                                End, WriteRecord
    <2>3. \A d \in Commits : commit'[d] # "idle" => commit[d] # "idle"
      <3>1. commit[c] = "write"
        BY <2>1, TransactionStep DEF LInv, CommitsOK
      <3>2. \A d \in Commits : d # c => commit'[d] = commit[d]
        BY <1>6 DEF LockTarget, CheckTarget, RollBack, ReleaseActor, Going, localVars,
                    LInv, LocalTypeOK
      <3> QED
        BY <3>1, <3>2
    <2> QED
      BY <1>3, <2>1, <2>2, <2>3
  <1>7. ASSUME NEW w \in Writers \ Commits, Direct(w), UNCHANGED store
        PROVE  TellInv'
    <2>1. UNCHANGED <<outbox, request, clock, commit>>
      BY <1>7 DEF Direct, localVars
    <2>2. CASE Transaction(w) \/ Abort(w)
      BY <1>3, <1>7, <2>1, <2>2
    <2>3. ASSUME NEW r \in Resources, NEW form \in {"append", "typed"},
                 NEW revision \in {"snapshot", "whiteout"},
                 head[r] # 0, Call(w, r, form, "object", revision, w)
          PROVE  TellInv'
      <3>1. /\ write'[w].on = r
            /\ \A x \in Writers : x # w => write'[x] = write[x]
        BY <2>3 DEF Call, LInv, Inv, TypeOK
      <3>2. \A c \in Commits : Saves(c)' <=> Saves(c)
        BY <1>1, <3>1 DEF Saves
      <3>3. UNCHANGED <<history, head, kind>>
        BY <1>7 DEF store
      <3>4. UNCHANGED <<history, head, kind, outbox, request, clock>>
        BY <2>1, <3>3
      <3>5. \A c \in Commits : commit'[c] # "idle" => commit[c] # "idle"
        BY <2>1
      <3>6. \A x \in Writers : write'[x].at # "idle" =>
              \/ /\ write[x].at # "idle"
                 /\ write'[x].on = write[x].on
                 /\ write'[x].expected = write[x].expected
                 /\ write'[x].form = write[x].form
              \/ x \notin Commits /\ head[write'[x].on] # 0
        BY <2>3, <3>1
      <3> QED
        BY <3>2, <3>4, <3>5, <3>6, SameStoreTells
    <2> QED
      BY <1>7, <2>2, <2>3 DEF Direct
  <1>8. CASE UNCHANGED localVars /\ \E r \in Resources : Rewrite(r)
    BY <1>2, <1>8 DEF Rewrite, localVars
  <1>9. CASE UNCHANGED allVars
    BY <1>2, <1>9 DEF allVars, vars, localVars
  <1> QED
    BY <1>4, <1>5, <1>6, <1>7, <1>8, <1>9

\* A commit that asks for its object asks for nobody else's new one; the
\* mutation without a preview gets its timestamp only here.
LEMMA PrepareTells ==
  ASSUME RevisionsAssumption, LocalWritesAssumption, LInv, TellInv,
         NEW c \in Commits, Prepare(c)
  PROVE  TellInv'
  <1> DEFINE q == CommitOf[c]
  <1>1. /\ q \in Requests
        /\ c \in Writers
        /\ commit[c] = "prepare"
        /\ write[c].at = "idle"
        /\ request[q].at # "none"
        /\ request[q].target \in Resources
        /\ request \in [Requests -> RequestRecord]
        /\ request[q] \in RequestRecord
        /\ clock \in Nat
    BY DEF LocalWritesAssumption, Prepare, LInv, CommitsOK, RequestsOK, LocalTypeOK
  <1>2. \A d \in Commits : d \in Writers /\ CommitOf[d] \in Requests
    BY DEF LocalWritesAssumption
  <1>3. \A d \in Commits : commit'[d] # "idle" => commit[d] # "idle"
    BY <1>1 DEF Prepare, Refuse, Going, LInv, LocalTypeOK
  <1>4. UNCHANGED <<history, head, kind, outbox>>
    BY DEF Prepare, Refuse, vars, store
  <1>5. CASE ~Preparable(q)
    <2>1. request[q].operation # "createObject"
      BY <1>5 DEF Preparable
    <2>2. UNCHANGED <<write, request, clock>>
      BY <1>5, <2>1 DEF Prepare, Refuse, vars
    <2> QED
      BY <1>2, <1>3, <1>4, <2>2, SameStoreTells DEF Saves
  <1>6. CASE Preparable(q)
    <2>1. /\ write'[c].at = "lock"
          /\ write'[c].on = request[q].target
          /\ write'[c].expected = request[q].expected
          /\ write'[c].form = "insert" <=> request[q].operation = "createObject"
          /\ \A w \in Writers : w # c => write'[w] = write[w]
      <3> DEFINE form == IF request[q].operation = "createObject" THEN "insert"
                         ELSE IF typed[request[q].target].present THEN "typed"
                         ELSE "append"
                 revision == IF request[q].operation = "delete" THEN "whiteout"
                             ELSE "snapshot"
      <3>1. write' = [write EXCEPT ![c] =
               [at |-> "lock", on |-> request[q].target, form |-> form,
                as |-> "object", revision |-> revision, document |-> c,
                expected |-> request[q].expected, previous |-> 0]]
        BY <1>6 DEF Prepare
      <3>2. form = "insert" <=> request[q].operation = "createObject"
        OBVIOUS
      <3> HIDE DEF form, revision
      <3> QED
        BY <1>1, <3>1, <3>2 DEF LInv, Inv, TypeOK
    <2>2. /\ \A p \in Requests : p # q => request'[p] = request[p]
          /\ request'[q].at = request[q].at
          /\ request'[q].operation = request[q].operation
          /\ request'[q].target = request[q].target
          /\ request'[q].expected = request[q].expected
          /\ request'[q].publish = request[q].publish
          /\ \/ clock' = clock /\ request'[q].timestamp = request[q].timestamp
             \/ /\ request[q].operation = "createObject"
                /\ clock' = clock + 1 /\ request'[q].timestamp = clock + 1
      <3>1. CASE UNCHANGED <<request, clock>>
        BY <3>1
      <3>2. CASE /\ request[q].operation = "createObject"
                 /\ request' = [request EXCEPT ![q].timestamp = clock + 1]
                 /\ clock' = clock + 1
        <4> DEFINE t == clock + 1
        <4>1. request' = [request EXCEPT ![q].timestamp = t] /\ clock' = t
          BY <3>2
        <4> HIDE DEF t
        <4>2. /\ \A p \in Requests : p # q => request'[p] = request[p]
              /\ request'[q] = [request[q] EXCEPT !.timestamp = t]
          BY <1>1, <4>1
        <4>3. /\ request'[q].at = request[q].at
              /\ request'[q].operation = request[q].operation
              /\ request'[q].target = request[q].target
              /\ request'[q].expected = request[q].expected
              /\ request'[q].publish = request[q].publish
              /\ request'[q].timestamp = t
          BY <1>1, <4>2 DEF RequestRecord
        <4> QED
          BY <3>2, <4>1, <4>2, <4>3 DEF t
      <3> QED
        BY <3>1, <3>2 DEF Prepare
    <2>3. \A s \in Resources : \A n \in DOMAIN history[s] : ByCommit(s, n) =>
            LET p == CommitOf[Change(s, n)] IN
            /\ Change(s, n) # c
            /\ request'[p].timestamp = request[p].timestamp
            /\ request'[p].publish = request[p].publish
            /\ request'[p].target = request[p].target
      <3>1. ASSUME NEW s \in Resources, NEW n \in DOMAIN history[s], ByCommit(s, n)
            PROVE  LET d == Change(s, n) IN
                   /\ d # c
                   /\ CommitOf[d] = q => request[q].operation # "createObject"
                   /\ CommitOf[d] \in Requests
        <4>1. /\ Change(s, n) \in Commits
              /\ commit[Change(s, n)] = "over"
          BY <3>1, RevisionFacts
        <4> QED
          BY <1>1, <1>2, <4>1 DEF LInv, SavesOK
      <3> QED
        BY <2>2, <3>1
    <2>4. UpdatedAdvances' /\ OutboxTellsHistory' /\ KindsOK' /\ AnnouncedOK'
      <3>1. \A p \in Requests : request[p].at # "none" => request'[p].at # "none"
        BY <2>2
      <3> QED
        BY <1>4, <2>3, <3>1, StoryKept
    <2>5. WritesOK' /\ PreviewsOK'
      BY <1>2, <1>3, <2>1, <2>2 DEF TellInv, TellsOK, WritesOK, PreviewsOK
    <2>6. RevisionsOK'
      <3>1. \A s \in Resources : \A n \in DOMAIN history[s] : ByCommit(s, n) =>
              write'[Change(s, n)].at = "done" /\ write'[Change(s, n)].on = s
        <4>1. \A s \in Resources : \A n \in DOMAIN history[s] : ByCommit(s, n) =>
                /\ write[Change(s, n)].at = "done" /\ write[Change(s, n)].on = s
                /\ Change(s, n) \in Writers
          BY RevisionFacts DEF Saves
        <4> QED
          BY <2>1, <2>3, <4>1
      <3> QED
        BY <1>4, <3>1 DEF RevisionsOK, ByCommit, Change, Saves
    <2>7. StampsOK'
      <3>1. \A s \in Resources : \A n \in DOMAIN history[s] : ByCommit(s, n) =>
              Stamp(s, n)' = Stamp(s, n) /\ Stamp(s, n) \in Nat /\ Stamp(s, n) <= clock
        BY <1>4, <2>3, RevisionFacts DEF Stamp, Change
      <3> HIDE DEF Stamp
      <3>2. ASSUME NEW p \in Requests, request'[p].at # "none"
            PROVE  /\ request'[p].timestamp <= clock'
                   /\ request'[p].expected <= head'[request'[p].target]
                   /\ request'[p].at \in {"allocated", "previewed", "expired"} =>
                        \A n \in DOMAIN history[request'[p].target] :
                          n <= request'[p].expected /\ ByCommit(request'[p].target, n) =>
                            Stamp(request'[p].target, n) < request'[p].timestamp
        <4>1. /\ request[p].at # "none" /\ request[p].target \in Resources
              /\ request'[p].at = request[p].at
              /\ request'[p].target = request[p].target
              /\ request'[p].expected = request[p].expected
              /\ request[p].timestamp \in Nat
          BY <1>1, <2>2, <3>2 DEF LInv, RequestsOK, RequestRecord
        <4>2. /\ request[p].timestamp <= clock
              /\ request[p].expected <= head[request[p].target]
              /\ request[p].at \in {"allocated", "previewed", "expired"} =>
                   \A n \in DOMAIN history[request[p].target] :
                     n <= request[p].expected /\ ByCommit(request[p].target, n) =>
                       Stamp(request[p].target, n) < request[p].timestamp
          BY <4>1 DEF TellInv, TellsOK, StampsOK
        <4>3. CASE request'[p].timestamp = request[p].timestamp
          <5>1. clock <= clock' /\ clock' \in Nat
            BY <1>1, <2>2
          <5>2. request[p].timestamp <= clock'
            BY <1>1, <4>1, <4>2, <5>1
          <5> QED
            BY <1>4, <4>1, <4>2, <4>3, <5>2
        <4>4. CASE request'[p].timestamp = clock + 1 /\ clock' = clock + 1
          <5>1. \A n \in DOMAIN history[request[p].target] :
                  ByCommit(request[p].target, n) =>
                    Stamp(request[p].target, n) < clock + 1
            BY <1>1, <3>1, <4>1
          <5> QED
            BY <1>1, <1>4, <4>1, <4>2, <4>4, <5>1
        <4> QED
          BY <2>2, <4>3, <4>4
      <3>3. \A s, n : ByCommit(s, n)' <=> ByCommit(s, n)
        BY <1>4 DEF ByCommit, Change
      <3>4. \A p \in Requests : request'[p].at # "none" => request'[p].target \in Resources
        BY <2>2 DEF LInv, RequestsOK
      <3> QED
        BY <1>4, <3>1, <3>2, <3>3, <3>4 DEF StampsOK
    <2>8. UnsavedOK'
      <3>1. ASSUME NEW p \in DOMAIN NewObject, p # q, request[p].at # "none",
                   Creates(p), head[NewObject[p]] = 0
            PROVE  request[q].target # NewObject[p]
        <4>1. CASE Creates(q)
          <5>1. q \in DOMAIN NewObject /\ request[q].target = NewObject[q]
            BY <1>1, <4>1 DEF LInv, RequestsOK
          <5> QED
            BY <1>1, <3>1, <5>1 DEF LocalWritesAssumption
        <4>2. CASE ~Creates(q)
          <5>1. request[q].operation \in {"edit", "delete"}
            BY <1>1, <4>2 DEF Creates, RequestRecord, Operations
          <5>2. kind[request[q].target] = "object"
            BY <1>6, <5>1 DEF Preparable, Loadable
          <5> QED
            BY <1>1, <3>1, <5>2 DEF TellInv, TellsOK, KindsOK
        <4> QED
          BY <4>1, <4>2
      <3>2. \A d \in Commits : Saves(d)' <=> Saves(d)
        BY <1>1, <1>2, <2>1 DEF Saves
      <3>3. \A p \in Requests : /\ request'[p].at = request[p].at
                                /\ Creates(p)' <=> Creates(p)
        BY <2>2 DEF Creates
      <3>4. ASSUME NEW p \in DOMAIN NewObject, request[p].at # "none", Creates(p),
                   \A d \in Commits : CommitOf[d] = p => ~Saves(d)
            PROVE  /\ head[NewObject[p]] = 0
                   /\ \A w \in Writers :
                        write'[w].at # "idle" /\ write'[w].on = NewObject[p] =>
                          w \in Commits /\ CommitOf[w] = p
        <4>1. /\ head[NewObject[p]] = 0
              /\ \A w \in Writers :
                   write[w].at # "idle" /\ write[w].on = NewObject[p] =>
                     w \in Commits /\ CommitOf[w] = p
          BY <3>4 DEF TellInv, TellsOK, UnsavedOK
        <4> QED
          BY <2>1, <3>1, <3>4, <4>1
      <3> HIDE DEF Saves, Creates
      <3> QED
        BY <1>4, <3>2, <3>3, <3>4 DEF UnsavedOK
    <2> QED
      BY <2>4, <2>5, <2>6, <2>7, <2>8 DEF TellInv, TellsOK
  <1> QED
    BY <1>5, <1>6

\* A transaction that writes adds one revision, by itself, on the one its
\* caller knew.
LEMMA WriteAdds ==
  ASSUME LInv, NEW w \in Writers, Write(w), ~Reuses(write[w])
  PROVE  LET r == write[w].on
             last == Len(history[r])
         IN /\ r \in Resources
            /\ last \in Nat
            /\ write[w].expected = last /\ head[r] = last
            /\ write[w].form = "insert" => last = 0
            /\ head'[r] = last + 1
            /\ DOMAIN history[r] = 1 .. last
            /\ DOMAIN history'[r] = 1 .. last + 1
            /\ \A n \in 1 .. last : history'[r][n] = history[r][n]
            /\ history'[r][last + 1].by = w
            /\ \A s \in Resources : s # r =>
                 /\ history'[s] = history[s]
                 /\ head'[s] = head[s]
                 /\ kind'[s] = kind[s]
            /\ write[w].at = "write" /\ write'[w].at = "done"
            /\ write'[w].on = write[w].on
            /\ write'[w].expected = write[w].expected
            /\ write'[w].form = write[w].form
            /\ \A x \in Writers : x # w => write'[x] = write[x]
  <1> DEFINE q == write[w]
             r == q.on
             last == Len(history[r])
             e == Revision(w, q)
  <1>1. /\ q.at = "write"
        /\ GuardsAllow(q)
        /\ q.previous = last
        /\ q.expected = q.previous
        /\ r \in Resources
    BY AdmittedIsAllowed DEF LInv, Write
  <1>2. AppendPrepared(w, q) /\ End(w, "done")
    BY <1>1 DEF Write
  <1>3. /\ history \in [Resources -> Seq(RevisionRecord)]
        /\ history[r] \in Seq(RevisionRecord)
        /\ head \in [Resources -> Nat] /\ last \in Nat
        /\ kind \in [Resources -> ResourceKinds \union {"unknown"}]
        /\ head[r] = last
    BY <1>1 DEF LInv, Inv, TypeOK, HeadIsLatest
  <1>4. e \in RevisionRecord /\ e.by = w
    BY RevisionType DEF LInv, Inv, Revision
  <1>5. /\ history'[r] = Append(history[r], e)
        /\ head'[r] = last + 1
        /\ \A s \in Resources : s # r =>
             history'[s] = history[s] /\ head'[s] = head[s] /\ kind'[s] = kind[s]
    <2>1. /\ history' = [history EXCEPT ![r] = Append(@, e)]
          /\ head' = [head EXCEPT ![r] = q.previous + 1]
          /\ kind' = [kind EXCEPT ![r] = q.as]
      BY <1>2 DEF AppendPrepared
    <2> HIDE DEF e
    <2> QED
      BY <1>1, <1>3, <2>1
  <1>6. q.form = "insert" => last = 0
    <2>1. q.form = "insert" => kind[r] = "unknown"
      BY DEF Reuses
    <2>2. kind[r] = "unknown" => history[r] = <<>>
      BY <1>1 DEF LInv, Inv, HistoryWellFormed
    <2> QED
      BY <1>3, <2>1, <2>2
  <1>7. /\ DOMAIN history[r] = 1 .. last
        /\ DOMAIN history'[r] = 1 .. last + 1
        /\ \A n \in 1 .. last : history'[r][n] = history[r][n]
        /\ history'[r][last + 1] = e
    <2> HIDE DEF e
    <2> QED
      BY <1>3, <1>4, <1>5
  <1>8. /\ write'[w].at = "done"
        /\ write'[w].on = write[w].on
        /\ write'[w].expected = write[w].expected
        /\ write'[w].form = write[w].form
        /\ \A x \in Writers : x # w => write'[x] = write[x]
    <2>1. write[w] \in WriteRecord /\ write \in [Writers -> WriteRecord]
      BY DEF LInv, Inv, TypeOK
    <2> QED
      BY <1>2, <2>1, InputsStay DEF End, Transaction, WriteRecord
  <1> HIDE DEF e
  <1> QED
    BY <1>1, <1>3, <1>4, <1>5, <1>6, <1>7, <1>8

\* The histories after a write: the new revision alone is new.
LEMMA WriteTells ==
  ASSUME RevisionsAssumption, LocalWritesAssumption, LInv, LInv', TellInv,
         NEW w \in Writers, Write(w), ~Reuses(write[w]),
         UNCHANGED <<request, clock>>,
         \A c \in Commits : commit'[c] # "idle" => commit[c] # "idle",
         \/ /\ w \in Commits /\ request[CommitOf[w]].publish
            /\ Announced(CommitOf[w]) \/ outbox' = <<CommitOf[w]>> \o outbox
         \/ /\ ~(w \in Commits /\ request[CommitOf[w]].publish)
            /\ outbox' = outbox
  PROVE  TellInv'
  <1> DEFINE q == CommitOf[w]
             r == write[w].on
             last == Len(history[r])
  <1>1. /\ r \in Resources
        /\ last \in Nat
        /\ write[w].expected = last /\ head[r] = last
        /\ write[w].form = "insert" => last = 0
        /\ head'[r] = last + 1
        /\ DOMAIN history[r] = 1 .. last
        /\ DOMAIN history'[r] = 1 .. last + 1
        /\ \A n \in 1 .. last : history'[r][n] = history[r][n]
        /\ history'[r][last + 1].by = w
        /\ \A s \in Resources : s # r =>
             /\ history'[s] = history[s]
             /\ head'[s] = head[s]
             /\ kind'[s] = kind[s]
        /\ write[w].at = "write" /\ write'[w].at = "done"
        /\ write'[w].on = write[w].on
        /\ write'[w].expected = write[w].expected
        /\ write'[w].form = write[w].form
        /\ \A x \in Writers : x # w => write'[x] = write[x]
    BY WriteAdds
  <1> HIDE DEF last
  <1>2. \A c \in Commits : c \in Writers /\ CommitOf[c] \in Requests
    BY DEF LocalWritesAssumption
  <1>3. ASSUME NEW s \in Resources, NEW n \in DOMAIN history'[s], ByCommit(s, n)'
        PROVE  \/ s = r /\ n = last + 1 /\ w \in Commits /\ Change(s, n)' = w
               \/ /\ n \in DOMAIN history[s] /\ ByCommit(s, n)
                  /\ Change(s, n)' = Change(s, n)
                  /\ s = r => n \in 1 .. last
    <2>1. CASE s # r
      BY <1>1, <1>3, <2>1 DEF ByCommit, Change
    <2>2. CASE s = r /\ n = last + 1
      BY <1>1, <1>3, <2>2 DEF ByCommit, Change
    <2>3. CASE s = r /\ n # last + 1
      <3>1. n \in 1 .. last
        BY <1>1, <1>3, <2>3
      <3>2. history'[s][n] = history[s][n] /\ n \in DOMAIN history[s]
        BY <1>1, <2>3, <3>1
      <3> QED
        BY <1>3, <2>3, <3>1, <3>2 DEF ByCommit, Change
    <2> QED
      BY <2>1, <2>2, <2>3
  <1>4. ASSUME NEW s \in Resources, NEW n \in DOMAIN history[s], ByCommit(s, n)
        PROVE  /\ n \in DOMAIN history'[s] /\ ByCommit(s, n)'
               /\ Change(s, n)' = Change(s, n)
               /\ Change(s, n) \in Commits /\ Change(s, n) # w
               /\ CommitOf[Change(s, n)] \in Requests
               /\ Saves(Change(s, n)) /\ write[Change(s, n)].on = s
               /\ request[CommitOf[Change(s, n)]].at # "none"
               /\ w \in Commits => CommitOf[Change(s, n)] # q
    <2>1. /\ Change(s, n) \in Commits /\ Change(s, n) \in Writers
          /\ CommitOf[Change(s, n)] \in Requests
          /\ Saves(Change(s, n)) /\ write[Change(s, n)].on = s
          /\ request[CommitOf[Change(s, n)]].at # "none"
      BY <1>4, RevisionFacts
    <2>2. Change(s, n) # w
      BY <1>1, <2>1 DEF Saves
    <2>3. w \in Commits => CommitOf[Change(s, n)] # q
      <3>1. write'[Change(s, n)].at = "done" /\ write'[w].at = "done"
        BY <1>1, <2>1, <2>2 DEF Saves
      <3>2. TokenSavesOnce'
        BY DEF LInv
      <3> QED
        BY <2>1, <2>2, <3>1, <3>2 DEF TokenSavesOnce, Saves
    <2>4. n \in DOMAIN history'[s] /\ history'[s][n] = history[s][n]
      <3>1. CASE s # r
        BY <1>1, <1>4, <3>1
      <3>2. CASE s = r
        <4>1. n \in 1 .. last
          BY <1>1, <1>4, <3>2
        <4>2. n \in 1 .. last + 1
          BY <1>1, <4>1
        <4>3. n \in DOMAIN history'[r] /\ history'[r][n] = history[r][n]
          BY <1>1, <4>1, <4>2
        <4> QED
          BY <3>2, <4>3
      <3> QED
        BY <3>1, <3>2
    <2> QED
      BY <1>4, <2>1, <2>2, <2>3, <2>4 DEF ByCommit, Change
  <1>5. w \in Commits =>
          /\ q \in Requests
          /\ request[q].target = r /\ request[q].expected = last
          /\ request[q].at # "none"
          /\ \/ last = 0
             \/ request[q].at \in {"previewed", "expired"}
    <2> SUFFICES ASSUME w \in Commits
                 PROVE  /\ q \in Requests
                        /\ request[q].target = r /\ request[q].expected = last
                        /\ request[q].at # "none"
                        /\ \/ last = 0
                           \/ request[q].at \in {"previewed", "expired"}
      OBVIOUS
    <2>1. /\ request[q].target = r /\ request[q].expected = last
          /\ write[w].form = "insert" <=> request[q].operation = "createObject"
      BY <1>1 DEF TellInv, TellsOK, WritesOK
    <2>2. commit[w] # "idle"
      BY <1>1 DEF LInv, CommitsOK
    <2>3. /\ request[q].at # "none"
          /\ \/ request[q].operation = "createObject"
             \/ request[q].at \in {"previewed", "expired"}
      BY <2>2 DEF LInv, CommitsOK, TellInv, TellsOK, PreviewsOK
    <2> QED
      BY <1>1, <1>2, <2>1, <2>3
  <1>6. w \in Commits => ~Announced(q)
    <2> SUFFICES ASSUME w \in Commits, Announced(q) PROVE FALSE
      OBVIOUS
    <2>1. PICK n \in DOMAIN history[request[q].target] :
            /\ ByCommit(request[q].target, n)
            /\ CommitOf[Change(request[q].target, n)] = q
      BY <1>5 DEF TellInv, OutboxTellsHistory, ChangesAreAnnounced
    <2> QED
      BY <1>1, <1>4, <1>5, <2>1
  <1>7. UpdatedAdvances'
    <2> SUFFICES ASSUME NEW s \in Resources, NEW m \in DOMAIN history'[s],
                        NEW n \in DOMAIN history'[s],
                        m < n, ByCommit(s, m)', ByCommit(s, n)'
                 PROVE  request[CommitOf[Change(s, m)']].timestamp
                          < request[CommitOf[Change(s, n)']].timestamp
      BY DEF UpdatedAdvances
    <2>1. CASE n \in DOMAIN history[s] /\ ByCommit(s, n) /\ Change(s, n)' = Change(s, n)
      <3>1. m # last + 1 \/ s # r
        <4>1. CASE s = r
          BY <1>1, <2>1, <4>1
        <4> QED
          BY <4>1
      <3>2. m \in DOMAIN history[s] /\ ByCommit(s, m) /\ Change(s, m)' = Change(s, m)
        BY <1>3, <3>1
      <3> QED
        BY <2>1, <3>2 DEF TellInv, UpdatedAdvances
    <2>2. CASE s = r /\ n = last + 1 /\ w \in Commits /\ Change(s, n)' = w
      <3>1. /\ m \in DOMAIN history[s] /\ ByCommit(s, m) /\ Change(s, m)' = Change(s, m)
            /\ m \in 1 .. last
        BY <1>1, <1>3, <2>2
      <3>2. request[q].at \in {"previewed", "expired"}
        BY <1>1, <1>5, <2>2, <3>1
      <3>3. Stamp(s, m) < request[q].timestamp
        <4>1. \A k \in DOMAIN history[request[q].target] :
                k <= request[q].expected /\ ByCommit(request[q].target, k) =>
                  Stamp(request[q].target, k) < request[q].timestamp
          BY <1>5, <2>2, <3>2 DEF TellInv, TellsOK, StampsOK
        <4>2. m <= last
          BY <1>1, <3>1
        <4> QED
          BY <1>5, <2>2, <3>1, <4>1, <4>2
      <3> QED
        BY <2>2, <3>1, <3>3 DEF Stamp
    <2>3. \/ n \in DOMAIN history[s] /\ ByCommit(s, n) /\ Change(s, n)' = Change(s, n)
          \/ s = r /\ n = last + 1 /\ w \in Commits /\ Change(s, n)' = w
      BY <1>3
    <2> QED
      BY <2>1, <2>2, <2>3
  <1>8. WritesOK' /\ PreviewsOK'
    <2>1. \A c \in Commits : write'[c].at # "idle" =>
            /\ write[c].at # "idle"
            /\ write'[c].on = write[c].on
            /\ write'[c].expected = write[c].expected
            /\ write'[c].form = write[c].form
      BY <1>1, <1>2
    <2>2. WritesOK'
      BY <2>1 DEF TellInv, TellsOK, WritesOK
    <2>3. PreviewsOK'
      BY DEF TellInv, TellsOK, PreviewsOK
    <2> QED
      BY <2>2, <2>3
  <1>9. RevisionsOK'
    <2> SUFFICES ASSUME NEW s \in Resources, NEW n \in DOMAIN history'[s],
                        ByCommit(s, n)'
                 PROVE  write'[Change(s, n)'].at = "done" /\ write'[Change(s, n)'].on = s
      BY DEF RevisionsOK, Saves
    <2>1. CASE n \in DOMAIN history[s] /\ ByCommit(s, n) /\ Change(s, n)' = Change(s, n)
      BY <1>1, <1>2, <1>4, <2>1 DEF Saves
    <2>2. CASE s = r /\ Change(s, n)' = w
      BY <1>1, <2>2
    <2> QED
      BY <1>3, <2>1, <2>2
  <1>10. StampsOK'
    <2>1. \A s \in Resources : head[s] <= head'[s]
      <3>1. head[r] <= head'[r]
        BY <1>1
      <3>2. \A s \in Resources : head[s] \in Nat
        BY DEF LInv, Inv, TypeOK
      <3> QED
        BY <1>1, <3>1, <3>2
    <2> SUFFICES ASSUME NEW p \in Requests, request[p].at # "none"
                 PROVE  /\ request[p].timestamp <= clock
                        /\ request[p].expected <= head'[request[p].target]
                        /\ request[p].at \in {"allocated", "previewed", "expired"} =>
                             \A n \in DOMAIN history'[request[p].target] :
                               n <= request[p].expected
                               /\ ByCommit(request[p].target, n)' =>
                                 request[CommitOf[Change(request[p].target, n)']].timestamp
                                   < request[p].timestamp
      BY DEF StampsOK, Stamp, Change, ByCommit
    <2> DEFINE s == request[p].target
    <2>2. /\ s \in Resources
          /\ request[p].expected \in Nat
          /\ head[s] \in Nat /\ head'[s] \in Nat
      BY DEF LInv, RequestsOK, LocalTypeOK, RequestRecord, Inv, TypeOK
    <2>3. /\ request[p].timestamp <= clock
          /\ request[p].expected <= head[s]
          /\ request[p].at \in {"allocated", "previewed", "expired"} =>
               \A n \in DOMAIN history[s] :
                 n <= request[p].expected /\ ByCommit(s, n) =>
                   Stamp(s, n) < request[p].timestamp
      BY DEF TellInv, TellsOK, StampsOK
    <2>4. request[p].expected <= head'[s]
      BY <2>1, <2>2, <2>3
    <2>5. ASSUME NEW n \in DOMAIN history'[s], n <= request[p].expected,
                 ByCommit(s, n)'
          PROVE  n \in DOMAIN history[s] /\ ByCommit(s, n) /\ Change(s, n)' = Change(s, n)
      <3>1. ~(s = r /\ n = last + 1)
        BY <1>1, <2>2, <2>3, <2>5
      <3> QED
        BY <1>3, <2>2, <2>5, <3>1
    <2> QED
      BY <2>3, <2>4, <2>5 DEF Stamp
  <1>11. UnsavedOK'
    <2> SUFFICES ASSUME NEW p \in DOMAIN NewObject, request[p].at # "none", Creates(p),
                        \A c \in Commits : CommitOf[c] = p => ~Saves(c)'
                 PROVE  /\ head'[NewObject[p]] = 0
                        /\ \A x \in Writers :
                             write'[x].at # "idle" /\ write'[x].on = NewObject[p] =>
                               x \in Commits /\ CommitOf[x] = p
      BY DEF UnsavedOK, Creates
    <2>1. \A c \in Commits : Saves(c) => Saves(c)'
      BY <1>1, <1>2 DEF Saves
    <2>2. /\ head[NewObject[p]] = 0
          /\ \A x \in Writers :
               write[x].at # "idle" /\ write[x].on = NewObject[p] =>
                 x \in Commits /\ CommitOf[x] = p
      BY <2>1 DEF TellInv, TellsOK, UnsavedOK
    <2>3. NewObject[p] # r
      <3>1. Saves(w)'
        BY <1>1 DEF Saves
      <3> QED
        BY <1>1, <2>2, <3>1
    <2>4. NewObject[p] \in Resources
      BY DEF LocalWritesAssumption
    <2> QED
      BY <1>1, <2>2, <2>3, <2>4
  <1>12. KindsOK'
    <2>1. ASSUME NEW s \in Resources, head'[s] = 0
          PROVE  kind'[s] = "unknown"
      BY <1>1, <2>1 DEF TellInv, TellsOK, KindsOK
    <2> QED
      BY <2>1 DEF KindsOK
  <1>13. outbox \in Seq(Requests)
    BY DEF LInv, LocalTypeOK
  <1>14. CASE w \in Commits /\ request[q].publish
    <2>1. outbox' = <<q>> \o outbox
      BY <1>6, <1>14
    <2>2. /\ DOMAIN outbox = 1 .. Len(outbox) /\ Len(outbox) \in Nat
          /\ DOMAIN outbox' = 1 .. Len(outbox) + 1
          /\ outbox'[1] = q
          /\ \A i \in 1 .. Len(outbox) : outbox'[i + 1] = outbox[i]
      BY <1>5, <1>13, <1>14, <2>1
    <2>3. \A i \in DOMAIN outbox' : i # 1 =>
            i - 1 \in DOMAIN outbox /\ outbox'[i] = outbox[i - 1]
      <3> SUFFICES ASSUME NEW i \in DOMAIN outbox', i # 1
                   PROVE  i - 1 \in DOMAIN outbox /\ outbox'[i] = outbox[i - 1]
        OBVIOUS
      <3>1. i - 1 \in 1 .. Len(outbox) /\ (i - 1) + 1 = i
        BY <2>2
      <3> QED
        BY <2>2, <3>1
    <2>4. \A p : Announced(p)' <=> p = q \/ Announced(p)
      <3>1. ASSUME NEW p, Announced(p)
            PROVE  \E i \in DOMAIN outbox' : outbox'[i] = p
        <4>1. PICK i \in DOMAIN outbox : outbox[i] = p
          BY <3>1 DEF Announced
        <4>2. i + 1 \in DOMAIN outbox' /\ outbox'[i + 1] = p
          BY <2>2, <4>1
        <4> QED
          BY <4>2
      <3>2. 1 \in DOMAIN outbox'
        BY <2>2
      <3>3. ASSUME NEW p, Announced(p)'
            PROVE  p = q \/ Announced(p)
        <4>1. PICK i \in DOMAIN outbox' : outbox'[i] = p
          BY <3>3 DEF Announced
        <4>2. CASE i = 1
          BY <2>2, <4>1, <4>2
        <4>3. CASE i # 1
          BY <2>3, <4>1, <4>3 DEF Announced
        <4> QED
          BY <4>2, <4>3
      <3> QED
        BY <2>2, <3>1, <3>2, <3>3 DEF Announced
    <2>5. AnnouncedOK'
      BY <1>5, <1>14, <2>4 DEF TellInv, TellsOK, AnnouncedOK
    <2>6. ChangesAreAnnounced'
      <3>1. ASSUME NEW s \in Resources, NEW n \in DOMAIN history'[s], ByCommit(s, n)',
                   request[CommitOf[Change(s, n)']].publish
            PROVE  Announced(CommitOf[Change(s, n)])'
        <4>1. CASE n \in DOMAIN history[s] /\ ByCommit(s, n) /\ Change(s, n)' = Change(s, n)
          <5>1. Announced(CommitOf[Change(s, n)])
            BY <3>1, <4>1 DEF TellInv, OutboxTellsHistory, ChangesAreAnnounced
          <5> QED
            BY <2>4, <4>1, <5>1
        <4>2. CASE Change(s, n)' = w
          BY <2>4, <4>2
        <4> QED
          BY <1>3, <3>1, <4>1, <4>2
      <3>2. ASSUME NEW p \in Requests, Announced(p)'
            PROVE  \E n \in DOMAIN history'[request[p].target] :
                     /\ history'[request[p].target][n].by \in Commits
                     /\ CommitOf[history'[request[p].target][n].by] = p
        <4>1. CASE p = q
          <5>1. last + 1 \in DOMAIN history'[r]
            BY <1>1
          <5> QED
            BY <1>1, <1>5, <1>14, <4>1, <5>1
        <4>2. CASE p # q
          <5>1. Announced(p)
            BY <2>4, <3>2, <4>2
          <5>2. request[p].target \in Resources
            BY <5>1 DEF TellInv, TellsOK, AnnouncedOK, LInv, RequestsOK
          <5>3. PICK n \in DOMAIN history[request[p].target] :
                  /\ ByCommit(request[p].target, n)
                  /\ CommitOf[Change(request[p].target, n)] = p
            BY <5>1 DEF TellInv, OutboxTellsHistory, ChangesAreAnnounced
          <5> QED
            BY <1>4, <5>2, <5>3 DEF Change
        <4> QED
          BY <4>1, <4>2
      <3> QED
        BY <3>1, <3>2 DEF ChangesAreAnnounced, ByCommit, Change
    <2>7. OutboxFollowsHistory'
      <3> SUFFICES ASSUME NEW s \in Resources, NEW m \in DOMAIN history'[s],
                          NEW n \in DOMAIN history'[s],
                          m < n, ByCommit(s, m)', ByCommit(s, n)',
                          NEW i \in DOMAIN outbox', NEW j \in DOMAIN outbox',
                          outbox'[i] = CommitOf[Change(s, m)'],
                          outbox'[j] = CommitOf[Change(s, n)']
                   PROVE  j < i
        BY DEF OutboxFollowsHistory, ByCommit, Change
      <3>1. /\ m \in DOMAIN history[s] /\ ByCommit(s, m)
            /\ Change(s, m)' = Change(s, m)
        <4>1. ~(s = r /\ m = last + 1)
          BY <1>1
        <4> QED
          BY <1>3, <4>1
      <3>2. i # 1 /\ i - 1 \in DOMAIN outbox
            /\ outbox[i - 1] = CommitOf[Change(s, m)]
        BY <1>4, <1>14, <2>2, <2>3, <3>1
      <3>3. CASE j = 1
        BY <2>2, <3>2, <3>3
      <3>4. CASE j # 1
        <4>1. j - 1 \in DOMAIN outbox /\ outbox[j - 1] = CommitOf[Change(s, n)']
          BY <2>3, <3>4
        <4>2. CommitOf[Change(s, n)'] # q
          BY <1>6, <1>14, <4>1 DEF Announced
        <4>3. n \in DOMAIN history[s] /\ ByCommit(s, n) /\ Change(s, n)' = Change(s, n)
          BY <1>3, <4>2
        <4>4. j - 1 < i - 1
          BY <3>1, <3>2, <4>1, <4>3 DEF TellInv, OutboxTellsHistory, OutboxFollowsHistory
        <4> QED
          BY <2>2, <4>4
      <3> QED
        BY <3>3, <3>4
    <2> QED
      BY <1>7, <1>8, <1>9, <1>10, <1>11, <1>12, <2>5, <2>6, <2>7
      DEF TellInv, TellsOK, OutboxTellsHistory
  <1>15. CASE ~(w \in Commits /\ request[q].publish)
    <2>1. outbox' = outbox
      BY <1>15
    <2>2. \A p : Announced(p)' <=> Announced(p)
      BY <2>1 DEF Announced
    <2>3. AnnouncedOK'
      BY <2>2 DEF TellInv, TellsOK, AnnouncedOK
    <2>4. ChangesAreAnnounced'
      <3>1. ASSUME NEW s \in Resources, NEW n \in DOMAIN history'[s], ByCommit(s, n)',
                   request[CommitOf[Change(s, n)']].publish
            PROVE  Announced(CommitOf[Change(s, n)'])
        <4>1. n \in DOMAIN history[s] /\ ByCommit(s, n) /\ Change(s, n)' = Change(s, n)
          BY <1>3, <1>15, <3>1
        <4> QED
          BY <3>1, <4>1 DEF TellInv, OutboxTellsHistory, ChangesAreAnnounced
      <3>2. ASSUME NEW p \in Requests, Announced(p)
            PROVE  \E n \in DOMAIN history'[request[p].target] :
                     /\ history'[request[p].target][n].by \in Commits
                     /\ CommitOf[history'[request[p].target][n].by] = p
        <4>1. request[p].target \in Resources
          BY <3>2 DEF TellInv, TellsOK, AnnouncedOK, LInv, RequestsOK
        <4>2. PICK n \in DOMAIN history[request[p].target] :
                /\ ByCommit(request[p].target, n)
                /\ CommitOf[Change(request[p].target, n)] = p
          BY <3>2 DEF TellInv, OutboxTellsHistory, ChangesAreAnnounced
        <4> QED
          BY <1>4, <4>1, <4>2 DEF Change
      <3> QED
        BY <2>1, <3>1, <3>2 DEF ChangesAreAnnounced, ByCommit, Change, Announced
    <2>5. OutboxFollowsHistory'
      <3> SUFFICES ASSUME NEW s \in Resources, NEW m \in DOMAIN history'[s],
                          NEW n \in DOMAIN history'[s],
                          m < n, ByCommit(s, m)', ByCommit(s, n)',
                          NEW i \in DOMAIN outbox, NEW j \in DOMAIN outbox,
                          outbox[i] = CommitOf[Change(s, m)'],
                          outbox[j] = CommitOf[Change(s, n)']
                   PROVE  j < i
        BY <2>1 DEF OutboxFollowsHistory
      <3>1. /\ m \in DOMAIN history[s] /\ ByCommit(s, m)
            /\ Change(s, m)' = Change(s, m)
        <4>1. ~(s = r /\ m = last + 1)
          BY <1>1
        <4> QED
          BY <1>3, <4>1
      <3>2. /\ n \in DOMAIN history[s] /\ ByCommit(s, n)
            /\ Change(s, n)' = Change(s, n)
        <4>1. ~(w \in Commits /\ Change(s, n)' = w)
          BY <1>6 DEF Announced
        <4> QED
          BY <1>3, <4>1
      <3> QED
        BY <3>1, <3>2 DEF TellInv, OutboxTellsHistory, OutboxFollowsHistory
    <2> QED
      BY <1>7, <1>8, <1>9, <1>10, <1>11, <1>12, <2>3, <2>4, <2>5
      DEF TellInv, TellsOK, OutboxTellsHistory
  <1> QED
    BY <1>14, <1>15

LEMMA TellNext ==
  ASSUME RevisionsAssumption, LocalWritesAssumption, LInv, TellInv,
         [LocalNext]_allVars
  PROVE  TellInv'
  <1>1. LInv'
    BY LocalNextInv
  <1>2. \A c \in Commits : c \in Writers
    BY DEF LocalWritesAssumption
  <1>3. ASSUME NEW c \in Commits, Save(c)
        PROVE  TellInv'
    <2>1. /\ Write(c) /\ c \in Writers
          /\ UNCHANGED <<request, clock>>
          /\ write[c].at = "write"
      BY <1>2, <1>3 DEF Save, Write
    <2>2. ~Reuses(write[c])
      <3> SUFFICES ASSUME Reuses(write[c]) PROVE FALSE
        OBVIOUS
      <3> DEFINE q == CommitOf[c]
      <3>1. /\ write[c].on = request[q].target
            /\ request[q].operation = "createObject"
            /\ q \in Requests
            /\ commit[c] = "write"
        BY <2>1 DEF Reuses, TellInv, TellsOK, WritesOK, LocalWritesAssumption,
                    LInv, CommitsOK
      <3>2. /\ Creates(q) /\ request[q].at # "none"
            /\ q \in DOMAIN NewObject
            /\ request[q].target = NewObject[q] /\ NewObject[q] \in Resources
        BY <3>1 DEF Creates, LInv, CommitsOK, RequestsOK, LocalWritesAssumption
      <3>3. \A d \in Commits : CommitOf[d] = q => ~Saves(d)
        <4> SUFFICES ASSUME NEW d \in Commits, CommitOf[d] = q, Saves(d)
                     PROVE  FALSE
          OBVIOUS
        <4>1. commit[d] = "over"
          BY DEF LInv, SavesOK
        <4> QED
          BY <3>1, <4>1 DEF LInv, SavesOK
      <3>4. head[NewObject[q]] = 0
        BY <3>1, <3>2, <3>3 DEF TellInv, TellsOK, UnsavedOK
      <3> QED
        BY <3>1, <3>2, <3>4 DEF TellInv, TellsOK, KindsOK, Reuses
    <2>3. write'[c].at = "done"
      BY <2>1, <2>2, WriteAdds
    <2>4. \A d \in Commits : commit'[d] # "idle" => commit[d] # "idle"
      BY <1>2, <1>3, <2>1 DEF Save, ReleaseActor, Going, LInv, LocalTypeOK, CommitsOK
    <2>5. \/ /\ c \in Commits /\ request[CommitOf[c]].publish
             /\ Announced(CommitOf[c]) \/ outbox' = <<CommitOf[c]>> \o outbox
          \/ /\ ~(c \in Commits /\ request[CommitOf[c]].publish)
             /\ outbox' = outbox
      BY <1>3, <2>3 DEF Save, AddToOutbox, Announced
    <2> QED
      BY <1>1, <2>1, <2>2, <2>4, <2>5, WriteTells
  <1>4. ASSUME NEW w \in Writers \ Commits, Direct(w)
        PROVE  TellInv'
    <2>1. CASE UNCHANGED store
      BY <1>4, <2>1, QuietTells
    <2>2. CASE ~UNCHANGED store
      <3>1. Write(w) /\ ~Reuses(write[w])
        BY <1>4, <2>2 DEF Direct, Call, Transaction, Lock, Check, Abort, Write
      <3>2. UNCHANGED <<request, clock>> /\ commit' = commit /\ outbox' = outbox
        BY <1>4 DEF Direct, localVars
      <3> QED
        BY <1>1, <3>1, <3>2, WriteTells
    <2> QED
      BY <2>1, <2>2
  <1> QED
    BY <1>2, <1>3, <1>4, LoadTells, ClientTells, PrepareTells, QuietTells
    DEF LocalNext, Client, Commit

LEMMA TellInvariance == LocalSpec => []TellInv
  <1>1. LocalInit => TellInv
    BY LocalWritesAssumption, TellInitially
  <1>2. LInv /\ TellInv /\ [LocalNext]_allVars => TellInv'
    BY RevisionsAssumption, LocalWritesAssumption, TellNext
  <1> QED
    BY <1>1, <1>2, LocalInvariance, PTL DEF LocalSpec

\* Along the history of an object the timestamps that commits saved increase,
\* although each was allocated by a preview, before the lock.
THEOREM StampsAdvance == LocalSpec => []UpdatedAdvances
  BY TellInvariance, PTL DEF TellInv

\* The outbox announces each change that was to be published, no other, and in
\* the order of the history.
THEOREM OutboxIsTrue == LocalSpec => []OutboxTellsHistory
  BY TellInvariance, PTL DEF TellInv
=============================================================================
