------------------------------ MODULE LockOrder ------------------------------
(***************************************************************************)
(* The locks that transactions writing several resources take, and their    *)
(* order: store() of federation inbox-persist.ts, commitLocalWrite() of     *)
(* local-write/operation.ts, and the helpers of models resource.ts,         *)
(* instance.ts and resource-revision.ts they share.  A lock is held until   *)
(* its transaction ends; one that is held makes others wait.                *)
(*                                                                         *)
(* A reception first inserts its sender's host, unless it is registered; a  *)
(* commit locks its own actor, and that actor's outbox if it has an item    *)
(* for it.  Receptions of different or of registered hosts, and commits of  *)
(* different actors, therefore meet only on IRIs, as numerous as they are.  *)
(* IRIs are numbered in the order they sort.  Inserting the row of an IRI   *)
(* that is not registered holds its unique index; a registered IRI is found *)
(* without a lock.  PostgreSQL is external.                                 *)
(***************************************************************************)
EXTENDS Integers, FiniteSets

CONSTANTS
  Writers,     \* transactions, each run once
  Hosts,       \* hosts of remote actors
  LocalActors, \* actors that write locally
  Iris,        \* canonical IRIs, numbered as they sort
  Writes       \* what a transaction may write

\* A transaction's form, the host it receives from or the actor it writes as,
\* whether an outbox item follows, the IRIs it refers to, which its addressing
\* rows name, and those it promotes or appends to.
Plans ==
  {p \in [form : {"inbox", "commit"}, of : Hosts \union LocalActors,
          outboxed : BOOLEAN, named : SUBSET Iris, promoted : SUBSET Iris] :
     /\ p.of \in (IF p.form = "inbox" THEN Hosts ELSE LocalActors)
     /\ p.promoted \subseteq p.named}

ASSUME LockAssumption ==
  /\ IsFiniteSet(Iris) /\ Iris = 1 .. Cardinality(Iris)
  /\ Writes \subseteq Plans

VARIABLES
  plan,       \* what each transaction writes
  phase,      \* where it is
  done,       \* the IRIs it has gone through in this phase
  held,       \* the locks it holds
  registered, \* the IRIs committed in resources
  instances   \* the hosts committed in instances

lockVars == <<plan, phase, done, held, registered, instances>>

\* A lock: what kind of row or index entry it is on, and which one.
Classes == {"instance", "actor", "outbox", "index", "row", "share"}
Lock(class, on) == [class |-> class, on |-> on]
Locks == [class : Classes, on : Iris \union Hosts \union LocalActors]

Phases == {"instance", "actor", "outbox", "register", "rows", "address", "over"}

LockInit ==
  /\ plan \in [Writers -> Writes]
  /\ phase = [w \in Writers |-> IF plan[w].form = "inbox" THEN "instance"
                                ELSE "actor"]
  /\ done = [w \in Writers |-> {}]
  /\ held = [w \in Writers |-> {}]
  /\ registered \in SUBSET Iris
  /\ instances \in SUBSET Hosts

-----------------------------------------------------------------------------
\* Promotions of a row exclude each other, but not the foreign key checks of
\* rows referring to it; those share.
Conflict(l, m) == l = m /\ l.class # "share"

Blocks(v, l) == \E m \in held[v] : Conflict(l, m)
Free(w, l) == \A v \in Writers \ {w} : ~Blocks(v, l)

\* Mutant: IRIs are registered in the order the transaction names them.
TurnOfAny(w, iris, i) == i \in iris \ done[w]

\* It is the turn of the smallest IRI not gone through yet.
Turn(w, iris, i) ==
  /\ i \in iris \ done[w]
  /\ \A j \in iris \ done[w] : i <= j

\* Whom the next IRI is an insertion for: nobody's, once it is registered.
Unregistered(w, i) ==
  i \notin registered /\ Lock("index", i) \notin held[w]

\* The lock a transaction asks for next.
Wanted(w, l) ==
  \/ /\ phase[w] = "instance" /\ plan[w].of \notin instances
     /\ l = Lock("instance", plan[w].of)
  \/ phase[w] \in {"actor", "outbox"} /\ l = Lock(phase[w], plan[w].of)
  \/ /\ phase[w] = "register"
     /\ \E i \in Iris : /\ Turn(w, plan[w].named, i)
                        /\ Unregistered(w, i)
                        /\ l = Lock("index", i)
  \/ /\ phase[w] = "rows"
     /\ \E i \in Iris : Turn(w, plan[w].promoted, i) /\ l = Lock("row", i)
  \/ /\ phase[w] = "address"
     /\ \E i \in plan[w].named \ done[w] : l = Lock("share", i)

WaitsFor(w, v) == v # w /\ \E l \in held[v] : Wanted(w, l) /\ Blocks(v, l)

-----------------------------------------------------------------------------
Takes(w, l) ==
  /\ Free(w, l)
  /\ held' = [held EXCEPT ![w] = @ \union {l}]

Enters(w, next) ==
  /\ phase' = [phase EXCEPT ![w] = next]
  /\ done' = [done EXCEPT ![w] = {}]

WriterPasses(w, i) ==
  /\ done' = [done EXCEPT ![w] = @ \union {i}]
  /\ UNCHANGED phase

\* ensureRemoteInstance() finds the instance of the actor's host registered, or
\* inserts it once no other insertion of that host is pending.
EnsureInstance(w) ==
  /\ phase[w] = "instance"
  /\ IF plan[w].of \in instances THEN UNCHANGED held
     ELSE Takes(w, Lock("instance", plan[w].of))
  /\ Enters(w, "register")
  /\ UNCHANGED <<plan, registered, instances>>

\* findWritingActor() locks the row of the actor the request writes as.
LockActor(w) ==
  /\ phase[w] = "actor"
  /\ Takes(w, Lock("actor", plan[w].of))
  /\ Enters(w, IF plan[w].outboxed THEN "outbox" ELSE "register")
  /\ UNCHANGED <<plan, registered, instances>>

\* A write that is not published leaves its actor's outbox alone.
LockActorCollection(w) ==
  /\ phase[w] = "outbox"
  /\ Takes(w, Lock("outbox", plan[w].of))
  /\ Enters(w, "register")
  /\ UNCHANGED <<plan, registered, instances>>

\* ensureResource() finds the IRI, or inserts it once no other insertion of it
\* is pending.
EnsureResource(w, i) ==
  /\ phase[w] = "register"
  /\ Turn(w, plan[w].named, i)
  /\ IF Unregistered(w, i) THEN Takes(w, Lock("index", i)) ELSE UNCHANGED held
  /\ WriterPasses(w, i)
  /\ UNCHANGED <<plan, registered, instances>>

\* Every IRI is registered before the first row is locked.
LockRows(w) ==
  /\ phase[w] = "register"
  /\ plan[w].named \subseteq done[w]
  /\ Enters(w, "rows")
  /\ UNCHANGED <<plan, held, registered, instances>>

\* lockResources(): the promotions and appends that follow lock the same rows
\* again.
LockResource(w, i) ==
  /\ phase[w] = "rows"
  /\ Turn(w, plan[w].promoted, i)
  /\ Takes(w, Lock("row", i))
  /\ WriterPasses(w, i)
  /\ UNCHANGED <<plan, registered, instances>>

StoreAddressing(w) ==
  /\ phase[w] = "rows"
  /\ plan[w].promoted \subseteq done[w]
  /\ Enters(w, "address")
  /\ UNCHANGED <<plan, held, registered, instances>>

\* An addressing row's foreign key shares the row it refers to, in the order of
\* the properties and positions.
AddressResource(w, i) ==
  /\ phase[w] = "address"
  /\ i \in plan[w].named \ done[w]
  /\ Takes(w, Lock("share", i))
  /\ WriterPasses(w, i)
  /\ UNCHANGED <<plan, registered, instances>>

Inserted(w, class) == {m.on : m \in {l \in held[w] : l.class = class}}

Commit(w) ==
  /\ phase[w] = "address"
  /\ plan[w].named \subseteq done[w]
  /\ registered' = registered \union Inserted(w, "index")
  /\ instances' = instances \union Inserted(w, "instance")
  /\ Enters(w, "over")
  /\ held' = [held EXCEPT ![w] = {}]
  /\ UNCHANGED plan

\* A refusal or an error rolls everything back, a lost connection even a
\* transaction that waits.
Rollback(w) ==
  /\ phase[w] # "over"
  /\ Enters(w, "over")
  /\ held' = [held EXCEPT ![w] = {}]
  /\ UNCHANGED <<plan, registered, instances>>

WriterNext(w) ==
  \/ EnsureInstance(w) \/ LockActor(w) \/ LockActorCollection(w)
  \/ \E i \in Iris :
       EnsureResource(w, i) \/ LockResource(w, i) \/ AddressResource(w, i)
  \/ LockRows(w) \/ StoreAddressing(w) \/ Commit(w) \/ Rollback(w)

LockNext == \E w \in Writers : WriterNext(w)

LockSpec == LockInit /\ [][LockNext]_lockVars

-----------------------------------------------------------------------------
(* Properties                                                              *)

LockTypeOK ==
  /\ plan \in [Writers -> Writes]
  /\ phase \in [Writers -> Phases]
  /\ done \in [Writers -> SUBSET Iris]
  /\ held \in [Writers -> SUBSET Locks]
  /\ registered \in SUBSET Iris
  /\ instances \in SUBSET Hosts

\* Transactions never wait for each other in a cycle, whatever resources they
\* register, promote and refer to: of any that wait, one waits for none of
\* the others.
NoWaitCycle ==
  \A S \in SUBSET Writers : S # {} =>
    \E w \in S : \A v \in S : ~WaitsFor(w, v)
=============================================================================
