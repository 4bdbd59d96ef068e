----------------------- MODULE ConcurrentCallersProofs -----------------------
(***************************************************************************)
(* Proofs about LockOrder, ActorKeys, LoginSessions, AccountLimits,         *)
(* ReadableResources and DeliveryVerification, the places where calls meet  *)
(* on rows of one database.  The components share nothing: each has a       *)
(* section, with the invariant its theorem rests on.                       *)
(***************************************************************************)
EXTENDS LockOrder, ActorKeys, LoginSessions, AccountLimits, ReadableResources,
        DeliveryVerification, FiniteSetTheorems, SequenceTheorems, WellFoundedInduction, TLAPS

-----------------------------------------------------------------------------
(***************************************************************************)
(* Proofs about LockOrder, for any transactions, hosts, actors and IRIs.    *)
(* Locks are ranked by their class and then by their IRI, those of hosts    *)
(* and of actors below all others; a transaction that may have to wait only *)
(* ever asks for a lock above all it holds (Ascending), so that in a cycle  *)
(* of waits every rank would be below the next.                             *)
(***************************************************************************)

Width == Cardinality(Iris) + 1

ClassRank(class) ==
  IF class \in {"instance", "actor"} THEN 0
  ELSE IF class = "outbox" THEN Width
  ELSE IF class = "index" THEN Width + Width
  ELSE IF class = "row" THEN Width + Width + Width
  ELSE Width + Width + Width + Width

Early(m) == m.class \in {"instance", "actor", "outbox"}

Rank(l) == IF Early(l) THEN ClassRank(l.class) ELSE ClassRank(l.class) + l.on
Above == Width + Width + Width + Width + Width

\* Only IRIs have index entries and rows to lock.
PlacesOK ==
  \A w \in Writers : \A m \in held[w] :
    /\ Early(m) \/ m.on \in Iris
    /\ m.class = "instance" => m.on \in Hosts

\* What a transaction holds in a phase that may have to wait.
HeldOK ==
  \A w \in Writers :
    /\ phase[w] \in {"instance", "actor"} => held[w] = {}
    /\ phase[w] = "instance" => plan[w].form = "inbox"
    /\ phase[w] = "outbox" => \A m \in held[w] : m.class = "actor"
    /\ phase[w] = "register" =>
         \A m \in held[w] : Early(m) \/ (m.class = "index" /\ m.on \in done[w])
    /\ phase[w] = "rows" =>
         \A m \in held[w] : \/ Early(m) \/ m.class = "index"
                            \/ m.class = "row" /\ m.on \in done[w]

\* It goes through its IRIs in ascending order.
DoneOK ==
  \A w \in Writers :
    /\ phase[w] = "register" =>
         \A i \in done[w], j \in plan[w].named \ done[w] : i < j
    /\ phase[w] = "rows" =>
         \A i \in done[w], j \in plan[w].promoted \ done[w] : i < j

LockInv == LockTypeOK /\ PlacesOK /\ HeldOK /\ DoneOK

LEMMA IrisAreNumbers ==
  /\ Width \in Nat
  /\ \A i \in Iris : i \in Nat /\ i > 0 /\ i < Width
<1>1. Cardinality(Iris) \in Nat
  BY LockAssumption, FS_CardinalityType
<1> QED
  BY <1>1, LockAssumption DEF Width

LEMMA PlansAreOfIris ==
  ASSUME LockTypeOK, NEW w \in Writers
  PROVE  /\ plan[w].form \in {"inbox", "commit"}
         /\ plan[w].of \in Hosts \union LocalActors
         /\ plan[w].form = "inbox" => plan[w].of \in Hosts
         /\ plan[w].named \subseteq Iris /\ plan[w].promoted \subseteq Iris
BY LockAssumption DEF LockTypeOK, Plans

LEMMA LockOf ==
  ASSUME NEW class \in Classes, NEW on \in Iris \union Hosts \union LocalActors
  PROVE  /\ Lock(class, on) \in Locks
         /\ Lock(class, on).class = class /\ Lock(class, on).on = on
BY DEF Lock, Locks

\* What a transaction commits are hosts and IRIs.
LEMMA InsertedOf ==
  ASSUME PlacesOK, NEW w \in Writers
  PROVE  Inserted(w, "index") \subseteq Iris /\ Inserted(w, "instance") \subseteq Hosts
BY DEF PlacesOK, Inserted, Early

LEMMA LockInitially == LockInit => LockInv
<1> SUFFICES ASSUME LockInit
             PROVE  LockInv
  OBVIOUS
<1>1. \A w \in Writers : plan[w].form \in {"inbox", "commit"}
  BY LockAssumption DEF LockInit, Plans
<1> QED
  BY <1>1 DEF LockInit, LockInv, LockTypeOK, PlacesOK, HeldOK, DoneOK, Phases

-----------------------------------------------------------------------------
\* Every step of a transaction leaves the other ones' invariant alone.
LEMMA WriterKeeps ==
  ASSUME LockInv, NEW w \in Writers, WriterNext(w)
  PROVE  LockInv'
<1> USE DEF LockInv, LockTypeOK
<1>1. CASE EnsureInstance(w)
  <2> DEFINE l == Lock("instance", plan[w].of)
  <2>1. l \in Locks /\ l.class = "instance" /\ l.on \in Hosts
    BY <1>1, PlansAreOfIris, LockOf DEF EnsureInstance, HeldOK, Classes
  <2>2. /\ held' \in {held, [held EXCEPT ![w] = @ \union {l}]} /\ held[w] = {}
        /\ phase' = [phase EXCEPT ![w] = "register"]
        /\ done' = [done EXCEPT ![w] = {}]
        /\ UNCHANGED <<plan, registered, instances>>
    BY <1>1 DEF EnsureInstance, Takes, Enters, HeldOK
  <2>3. LockTypeOK'
    BY <2>1, <2>2 DEF Phases
  <2>4. PlacesOK' /\ HeldOK' /\ DoneOK'
    BY <2>1, <2>2 DEF Early, PlacesOK, HeldOK, DoneOK
  <2> QED
    BY <2>3, <2>4
<1>2. CASE LockActor(w)
  <2> DEFINE l == Lock("actor", plan[w].of)
             next == IF plan[w].outboxed THEN "outbox" ELSE "register"
  <2>1. l \in Locks /\ l.class = "actor"
    BY PlansAreOfIris, LockOf DEF Classes
  <2>2. /\ held' = [held EXCEPT ![w] = @ \union {l}] /\ held[w] = {}
        /\ phase' = [phase EXCEPT ![w] = next]
        /\ done' = [done EXCEPT ![w] = {}]
        /\ UNCHANGED <<plan, registered, instances>>
    BY <1>2 DEF LockActor, Takes, Enters, HeldOK
  <2>3. next \in {"outbox", "register"}
    OBVIOUS
  <2> HIDE DEF l, next
  <2>4. LockTypeOK'
    BY <2>1, <2>2, <2>3 DEF Phases
  <2>5. PlacesOK' /\ HeldOK' /\ DoneOK'
    BY <2>1, <2>2, <2>3 DEF Early, PlacesOK, HeldOK, DoneOK
  <2> QED
    BY <2>4, <2>5
<1>3. CASE LockActorCollection(w)
  <2> DEFINE l == Lock("outbox", plan[w].of)
  <2>1. l \in Locks /\ l.class = "outbox"
    BY PlansAreOfIris, LockOf DEF Classes
  <2>2. /\ held' = [held EXCEPT ![w] = @ \union {l}]
        /\ \A m \in held[w] : m.class = "actor"
        /\ phase' = [phase EXCEPT ![w] = "register"]
        /\ done' = [done EXCEPT ![w] = {}]
        /\ UNCHANGED <<plan, registered, instances>>
    BY <1>3 DEF LockActorCollection, Takes, Enters, HeldOK
  <2> HIDE DEF l
  <2>3. LockTypeOK'
    BY <2>1, <2>2 DEF Phases
  <2>4. PlacesOK' /\ HeldOK' /\ DoneOK'
    BY <2>1, <2>2 DEF Early, PlacesOK, HeldOK, DoneOK
  <2> QED
    BY <2>3, <2>4
<1>4. ASSUME NEW i \in Iris, EnsureResource(w, i)
      PROVE  LockInv'
  <2>1. LockTypeOK'
    BY <1>4, LockOf DEF EnsureResource, Takes, WriterPasses, Classes
  <2>2. /\ phase[w] = "register" /\ Turn(w, plan[w].named, i)
        /\ held' \in {held, [held EXCEPT ![w] = @ \union {Lock("index", i)}]}
        /\ done' = [done EXCEPT ![w] = @ \union {i}]
        /\ UNCHANGED <<phase, plan>>
    BY <1>4 DEF EnsureResource, Takes, WriterPasses
  <2>3. Lock("index", i).class = "index" /\ Lock("index", i).on = i
    BY DEF Lock
  <2>4. PlacesOK' /\ HeldOK'
    BY <2>2, <2>3 DEF PlacesOK, HeldOK
  <2>5. DoneOK'
    <3>1. \A a \in done'[w], b \in plan[w].named \ done'[w] : a < b
      BY <2>2, PlansAreOfIris, IrisAreNumbers DEF DoneOK, Turn
    <3> QED
      BY <2>2, <3>1 DEF DoneOK
  <2> QED
    BY <2>1, <2>4, <2>5
<1>5. CASE LockRows(w)
  <2>1. LockTypeOK'
    BY <1>5 DEF LockRows, Enters, Phases
  <2>2. PlacesOK' /\ HeldOK' /\ DoneOK'
    BY <1>5 DEF LockRows, Enters, PlacesOK, HeldOK, DoneOK
  <2> QED
    BY <2>1, <2>2
<1>6. ASSUME NEW i \in Iris, LockResource(w, i)
      PROVE  LockInv'
  <2>1. LockTypeOK'
    BY <1>6, LockOf DEF LockResource, Takes, WriterPasses, Classes
  <2>2. /\ phase[w] = "rows" /\ Turn(w, plan[w].promoted, i)
        /\ held' = [held EXCEPT ![w] = @ \union {Lock("row", i)}]
        /\ done' = [done EXCEPT ![w] = @ \union {i}]
        /\ UNCHANGED <<phase, plan>>
    BY <1>6 DEF LockResource, Takes, WriterPasses
  <2>3. Lock("row", i).class = "row" /\ Lock("row", i).on = i
    BY DEF Lock
  <2>4. PlacesOK' /\ HeldOK'
    BY <2>2, <2>3 DEF PlacesOK, HeldOK
  <2>5. DoneOK'
    <3>1. \A a \in done'[w], b \in plan[w].promoted \ done'[w] : a < b
      BY <2>2, PlansAreOfIris, IrisAreNumbers DEF DoneOK, Turn
    <3> QED
      BY <2>2, <3>1 DEF DoneOK
  <2> QED
    BY <2>1, <2>4, <2>5
<1>7. CASE StoreAddressing(w) \/ Commit(w) \/ Rollback(w)
  <2>1. LockTypeOK'
    BY <1>7, InsertedOf DEF StoreAddressing, Commit, Rollback, Enters, Phases
  <2>2. PlacesOK' /\ HeldOK' /\ DoneOK'
    BY <1>7 DEF StoreAddressing, Commit, Rollback, Enters, PlacesOK, HeldOK, DoneOK
  <2> QED
    BY <2>1, <2>2
<1>8. ASSUME NEW i \in Iris, AddressResource(w, i)
      PROVE  LockInv'
  <2>1. LockTypeOK'
    BY <1>8, LockOf DEF AddressResource, Takes, WriterPasses, Classes
  <2>2. /\ held' = [held EXCEPT ![w] = @ \union {Lock("share", i)}]
        /\ Lock("share", i).class = "share" /\ Lock("share", i).on = i
        /\ phase[w] = "address"
        /\ UNCHANGED <<phase, plan>> /\ \A v \in Writers \ {w} : done'[v] = done[v]
    BY <1>8 DEF AddressResource, Takes, WriterPasses, Lock
  <2>3. PlacesOK' /\ HeldOK' /\ DoneOK'
    BY <2>2 DEF PlacesOK, HeldOK, DoneOK
  <2> QED
    BY <2>1, <2>3
<1> QED
  BY <1>1, <1>2, <1>3, <1>4, <1>5, <1>6, <1>7, <1>8 DEF WriterNext

LEMMA LockStep == LockInv /\ [LockNext]_lockVars => LockInv'
<1> SUFFICES ASSUME LockInv, [LockNext]_lockVars
             PROVE  LockInv'
  OBVIOUS
<1>1. CASE LockNext
  BY <1>1, WriterKeeps DEF LockNext
<1>2. CASE UNCHANGED lockVars
  BY <1>2 DEF lockVars, LockInv, LockTypeOK, PlacesOK, HeldOK, DoneOK
<1> QED
  BY <1>1, <1>2

-----------------------------------------------------------------------------
(* Ranks                                                                    *)

LEMMA RanksAreBelow ==
  ASSUME NEW l \in Locks, Early(l) \/ l.on \in Iris
  PROVE  Rank(l) \in Nat /\ Rank(l) < Above
<1>1. /\ l.class \in Classes /\ Width \in Nat /\ 0 < Width
      /\ Early(l) \/ (l.on \in Nat /\ l.on < Width)
  BY IrisAreNumbers, LockAssumption, FS_CardinalityType DEF Locks, Width
<1> QED
  BY <1>1 DEF Rank, ClassRank, Above, Early, Classes

\* Whoever may have to wait asks for more than it holds.
LEMMA Ascending ==
  ASSUME LockInv, NEW w \in Writers, NEW l \in Locks, Wanted(w, l), l.class # "share",
         NEW m \in held[w]
  PROVE  Rank(m) < Rank(l)
<1>1. m \in Locks /\ Width \in Nat /\ Width > 0
  BY IrisAreNumbers, LockAssumption, FS_CardinalityType
     DEF LockInv, LockTypeOK, Width
<1>2. /\ m.class \in Classes
      /\ Early(m) \/ (m.on \in Nat /\ m.on > 0 /\ m.on < Width)
  BY <1>1, IrisAreNumbers DEF LockInv, PlacesOK, Locks
<1>3. CASE phase[w] \in {"instance", "actor"}
  BY <1>3 DEF LockInv, HeldOK
<1>4. CASE phase[w] = "outbox"
  <2>1. m.class = "actor" /\ l.class = "outbox"
    BY <1>4 DEF LockInv, HeldOK, Wanted, Lock
  <2> QED
    BY <1>1, <2>1 DEF Rank, Early, ClassRank
<1>5. CASE phase[w] = "register"
  <2>1. PICK i \in Iris : Turn(w, plan[w].named, i) /\ l = Lock("index", i)
    BY <1>5 DEF Wanted
  <2>2. Rank(l) = Width + Width + i /\ i \in Nat /\ i > 0
    BY <2>1, IrisAreNumbers DEF Lock, Rank, Early, ClassRank
  <2>3. CASE Early(m)
    BY <1>1, <2>2, <2>3 DEF Early, Rank, ClassRank
  <2>4. CASE m.class = "index" /\ m.on \in done[w]
    <3>1. m.on < i
      BY <1>5, <2>1, <2>4 DEF LockInv, DoneOK, Turn
    <3>2. Rank(m) = Width + Width + m.on /\ ~Early(m)
      BY <2>4 DEF Rank, Early, ClassRank
    <3> QED
      BY <1>1, <1>2, <2>2, <3>1, <3>2
  <2> QED
    BY <1>5, <2>3, <2>4 DEF LockInv, HeldOK
<1>6. CASE phase[w] = "rows"
  <2>1. PICK i \in Iris : Turn(w, plan[w].promoted, i) /\ l = Lock("row", i)
    BY <1>6 DEF Wanted
  <2>2. Rank(l) = Width + Width + Width + i /\ i \in Nat /\ i > 0
    BY <2>1, IrisAreNumbers DEF Lock, Rank, Early, ClassRank
  <2>3. CASE Early(m)
    BY <1>1, <2>2, <2>3 DEF Early, Rank, ClassRank
  <2>4. CASE m.class = "index"
    <3>1. Rank(m) = Width + Width + m.on /\ ~Early(m)
      BY <2>4 DEF Rank, Early, ClassRank
    <3> QED
      BY <1>1, <1>2, <2>2, <3>1
  <2>5. CASE m.class = "row" /\ m.on \in done[w]
    <3>1. m.on < i
      BY <1>6, <2>1, <2>5 DEF LockInv, DoneOK, Turn
    <3>2. Rank(m) = Width + Width + Width + m.on /\ ~Early(m)
      BY <2>5 DEF Rank, Early, ClassRank
    <3> QED
      BY <1>1, <1>2, <2>2, <3>1, <3>2
  <2> QED
    BY <1>6, <2>3, <2>4, <2>5 DEF LockInv, HeldOK
<1>7. CASE phase[w] \notin {"instance", "actor", "outbox", "register", "rows"}
  BY <1>7 DEF Wanted, Lock
<1> QED
  BY <1>3, <1>4, <1>5, <1>6, <1>7

\* Every set of naturals that is not empty has a least.
LEMMA LeastOf ==
  ASSUME NEW T \in SUBSET Nat, T # {}
  PROVE  \E x \in T : \A y \in T : ~(y < x)
<1> DEFINE Initial == {0 .. (n - 1) : n \in T}
<1>1. Initial \subseteq FiniteSubsetsOf(Nat) /\ Initial # {}
  <2>1. ASSUME NEW n \in T
        PROVE  0 .. (n - 1) \in FiniteSubsetsOf(Nat)
    BY FS_Interval DEF FiniteSubsetsOf
  <2> QED
    BY <2>1
<1>2. IsWellFoundedOn(StrictSubsetOrdering(Nat), FiniteSubsetsOf(Nat))
  BY FS_StrictSubsetOrderingWellFounded
<1>3. PICK U \in Initial : \A V \in Initial : ~(<<V, U>> \in StrictSubsetOrdering(Nat))
  <2> HIDE DEF Initial
  <2> QED
    BY <1>1, <1>2, WFMin
<1>4. PICK x \in T : U = 0 .. (x - 1)
  OBVIOUS
<1>5. ASSUME NEW y \in T, y < x
      PROVE  FALSE
  <2>1. 0 .. (y - 1) \in SUBSET Nat /\ 0 .. (x - 1) \in SUBSET Nat
    OBVIOUS
  <2>2. 0 .. (y - 1) \subseteq 0 .. (x - 1) /\ 0 .. (y - 1) # 0 .. (x - 1)
    <3>1. y \in 0 .. (x - 1) /\ y \notin 0 .. (y - 1)
      BY <1>5
    <3> QED
      BY <1>5, <3>1
  <2>3. <<0 .. (y - 1), 0 .. (x - 1)>> \in StrictSubsetOrdering(Nat)
    BY <2>1, <2>2 DEF StrictSubsetOrdering
  <2> QED
    BY <1>3, <1>4, <2>3
<1> QED
  BY <1>5

LEMMA WaitsEnd == LockInv => NoWaitCycle
<1> SUFFICES ASSUME LockInv, NEW S \in SUBSET Writers, S # {},
                    \A w \in S : \E v \in S : WaitsFor(w, v)
             PROVE  FALSE
  BY DEF NoWaitCycle
<1> DEFINE Waited == {l \in Locks : \E w, v \in S : l \in held[v] /\ Wanted(w, l) /\ Blocks(v, l)}
           Room == {Above - Rank(l) : l \in Waited}
<1>1. \A w \in S : \E v \in S : \E l \in Waited : Wanted(w, l) /\ Blocks(v, l)
  BY DEF WaitsFor, LockInv, LockTypeOK
<1>2. Room \in SUBSET Nat /\ Room # {}
  <2>1. Waited # {}
    BY <1>1
  <2>2. \A l \in Waited : Above - Rank(l) \in Nat
    BY RanksAreBelow, IrisAreNumbers DEF Above, LockInv, PlacesOK
  <2> QED
    BY <2>1, <2>2
<1>3. PICK l \in Waited : \A m \in Waited : ~(Above - Rank(m) < Above - Rank(l))
  BY <1>2, LeastOf
<1>4. PICK v \in S : Blocks(v, l)
  OBVIOUS
<1>5. l \in held[v]
  BY <1>4 DEF Blocks, Conflict
<1>6. PICK u \in S, m \in Waited : Wanted(v, m) /\ Blocks(u, m)
  BY <1>1
<1>7. m.class # "share"
  BY <1>6 DEF Blocks, Conflict
<1>8. Rank(l) < Rank(m)
  BY <1>5, <1>6, <1>7, Ascending
<1>9. Rank(l) \in Nat /\ Rank(m) \in Nat /\ Above \in Nat
  BY RanksAreBelow, IrisAreNumbers DEF Above, LockInv, PlacesOK
<1> QED
  BY <1>3, <1>8, <1>9

\* Transactions that write several resources, in an inbox or by a local write,
\* never wait for each other in a cycle, whichever they are (lockResources() of
\* resource.ts, and the sorted registration before it).
THEOREM NobodyWaitsForever == LockSpec => []NoWaitCycle
BY LockInitially, LockStep, WaitsEnd, PTL DEF LockSpec

-----------------------------------------------------------------------------
(***************************************************************************)
(* Proofs about ActorKeys, for any calls, processes and algorithms.  That a *)
(* caller is answered with the pairs that are saved rests on two things: a  *)
(* saved pair is never replaced, and an operation that saves knows of every *)
(* type whether it is missing, OperationsOK.                                *)
(***************************************************************************)

Complete(rows) == \A t \in Types : rows[t] # None

\* Whoever must have keys, or has some, has both, those that are saved.
AnswersOK ==
  \A c \in Callers :
    \/ answer[c] # NoKeys
    \/ call[c] = "answered" /\ actor = "live" /\ ~broken
    => Complete(answer[c]) /\ (actor # "removed" => answer[c] = keys)

\* What an operation read of the actor stays true of it.
OperationOK(p) ==
  /\ op[p].at \in {"generate", "lock", "save"} /\ actor # "removed" =>
       \A t \in Types : t \in op[p].missing \/ keys[t] # None
  /\ op[p].at = "save" => actorLock = p /\ actor # "removed"
  /\ op[p].seen = "deleted" => actor # "live"

OperationsOK == \A p \in Processes : OperationOK(p)

KInv == KeyTypeOK /\ AnswersOK /\ OperationsOK

Operations == [at : Points, attempt : Attempts, seen : {"live", "deleted"},
               missing : SUBSET Types]

LEMMA NoOperationIsOne == NoOperation \in Operations
BY KeyAssumption DEF NoOperation, Operations, Points, Attempts

LEMMA KeyInitially == KeyInit => KInv
<1> SUFFICES ASSUME KeyInit
             PROVE  KInv
  OBVIOUS
<1>1. \A p \in Processes : op[p] = NoOperation /\ op[p].at = "none" /\ op[p].seen = "live"
  BY DEF KeyInit, NoOperation
<1>2. 0 \in Attempts
  BY KeyAssumption DEF Attempts
<1>3. op \in [Processes -> Operations]
  BY NoOperationIsOne DEF KeyInit
<1>4. keys \in [Types -> Attempts \union {None}] /\ NoKeys \in [Types -> Attempts \union {None}]
  BY <1>2 DEF KeyInit, NoKeys
<1>5. KeyTypeOK
  BY <1>2, <1>3, <1>4 DEF KeyInit, KeyTypeOK, Operations
<1>6. AnswersOK
  BY DEF KeyInit, AnswersOK
<1>7. OperationsOK
  BY <1>1 DEF OperationsOK, OperationOK
<1> QED
  BY <1>5, <1>6, <1>7 DEF KInv

-----------------------------------------------------------------------------
\* An operation that ends answers with nothing, or with the pairs that are saved.
LEMMA SettlingKeeps ==
  ASSUME KInv, NEW p \in Processes, NEW outcome \in {"answered", "failed"}, NEW pairs,
         Settles(p, outcome, pairs), UNCHANGED <<actor, broken, attempts>>,
         keys' \in [Types -> Attempts \union {None}],
         \A t \in Types : keys[t] # None => keys'[t] = keys[t],
         actorLock' \in Processes \union {None},
         \A q \in Processes \ {p} : actorLock = q => actorLock' = q,
         pairs = NoKeys \/ (Complete(pairs) /\ pairs = keys'),
         outcome = "answered" /\ actor = "live" /\ ~broken =>
           Complete(pairs) /\ pairs = keys'
  PROVE  KInv'
<1> USE DEF KInv, KeyTypeOK
<1>1. /\ op'[p] = NoOperation /\ op' \in [Processes -> Operations]
      /\ \A q \in Processes \ {p} : op'[q] = op[q]
  BY NoOperationIsOne DEF Settles, Operations
<1>2. pairs \in [Types -> Attempts \union {None}]
  BY DEF NoKeys
<1>3. KeyTypeOK'
  BY <1>1, <1>2 DEF Settles, Operations
<1>4. ASSUME NEW c \in Callers
      PROVE  AnswersOK!(c)'
  <2>1. CASE Home[c] = p /\ call[c] = "waiting"
    <3>1. answer'[c] = pairs /\ call'[c] = outcome
      BY <2>1 DEF Settles
    <3> QED
      BY <3>1 DEF NoKeys, Complete
  <2>2. CASE ~(Home[c] = p /\ call[c] = "waiting")
    <3>1. answer'[c] = answer[c] /\ call'[c] = call[c] /\ NoKeys' = NoKeys
      BY <2>2 DEF Settles, NoKeys
    <3>2. Complete(keys) => keys' = keys
      BY DEF Complete
    <3> QED
      BY <3>1, <3>2 DEF AnswersOK, Complete
  <2> QED
    BY <2>1, <2>2
<1>5. AnswersOK'
  BY <1>4 DEF AnswersOK
<1>6. NoOperation.at = "none" /\ NoOperation.seen = "live"
  BY DEF NoOperation
<1>7. OperationsOK'
  <2> SUFFICES ASSUME NEW q \in Processes
               PROVE  OperationOK(q)'
    BY DEF OperationsOK
  <2>1. CASE q = p
    BY <1>1, <1>6, <2>1 DEF OperationOK
  <2>2. CASE q # p
    BY <1>1, <2>2 DEF OperationsOK, OperationOK
  <2> QED
    BY <2>1, <2>2
<1> QED
  BY <1>3, <1>5, <1>7

\* An operation that goes on answers nobody.
LEMMA GoingKeeps ==
  ASSUME KInv, NEW p \in Processes, NEW next \in Operations,
         op' = [op EXCEPT ![p] = next],
         UNCHANGED <<actor, keys, broken, attempts, call, answer>>,
         actorLock' \in Processes \union {None},
         \A q \in Processes \ {p} : actorLock = q => actorLock' = q,
         next.at \in {"generate", "lock", "save"} /\ actor # "removed" =>
           \A t \in Types : t \in next.missing \/ keys[t] # None,
         next.at = "save" => actorLock' = p /\ actor # "removed",
         next.seen = "deleted" => actor # "live"
  PROVE  KInv'
<1> USE DEF KInv, KeyTypeOK
<1>1. op \in [Processes -> Operations]
  BY DEF Operations
<1>2. /\ op'[p] = next /\ op' \in [Processes -> Operations]
      /\ \A q \in Processes \ {p} : op'[q] = op[q]
  BY <1>1
<1>3. KeyTypeOK'
  BY <1>2 DEF Operations
<1>4. AnswersOK'
  BY DEF AnswersOK, Complete, NoKeys
<1>5. OperationsOK'
  <2> SUFFICES ASSUME NEW q \in Processes
               PROVE  OperationOK(q)'
    BY DEF OperationsOK
  <2>1. CASE q = p
    BY <1>2, <2>1 DEF OperationOK
  <2>2. CASE q # p
    BY <1>2, <2>2 DEF OperationsOK, OperationOK
  <2> QED
    BY <2>1, <2>2
<1> QED
  BY <1>3, <1>4, <1>5

-----------------------------------------------------------------------------
(* The actions                                                              *)

LEMMA EnsureKeeps ==
  ASSUME KInv, NEW c \in Callers, EnsureActorKeyPairs(c)
  PROVE  KInv'
<1> DEFINE p == Home[c]
           begun == [NoOperation EXCEPT !.at = "load", !.attempt = attempts + 1]
<1> USE DEF KInv, KeyTypeOK
<1>1. p \in Processes
  BY KeyAssumption
<1>2. /\ call[c] = "idle" /\ call' = [call EXCEPT ![c] = "waiting"]
      /\ UNCHANGED <<actor, keys, broken, actorLock, answer>>
  BY DEF EnsureActorKeyPairs
<1>3. AnswersOK'
  BY <1>2 DEF AnswersOK, Complete, NoKeys
<1>4. CASE UNCHANGED <<op, attempts>>
  <2>1. KeyTypeOK'
    BY <1>2, <1>4
  <2>2. OperationsOK'
    BY <1>2, <1>4 DEF OperationsOK, OperationOK
  <2> QED
    BY <1>3, <2>1, <2>2
<1>5. CASE /\ attempts < MaxAttempts /\ attempts' = attempts + 1
           /\ op' = [op EXCEPT ![p] = begun]
  <2>1. attempts' \in Attempts /\ attempts + 1 \in Attempts
    BY <1>5, KeyAssumption DEF Attempts
  <2>2. NoOperation.seen = "live"
    BY DEF NoOperation
  <2>3. begun \in Operations /\ begun.at = "load" /\ begun.seen = "live"
    BY <2>1, <2>2, NoOperationIsOne DEF Operations, Points
  <2>4. op' = [op EXCEPT ![p] = begun]
    BY <1>5
  <2>5. op \in [Processes -> Operations]
    BY DEF Operations
  <2> HIDE DEF begun, p
  <2>6. op' \in [Processes -> Operations] /\ op'[p] = begun
          /\ \A q \in Processes \ {p} : op'[q] = op[q]
    BY <1>1, <2>3, <2>4, <2>5
  <2>7. KeyTypeOK'
    BY <1>2, <2>1, <2>6 DEF Operations
  <2>8. OperationsOK'
    <3> SUFFICES ASSUME NEW q \in Processes
                 PROVE  OperationOK(q)'
      BY DEF OperationsOK
    <3>1. CASE q = p
      BY <2>3, <2>6, <3>1 DEF OperationOK
    <3>2. CASE q # p
      BY <1>2, <2>6, <3>2 DEF OperationsOK, OperationOK
    <3> QED
      BY <3>1, <3>2
  <2> QED
    BY <1>3, <2>7, <2>8
<1> QED
  BY <1>4, <1>5 DEF EnsureActorKeyPairs

LEMMA LoadKeeps ==
  ASSUME KInv, NEW p \in Processes, LoadActor(p)
  PROVE  KInv'
<1> DEFINE next == [op[p] EXCEPT !.at = "read", !.seen = actor]
<1>1. /\ op[p] \in Operations /\ op[p].at = "load"
      /\ UNCHANGED <<actor, keys, broken, actorLock, attempts>>
  BY DEF LoadActor, KInv, KeyTypeOK, Operations
<1>2. CASE actor = "removed"
  <2>1. Settles(p, "answered", NoKeys)
    BY <1>2 DEF LoadActor
  <2> QED
    BY <1>1, <1>2, <2>1, SettlingKeeps DEF KInv, KeyTypeOK
<1>3. CASE actor # "removed"
  <2>1. op' = [op EXCEPT ![p] = next] /\ UNCHANGED <<call, answer>>
    BY <1>1, <1>3 DEF LoadActor, KInv, KeyTypeOK
  <2>2. next \in Operations /\ next.at = "read" /\ next.seen = actor
    BY <1>1, <1>3 DEF Operations, Points, KInv, KeyTypeOK
  <2> HIDE DEF next
  <2> QED
    BY <1>1, <2>1, <2>2, GoingKeeps DEF KInv, KeyTypeOK
<1> QED
  BY <1>2, <1>3

LEMMA ReadKeeps ==
  ASSUME KInv, NEW p \in Processes, ReadKeys(p)
  PROVE  KInv'
<1> DEFINE next == [op[p] EXCEPT !.at = "generate", !.missing = Types \ Stored]
<1>1. /\ op[p] \in Operations /\ op[p].at = "read"
      /\ UNCHANGED <<actor, keys, broken, actorLock, attempts>>
  BY DEF ReadKeys, KInv, KeyTypeOK, Operations
<1>2. op[p].seen = "deleted" => actor # "live"
  BY DEF KInv, OperationsOK, OperationOK
<1>3. CASE Settles(p, "failed", NoKeys)
  BY <1>1, <1>3, SettlingKeeps DEF KInv, KeyTypeOK
<1>4. CASE Stored = Types /\ Settles(p, "answered", keys)
  <2>1. Complete(keys)
    BY <1>4 DEF Stored, Complete
  <2> QED
    BY <1>1, <1>4, <2>1, SettlingKeeps DEF KInv, KeyTypeOK
<1>5. CASE op[p].seen = "deleted" /\ Settles(p, "answered", NoKeys)
  BY <1>1, <1>2, <1>5, SettlingKeeps DEF KInv, KeyTypeOK
<1>6. CASE /\ op' = [op EXCEPT ![p].at = "generate", ![p].missing = Types \ Stored]
           /\ UNCHANGED <<call, answer>>
  <2>1. op' = [op EXCEPT ![p] = next]
    BY <1>1, <1>6 DEF KInv, KeyTypeOK
  <2>2. /\ next \in Operations /\ next.at = "generate" /\ next.seen = op[p].seen
        /\ next.missing = Types \ Stored
    BY <1>1 DEF Operations, Points
  <2>3. \A t \in Types : t \in next.missing \/ keys[t] # None
    BY <2>2 DEF Stored
  <2>4. UNCHANGED <<call, answer>> /\ actorLock \in Processes \union {None}
    BY <1>6 DEF KInv, KeyTypeOK
  <2> HIDE DEF next
  <2> QED
    BY <1>1, <1>2, <2>1, <2>2, <2>3, <2>4, GoingKeeps
<1> QED
  BY <1>3, <1>4, <1>5, <1>6 DEF ReadKeys

LEMMA GenerateKeeps ==
  ASSUME KInv, NEW p \in Processes, Generate(p)
  PROVE  KInv'
<1> DEFINE next == [op[p] EXCEPT !.at = "lock"]
<1>1. /\ op[p] \in Operations /\ op[p].at = "generate"
      /\ op' = [op EXCEPT ![p] = next]
      /\ UNCHANGED <<actor, keys, broken, actorLock, attempts, call, answer>>
  BY DEF Generate, Goes, KInv, KeyTypeOK, Operations
<1>2. /\ next \in Operations /\ next.at = "lock" /\ next.seen = op[p].seen
      /\ next.missing = op[p].missing
  BY <1>1 DEF Operations, Points
<1>3. OperationOK(p)
  BY DEF KInv, OperationsOK
<1> HIDE DEF next
<1> QED
  BY <1>1, <1>2, <1>3, GoingKeeps DEF OperationOK, KInv, KeyTypeOK

LEMMA KeyLockKeeps ==
  ASSUME KInv, NEW p \in Processes, LockLocalActor(p)
  PROVE  KInv'
<1> DEFINE next == [op[p] EXCEPT !.at = "save"]
<1>1. /\ op[p] \in Operations /\ op[p].at = "lock" /\ actorLock = None
      /\ UNCHANGED <<actor, keys, broken, attempts>>
  BY DEF LockLocalActor, KInv, KeyTypeOK, Operations
<1>2. None \notin Processes
  BY KeyAssumption
<1>3. CASE actor = "removed"
  <2>1. Settles(p, "answered", NoKeys) /\ UNCHANGED actorLock
    BY <1>3 DEF LockLocalActor
  <2> QED
    BY <1>1, <1>3, <2>1, SettlingKeeps DEF KInv, KeyTypeOK
<1>4. CASE actor # "removed"
  <2>1. op' = [op EXCEPT ![p] = next] /\ actorLock' = p /\ UNCHANGED <<call, answer>>
    BY <1>4 DEF LockLocalActor, Goes, KInv, KeyTypeOK
  <2>2. /\ next \in Operations /\ next.at = "save" /\ next.seen = op[p].seen
        /\ next.missing = op[p].missing
    BY <1>1 DEF Operations, Points
  <2>3. OperationOK(p)
    BY DEF KInv, OperationsOK
  <2> HIDE DEF next
  <2> QED
    BY <1>1, <1>2, <1>4, <2>1, <2>2, <2>3, GoingKeeps DEF OperationOK
<1> QED
  BY <1>3, <1>4

\* The rows of a live actor are complete once those that are missing are saved.
LEMMA SaveKeeps ==
  ASSUME KInv, NEW p \in Processes, SaveKeys(p)
  PROVE  KInv'
<1>1. /\ op[p] \in Operations /\ op[p].at = "save" /\ keys' = Saved(p)
      /\ actorLock' = None /\ Settles(p, "answered", Answer(p, Saved(p)))
      /\ UNCHANGED <<actor, broken, attempts>>
  BY DEF SaveKeys, KInv, KeyTypeOK, Operations
<1>2. /\ actorLock = p /\ actor # "removed"
      /\ \A t \in Types : t \in op[p].missing \/ keys[t] # None
  BY <1>1 DEF KInv, OperationsOK, OperationOK
<1>3. op[p].attempt \in Attempts /\ op[p].attempt # None
  BY <1>1, KeyAssumption DEF Operations, Attempts
<1>4. /\ Saved(p) \in [Types -> Attempts \union {None}]
      /\ \A t \in Types : keys[t] # None => Saved(p)[t] = keys[t]
  BY <1>3 DEF Saved, KInv, KeyTypeOK
<1>5. actor = "live" => Complete(Saved(p))
  BY <1>2, <1>3 DEF Saved, Complete, KInv, KeyTypeOK
<1>6. /\ Answer(p, Saved(p)) = NoKeys
         \/ (Complete(Answer(p, Saved(p))) /\ Answer(p, Saved(p)) = keys')
      /\ Complete(Saved(p)) => Answer(p, Saved(p)) = keys'
  BY <1>1 DEF Answer, Complete
<1>7. /\ actorLock' \in Processes \union {None}
      /\ \A q \in Processes \ {p} : actorLock # q
  BY <1>1, <1>2
<1>8. actor = "live" => Complete(Answer(p, Saved(p))) /\ Answer(p, Saved(p)) = keys'
  BY <1>1, <1>5, <1>6
<1> QED
  BY <1>1, <1>4, <1>6, <1>7, <1>8, SettlingKeeps

LEMMA FailingKeeps ==
  ASSUME KInv, NEW p \in Processes, OperationFails(p)
  PROVE  KInv'
<1>1. /\ Settles(p, "failed", NoKeys) /\ UNCHANGED <<actor, keys, broken, attempts>>
      /\ actorLock' = IF actorLock = p THEN None ELSE actorLock
  BY DEF OperationFails
<1> QED
  BY <1>1, SettlingKeeps DEF KInv, KeyTypeOK

\* Nobody saves while the actor is deleted or removed.
LEMMA DeletionsKeep ==
  ASSUME KInv, DeleteActor \/ RemoveActor
  PROVE  KInv'
<1> USE DEF KInv, KeyTypeOK
<1>1. \A p \in Processes : op[p].at # "save"
  BY KeyAssumption DEF DeleteActor, RemoveActor, OperationsOK, OperationOK
<1>2. CASE DeleteActor
  <2>1. /\ actor = "live" /\ actor' = "deleted"
        /\ UNCHANGED <<keys, broken, actorLock, op, attempts, call, answer>>
    BY <1>2 DEF DeleteActor
  <2>2. AnswersOK'
    BY <2>1 DEF AnswersOK, Complete, NoKeys
  <2>3. OperationsOK'
    BY <1>1, <2>1 DEF OperationsOK, OperationOK
  <2> QED
    BY <2>1, <2>2, <2>3
<1>3. CASE RemoveActor
  <2>1. /\ actor' = "removed" /\ keys' = NoKeys
        /\ UNCHANGED <<broken, actorLock, op, attempts, call, answer>>
    BY <1>3 DEF RemoveActor
  <2>2. NoKeys \in [Types -> Attempts \union {None}]
    BY DEF NoKeys
  <2>3. AnswersOK'
    BY <2>1 DEF AnswersOK, Complete, NoKeys
  <2>4. OperationsOK'
    BY <1>1, <2>1 DEF OperationsOK, OperationOK
  <2> QED
    BY <2>1, <2>2, <2>3, <2>4
<1> QED
  BY <1>2, <1>3

LEMMA KeyStep == KInv /\ [KeyNext]_keyVars => KInv'
<1> SUFFICES ASSUME KInv, [KeyNext]_keyVars
             PROVE  KInv'
  OBVIOUS
<1>1. CASE UNCHANGED keyVars
  BY <1>1 DEF keyVars, KInv, KeyTypeOK, AnswersOK, Complete, NoKeys, OperationsOK,
              OperationOK
<1>2. ASSUME NEW p \in Processes, Operation(p)
      PROVE  KInv'
  BY <1>2, LoadKeeps, ReadKeeps, GenerateKeeps, KeyLockKeeps, SaveKeeps DEF Operation
<1> QED
  BY <1>1, <1>2, EnsureKeeps, FailingKeeps, DeletionsKeep DEF KeyNext

LEMMA AnswersFollow == KInv => AnswersAreSaved
<1> SUFFICES ASSUME KInv, NEW c \in Callers
             PROVE  AnswersAreSaved!(c)
  BY DEF AnswersAreSaved
<1> QED
  BY DEF KInv, AnswersOK, Complete

\* Whichever processes generate keys of one actor at once, everybody who is answered
\* signs with the pairs that are saved (actor-key.ts, ensure()).
THEOREM AnswersAreWhatIsSaved == KeySpec => []AnswersAreSaved
BY KeyInitially, KeyStep, AnswersFollow, PTL DEF KeySpec

-----------------------------------------------------------------------------
\* As long as the actor is there, a stored pair that does not sign stays, and no
\* operation goes on beside it.
BrokenOK ==
  actor # "removed" /\ broken =>
    /\ \E t \in Types : keys[t] # None
    /\ \A p \in Processes : op[p].at \notin {"generate", "lock", "save"}

LEMMA BrokenInitially == KeyInit => BrokenOK
BY DEF KeyInit, BrokenOK, Stored, NoOperation

LEMMA BrokenStep == KInv /\ BrokenOK /\ [KeyNext]_keyVars => BrokenOK'
<1> SUFFICES ASSUME KInv, BrokenOK, [KeyNext]_keyVars, actor' # "removed", broken'
             PROVE  /\ \E t \in Types : keys'[t] # None
                    /\ \A q \in Processes : op'[q].at \notin {"generate", "lock", "save"}
  BY DEF BrokenOK
<1> USE DEF KInv, KeyTypeOK
<1>1. NoOperation.at = "none"
  BY DEF NoOperation
<1>2. CASE UNCHANGED keyVars
  BY <1>2 DEF keyVars, BrokenOK
<1>3. ASSUME NEW c \in Callers, EnsureActorKeyPairs(c)
      PROVE  /\ actor # "removed" /\ broken /\ keys' = keys
             /\ \A q \in Processes : op'[q] = op[q] \/ op'[q].at = "load"
  BY <1>3 DEF EnsureActorKeyPairs, NoOperation
<1>4. ASSUME NEW p \in Processes, Operation(p)
      PROVE  /\ actor # "removed" /\ broken /\ keys' = keys
             /\ \A q \in Processes : op'[q] = op[q] \/ op'[q].at \in {"none", "read"}
  <2>1. actor # "removed" /\ broken
    BY <1>4 DEF Operation, LoadActor, ReadKeys, Generate, LockLocalActor, SaveKeys
  <2>2. Stored # {} /\ op[p].at \notin {"generate", "lock", "save"}
    BY <2>1 DEF BrokenOK, Stored
  <2>3. LoadActor(p) \/ ReadKeys(p)
    BY <1>4, <2>2 DEF Operation, Generate, LockLocalActor, SaveKeys
  <2>4. CASE LoadActor(p)
    BY <1>1, <2>1, <2>4 DEF LoadActor, Settles
  <2>5. CASE ReadKeys(p)
    BY <1>1, <2>1, <2>2, <2>5 DEF ReadKeys, Settles
  <2> QED
    BY <2>1, <2>3, <2>4, <2>5
<1>5. ASSUME NEW p \in Processes, OperationFails(p)
      PROVE  /\ actor # "removed" /\ broken /\ keys' = keys
             /\ \A q \in Processes : op'[q] = op[q] \/ op'[q].at = "none"
  BY <1>1, <1>5 DEF OperationFails, Settles
<1>6. CASE DeleteActor \/ RemoveActor
  BY <1>6 DEF DeleteActor, RemoveActor, BrokenOK
<1> QED
  BY <1>2, <1>3, <1>4, <1>5, <1>6 DEF KeyNext, BrokenOK

LEMMA PairsStay ==
  KInv /\ BrokenOK /\ [KeyNext]_keyVars => [\A t \in Types : PairIsFinal(t)]_keyVars
<1> SUFFICES ASSUME KInv, BrokenOK, KeyNext, NEW t \in Types
             PROVE  PairIsFinal(t)
  OBVIOUS
<1>1. ASSUME NEW p \in Processes, SaveKeys(p)
      PROVE  PairIsFinal(t)
  <2>1. op[p].at = "save" /\ keys' = Saved(p)
    BY <1>1 DEF SaveKeys
  <2>2. ~broken
    BY <2>1 DEF BrokenOK, KInv, OperationsOK, OperationOK
  <2> QED
    BY <2>1, <2>2 DEF Saved, PairIsFinal
<1>2. ASSUME NEW p \in Processes,
             LoadActor(p) \/ ReadKeys(p) \/ Generate(p) \/ LockLocalActor(p)
             \/ OperationFails(p)
      PROVE  PairIsFinal(t)
  BY <1>2 DEF LoadActor, ReadKeys, Generate, LockLocalActor, OperationFails, PairIsFinal
<1>3. ASSUME NEW c \in Callers, EnsureActorKeyPairs(c)
      PROVE  PairIsFinal(t)
  BY <1>3 DEF EnsureActorKeyPairs, PairIsFinal
<1>4. CASE DeleteActor \/ RemoveActor
  BY <1>4 DEF DeleteActor, RemoveActor, PairIsFinal
<1> QED
  BY <1>1, <1>2, <1>3, <1>4 DEF KeyNext, Operation

\* No step replaces a stored pair, nor gives one to an actor that was deleted before or
\* beside one that does not sign (actor-key.ts, the transaction of ensure()).
THEOREM PairsAreFinal == KeySpec => KeysAreFinal
<1>1. KeyInit => KInv /\ BrokenOK
  BY KeyInitially, BrokenInitially
<1>2. KInv /\ BrokenOK /\ [KeyNext]_keyVars => (KInv /\ BrokenOK)'
  BY KeyStep, BrokenStep
<1> QED
  BY <1>1, <1>2, PairsStay, PTL DEF KeySpec, KeysAreFinal

-----------------------------------------------------------------------------
(***************************************************************************)
(* Proofs about LoginSessions, for any calls, accounts and lifetime.  That a *)
(* challenge opens one session rests on the row its transaction updates:    *)
(* whoever is about to insert the session is alone with a challenge that is *)
(* not consumed, CompletionsOK.                                             *)
(***************************************************************************)

Challenge == [account : Accounts, expires : Nat, consumed : Times \union {Unused}]

\* A challenge is inserted once, and not consumed before.
LoginsOK ==
  \A l \in Logins :
    /\ login[l].at \in {"find", "insert"} => login[l].account \in Accounts
    /\ login[l].at \in {"idle", "find", "insert"} => challenges[l] = NoRow

\* What a completion has found stays so until it inserts its session.
CompletionOK(c) ==
  /\ completion[c].at # "idle" => completion[c].of \in Logins
  /\ completion[c].at \in {"consume", "session"} => completion[c].right
  /\ completion[c].at \in {"compare", "consume", "session"} =>
       /\ ChallengeRow(c) \in Challenge
       /\ completion[c].now < ChallengeRow(c).expires
  /\ completion[c].at = "session" =>
       /\ ChallengeRow(c).consumed = Unused
       /\ \A d \in Completions : Updates(d, c) => d = c
  /\ completion[c].at \in {"idle", "find", "compare", "consume", "session"} =>
       sessions[c] = NoRow
  /\ completion[c].at \in {"read", "given"} => sessions[c] # NoRow

CompletionsOK == \A c \in Completions : CompletionOK(c)

\* A session is of a challenge that is consumed by it.
SessionsOK ==
  /\ \A c \in Completions : sessions[c] # NoRow =>
       /\ ChallengeRow(c) \in Challenge
       /\ ChallengeRow(c).consumed # Unused
       /\ sessions[c].account = ChallengeRow(c).account
       /\ completion[c].right
       /\ completion[c].now < ChallengeRow(c).expires
       /\ \A d \in Completions :
            sessions[d] # NoRow /\ completion[d].of = completion[c].of => d = c
  /\ \A l \in Logins :
       challenges[l] # NoRow /\ challenges[l].consumed # Unused =>
         \E c \in Completions : sessions[c] # NoRow /\ completion[c].of = l

\* Who holds a session holds one that was inserted.
BearersOK ==
  \A b \in Bearers : bearer[b].session # NoRow => sessions[bearer[b].session] # NoRow

LInv == LoginTypeOK /\ LoginsOK /\ CompletionsOK /\ SessionsOK /\ BearersOK

LEMMA TimesAreNat == Times \subseteq Nat /\ Unused \in Nat /\ Unused \notin Times
BY LoginAssumption DEF Times, Unused

LEMMA ChallengeIsRow == Challenge \subseteq [account : Accounts, expires : Nat, consumed : Nat]
BY TimesAreNat DEF Challenge

LEMMA RowOrNot == ASSUME LoginTypeOK, NEW l \in Logins
                  PROVE  challenges[l] # NoRow => challenges[l] \in Challenge
BY DEF LoginTypeOK, Challenge

LEMMA LoginInitially == LoginInit => LInv
<1> SUFFICES ASSUME LoginInit
             PROVE  LInv
  OBVIOUS
<1>1. LoginTypeOK
  BY LoginAssumption DEF LoginInit, LoginTypeOK, Times
<1> QED
  BY <1>1 DEF LoginInit, LInv, LoginsOK, CompletionsOK, CompletionOK, SessionsOK,
              BearersOK

-----------------------------------------------------------------------------
(* Types                                                                    *)

LoginPoints == {"idle", "find", "insert", "mail", "answered", "failed"}
LoginStates == [at : LoginPoints, account : Accounts \union {NoRow}]
CompletionPoints == {"idle", "find", "compare", "consume", "session", "read", "given",
                     "refused", "failed"}

LEMMA LoginMoves ==
  ASSUME LoginTypeOK, NEW l \in Logins, NEW point \in LoginPoints, LoginAt(l, point)
  PROVE  /\ login' \in [Logins -> LoginStates]
         /\ login'[l].at = point /\ login'[l].account = login[l].account
         /\ \A m \in Logins \ {l} : login'[m] = login[m]
BY DEF LoginTypeOK, LoginAt, LoginPoints, LoginStates

LEMMA CompletionMoves ==
  ASSUME LoginTypeOK, NEW c \in Completions, NEW point \in CompletionPoints,
         CompletionAt(c, point)
  PROVE  /\ completion' \in [Completions ->
              [at : CompletionPoints, of : Logins \union {NoRow}, now : Times,
               right : BOOLEAN]]
         /\ completion'[c].at = point /\ completion'[c].of = completion[c].of
         /\ completion'[c].now = completion[c].now
         /\ completion'[c].right = completion[c].right
         /\ \A d \in Completions \ {c} : completion'[d] = completion[d]
BY DEF LoginTypeOK, CompletionAt, CompletionPoints

-----------------------------------------------------------------------------
(* Calls that move                                                          *)

\* loginByEmail() up to its insertion, and after it.
LEMMA LoginCallsKeep ==
  ASSUME LInv, NEW l \in Logins, LoginByEmail(l) \/ FindAccount(l) \/ SendMail(l)
  PROVE  LInv'
<1>1. /\ login' \in [Logins -> LoginStates]
      /\ \A m \in Logins \ {l} : login'[m] = login[m]
      /\ login'[l].at \in {"find", "insert"} => login'[l].account \in Accounts
      /\ login'[l].at \in {"idle", "find", "insert"} =>
           login[l].at \in {"idle", "find", "insert"}
      /\ UNCHANGED <<clock, challenges, sessions, completion, bearer>>
  <2>1. CASE LoginByEmail(l)
    <3>1. ASSUME NEW a \in Accounts,
                 login' = [login EXCEPT ![l] = [at |-> "find", account |-> a]]
          PROVE  /\ login' \in [Logins -> LoginStates]
                 /\ \A m \in Logins \ {l} : login'[m] = login[m]
                 /\ login'[l].account \in Accounts
      <4>1. login \in [Logins -> LoginStates]
        BY DEF LInv, LoginTypeOK, LoginPoints, LoginStates
      <4> DEFINE asking == [at |-> "find", account |-> a]
      <4>2. asking \in LoginStates /\ asking.account = a
        BY DEF LoginPoints, LoginStates
      <4>3. login' = [login EXCEPT ![l] = asking]
        BY <3>1
      <4> HIDE DEF asking
      <4> QED
        BY <4>1, <4>2, <4>3
    <3>2. ASSUME LoginAt(l, "failed")
          PROVE  /\ login' \in [Logins -> LoginStates]
                 /\ \A m \in Logins \ {l} : login'[m] = login[m]
                 /\ login'[l].at = "failed"
      <4>1. login \in [Logins -> LoginStates]
        BY DEF LInv, LoginTypeOK, LoginPoints, LoginStates
      <4>2. "failed" \in LoginPoints
        BY DEF LoginPoints
      <4> QED
        BY <3>2, <4>1, <4>2, LoginMoves DEF LInv
    <3>3. login[l].at = "idle"
      BY <2>1 DEF LoginByEmail
    <3> QED
      BY <2>1, <3>1, <3>2, <3>3 DEF LoginByEmail
  <2>2. CASE FindAccount(l)
    <3>1. /\ login[l].at = "find" /\ login[l].account \in Accounts
          /\ UNCHANGED <<clock, challenges, sessions, completion, bearer>>
      BY <2>2 DEF FindAccount, LInv, LoginsOK
    <3>2. PICK point \in {"insert", "answered"} : LoginAt(l, point)
      BY <2>2 DEF FindAccount
    <3>3. point \in LoginPoints /\ LoginTypeOK
      BY DEF LoginPoints, LInv
    <3> QED
      BY <3>1, <3>2, <3>3, LoginMoves
  <2>3. CASE SendMail(l)
    <3>1. PICK point \in {"answered", "failed"} : LoginAt(l, point)
      BY <2>3 DEF SendMail
    <3>2. point \in LoginPoints /\ LoginTypeOK
      BY DEF LoginPoints, LInv
    <3>3. UNCHANGED <<clock, challenges, sessions, completion, bearer>>
      BY <2>3 DEF SendMail
    <3> QED
      BY <3>1, <3>2, <3>3, LoginMoves
  <2> QED
    BY <2>1, <2>2, <2>3
<1>2. LoginTypeOK'
  BY <1>1 DEF LInv, LoginTypeOK, LoginPoints, LoginStates
<1>3. LoginsOK'
  BY <1>1 DEF LInv, LoginsOK
<1>4. CompletionsOK' /\ SessionsOK' /\ BearersOK'
  BY <1>1 DEF LInv, CompletionsOK, CompletionOK, SessionsOK, BearersOK, ChallengeRow,
              Updates
<1> QED
  BY <1>2, <1>3, <1>4 DEF LInv

\* A completion that neither finds nor opens anything new.
LEMMA CompletionsKeep ==
  ASSUME LInv, NEW c \in Completions, NEW point \in CompletionPoints,
         CompletionAt(c, point),
         UNCHANGED <<clock, challenges, sessions, login, bearer>>,
         completion[c].at # "idle", point # "idle",
         point \in {"compare", "consume", "session"} =>
           ChallengeRow(c) \in Challenge /\ completion[c].now < ChallengeRow(c).expires,
         point \in {"find", "compare", "consume", "session"} => sessions[c] = NoRow,
         point \in {"read", "given"} => sessions[c] # NoRow,
         point \in {"consume", "session"} => completion[c].right,
         point = "session" =>
           /\ ChallengeRow(c).consumed = Unused
           /\ \A d \in Completions : ~Updates(d, c)
  PROVE  LInv'
<1>1. /\ completion' \in [Completions ->
            [at : CompletionPoints, of : Logins \union {NoRow}, now : Times,
             right : BOOLEAN]]
      /\ completion'[c].at = point /\ completion'[c].of = completion[c].of
      /\ completion'[c].now = completion[c].now
      /\ completion'[c].right = completion[c].right
      /\ \A d \in Completions \ {c} : completion'[d] = completion[d]
  BY CompletionMoves DEF LInv
<1>2. \A d \in Completions : ChallengeRow(d)' = ChallengeRow(d)
  BY <1>1 DEF ChallengeRow
<1>3. LoginTypeOK' /\ LoginsOK'
  BY <1>1 DEF LInv, LoginTypeOK, LoginsOK, CompletionPoints
<1>4. SessionsOK' /\ BearersOK'
  BY <1>1, <1>2 DEF LInv, SessionsOK, BearersOK
<1>5. CompletionsOK'
  <2> SUFFICES ASSUME NEW d \in Completions
               PROVE  CompletionOK(d)'
    BY DEF CompletionsOK
  <2>1. CASE d = c
    BY <1>1, <1>2, <2>1 DEF LInv, CompletionsOK, CompletionOK, Updates
  <2>2. CASE d # c
    BY <1>1, <1>2, <2>2 DEF LInv, CompletionsOK, CompletionOK, Updates
  <2> QED
    BY <2>1, <2>2
<1> QED
  BY <1>3, <1>4, <1>5 DEF LInv

-----------------------------------------------------------------------------
(* What challenges and sessions become                                      *)

\* The new challenge is of nobody's completion yet.
LEMMA InsertChallengeKeeps ==
  ASSUME LInv, NEW l \in Logins, InsertChallenge(l)
  PROVE  LInv'
<1> DEFINE fresh == [account |-> login[l].account, expires |-> clock + Lifetime,
                   consumed |-> Unused]
<1>1. /\ challenges[l] = NoRow /\ login[l].account \in Accounts
      /\ challenges' = [challenges EXCEPT ![l] = fresh]
      /\ LoginAt(l, "mail")
      /\ UNCHANGED <<clock, sessions, completion, bearer>>
  BY DEF InsertChallenge, LInv, LoginsOK
<1>2. fresh \in Challenge /\ fresh.consumed = Unused
  <2>1. clock + Lifetime \in Nat
    BY LoginAssumption, TimesAreNat DEF LInv, LoginTypeOK
  <2> QED
    BY <1>1, <2>1 DEF Challenge
<1> HIDE DEF fresh
<1>3. /\ login' \in [Logins -> LoginStates] /\ login'[l].at = "mail"
      /\ \A m \in Logins \ {l} : login'[m] = login[m]
  <2>1. "mail" \in LoginPoints /\ LoginTypeOK
    BY DEF LoginPoints, LInv
  <2> QED
    BY <1>1, <2>1, LoginMoves
<1>4. challenges \in [Logins -> {NoRow} \union Challenge]
  BY DEF LInv, LoginTypeOK, Challenge
<1>5. challenges' \in [Logins -> {NoRow} \union Challenge]
  BY <1>1, <1>2, <1>4
<1>6. LoginTypeOK'
  BY <1>1, <1>3, <1>5 DEF LInv, LoginTypeOK, Challenge, LoginStates, LoginPoints
<1>7. LoginsOK'
  BY <1>1, <1>3 DEF LInv, LoginsOK
<1>8. NoRow \notin Challenge
  BY ChallengeIsRow, NoRowAssumption
<1>9. ASSUME NEW c \in Completions, ChallengeRow(c) \in Challenge,
             completion[c].of \in Logins
      PROVE  ChallengeRow(c)' = ChallengeRow(c)
  BY <1>1, <1>4, <1>8, <1>9 DEF ChallengeRow
<1>10. CompletionsOK'
  BY <1>1, <1>9 DEF LInv, CompletionsOK, CompletionOK, Updates
<1>11. SessionsOK' /\ BearersOK'
  BY <1>1, <1>2, <1>4, <1>9 DEF LInv, SessionsOK, BearersOK, CompletionsOK, CompletionOK
<1> QED
  BY <1>6, <1>7, <1>10, <1>11 DEF LInv

Session == [account : Accounts, open : BOOLEAN]

\* Nobody else inserts a session of the challenge: who did would have consumed it.
LEMMA InsertSessionKeeps ==
  ASSUME LInv, NEW c \in Completions, InsertSession(c)
  PROVE  LInv'
<1> DEFINE l == completion[c].of
           opened == [account |-> ChallengeRow(c).account, open |-> TRUE]
<1>1. /\ completion[c].at = "session" /\ CompletionAt(c, "read")
      /\ sessions' = [sessions EXCEPT ![c] = opened]
      /\ challenges' = [challenges EXCEPT ![l].consumed = completion[c].now]
      /\ UNCHANGED <<clock, login, bearer>>
  BY DEF InsertSession
<1>2. /\ l \in Logins /\ completion[c].right /\ challenges[l] \in Challenge
      /\ completion[c].now < challenges[l].expires
      /\ challenges[l].consumed = Unused
      /\ \A d \in Completions : Updates(d, c) => d = c
      /\ sessions[c] = NoRow
  BY <1>1 DEF LInv, CompletionsOK, CompletionOK, ChallengeRow
<1>3. completion[c].now \in Times /\ completion[c].now # Unused
  BY TimesAreNat DEF LInv, LoginTypeOK
<1>4. challenges \in [Logins -> {NoRow} \union Challenge]
  BY DEF LInv, LoginTypeOK, Challenge
<1>5. /\ challenges'[l] \in Challenge
      /\ challenges'[l].account = challenges[l].account
      /\ challenges'[l].expires = challenges[l].expires
      /\ challenges'[l].consumed = completion[c].now
      /\ \A m \in Logins \ {l} : challenges'[m] = challenges[m]
      /\ challenges' \in [Logins -> {NoRow} \union Challenge]
  BY <1>1, <1>2, <1>3, <1>4 DEF Challenge
<1>6. opened \in Session /\ opened # NoRow /\ opened.account = challenges[l].account
  <2>1. challenges[l].account \in Accounts
    BY <1>2 DEF Challenge
  <2>2. opened \in Session /\ opened.account = challenges[l].account
    BY <2>1 DEF Session, ChallengeRow
  <2>3. NoRow \notin Session
    BY NoRowAssumption DEF Session
  <2> HIDE DEF opened
  <2> QED
    BY <2>2, <2>3
<1> HIDE DEF opened
<1>7. /\ sessions' \in [Completions -> {NoRow} \union Session]
      /\ sessions'[c] = opened
      /\ \A d \in Completions \ {c} : sessions'[d] = sessions[d]
  BY <1>1, <1>6 DEF LInv, LoginTypeOK, Session
<1>8. /\ completion' \in [Completions ->
            [at : CompletionPoints, of : Logins \union {NoRow}, now : Times,
             right : BOOLEAN]]
      /\ completion'[c].at = "read" /\ completion'[c].of = l
      /\ completion'[c].now = completion[c].now
      /\ completion'[c].right = completion[c].right
      /\ \A d \in Completions \ {c} : completion'[d] = completion[d]
  <2>1. "read" \in CompletionPoints /\ LoginTypeOK
    BY DEF CompletionPoints, LInv
  <2> QED
    BY <1>1, <2>1, CompletionMoves
<1>9. NoRow \notin Challenge
  BY ChallengeIsRow, NoRowAssumption
<1>10. LoginTypeOK'
  BY <1>1, <1>5, <1>7, <1>8 DEF LInv, LoginTypeOK, Challenge, Session, CompletionPoints
<1>11. LoginsOK'
  BY <1>1, <1>2, <1>5, <1>9 DEF LInv, LoginsOK
<1>12. ASSUME NEW d \in Completions \ {c}, completion[d].of \in Logins,
              ChallengeRow(d) \in Challenge
       PROVE  /\ ChallengeRow(d)' \in Challenge
              /\ ChallengeRow(d)'.expires = ChallengeRow(d).expires
              /\ ChallengeRow(d)'.account = ChallengeRow(d).account
              /\ completion[d].of # l => ChallengeRow(d)' = ChallengeRow(d)
  BY <1>5, <1>8, <1>12 DEF ChallengeRow
<1>13. CompletionsOK'
  <2> SUFFICES ASSUME NEW d \in Completions
               PROVE  CompletionOK(d)'
    BY DEF CompletionsOK
  <2>1. CASE d = c
    BY <1>2, <1>6, <1>7, <1>8, <2>1 DEF CompletionOK
  <2>2. CASE d # c
    <3>1. CompletionOK(d) /\ completion'[d] = completion[d] /\ sessions'[d] = sessions[d]
      BY <1>7, <1>8, <2>2 DEF LInv, CompletionsOK
    <3>2. completion[d].at \in {"compare", "consume", "session"} =>
            completion[d].of \in Logins /\ ChallengeRow(d) \in Challenge
      BY <3>1 DEF CompletionOK
    <3>3. completion[d].at = "session" => completion[d].of # l
      BY <1>2, <2>2 DEF Updates
    <3>4. completion[d].at = "session" => \A e \in Completions : Updates(e, d)' => e = d
      BY <1>8, <2>2, <3>1 DEF CompletionOK, Updates
    <3> QED
      BY <1>12, <2>2, <3>1, <3>2, <3>3, <3>4 DEF CompletionOK
  <2> QED
    BY <2>1, <2>2
<1>14. \A d \in Completions \ {c} : sessions[d] # NoRow =>
         completion[d].of \in Logins /\ ChallengeRow(d) \in Challenge
           /\ completion[d].of # l
  BY <1>2 DEF LInv, CompletionsOK, CompletionOK, SessionsOK, ChallengeRow
<1>15. SessionsOK'
  <2>1. ASSUME NEW d \in Completions, sessions'[d] # NoRow
        PROVE  /\ ChallengeRow(d)' \in Challenge
               /\ ChallengeRow(d)'.consumed # Unused
               /\ sessions'[d].account = ChallengeRow(d)'.account
               /\ completion'[d].right
               /\ completion'[d].now < ChallengeRow(d)'.expires
               /\ \A e \in Completions :
                    sessions'[e] # NoRow /\ completion'[e].of = completion'[d].of => e = d
    <3>1. CASE d = c
      BY <1>2, <1>3, <1>5, <1>6, <1>7, <1>8, <1>14, <3>1 DEF ChallengeRow
    <3>2. CASE d # c
      <4>1. sessions[d] # NoRow /\ sessions'[d] = sessions[d]
              /\ completion'[d] = completion[d]
        BY <1>7, <1>8, <2>1, <3>2
      <4>2. completion[d].of # l /\ ChallengeRow(d)' = ChallengeRow(d)
        BY <1>12, <1>14, <3>2, <4>1
      <4> QED
        BY <1>7, <1>8, <4>1, <4>2 DEF LInv, SessionsOK
    <3> QED
      BY <3>1, <3>2
  <2>2. ASSUME NEW m \in Logins, challenges'[m] # NoRow, challenges'[m].consumed # Unused
        PROVE  \E d \in Completions : sessions'[d] # NoRow /\ completion'[d].of = m
    <3>1. CASE m = l
      BY <1>6, <1>7, <1>8, <3>1
    <3>2. CASE m # l
      <4>1. PICK d \in Completions : sessions[d] # NoRow /\ completion[d].of = m
        BY <1>5, <2>2, <3>2 DEF LInv, SessionsOK
      <4>2. d # c
        BY <3>2, <4>1
      <4> QED
        BY <1>7, <1>8, <4>1, <4>2
    <3> QED
      BY <3>1, <3>2
  <2> QED
    BY <2>1, <2>2 DEF SessionsOK
<1>16. BearersOK'
  BY <1>1, <1>6, <1>7 DEF LInv, BearersOK, LoginTypeOK
<1> QED
  BY <1>10, <1>11, <1>13, <1>15, <1>16 DEF LInv

\* A session that is revoked or expires stays a row of its challenge here.
LEMMA ClosingKeeps ==
  ASSUME LInv, NEW c \in Completions, sessions[c] # NoRow,
         sessions' = [sessions EXCEPT ![c].open = FALSE],
         UNCHANGED <<clock, challenges, login, completion>>,
         bearer' \in [Bearers -> [at : {"idle", "loaded", "revoked"},
                                  session : Completions \union {NoRow}]],
         \A b \in Bearers : bearer'[b].session = bearer[b].session
  PROVE  LInv'
<1>1. sessions[c] \in Session
  BY DEF LInv, LoginTypeOK, Session
<1>2. [sessions[c] EXCEPT !.open = FALSE] \in Session
  BY <1>1 DEF Session
<1>3. /\ sessions'[c] \in Session /\ sessions'[c].account = sessions[c].account
      /\ \A d \in Completions \ {c} : sessions'[d] = sessions[d]
      /\ sessions' \in [Completions -> {NoRow} \union Session]
  BY <1>1, <1>2 DEF LInv, LoginTypeOK, Session
<1>4. NoRow \notin Session
  BY NoRowAssumption DEF Session
<1>5. /\ \A d \in Completions : sessions'[d] # NoRow <=> sessions[d] # NoRow
      /\ \A d \in Completions : sessions[d] # NoRow =>
           sessions'[d].account = sessions[d].account
  BY <1>3, <1>4
<1>6. LoginTypeOK' /\ LoginsOK'
  BY <1>3 DEF LInv, LoginTypeOK, LoginsOK, Session
<1>7. CompletionsOK'
  BY <1>5 DEF LInv, CompletionsOK, CompletionOK, ChallengeRow, Updates
<1>8. SessionsOK'
  BY <1>5 DEF LInv, SessionsOK, ChallengeRow
<1>9. BearersOK'
  BY <1>5 DEF LInv, BearersOK, LoginTypeOK
<1> QED
  BY <1>6, <1>7, <1>8, <1>9 DEF LInv

LEMMA BearerStep ==
  ASSUME LInv, NEW b \in Bearers, LoadContext(b) \/ RevokeSession(b)
  PROVE  LInv'
<1> DEFINE BearerStates == [at : {"idle", "loaded", "revoked"},
                            session : Completions \union {NoRow}]
<1>1. CASE LoadContext(b)
  <2>1. PICK c \in Completions :
          /\ completion[c].at = "given"
          /\ bearer' = [bearer EXCEPT ![b] =
               [at |-> "loaded", session |-> IF sessions[c].open THEN c ELSE NoRow]]
    BY <1>1 DEF LoadContext
  <2>2. sessions[c] # NoRow
    BY <2>1 DEF LInv, CompletionsOK, CompletionOK
  <2> DEFINE loaded == [at |-> "loaded", session |-> IF sessions[c].open THEN c ELSE NoRow]
  <2>3. loaded \in BearerStates /\ loaded.session \in {c, NoRow}
    OBVIOUS
  <2>4. bearer' = [bearer EXCEPT ![b] = loaded] /\ bearer \in [Bearers -> BearerStates]
    BY <2>1 DEF LInv, LoginTypeOK
  <2> HIDE DEF loaded, BearerStates
  <2>5. /\ bearer' \in [Bearers -> BearerStates] /\ bearer'[b].session \in {c, NoRow}
        /\ \A a \in Bearers \ {b} : bearer'[a] = bearer[a]
    BY <2>3, <2>4
  <2>6. UNCHANGED <<clock, challenges, sessions, login, completion>>
    BY <1>1 DEF LoadContext
  <2>7. BearersOK'
    BY <2>2, <2>5, <2>6 DEF LInv, BearersOK
  <2>8. LoginTypeOK' /\ LoginsOK' /\ CompletionsOK' /\ SessionsOK'
    BY <2>5, <2>6 DEF LInv, LoginTypeOK, LoginsOK, CompletionsOK, CompletionOK, SessionsOK,
                      ChallengeRow, Updates, BearerStates
  <2> QED
    BY <2>7, <2>8 DEF LInv
<1>2. CASE RevokeSession(b)
  <2>1. /\ bearer[b].session \in Completions /\ sessions[bearer[b].session] # NoRow
        /\ sessions' = [sessions EXCEPT ![bearer[b].session].open = FALSE]
        /\ bearer' = [bearer EXCEPT ![b].at = "revoked"]
        /\ UNCHANGED <<clock, challenges, login, completion>>
    BY <1>2 DEF RevokeSession, LInv, LoginTypeOK, BearersOK
  <2>2. /\ bearer' \in [Bearers -> BearerStates]
        /\ \A a \in Bearers : bearer'[a].session = bearer[a].session
    BY <2>1 DEF LInv, LoginTypeOK
  <2> QED
    BY <2>1, <2>2, ClosingKeeps
<1> QED
  BY <1>1, <1>2

LEMMA ClockKeeps ==
  ASSUME LInv, clock' \in Times,
         UNCHANGED <<challenges, sessions, login, completion, bearer>>
  PROVE  LInv'
BY DEF LInv, LoginTypeOK, LoginsOK, CompletionsOK, CompletionOK, SessionsOK, BearersOK,
       ChallengeRow, Updates

LEMMA CompletingKeeps ==
  ASSUME LInv, NEW c \in Completions, Completing(c)
  PROVE  LInv'
<1> USE DEF CompletionPoints
<1>0. CompletionOK(c)
  BY DEF LInv, CompletionsOK
<1>1. CASE CompleteLoginChallenge(c)
  <2>1. PICK l \in Logins, right \in BOOLEAN :
          completion' = [completion EXCEPT ![c] =
            [at |-> "find", of |-> l, now |-> clock, right |-> right]]
    BY <1>1 DEF CompleteLoginChallenge
  <2> DEFINE begun == [at |-> "find", of |-> l, now |-> clock, right |-> right]
             CompletionStates == [at : CompletionPoints, of : Logins \union {NoRow},
                                  now : Times, right : BOOLEAN]
  <2>2. begun \in CompletionStates /\ begun.at = "find" /\ begun.of = l
    BY DEF LInv, LoginTypeOK
  <2>3. /\ completion' = [completion EXCEPT ![c] = begun]
        /\ completion \in [Completions -> CompletionStates]
    BY <2>1 DEF LInv, LoginTypeOK
  <2> HIDE DEF begun, CompletionStates
  <2>4. /\ completion' \in [Completions -> CompletionStates]
        /\ completion'[c].at = "find" /\ completion'[c].of = l
        /\ \A d \in Completions \ {c} : completion'[d] = completion[d]
    BY <2>2, <2>3
  <2>5. /\ completion[c].at = "idle" /\ sessions[c] = NoRow
        /\ UNCHANGED <<clock, challenges, sessions, login, bearer>>
    BY <1>0, <1>1 DEF CompleteLoginChallenge, CompletionOK
  <2>6. CompletionsOK'
    <3> SUFFICES ASSUME NEW d \in Completions
                 PROVE  CompletionOK(d)'
      BY DEF CompletionsOK
    <3>1. CASE d = c
      BY <2>4, <2>5, <3>1 DEF CompletionOK
    <3>2. CASE d # c
      BY <2>4, <2>5, <3>2 DEF LInv, CompletionsOK, CompletionOK, Updates, ChallengeRow
    <3> QED
      BY <3>1, <3>2
  <2>7. SessionsOK'
    BY <2>4, <2>5 DEF LInv, SessionsOK, ChallengeRow
  <2>8. LoginTypeOK' /\ LoginsOK' /\ BearersOK'
    BY <2>4, <2>5 DEF LInv, LoginTypeOK, LoginsOK, BearersOK, CompletionStates
  <2> QED
    BY <2>6, <2>7, <2>8 DEF LInv
<1>2. CASE FindLoginChallenge(c)
  <2>1. /\ completion[c].at = "find" /\ completion[c].of \in Logins
        /\ sessions[c] = NoRow
        /\ UNCHANGED <<clock, challenges, sessions, login, bearer>>
    BY <1>0, <1>2 DEF FindLoginChallenge, CompletionOK
  <2>2. CASE ChallengeOpen(c)
    <3>1. ChallengeRow(c) \in Challenge /\ completion[c].now < ChallengeRow(c).expires
      <4>1. ChallengeRow(c) \in Challenge
        BY <2>1, <2>2, RowOrNot DEF ChallengeOpen, ChallengeRow, LInv
      <4>2. ChallengeRow(c).expires \in Nat /\ completion[c].now \in Nat
        BY <4>1, TimesAreNat DEF Challenge, LInv, LoginTypeOK
      <4> QED
        BY <2>2, <4>1, <4>2 DEF ChallengeOpen
    <3>2. CompletionAt(c, "compare")
      BY <1>2, <2>2 DEF FindLoginChallenge
    <3> QED
      BY <2>1, <3>1, <3>2, CompletionsKeep
  <2>3. CASE ~ChallengeOpen(c)
    <3>1. CompletionAt(c, "refused")
      BY <1>2, <2>3 DEF FindLoginChallenge
    <3> QED
      BY <2>1, <3>1, CompletionsKeep
  <2> QED
    BY <2>2, <2>3
<1>3. CASE CompareCodes(c)
  <2>1. /\ completion[c].at = "compare" /\ sessions[c] = NoRow
        /\ ChallengeRow(c) \in Challenge /\ completion[c].now < ChallengeRow(c).expires
        /\ UNCHANGED <<clock, challenges, sessions, login, bearer>>
    BY <1>0, <1>3 DEF CompareCodes, CompletionOK
  <2>2. CASE completion[c].right
    BY <1>3, <2>1, <2>2, CompletionsKeep DEF CompareCodes
  <2>3. CASE ~completion[c].right
    BY <1>3, <2>1, <2>3, CompletionsKeep DEF CompareCodes
  <2> QED
    BY <2>2, <2>3
<1>4. CASE ConsumeLoginChallenge(c)
  <2>1. /\ completion[c].at = "consume" /\ sessions[c] = NoRow /\ completion[c].right
        /\ ChallengeRow(c) \in Challenge /\ completion[c].now < ChallengeRow(c).expires
        /\ \A d \in Completions : ~Updates(d, c)
        /\ UNCHANGED <<clock, challenges, sessions, login, bearer>>
    BY <1>0, <1>4 DEF ConsumeLoginChallenge, CompletionOK
  <2>2. CASE ChallengeOpen(c)
    BY <1>4, <2>1, <2>2, CompletionsKeep DEF ConsumeLoginChallenge, ChallengeOpen
  <2>3. CASE ~ChallengeOpen(c)
    BY <1>4, <2>1, <2>3, CompletionsKeep DEF ConsumeLoginChallenge
  <2> QED
    BY <2>2, <2>3
<1>5. CASE AnswerSession(c)
  <2>1. /\ completion[c].at = "read" /\ sessions[c] # NoRow
        /\ UNCHANGED <<clock, challenges, sessions, login, bearer>>
    BY <1>0, <1>5 DEF AnswerSession, CompletionOK
  <2>2. CASE sessions[c].open
    BY <1>5, <2>1, <2>2, CompletionsKeep DEF AnswerSession
  <2>3. CASE ~sessions[c].open
    BY <1>5, <2>1, <2>3, CompletionsKeep DEF AnswerSession
  <2> QED
    BY <2>2, <2>3
<1>6. CASE CompletionFails(c)
  BY <1>6, CompletionsKeep DEF CompletionFails
<1> QED
  BY <1>1, <1>2, <1>3, <1>4, <1>5, <1>6, InsertSessionKeeps DEF Completing

LEMMA LoginStep == LInv /\ [LoginNext]_loginVars => LInv'
<1> SUFFICES ASSUME LInv, [LoginNext]_loginVars
             PROVE  LInv'
  OBVIOUS
<1>1. ASSUME NEW c \in Completions, SessionExpires(c)
      PROVE  LInv'
  BY <1>1, ClosingKeeps DEF SessionExpires, LInv, LoginTypeOK
<1>2. CASE ClockTicks
  <2>1. clock' \in Times
    BY <1>2, LoginAssumption DEF ClockTicks, LInv, LoginTypeOK, Times
  <2> QED
    BY <1>2, <2>1, ClockKeeps DEF ClockTicks
<1>3. CASE UNCHANGED loginVars
  BY <1>3, ClockKeeps DEF loginVars, LInv, LoginTypeOK
<1> QED
  BY <1>1, <1>2, <1>3, LoginCallsKeep, InsertChallengeKeeps, CompletingKeeps, BearerStep
     DEF LoginNext

-----------------------------------------------------------------------------
\* The invariant says it of any two sessions; there is at most one of each challenge.
LEMMA OneIsEnough == LInv => OneSessionPerChallenge
<1> SUFFICES ASSUME LInv, NEW l \in Logins
             PROVE  OneSessionPerChallenge!(l)
  BY DEF OneSessionPerChallenge
<1>1. \A c, d \in Opened(l) : c = d
  BY DEF Opened, LInv, SessionsOK
<1>2. Cardinality(Opened(l)) <= 1
  <2>1. CASE Opened(l) = {}
    BY <2>1, FS_EmptySet
  <2>2. CASE Opened(l) # {}
    <3>1. PICK c \in Opened(l) : Opened(l) = {c}
      BY <1>1, <2>2
    <3>2. Cardinality({c}) = 1
      BY FS_Singleton
    <3>3. Cardinality(Opened(l)) = 1
      BY <3>1, <3>2
    <3> QED
      BY <3>3
  <2> QED
    BY <2>1, <2>2
<1>3. challenges[l] # NoRow => (challenges[l].consumed # Unused <=> Opened(l) # {})
  BY DEF Opened, LInv, SessionsOK, ChallengeRow
<1>4. \A c \in Opened(l) :
        /\ sessions[c].account = challenges[l].account
        /\ completion[c].right
        /\ completion[c].now < challenges[l].expires
  BY DEF Opened, LInv, SessionsOK, ChallengeRow
<1> QED
  BY <1>2, <1>3, <1>4

\* However many completions of a login challenge race, fail or are repeated, it
\* opens one session, to a caller that knew its code in time (login.ts,
\* consumeLoginChallenge() in the transaction of completeLoginChallenge).
THEOREM SessionsAreSingle == LoginSpec => []OneSessionPerChallenge
BY LoginInitially, LoginStep, OneIsEnough, PTL DEF LoginSpec

-----------------------------------------------------------------------------
(***************************************************************************)
(* Proofs about AccountLimits, for any mutations, instances and limits.     *)
(* That no instance holds too many actors rests on the row lock: whoever    *)
(* counted its actors is alone until it commits, so that its count and what *)
(* it is about to insert still fit, RoomOK.                                 *)
(***************************************************************************)

Steps == {"idle", "insert", "inserted", "counted instances", "lock", "locked",
          "counted actors", "answered"}

Replies == {"none", "instance", "actors", "invalid", "taken", "failed", "not found",
            "too many"}

AccountTypeOK ==
  /\ actors \in [Slugs -> SUBSET Usernames]
  /\ asked \in [Requests -> Asks \union {NoAsk}]
  /\ at \in [Requests -> Steps]
  /\ drawn \in [Requests -> SUBSET Usernames]
  /\ reply \in [Requests -> Replies]
  /\ \A r \in Requests : at[r] # "idle" => asked[r] \in Asks

\* Two mutations never hold the row of one instance.
LocksOK ==
  \A r, other \in Requests :
    r # other /\ at[r] \in Locking /\ at[other] \in Locking
      => asked[r].slug # asked[other].slug

\* What a mutation counted leaves room for what it inserts, which nobody has.
RoomOK ==
  \A r \in Requests :
    /\ at[r] \in {"lock", "locked", "counted actors"} => asked[r].size >= 1
    /\ at[r] \notin {"counted actors", "answered"} => drawn[r] = {}
    /\ at[r] = "counted actors" =>
         /\ asked[r].size + Cardinality(actors[asked[r].slug]) <= MaxActors
         /\ Cardinality(drawn[r]) <= asked[r].size
         /\ drawn[r] \cap actors[asked[r].slug] = {}
    /\ reply[r] = "actors" => at[r] = "answered"

AInv == AccountTypeOK /\ LocksOK /\ RoomOK /\ ActorsWithinLimit

\* The comparisons of counts.
LEMMA StaysBelow == \A a, b \in Int : a < b => a + 1 <= b
OBVIOUS

LEMMA NotAbove == \A a, b, c \in Int : ~(a + b > c) => a + b <= c
OBVIOUS

\* Sets of usernames are finite, and one more adds one.
LEMMA UsernamesCount ==
  ASSUME NEW S \in SUBSET Usernames
  PROVE  /\ IsFiniteSet(S) /\ Cardinality(S) \in Nat
         /\ \A u : u \notin S => Cardinality(S \union {u}) = Cardinality(S) + 1
         /\ \A T \in SUBSET Usernames :
              S \cap T = {} => Cardinality(S \union T) = Cardinality(S) + Cardinality(T)
<1>1. IsFiniteSet(S)
  BY FS_Subset, LimitsAssumption
<1>2. ASSUME NEW T \in SUBSET Usernames, S \cap T = {}
      PROVE  Cardinality(S \union T) = Cardinality(S) + Cardinality(T)
  <2>1. IsFiniteSet(T)
    BY FS_Subset, LimitsAssumption
  <2>2. Cardinality(S \cap T) = 0
    BY <1>2, FS_EmptySet
  <2>3. Cardinality(S \union T)
          = Cardinality(S) + Cardinality(T) - Cardinality(S \cap T)
    BY <1>1, <2>1, FS_Union
  <2>4. Cardinality(S) \in Nat /\ Cardinality(T) \in Nat
    BY <1>1, <2>1, FS_CardinalityType
  <2> QED
    BY <2>2, <2>3, <2>4
<1> QED
  BY <1>1, <1>2, FS_AddElement, FS_CardinalityType

LEMMA AccountInitially == AccountInit => AInv
<1> SUFFICES ASSUME AccountInit
             PROVE  AInv
  OBVIOUS
<1>1. /\ actors \in [Slugs -> SUBSET Usernames]
      /\ \A slug \in Slugs : Cardinality(actors[slug]) <= MaxActors
  BY LimitsAssumption DEF AccountInit
<1> QED
  BY <1>1 DEF AccountInit, AInv, AccountTypeOK, Steps, Replies, LocksOK, Locking, RoomOK,
              ActorsWithinLimit

-----------------------------------------------------------------------------
\* A step that neither adds actors nor moves a mutation into a row it may not
\* hold, described by what it does to one mutation r.
Moves(r) ==
  /\ UNCHANGED actors
  /\ \A other \in Requests \ {r} :
       /\ asked'[other] = asked[other] /\ at'[other] = at[other]
       /\ drawn'[other] = drawn[other] /\ reply'[other] = reply[other]

\* What remains of the invariant is the mutation's own.
LEMMA MovesKeep ==
  ASSUME AInv, NEW r \in Requests, Moves(r), AccountTypeOK',
         at'[r] \in Locking =>
           /\ asked'[r] = asked[r]
           /\ at[r] \in Locking \/ Unlocked(r, asked[r].slug),
         at'[r] \in {"lock", "locked", "counted actors"} => asked'[r].size >= 1,
         at'[r] \notin {"counted actors", "answered"} => drawn'[r] = {},
         at'[r] = "counted actors" =>
           /\ asked'[r].size + Cardinality(actors[asked'[r].slug]) <= MaxActors
           /\ Cardinality(drawn'[r]) <= asked'[r].size
           /\ drawn'[r] \cap actors[asked'[r].slug] = {},
         reply'[r] # "actors"
  PROVE  AInv'
<1> USE DEF AInv, Moves
<1>1. LocksOK'
  <2> SUFFICES ASSUME NEW p \in Requests, NEW q \in Requests, p # q,
                      at'[p] \in Locking, at'[q] \in Locking
               PROVE  asked'[p].slug # asked'[q].slug
    BY DEF LocksOK
  <2>1. CASE p # r /\ q # r
    BY <2>1 DEF LocksOK
  <2>2. CASE p = r
    BY <2>2 DEF LocksOK, Unlocked
  <2>3. CASE q = r
    BY <2>3 DEF LocksOK, Unlocked
  <2> QED
    BY <2>1, <2>2, <2>3
<1>2. RoomOK'
  <2>1. ASSUME NEW other \in Requests, other # r
        PROVE  /\ asked'[other] = asked[other] /\ at'[other] = at[other]
               /\ drawn'[other] = drawn[other] /\ reply'[other] = reply[other]
    BY <2>1
  <2> QED
    BY <2>1 DEF RoomOK
<1>3. ActorsWithinLimit'
  <2>1. ASSUME NEW other \in Requests, reply'[other] = "actors"
        PROVE  /\ other # r /\ reply[other] = "actors"
               /\ asked'[other] = asked[other] /\ drawn'[other] = drawn[other]
    BY <2>1
  <2>2. actors' = actors
    OBVIOUS
  <2>3. ActorsWithinLimit
    OBVIOUS
  <2> HIDE DEF Moves, AInv
  <2>4. \A slug \in Slugs : Cardinality(actors'[slug]) <= MaxActors
    BY <2>2, <2>3 DEF ActorsWithinLimit
  <2>5. \A other \in Requests : reply'[other] = "actors" =>
          /\ Cardinality(drawn'[other]) = asked'[other].size
          /\ drawn'[other] \subseteq actors'[asked'[other].slug]
    BY <2>1, <2>2, <2>3 DEF ActorsWithinLimit
  <2>6. \A p, q \in Requests :
          p # q /\ reply'[p] = "actors" /\ reply'[q] = "actors"
            /\ asked'[p].slug = asked'[q].slug
          => drawn'[p] \cap drawn'[q] = {}
    <3> SUFFICES ASSUME NEW p \in Requests, NEW q \in Requests, p # q,
                        reply'[p] = "actors", reply'[q] = "actors",
                        asked'[p].slug = asked'[q].slug
                 PROVE  drawn'[p] \cap drawn'[q] = {}
      OBVIOUS
    <3>1. /\ reply[p] = "actors" /\ asked'[p] = asked[p] /\ drawn'[p] = drawn[p]
          /\ reply[q] = "actors" /\ asked'[q] = asked[q] /\ drawn'[q] = drawn[q]
      BY <2>1
    <3>2. asked[p].slug = asked[q].slug
      BY <3>1
    <3>3. drawn[p] \cap drawn[q] = {}
      BY <2>3, <3>1, <3>2 DEF ActorsWithinLimit
    <3> QED
      BY <3>1, <3>3
  <2> QED
    BY <2>4, <2>5, <2>6 DEF ActorsWithinLimit
<1> QED
  BY <1>1, <1>2, <1>3

LEMMA BeginKeeps ==
  ASSUME AInv, NEW r \in Requests, NEW ask \in Asks, Begin(r, ask)
  PROVE  AInv'
<1> USE DEF AInv, AccountTypeOK
<1>1. AccountTypeOK'
  BY DEF Begin, Replied, Advanced, stored, Steps, Replies
<1>2. Moves(r)
  BY DEF Begin, Replied, Advanced, stored, Moves
<1>3. at[r] = "idle" /\ asked'[r] = ask /\ drawn' = drawn
  BY DEF Begin
<1>4. drawn[r] = {} /\ reply[r] # "actors"
  BY <1>3 DEF RoomOK
<1>5. ask.op \in {"instance", "actors"} /\ ask.size \in Int
  BY LimitsAssumption
<1>6. CASE ask.op = "instance"
  <2>1. at'[r] \in {"insert", "answered"} /\ reply'[r] # "actors"
    BY <1>4, <1>6 DEF Begin, Replied, Advanced
  <2> QED
    BY <1>1, <1>2, <1>3, <1>4, <2>1, MovesKeep DEF Locking
<1>7. CASE ask.op = "actors"
  <2>1. /\ at'[r] \in {"lock", "answered"} /\ reply'[r] # "actors"
        /\ at'[r] = "lock" => ~(ask.size < 1)
    BY <1>4, <1>7 DEF Begin, Replied, Advanced
  <2>2. at'[r] = "lock" => ask.size >= 1
    BY <1>5, <2>1
  <2> QED
    BY <1>1, <1>2, <1>3, <1>4, <2>1, <2>2, MovesKeep DEF Locking
<1> QED
  BY <1>5, <1>6, <1>7

LEMMA FailKeeps ==
  ASSUME AInv, NEW r \in Requests, Fail(r)
  PROVE  AInv'
<1> USE DEF AInv, AccountTypeOK
<1>1. AccountTypeOK'
  BY DEF Fail, Replied, stored, Steps, Replies
<1>2. Moves(r) /\ at'[r] = "answered" /\ reply'[r] = "failed"
  BY DEF Fail, Replied, stored, Moves
<1> QED
  BY <1>1, <1>2, MovesKeep DEF Locking

\* The statements of createInstance leave actors alone.
LEMMA InstancesKeep ==
  ASSUME AInv, NEW r \in Requests,
         InsertInstance(r) \/ CountInstances(r) \/ CommitInstance(r)
  PROVE  AInv'
<1> USE DEF AInv, AccountTypeOK
<1> USE DEF InsertInstance, CountInstances, CommitInstance, Replied, Advanced, stored
<1>1. AccountTypeOK'
  BY DEF Steps, Replies
<1>2. Moves(r) /\ asked' = asked /\ drawn' = drawn
  BY DEF Moves
<1>3. /\ at'[r] \in {"inserted", "counted instances", "answered"}
      /\ at[r] \in {"insert", "inserted", "counted instances"}
      /\ reply'[r] # "actors" \/ reply'[r] = reply[r]
  OBVIOUS
<1>4. drawn[r] = {} /\ reply[r] # "actors"
  BY <1>3 DEF RoomOK
<1> QED
  BY <1>1, <1>2, <1>3, <1>4, MovesKeep DEF Locking

LEMMA RowLockKeeps ==
  ASSUME AInv, NEW r \in Requests, LockInstance(r)
  PROVE  AInv'
<1> USE DEF AInv, AccountTypeOK
<1> USE DEF LockInstance, Replied, Advanced, stored
<1>1. AccountTypeOK'
  BY DEF Steps, Replies
<1>2. Moves(r) /\ asked' = asked /\ drawn' = drawn
  BY DEF Moves
<1>3. /\ at'[r] \in {"locked", "answered"} /\ at[r] = "lock"
      /\ at'[r] = "locked" => Unlocked(r, asked[r].slug)
      /\ reply'[r] # "actors" \/ reply'[r] = reply[r]
  OBVIOUS
<1>4. drawn[r] = {} /\ reply[r] # "actors" /\ asked[r].size >= 1
  BY <1>3 DEF RoomOK
<1> QED
  BY <1>1, <1>2, <1>3, <1>4, MovesKeep DEF Locking

LEMMA CountKeeps ==
  ASSUME AInv, NEW r \in Requests, CountActors(r)
  PROVE  AInv'
<1> USE DEF AInv, AccountTypeOK
<1>1. AccountTypeOK'
  BY DEF CountActors, Replied, Advanced, stored, Steps, Replies
<1>2. Moves(r) /\ asked' = asked /\ drawn' = drawn
  BY DEF CountActors, Replied, Advanced, stored, Moves
<1>3. /\ at'[r] \in {"counted actors", "answered"} /\ at[r] = "locked"
      /\ at'[r] = "counted actors" =>
           ~ (asked[r].size + Cardinality(actors[asked[r].slug]) > MaxActors)
      /\ reply'[r] # "actors" \/ reply'[r] = reply[r]
  BY DEF CountActors, Replied, Advanced, stored
<1>4. drawn[r] = {} /\ reply[r] # "actors" /\ asked[r].size >= 1
  BY <1>3 DEF RoomOK
<1>5. /\ asked[r].size \in Int /\ Cardinality(actors[asked[r].slug]) \in Nat
      /\ MaxActors \in Nat
  <2>1. asked[r] \in Asks
    BY <1>3
  <2>2. asked[r].slug \in Slugs
    BY <2>1, LimitsAssumption
  <2> QED
    BY <2>1, <2>2, UsernamesCount, LimitsAssumption
<1>6. Cardinality(drawn'[r]) <= asked[r].size
  BY <1>2, <1>4, <1>5, FS_EmptySet
<1>7. at'[r] = "counted actors" =>
        asked[r].size + Cardinality(actors[asked[r].slug]) <= MaxActors
  <2> HIDE DEF AInv, AccountTypeOK
  <2>1. Cardinality(actors[asked[r].slug]) \in Int /\ MaxActors \in Int
    BY <1>5
  <2> QED
    BY <1>3, <1>5, <2>1, NotAbove, Zenon
<1> QED
  BY <1>1, <1>2, <1>3, <1>4, <1>6, <1>7, MovesKeep DEF Locking

LEMMA InsertKeeps ==
  ASSUME AInv, NEW r \in Requests, NEW username \in Usernames, InsertActor(r, username)
  PROVE  AInv'
<1> USE DEF AInv, AccountTypeOK
<1>1. AccountTypeOK'
  BY DEF InsertActor, stored
<1>2. Moves(r) /\ asked' = asked /\ at' = at /\ reply' = reply
  BY DEF InsertActor, stored, Moves
<1>3. /\ at[r] = "counted actors" /\ Cardinality(drawn[r]) < asked[r].size
      /\ username \notin actors[asked[r].slug] /\ username \notin drawn[r]
      /\ drawn'[r] = drawn[r] \union {username}
  BY DEF InsertActor
<1>4. asked[r].size \in Int /\ drawn[r] \in SUBSET Usernames
  BY <1>3, LimitsAssumption
<1>5. Cardinality(drawn'[r]) <= asked[r].size
  <2>1. /\ Cardinality(drawn[r]) \in Nat
        /\ Cardinality(drawn[r] \union {username}) = Cardinality(drawn[r]) + 1
    BY <1>3, <1>4, UsernamesCount
  <2>2. Cardinality(drawn[r]) \in Int
    BY <2>1
  <2>3. Cardinality(drawn[r]) + 1 <= asked[r].size
    BY <1>3, <1>4, <2>2, StaysBelow, Zenon
  <2> QED
    BY <1>3, <2>1, <2>3
<1>6. drawn'[r] \cap actors[asked[r].slug] = {} /\ reply[r] # "actors"
  <2>1. drawn[r] \cap actors[asked[r].slug] = {}
    BY <1>3 DEF RoomOK
  <2>2. reply[r] # "actors"
    BY <1>3 DEF RoomOK
  <2> HIDE DEF AInv, AccountTypeOK
  <2> QED
    BY <1>3, <2>1, <2>2
<1> QED
  BY <1>1, <1>2, <1>3, <1>5, <1>6, MovesKeep DEF RoomOK, Locking

-----------------------------------------------------------------------------
\* The commit gives an instance exactly the actors it was counted to have room
\* for, and nobody else has counted it.
LEMMA CommitKeeps ==
  ASSUME AInv, NEW r \in Requests, CommitActors(r)
  PROVE  AInv'
<1> USE DEF AInv, AccountTypeOK
<1> DEFINE s == asked[r].slug
<1>1. /\ at[r] = "counted actors" /\ Cardinality(drawn[r]) = asked[r].size
      /\ actors' = [actors EXCEPT ![s] = @ \union drawn[r]]
      /\ at' = [at EXCEPT ![r] = "answered"] /\ reply' = [reply EXCEPT ![r] = "actors"]
      /\ asked' = asked /\ drawn' = drawn
  BY DEF CommitActors, Replied
<1>2. s \in Slugs /\ asked[r] \in Asks /\ asked[r].size \in Int
  BY <1>1, LimitsAssumption
<1>3. AccountTypeOK'
  BY <1>1, <1>2 DEF Steps, Replies
<1>4. LocksOK'
  BY <1>1 DEF LocksOK, Locking
<1>5. \A other \in Requests \ {r} : at[other] \in Locking => asked[other].slug # s
  BY <1>1 DEF LocksOK, Locking
<1>6. \A slug \in Slugs : slug # s => actors'[slug] = actors[slug]
  BY <1>1
<1>7. RoomOK'
  <2> SUFFICES ASSUME NEW other \in Requests
               PROVE  /\ at'[other] \in {"lock", "locked", "counted actors"}
                           => asked'[other].size >= 1
                      /\ at'[other] \notin {"counted actors", "answered"}
                           => drawn'[other] = {}
                      /\ at'[other] = "counted actors" =>
                           /\ asked'[other].size
                                + Cardinality(actors'[asked'[other].slug]) <= MaxActors
                           /\ Cardinality(drawn'[other]) <= asked'[other].size
                           /\ drawn'[other] \cap actors'[asked'[other].slug] = {}
                      /\ reply'[other] = "actors" => at'[other] = "answered"
    BY DEF RoomOK
  <2>1. CASE other = r
    BY <1>1, <2>1
  <2>2. CASE other # r
    <3>1. at'[other] = at[other] /\ reply'[other] = reply[other]
      BY <1>1, <2>2
    <3>2. at[other] = "counted actors" =>
            actors'[asked[other].slug] = actors[asked[other].slug]
      BY <1>5, <1>6, <2>2, LimitsAssumption DEF Locking
    <3> QED
      BY <1>1, <3>1, <3>2 DEF RoomOK
  <2> QED
    BY <2>1, <2>2
<1>8. ActorsWithinLimit'
  <2>1. /\ drawn[r] \cap actors[s] = {}
        /\ asked[r].size + Cardinality(actors[s]) <= MaxActors
    BY <1>1 DEF RoomOK
  <2>2. Cardinality(actors'[s]) = Cardinality(actors[s]) + Cardinality(drawn[r])
    BY <1>1, <1>2, <2>1, UsernamesCount
  <2>3. /\ Cardinality(actors[s]) \in Nat /\ Cardinality(drawn[r]) \in Nat
        /\ MaxActors \in Nat
    BY <1>2, UsernamesCount, LimitsAssumption
  <2>4. Cardinality(actors'[s]) <= MaxActors
    <3>1. Cardinality(drawn[r]) + Cardinality(actors[s]) <= MaxActors
      BY <1>1, <2>1
    <3> DEFINE there == Cardinality(actors[s])
               more == Cardinality(drawn[r])
    <3>2. there \in Nat /\ more \in Nat /\ more + there <= MaxActors
      BY <2>3, <3>1
    <3> HIDE DEF there, more
    <3>3. there + more <= MaxActors
      BY <2>3, <3>2
    <3> QED
      BY <2>2, <3>3 DEF there, more
  <2>5. \A slug \in Slugs : Cardinality(actors'[slug]) <= MaxActors
    BY <1>6, <2>4 DEF ActorsWithinLimit
  <2>6. \A other \in Requests : reply'[other] = "actors" =>
          /\ Cardinality(drawn'[other]) = asked'[other].size
          /\ drawn'[other] \subseteq actors'[asked'[other].slug]
    <3> SUFFICES ASSUME NEW other \in Requests, reply'[other] = "actors"
                 PROVE  /\ Cardinality(drawn[other]) = asked[other].size
                        /\ drawn[other] \subseteq actors'[asked[other].slug]
      BY <1>1
    <3>1. CASE other = r
      BY <1>1, <1>2, <3>1
    <3>2. CASE other # r
      <4>1. reply[other] = "actors"
        BY <1>1, <3>2
      <4>2. asked[other].slug \in Slugs
        BY <4>1, LimitsAssumption DEF RoomOK
      <4> QED
        BY <1>1, <1>6, <4>1, <4>2 DEF ActorsWithinLimit
    <3> QED
      BY <3>1, <3>2
  <2>7. \A other \in Requests \ {r} :
          reply[other] = "actors" /\ asked[other].slug = s
            => drawn[r] \cap drawn[other] = {}
    BY <2>1 DEF ActorsWithinLimit
  <2>8. \A p, q \in Requests :
          p # q /\ reply'[p] = "actors" /\ reply'[q] = "actors"
            /\ asked'[p].slug = asked'[q].slug
          => drawn'[p] \cap drawn'[q] = {}
    <3> SUFFICES ASSUME NEW p \in Requests, NEW q \in Requests, p # q,
                        reply'[p] = "actors", reply'[q] = "actors",
                        asked[p].slug = asked[q].slug
                 PROVE  drawn[p] \cap drawn[q] = {}
      BY <1>1
    <3>1. CASE p # r /\ q # r
      BY <1>1, <3>1 DEF ActorsWithinLimit
    <3>2. CASE p = r
      BY <1>1, <2>7, <3>2
    <3>3. CASE q = r
      BY <1>1, <2>7, <3>3
    <3> QED
      BY <3>1, <3>2, <3>3
  <2> QED
    BY <2>5, <2>6, <2>8 DEF ActorsWithinLimit
<1> QED
  BY <1>3, <1>4, <1>7, <1>8

\* Nothing done by hand, and no remote host, concerns a mutation.
LEMMA HandsKeep ==
  ASSUME AInv, UNCHANGED <<actors, asked, at, drawn, reply>>
  PROVE  AInv'
BY DEF AInv, AccountTypeOK, LocksOK, RoomOK, ActorsWithinLimit

LEMMA AccountStep == AInv /\ [AccountNext]_accountVars => AInv'
<1> SUFFICES ASSUME AInv, [AccountNext]_accountVars
             PROVE  AInv'
  OBVIOUS
<1>1. ASSUME NEW r \in Requests, Progress(r)
      PROVE  AInv'
  BY <1>1, BeginKeeps, FailKeeps, InstancesKeep, RowLockKeeps, CountKeeps, InsertKeeps,
     CommitKeeps DEF Progress
<1>2. ASSUME NEW slug \in Slugs, RegisterRemote(slug) \/ ExpireInstance(slug)
      PROVE  AInv'
  BY <1>2, HandsKeep DEF RegisterRemote, ExpireInstance
<1>3. ASSUME NEW slug \in Slugs, NEW account \in Applicants,
             Invite(slug, account) \/ AcceptInvitation(slug, account) \/ Leave(slug, account)
      PROVE  AInv'
  BY <1>3, HandsKeep DEF Invite, AcceptInvitation, Leave
<1>4. CASE UNCHANGED accountVars
  BY <1>4, HandsKeep DEF accountVars, stored
<1> QED
  BY <1>1, <1>2, <1>3, <1>4 DEF AccountNext

\* However many mutations run, no instance holds more actors than it may, and
\* every mutation that was answered with actors made all of them (generateActors,
\* actor.ts:300-421).
THEOREM LimitsHold == AccountSpec => []ActorsWithinLimit
<1>1. AInv => ActorsWithinLimit
  BY DEF AInv
<1> QED
  BY <1>1, AccountInitially, AccountStep, PTL DEF AccountSpec

-----------------------------------------------------------------------------
(***************************************************************************)
(* Proofs about ReadableResources, for any databases that are as they are   *)
(* written (DatabaseOK).  A remote object that only its carrier makes       *)
(* readable has a carrier that is readable too, so that taking away what a  *)
(* viewer may not read takes nothing from what it may; then every answer is *)
(* of the same rows in the same order.  What a walk listed stays where it   *)
(* is (Extends), and all that it must still list is beyond its cursor.      *)
(***************************************************************************)

\* The members of a finite set that is strictly ordered, by how many come before.
IsOrder(S, R) ==
  /\ \A x \in S : <<x, x>> \notin R
  /\ \A x, y, z \in S : <<x, y>> \in R /\ <<y, z>> \in R => <<x, z>> \in R
  /\ \A x, y \in S : x = y \/ <<x, y>> \in R \/ <<y, x>> \in R
Under(S, R, x) == {y \in S : <<y, x>> \in R}
RankIn(S, R, x) == Cardinality(Under(S, R, x))
AtRank(S, R, n) == {x \in S : RankIn(S, R, x) = n}
Listed(S, R) == [i \in 1 .. Cardinality(S) |-> OneOf(AtRank(S, R, i - 1))]

LEMMA RanksRise ==
  ASSUME NEW S, IsFiniteSet(S), NEW R, IsOrder(S, R)
  PROVE  /\ \A x \in S : RankIn(S, R, x) \in 0 .. (Cardinality(S) - 1)
         /\ \A x, y \in S : <<x, y>> \in R => RankIn(S, R, x) < RankIn(S, R, y)
<1>0. Cardinality(S) \in Nat
  BY FS_CardinalityType
<1>1. ASSUME NEW x \in S
      PROVE  /\ IsFiniteSet(Under(S, R, x)) /\ RankIn(S, R, x) \in Nat
             /\ RankIn(S, R, x) <= Cardinality(S) - 1
  <2>1. Under(S, R, x) \subseteq S \ {x}
    BY DEF Under, IsOrder
  <2>2. IsFiniteSet(S \ {x}) /\ Cardinality(S \ {x}) = Cardinality(S) - 1
    BY FS_RemoveElement
  <2>3. IsFiniteSet(Under(S, R, x)) /\ Cardinality(Under(S, R, x)) <= Cardinality(S \ {x})
    BY <2>1, <2>2, FS_Subset
  <2>4. Cardinality(Under(S, R, x)) \in Nat
    BY <2>3, FS_CardinalityType
  <2> QED
    BY <2>2, <2>3, <2>4 DEF RankIn
<1>2. ASSUME NEW x \in S, NEW y \in S, <<x, y>> \in R
      PROVE  RankIn(S, R, x) < RankIn(S, R, y)
  <2>1. Under(S, R, x) \union {x} \subseteq Under(S, R, y)
    BY <1>2 DEF Under, IsOrder
  <2>2. x \notin Under(S, R, x)
    BY DEF Under, IsOrder
  <2>3. IsFiniteSet(Under(S, R, x)) /\ IsFiniteSet(Under(S, R, y))
    BY <1>1
  <2>4. Cardinality(Under(S, R, x) \union {x}) = Cardinality(Under(S, R, x)) + 1
    BY <2>2, <2>3, FS_AddElement
  <2>5. Cardinality(Under(S, R, x) \union {x}) <= Cardinality(Under(S, R, y))
    BY <2>1, <2>3, FS_Subset
  <2>6. RankIn(S, R, x) \in Nat /\ RankIn(S, R, y) \in Nat
    BY <1>1
  <2> QED
    BY <2>4, <2>5, <2>6 DEF RankIn
<1> QED
  BY <1>0, <1>1, <1>2

LEMMA RanksAreTaken ==
  ASSUME NEW S, IsFiniteSet(S), NEW R, IsOrder(S, R),
         NEW n \in 0 .. (Cardinality(S) - 1)
  PROVE  AtRank(S, R, n) # {}
<1> DEFINE N == Cardinality(S)
           T == 0 .. (N - 1)
           f == [x \in S |-> RankIn(S, R, x)]
<1>1. N \in Nat
  BY FS_CardinalityType
<1>2. f \in [S -> T]
  BY RanksRise
<1>3. \A x, y \in S : f[x] = f[y] => x = y
  <2> SUFFICES ASSUME NEW x \in S, NEW y \in S, f[x] = f[y], x # y
               PROVE  FALSE
    OBVIOUS
  <2>1. <<x, y>> \in R \/ <<y, x>> \in R
    BY DEF IsOrder
  <2>2. f[x] < f[y] \/ f[y] < f[x]
    BY <2>1, RanksRise
  <2> QED
    BY <1>1, <1>2, <2>2
<1>4. f \in Injection(S, T)
  BY <1>2, <1>3 DEF Injection, IsInjective
<1>5. IsFiniteSet(T) /\ Cardinality(T) = N
  BY <1>1, FS_Interval
<1>6. f \in Surjection(S, T)
  BY <1>4, <1>5, FS_Injection
<1>7. PICK x \in S : f[x] = n
  BY <1>6 DEF Surjection
<1> QED
  BY <1>7 DEF AtRank

LEMMA ListedInOrder ==
  ASSUME NEW S, IsFiniteSet(S), NEW R, IsOrder(S, R)
  PROVE  LET f == Listed(S, R) IN
         /\ Cardinality(S) \in Nat /\ f \in [1 .. Cardinality(S) -> S]
         /\ \A x \in S : \E i \in 1 .. Cardinality(S) : f[i] = x
         /\ \A i, j \in 1 .. Cardinality(S) : i < j => <<f[i], f[j]>> \in R
<1> DEFINE N == Cardinality(S)
           f == Listed(S, R)
<1>1. N \in Nat
  BY FS_CardinalityType
<1>2. \A i \in 1 .. N : f[i] \in AtRank(S, R, i - 1)
  <2> SUFFICES ASSUME NEW i \in 1 .. N
               PROVE  f[i] \in AtRank(S, R, i - 1)
    OBVIOUS
  <2>1. AtRank(S, R, i - 1) # {}
    BY <1>1, RanksAreTaken
  <2>2. f[i] = OneOf(AtRank(S, R, i - 1))
    BY DEF Listed
  <2> QED
    BY <2>1, <2>2 DEF OneOf
<1>3. \A i \in 1 .. N : f[i] \in S /\ RankIn(S, R, f[i]) = i - 1
  BY <1>2 DEF AtRank
<1>4. f \in [1 .. N -> S]
  BY <1>3 DEF Listed
<1>5. \A x, y \in S : RankIn(S, R, x) = RankIn(S, R, y) => x = y
  <2> SUFFICES ASSUME NEW x \in S, NEW y \in S, RankIn(S, R, x) = RankIn(S, R, y), x # y
               PROVE  FALSE
    OBVIOUS
  <2>1. <<x, y>> \in R \/ <<y, x>> \in R
    BY DEF IsOrder
  <2>2. RankIn(S, R, x) \in Int /\ RankIn(S, R, y) \in Int
    BY <1>1, RanksRise
  <2> QED
    BY <2>1, <2>2, RanksRise
<1> HIDE DEF f
<1>6. \A x \in S : \E i \in 1 .. N : f[i] = x
  <2> SUFFICES ASSUME NEW x \in S
               PROVE  \E i \in 1 .. N : f[i] = x
    OBVIOUS
  <2> DEFINE i == RankIn(S, R, x) + 1
  <2>1. i \in 1 .. N /\ i - 1 = RankIn(S, R, x)
    BY <1>1, RanksRise
  <2> HIDE DEF i
  <2>2. f[i] \in S /\ RankIn(S, R, f[i]) = RankIn(S, R, x)
    BY <1>3, <2>1
  <2> QED
    BY <1>5, <2>1, <2>2
<1>7. \A i, j \in 1 .. N : i < j => <<f[i], f[j]>> \in R
  <2> SUFFICES ASSUME NEW i \in 1 .. N, NEW j \in 1 .. N, i < j, <<f[i], f[j]>> \notin R
               PROVE  FALSE
    OBVIOUS
  <2>1. f[i] \in S /\ f[j] \in S /\ RankIn(S, R, f[i]) = i - 1 /\ RankIn(S, R, f[j]) = j - 1
    BY <1>3
  <2>2. f[i] = f[j] \/ <<f[j], f[i]>> \in R
    BY <2>1 DEF IsOrder
  <2>3. RankIn(S, R, f[j]) <= RankIn(S, R, f[i])
    BY <1>1, <2>1, <2>2, RanksRise
  <2> QED
    BY <1>1, <2>1, <2>3
<1> QED
  BY <1>1, <1>4, <1>6, <1>7 DEF f

-----------------------------------------------------------------------------
Asking == {"nobody", "member"}
Told(d, account) == Without(d, UnreadableResources(d, ViewerOf(d, account)))

LEMMA ViewerIsNoAdmin ==
  ASSUME NEW d, NEW account \in Asking
  PROVE  ViewerOf(d, account).admin = FALSE
BY DEF ViewerOf, Asking

LEMMA ToldFields ==
  ASSUME NEW d, DatabaseOK(d), NEW account \in Asking
  PROVE  LET e == Told(d, account)
             viewer == ViewerOf(d, account)
             readable == {id \in StoredIds(d) : IsReadable(d, viewer, id)}
         IN /\ e.rows = [id \in readable |-> d.rows[id]]
            /\ e.positions = [id \in DOMAIN d.positions \ UnreadableResources(d, viewer)
                                 |-> d.positions[id]]
            /\ e.deleted = d.deleted /\ e.deletedAuthors = d.deletedAuthors
            /\ e.links = d.links /\ e.accepted = d.accepted
BY DEF Told, Without, DatabaseOK, UnreadableResources, StoredIds

LEMMA ToldIsReadable ==
  ASSUME NEW d, DatabaseOK(d), NEW account \in Asking,
         NEW id \in StoredIds(d), IsReadable(d, ViewerOf(d, account), id)
  PROVE  IsReadable(Told(d, account), ViewerOf(d, account), id)
<1> DEFINE e == Told(d, account)
           viewer == ViewerOf(d, account)
           readable == {r \in StoredIds(d) : IsReadable(d, viewer, r)}
<1>1. ~viewer.admin
  BY ViewerIsNoAdmin
<1>2. e.rows = [r \in readable |-> d.rows[r]] /\ e.links = d.links
  BY ToldFields
<1>3. StoredIds(e) = readable /\ \A r \in readable : e.rows[r] = d.rows[r]
  BY <1>2 DEF StoredIds
<1>4. id \in readable /\ e.rows[id] = d.rows[id]
  BY <1>3
<1>5. ReadableActivity(d, viewer, id) /\ ReadableObject(d, viewer, id)
  BY <1>1 DEF IsReadable
<1>6. ReadableActivity(e, viewer, id)
  BY <1>2, <1>4, <1>5 DEF ReadableActivity, WasReceived
<1>7. ReadableObject(e, viewer, id)
  <2>1. CASE \/ d.rows[id].kind # "object" \/ d.rows[id].author = "local"
             \/ AddressedPublicly(d.rows[id])
    BY <1>4, <2>1 DEF ReadableObject
  <2>2. CASE /\ d.rows[id].kind = "object" /\ d.rows[id].author # "local"
             /\ ~AddressedPublicly(d.rows[id])
    <3> DEFINE carrier == d.rows[id].carrier
    <3>1. /\ carrier \in StoredIds(d)
          /\ \/ ~d.rows[id].fetched /\ AddressedPublicly(d.rows[carrier])
             \/ WasReceived(d, viewer, carrier, "object")
      BY <1>5, <2>2 DEF ReadableObject
    <3>2. carrier \in RowsOf(d, "activity")
      BY <2>2, <3>1, ReadingAssumption DEF DatabaseOK, RowsOf, NoResource
    <3>3. d.rows[carrier].kind = "activity"
      BY <3>2 DEF RowsOf
    <3>4. ReadableObject(d, viewer, carrier)
      BY <3>3 DEF ReadableObject
    <3>5. ReadableActivity(d, viewer, carrier)
      <4>1. CASE AddressedPublicly(d.rows[carrier])
        BY <4>1 DEF ReadableActivity
      <4>2. CASE WasReceived(d, viewer, carrier, "object")
        <5>1. WasReceived(d, viewer, carrier, "activity")
          BY <4>2 DEF WasReceived, DatabaseOK
        <5> QED
          BY <5>1 DEF ReadableActivity
      <4> QED
        BY <3>1, <4>1, <4>2
    <3>6. carrier \in readable
      BY <3>1, <3>4, <3>5 DEF IsReadable
    <3>7. e.rows[carrier] = d.rows[carrier] /\ carrier \in StoredIds(e)
      BY <1>3, <3>6
    <3>8. WasReceived(e, viewer, carrier, "object") <=> WasReceived(d, viewer, carrier, "object")
      BY <1>2 DEF WasReceived
    <3> QED
      BY <1>4, <3>1, <3>7, <3>8 DEF ReadableObject
  <2> QED
    BY <2>1, <2>2
<1> QED
  BY <1>6, <1>7 DEF IsReadable

LEMMA ToldRows ==
  ASSUME NEW d, DatabaseOK(d), NEW account \in Asking
  PROVE  LET e == Told(d, account)
             viewer == ViewerOf(d, account)
         IN /\ StoredIds(e) = {id \in StoredIds(d) : IsReadable(d, viewer, id)}
            /\ \A id \in StoredIds(e) : /\ e.rows[id] = d.rows[id]
                                        /\ IsReadable(d, viewer, id)
                                        /\ IsReadable(e, viewer, id)
            /\ DOMAIN e.positions = DOMAIN d.positions \ UnreadableResources(d, viewer)
            /\ \A id \in DOMAIN e.positions : e.positions[id] = d.positions[id]
            /\ e.deleted = d.deleted /\ e.deletedAuthors = d.deletedAuthors
            /\ e.links = d.links
<1> DEFINE e == Told(d, account)
           viewer == ViewerOf(d, account)
           readable == {r \in StoredIds(d) : IsReadable(d, viewer, r)}
<1>1. /\ e.rows = [r \in readable |-> d.rows[r]]
      /\ e.positions = [id \in DOMAIN d.positions \ UnreadableResources(d, viewer)
                          |-> d.positions[id]]
      /\ e.deleted = d.deleted /\ e.deletedAuthors = d.deletedAuthors
      /\ e.links = d.links
  BY ToldFields
<1>2. StoredIds(e) = readable
  BY <1>1 DEF StoredIds
<1>3. \A id \in readable : IsReadable(e, viewer, id)
  BY ToldIsReadable
<1> HIDE DEF e, viewer
<1>4. \A id \in readable : e.rows[id] = d.rows[id]
  BY <1>1
<1>5. /\ DOMAIN e.positions = DOMAIN d.positions \ UnreadableResources(d, viewer)
      /\ \A id \in DOMAIN e.positions : e.positions[id] = d.positions[id]
  BY <1>1
<1> QED
  BY <1>1, <1>2, <1>3, <1>4, <1>5 DEF e, viewer

-----------------------------------------------------------------------------
\* The order of some rows is told by those rows: as many come before each.
BeforeRow(d, S, i) == {x \in S : Cardinality({y \in S : Earlier(d, y, x)}) = i - 1}
AfterRow(d, S, i) == {x \in S : Cardinality({y \in S : Earlier(d, x, y)}) = i - 1}
BeforeItem(d, S, i) == {x \in S : Cardinality({y \in S : ItemBefore(d, y, x)}) = i - 1}

LEMMA OrderOfRows ==
  ASSUME NEW d, NEW e, NEW S, \A id \in S : e.rows[id] = d.rows[id]
  PROVE  \A i : /\ BeforeRow(e, S, i) = BeforeRow(d, S, i)
                /\ AfterRow(e, S, i) = AfterRow(d, S, i)
<1>1. \A x, y \in S : Earlier(e, x, y) <=> Earlier(d, x, y)
  BY DEF Earlier
<1>2. \A x \in S : {y \in S : Earlier(e, y, x)} = {y \in S : Earlier(d, y, x)}
  BY <1>1
<1>3. \A x \in S : {y \in S : Earlier(e, x, y)} = {y \in S : Earlier(d, x, y)}
  BY <1>1
<1> QED
  BY <1>2, <1>3 DEF BeforeRow, AfterRow

LEMMA OrderOfItems ==
  ASSUME NEW d, NEW e, NEW S, \A id \in S : e.positions[id] = d.positions[id]
  PROVE  \A i : BeforeItem(e, S, i) = BeforeItem(d, S, i)
<1>1. \A x, y \in S : ItemBefore(e, x, y) <=> ItemBefore(d, x, y)
  BY DEF ItemBefore
<1>2. \A x \in S : {y \in S : ItemBefore(e, y, x)} = {y \in S : ItemBefore(d, y, x)}
  BY <1>1
<1> QED
  BY <1>2 DEF BeforeItem

-----------------------------------------------------------------------------
\* What each field answers does not depend on what is hidden.
LEMMA SameShown ==
  ASSUME NEW d, DatabaseOK(d), NEW account \in Asking, NEW id
  PROVE  LET e == Told(d, account)
             viewer == ViewerOf(d, account)
         IN /\ Shown(e, viewer, id) <=> Shown(d, viewer, id)
            /\ Shown(d, viewer, id) => /\ id \in StoredIds(e)
                                       /\ Node(e, viewer, id) = Node(d, viewer, id)
<1> DEFINE e == Told(d, account)
           viewer == ViewerOf(d, account)
<1>1. /\ StoredIds(e) = {r \in StoredIds(d) : IsReadable(d, viewer, r)}
      /\ \A r \in StoredIds(e) : e.rows[r] = d.rows[r] /\ IsReadable(e, viewer, r)
      /\ e.deleted = d.deleted /\ e.deletedAuthors = d.deletedAuthors
  BY ToldRows
<1> HIDE DEF e, viewer
<1>2. Shown(e, viewer, id) <=> Shown(d, viewer, id)
  BY <1>1 DEF Shown, IsVisible
<1>3. Shown(d, viewer, id) => id \in StoredIds(e)
  BY <1>1 DEF Shown
<1>4. Shown(d, viewer, id) => Node(e, viewer, id) = Node(d, viewer, id)
  BY <1>1, <1>2, <1>3 DEF Node
<1> QED
  BY <1>2, <1>3, <1>4 DEF e, viewer

LEMMA SameRowsOf ==
  ASSUME NEW d, DatabaseOK(d), NEW account \in Asking, NEW kindOf
  PROVE  RowsOf(Told(d, account), kindOf)
           = {id \in RowsOf(d, kindOf) : IsReadable(d, ViewerOf(d, account), id)}
<1> DEFINE e == Told(d, account)
           viewer == ViewerOf(d, account)
<1>1. /\ StoredIds(e) = {r \in StoredIds(d) : IsReadable(d, viewer, r)}
      /\ \A r \in StoredIds(e) : e.rows[r] = d.rows[r]
  BY ToldRows
<1> HIDE DEF e, viewer
<1>2. RowsOf(e, kindOf) = {id \in RowsOf(d, kindOf) : IsReadable(d, viewer, id)}
  BY <1>1 DEF RowsOf
<1> QED
  BY <1>2 DEF e, viewer

LEMMA SameObject ==
  ASSUME NEW d, DatabaseOK(d), NEW account \in Asking,
         NEW id \in StoredIds(Told(d, account))
  PROVE  LET e == Told(d, account)
             viewer == ViewerOf(d, account)
         IN /\ ObjectOf(e, viewer, id) = ObjectOf(d, viewer, id)
            /\ Classifications(e, viewer, id) = Classifications(d, viewer, id)
<1> DEFINE e == Told(d, account)
           viewer == ViewerOf(d, account)
           about == d.rows[id].about
           object == ObjectOf(d, viewer, id)
<1>1. /\ StoredIds(e) = {r \in StoredIds(d) : IsReadable(d, viewer, r)}
      /\ \A r \in StoredIds(e) : e.rows[r] = d.rows[r] /\ IsReadable(e, viewer, r)
      /\ e.deleted = d.deleted /\ e.deletedAuthors = d.deletedAuthors
  BY ToldRows
<1>2. RowsOf(e, "object") = {r \in RowsOf(d, "object") : IsReadable(d, viewer, r)}
  BY SameRowsOf
<1>3. id \in StoredIds(e)
  OBVIOUS
<1> HIDE DEF e, viewer
<1>4. e.rows[id] = d.rows[id]
  BY <1>1, <1>3
<1>5. about \in StoredIds(e) /\ IsReadable(e, viewer, about)
        <=> about \in StoredIds(d) /\ IsReadable(d, viewer, about)
  BY <1>1
<1>6. ObjectOf(e, viewer, id) = object
  BY <1>4, <1>5 DEF ObjectOf
<1>7. object \in RowsOf(e, "object") /\ IsVisible(e, object)
        <=> object \in RowsOf(d, "object") /\ IsVisible(d, object)
  <2>1. CASE object \in StoredIds(e)
    BY <1>1, <1>2, <2>1 DEF RowsOf, IsVisible
  <2>2. CASE object \notin StoredIds(e)
    <3>1. object \notin RowsOf(e, "object")
      BY <2>2 DEF RowsOf
    <3>2. object = NoResource \/ IsReadable(d, viewer, object)
      BY DEF ObjectOf
    <3>3. object \notin RowsOf(d, "object")
      <4>1. NoResource \notin StoredIds(d)
        BY ReadingAssumption DEF DatabaseOK, NoResource
      <4> QED
        BY <1>1, <2>2, <3>2, <4>1 DEF RowsOf
    <3> QED
      BY <3>1, <3>3
  <2> QED
    BY <2>1, <2>2
<1>8. object \in RowsOf(d, "object") /\ IsVisible(d, object)
        => e.rows[object] = d.rows[object]
  BY <1>1, <1>7 DEF RowsOf
<1>9. Classifications(e, viewer, id) = Classifications(d, viewer, id)
  BY <1>4, <1>6, <1>7, <1>8 DEF Classifications
<1> QED
  BY <1>6, <1>9 DEF e, viewer

LEMMA SameActivities ==
  ASSUME NEW d, DatabaseOK(d), NEW account \in Asking, NEW id
  PROVE  ActivitiesOf(Told(d, account), ViewerOf(d, account), id)
           = ActivitiesOf(d, ViewerOf(d, account), id)
<1> DEFINE e == Told(d, account)
           viewer == ViewerOf(d, account)
           S == {a \in RowsOf(d, "activity") :
                   /\ d.rows[a].about = id /\ d.rows[a].author \notin d.deletedAuthors
                   /\ IsReadable(d, viewer, a)}
           T == {a \in RowsOf(e, "activity") :
                   /\ e.rows[a].about = id /\ e.rows[a].author \notin e.deletedAuthors
                   /\ IsReadable(e, viewer, a)}
<1>1. /\ StoredIds(e) = {r \in StoredIds(d) : IsReadable(d, viewer, r)}
      /\ \A r \in StoredIds(e) : e.rows[r] = d.rows[r] /\ IsReadable(e, viewer, r)
      /\ e.deletedAuthors = d.deletedAuthors
  BY ToldRows
<1>2. RowsOf(e, "activity") = {r \in RowsOf(d, "activity") : IsReadable(d, viewer, r)}
  BY SameRowsOf
<1> HIDE DEF e, viewer
<1>3. S \subseteq StoredIds(e)
  BY <1>1 DEF RowsOf
<1>4. T = S
  BY <1>1, <1>2 DEF RowsOf
<1>5. \A a \in S : e.rows[a] = d.rows[a]
  BY <1>1, <1>3
<1> HIDE DEF S, T
<1>6. \A i : BeforeRow(e, S, i) = BeforeRow(d, S, i)
  BY <1>5, OrderOfRows
<1>7. /\ ActivitiesOf(e, viewer, id) = [i \in 1 .. Cardinality(T) |-> OneOf(BeforeRow(e, T, i))]
      /\ ActivitiesOf(d, viewer, id) = [i \in 1 .. Cardinality(S) |-> OneOf(BeforeRow(d, S, i))]
  BY DEF ActivitiesOf, Ordered, BeforeRow, S, T
<1>8. ActivitiesOf(e, viewer, id) = ActivitiesOf(d, viewer, id)
  BY <1>4, <1>6, <1>7
<1> QED
  BY <1>8 DEF e, viewer

LEMMA SameAuthored ==
  ASSUME NEW d, DatabaseOK(d), NEW account \in Asking, NEW author
  PROVE  ObjectsBy(Told(d, account), ViewerOf(d, account), author)
           = ObjectsBy(d, ViewerOf(d, account), author)
<1> DEFINE e == Told(d, account)
           viewer == ViewerOf(d, account)
           S == {o \in RowsOf(d, "object") :
                   d.rows[o].author = author /\ o \notin d.deleted /\ IsReadable(d, viewer, o)}
           T == {o \in RowsOf(e, "object") :
                   e.rows[o].author = author /\ o \notin e.deleted /\ IsReadable(e, viewer, o)}
<1>1. /\ StoredIds(e) = {r \in StoredIds(d) : IsReadable(d, viewer, r)}
      /\ \A r \in StoredIds(e) : e.rows[r] = d.rows[r] /\ IsReadable(e, viewer, r)
      /\ e.deleted = d.deleted
  BY ToldRows
<1>2. RowsOf(e, "object") = {r \in RowsOf(d, "object") : IsReadable(d, viewer, r)}
  BY SameRowsOf
<1> HIDE DEF e, viewer
<1>3. S \subseteq StoredIds(e)
  BY <1>1 DEF RowsOf
<1>4. T = S
  BY <1>1, <1>2 DEF RowsOf
<1>5. \A o \in S : e.rows[o] = d.rows[o]
  BY <1>1, <1>3
<1> HIDE DEF S, T
<1>6. \A i : AfterRow(e, S, i) = AfterRow(d, S, i)
  BY <1>5, OrderOfRows
<1>7. /\ ObjectsBy(e, viewer, author) = [i \in 1 .. Cardinality(T) |-> OneOf(AfterRow(e, T, i))]
      /\ ObjectsBy(d, viewer, author) = [i \in 1 .. Cardinality(S) |-> OneOf(AfterRow(d, S, i))]
  BY DEF ObjectsBy, Ordered, AfterRow, S, T
<1>8. ObjectsBy(e, viewer, author) = ObjectsBy(d, viewer, author)
  BY <1>4, <1>6, <1>7
<1> QED
  BY <1>8 DEF e, viewer

LEMMA SameDeliveries ==
  ASSUME NEW d, DatabaseOK(d), NEW account \in Asking
  PROVE  ReadableDeliveries(Told(d, account), ViewerOf(d, account))
           = ReadableDeliveries(d, ViewerOf(d, account))
<1> DEFINE e == Told(d, account)
           viewer == ViewerOf(d, account)
<1>1. /\ StoredIds(e) = {r \in StoredIds(d) : IsReadable(d, viewer, r)}
      /\ \A r \in StoredIds(e) : IsReadable(e, viewer, r)
      /\ e.links = d.links
  BY ToldRows
<1> HIDE DEF e, viewer
<1>2. \A a : a \in StoredIds(e) /\ IsReadable(e, viewer, a)
                <=> a \in StoredIds(d) /\ IsReadable(d, viewer, a)
  BY <1>1
<1>3. ReadableDeliveries(e, viewer) = ReadableDeliveries(d, viewer)
  BY <1>1, <1>2 DEF ReadableDeliveries
<1> QED
  BY <1>3 DEF e, viewer

LEMMA SameItems ==
  ASSUME NEW d, DatabaseOK(d), NEW account \in Asking
  PROVE  LET e == Told(d, account)
             viewer == ViewerOf(d, account)
         IN ItemsOf(e, viewer) = ItemsOf(d, viewer)
<1> DEFINE e == Told(d, account)
           viewer == ViewerOf(d, account)
           S == CollectionItems(d, viewer)
<1>1. /\ DOMAIN e.positions = DOMAIN d.positions \ UnreadableResources(d, viewer)
      /\ \A id \in DOMAIN e.positions : e.positions[id] = d.positions[id]
  BY ToldRows
<1>2. \A id : Shown(e, viewer, id) <=> Shown(d, viewer, id)
  BY SameShown
<1>3. \A id : Shown(d, viewer, id) => id \notin UnreadableResources(d, viewer)
  BY DEF Shown, UnreadableResources
<1> HIDE DEF e, viewer
<1>4. CollectionItems(e, viewer) = S
  BY <1>1, <1>2, <1>3 DEF CollectionItems
<1>5. \A id \in S : e.positions[id] = d.positions[id]
  BY <1>1, <1>3 DEF CollectionItems
<1> HIDE DEF S
<1>6. \A i : BeforeItem(e, S, i) = BeforeItem(d, S, i)
  BY <1>5, OrderOfItems
<1>7. /\ ItemsOf(e, viewer)
           = [i \in 1 .. Cardinality(S) |-> OneOf(BeforeItem(e, S, i))]
      /\ ItemsOf(d, viewer)
           = [i \in 1 .. Cardinality(S) |-> OneOf(BeforeItem(d, S, i))]
  BY <1>4 DEF ItemsOf, Ordered, BeforeItem, S
<1>8. ItemsOf(e, viewer) = ItemsOf(d, viewer)
  BY <1>6, <1>7
<1> QED
  BY <1>8 DEF e, viewer

LEMMA HiddenIsUntold ==
  ASSUME NEW d, DatabaseOK(d), NEW account \in Asking
  PROVE  Answers(d, ViewerOf(d, account)) = Answers(Told(d, account), ViewerOf(d, account))
<1> DEFINE e == Told(d, account)
           viewer == ViewerOf(d, account)
           reached == {id \in StoredIds(d) : Shown(d, viewer, id)}
           again == {id \in StoredIds(e) : Shown(e, viewer, id)}
<1>1. /\ StoredIds(e) = {r \in StoredIds(d) : IsReadable(d, viewer, r)}
      /\ e.deletedAuthors = d.deletedAuthors
  BY ToldRows
<1>2. /\ \A id : Shown(e, viewer, id) <=> Shown(d, viewer, id)
      /\ \A id : Shown(d, viewer, id) => id \in StoredIds(e)
      /\ \A id : Shown(d, viewer, id) => Node(e, viewer, id) = Node(d, viewer, id)
  BY SameShown
<1>3. /\ RowsOf(e, "activity") = {r \in RowsOf(d, "activity") : IsReadable(d, viewer, r)}
      /\ RowsOf(e, "object") = {r \in RowsOf(d, "object") : IsReadable(d, viewer, r)}
  BY SameRowsOf
<1>4. \A id \in StoredIds(e) :
        /\ ObjectOf(e, viewer, id) = ObjectOf(d, viewer, id)
        /\ Classifications(e, viewer, id) = Classifications(d, viewer, id)
  BY SameObject
<1>5. \A id : ActivitiesOf(e, viewer, id) = ActivitiesOf(d, viewer, id)
  BY SameActivities
<1>6. \A author : ObjectsBy(e, viewer, author) = ObjectsBy(d, viewer, author)
  BY SameAuthored
<1>7. ReadableDeliveries(e, viewer) = ReadableDeliveries(d, viewer)
  BY SameDeliveries
<1>8. ItemsOf(e, viewer) = ItemsOf(d, viewer)
  BY SameItems
<1> DEFINE nodesOf(d0, ids) == {<<id, Node(d0, viewer, id)>> : id \in ids}
           madeOf(d0, ids) ==
             {<<id, ObjectOf(d0, viewer, id), Classifications(d0, viewer, id)>> : id \in ids}
           usesOf(d0, ids) == {<<id, ActivitiesOf(d0, viewer, id)>> : id \in ids}
           byOf(d0) == [author \in Authors \ d0.deletedAuthors |-> ObjectsBy(d0, viewer, author)]
<1> HIDE DEF e, viewer
<1>9. again = reached
  BY <1>1, <1>2 DEF Shown
<1>10. nodesOf(e, again) = nodesOf(d, reached)
  BY <1>2, <1>9
<1>11. /\ again \cap RowsOf(e, "activity") = reached \cap RowsOf(d, "activity")
       /\ again \cap RowsOf(e, "object") = reached \cap RowsOf(d, "object")
  BY <1>3, <1>9 DEF Shown
<1>12. madeOf(e, again \cap RowsOf(e, "activity")) = madeOf(d, reached \cap RowsOf(d, "activity"))
  BY <1>2, <1>4, <1>11
<1>13. usesOf(e, again \cap RowsOf(e, "object")) = usesOf(d, reached \cap RowsOf(d, "object"))
  BY <1>5, <1>11
<1>14. byOf(e) = byOf(d)
  BY <1>1, <1>6
<1>15. Answers(d, viewer)
         = [nodes |-> nodesOf(d, reached),
            activities |-> madeOf(d, reached \cap RowsOf(d, "activity")),
            objects |-> usesOf(d, reached \cap RowsOf(d, "object")),
            authored |-> byOf(d),
            deliveries |-> ReadableDeliveries(d, viewer),
            items |-> ItemsOf(d, viewer)]
  BY DEF Answers
<1>16. Answers(e, viewer)
         = [nodes |-> nodesOf(e, again),
            activities |-> madeOf(e, again \cap RowsOf(e, "activity")),
            objects |-> usesOf(e, again \cap RowsOf(e, "object")),
            authored |-> byOf(e),
            deliveries |-> ReadableDeliveries(e, viewer),
            items |-> ItemsOf(e, viewer)]
  BY DEF Answers
<1> HIDE DEF nodesOf, madeOf, usesOf, byOf, again, reached
<1>17. Answers(d, viewer) = Answers(e, viewer)
  BY <1>7, <1>8, <1>10, <1>12, <1>13, <1>14, <1>15, <1>16
<1> QED
  BY <1>17 DEF e, viewer

-----------------------------------------------------------------------------
\* What the database keeps while it is written.
LEMMA GreatestOf ==
  ASSUME NEW N \in Nat, NEW S \in SUBSET (0 .. N), S # {}
  PROVE  Max(S) \in S
<1> DEFINE T == {N - x : x \in S}
<1>1. T \in SUBSET Nat /\ T # {}
  <2>1. \A x \in S : x \in Nat /\ N - x \in Nat
    OBVIOUS
  <2> QED
    BY <2>1
<1>2. PICK t \in T : \A u \in T : ~(u < t)
  BY <1>1, LeastOf
<1>3. PICK x \in S : t = N - x
  OBVIOUS
<1>4. \A y \in S : x >= y
  <2> SUFFICES ASSUME NEW y \in S
               PROVE  x >= y
    OBVIOUS
  <2>1. ~(N - y < N - x)
    BY <1>2, <1>3
  <2> QED
    BY <2>1
<1> QED
  BY <1>4 DEF Max

\* What is stored absent: one row, unless another than an unknown one is there.
StoredIn(rows, id, added, next) ==
  /\ DOMAIN next = DOMAIN rows \union {id}
  /\ \A r \in DOMAIN rows :
       (r = id /\ rows[r].kind = "unknown") \/ next[r] = rows[r]
  /\ id \notin DOMAIN rows \/ rows[id].kind = "unknown" => next[id] = added
  /\ \A r \in DOMAIN next :
       (r \in DOMAIN rows /\ next[r] = rows[r]) \/ (r = id /\ next[r] = added)

LEMMA StoredOnce ==
  ASSUME NEW rows, NEW id, NEW added
  PROVE  StoredIn(rows, id, added, StoreAbsent(rows, id, added))
BY DEF StoreAbsent, StoredIn

-----------------------------------------------------------------------------
\* Where an item stands in a walk.
Place(d, over, id) == IF over = "outbox" THEN d.rows[id].published ELSE d.positions[id]
Placed(d, over, id) ==
  /\ id \in 1 .. MaxResource
  /\ IF over = "outbox"
     THEN id \in RowsOf(d, "activity") /\ d.rows[id].published \in Int
     ELSE id \in DOMAIN d.positions /\ d.positions[id] \in Int \union {NullPosition}

LEMMA ListedArePlaced ==
  ASSUME NEW d, DatabaseOK(d), NEW over \in Walks
  PROVE  /\ IsFiniteSet(ListedIn(d, over))
         /\ \A id \in ListedIn(d, over) : Placed(d, over, id)
<1>1. IsFiniteSet(1 .. MaxResource)
  <2>1. MaxResource \in Int /\ 1 \in Int
    BY ReadingAssumption
  <2> QED
    BY <2>1, FS_Interval
<1>2. CASE over = "outbox"
  <2>1. ListedIn(d, over) = ServedActivities(d)
    BY <1>2 DEF ListedIn
  <2>2. ServedActivities(d) \subseteq RowsOf(d, "activity")
    BY DEF ServedActivities
  <2>3. ListedIn(d, over) \subseteq 1 .. MaxResource
    BY <2>1, <2>2 DEF RowsOf, DatabaseOK
  <2>4. IsFiniteSet(ListedIn(d, over))
    BY <1>1, <2>3, FS_Subset
  <2> QED
    BY <1>2, <2>1, <2>2, <2>3, <2>4 DEF Placed, RowsOf, DatabaseOK
<1>3. CASE over # "outbox"
  <2>1. ListedIn(d, over) \subseteq DOMAIN d.positions
    BY <1>3 DEF ListedIn, Walks, CollectionItems
  <2>2. ListedIn(d, over) \subseteq 1 .. MaxResource
    BY <2>1 DEF DatabaseOK
  <2>3. IsFiniteSet(ListedIn(d, over))
    BY <1>1, <2>2, FS_Subset
  <2> QED
    BY <1>3, <2>1, <2>2, <2>3 DEF Placed, DatabaseOK
<1> QED
  BY <1>2, <1>3

LEMMA ItemsAreOrdered ==
  ASSUME NEW d, NEW S, S \subseteq 1 .. MaxResource,
         \A id \in S : d.positions[id] \in Int \union {NullPosition}
  PROVE  /\ \A a \in S : ~ItemBefore(d, a, a)
         /\ \A a, b, c \in S : ItemBefore(d, a, b) /\ ItemBefore(d, b, c) => ItemBefore(d, a, c)
         /\ \A a, b \in S : a = b \/ ItemBefore(d, a, b) \/ ItemBefore(d, b, a)
<1>0. \A id \in S : id \in Int
  <2>1. \A id \in 1 .. MaxResource : id \in Int
    BY ReadingAssumption
  <2> QED
    BY <2>1
<1>1. ASSUME NEW a \in S
      PROVE  ~ItemBefore(d, a, a)
  <2>1. a \in Int
    BY <1>0
  <2> QED
    BY <2>1, ReadingAssumption DEF ItemBefore
<1>2. ASSUME NEW a \in S, NEW b \in S
      PROVE  a = b \/ ItemBefore(d, a, b) \/ ItemBefore(d, b, a)
  <2>1. a \in Int /\ b \in Int
    BY <1>0
  <2> QED
    BY <2>1, ReadingAssumption DEF ItemBefore
<1>3. ASSUME NEW a \in S, NEW b \in S, NEW c \in S, ItemBefore(d, a, b), ItemBefore(d, b, c)
      PROVE  ItemBefore(d, a, c)
  <2>1. a \in Int /\ b \in Int /\ c \in Int
    BY <1>0
  <2> QED
    BY <1>3, <2>1, ReadingAssumption DEF ItemBefore
<1> QED
  BY <1>1, <1>2, <1>3

LEMMA TimesAreOrdered ==
  ASSUME NEW d, NEW S, S \subseteq 1 .. MaxResource,
         \A id \in S : d.rows[id].published \in Int
  PROVE  /\ \A a \in S : ~Earlier(d, a, a)
         /\ \A a, b, c \in S : Earlier(d, a, b) /\ Earlier(d, b, c) => Earlier(d, a, c)
         /\ \A a, b \in S : a = b \/ Earlier(d, a, b) \/ Earlier(d, b, a)
<1>0. \A id \in S : id \in Int
  <2>1. \A id \in 1 .. MaxResource : id \in Int
    BY ReadingAssumption
  <2> QED
    BY <2>1
<1>1. ASSUME NEW a \in S
      PROVE  ~Earlier(d, a, a)
  <2>1. a \in Int
    BY <1>0
  <2> QED
    BY <2>1, ReadingAssumption DEF Earlier
<1>2. ASSUME NEW a \in S, NEW b \in S
      PROVE  a = b \/ Earlier(d, a, b) \/ Earlier(d, b, a)
  <2>1. a \in Int /\ b \in Int
    BY <1>0
  <2> QED
    BY <2>1, ReadingAssumption DEF Earlier
<1>3. ASSUME NEW a \in S, NEW b \in S, NEW c \in S, Earlier(d, a, b), Earlier(d, b, c)
      PROVE  Earlier(d, a, c)
  <2>1. a \in Int /\ b \in Int /\ c \in Int
    BY <1>0
  <2> QED
    BY <1>3, <2>1, ReadingAssumption DEF Earlier
<1> QED
  BY <1>1, <1>2, <1>3

LEMMA WalksAreOrdered ==
  ASSUME NEW d, NEW over \in Walks, NEW S, \A id \in S : Placed(d, over, id)
  PROVE  /\ \A a \in S : ~Precedes(d, over, a, a)
         /\ \A a, b, c \in S :
              Precedes(d, over, a, b) /\ Precedes(d, over, b, c) => Precedes(d, over, a, c)
         /\ \A a, b \in S : a = b \/ Precedes(d, over, a, b) \/ Precedes(d, over, b, a)
<1>1. S \subseteq 1 .. MaxResource
  BY DEF Placed
<1>2. CASE over = "outbox"
  <2>1. \A id \in S : d.rows[id].published \in Int
    BY <1>2 DEF Placed
  <2>2. /\ \A a \in S : ~Earlier(d, a, a)
        /\ \A a, b, c \in S : Earlier(d, a, b) /\ Earlier(d, b, c) => Earlier(d, a, c)
        /\ \A a, b \in S : a = b \/ Earlier(d, a, b) \/ Earlier(d, b, a)
    BY <1>1, <2>1, TimesAreOrdered
  <2>3. \A a, b : Precedes(d, over, a, b) <=> Earlier(d, b, a)
    BY <1>2 DEF Precedes
  <2> QED
    BY <2>2, <2>3
<1>3. CASE over # "outbox"
  <2>1. \A id \in S : d.positions[id] \in Int \union {NullPosition}
    BY <1>3 DEF Placed
  <2>2. /\ \A a \in S : ~ItemBefore(d, a, a)
        /\ \A a, b, c \in S : ItemBefore(d, a, b) /\ ItemBefore(d, b, c) => ItemBefore(d, a, c)
        /\ \A a, b \in S : a = b \/ ItemBefore(d, a, b) \/ ItemBefore(d, b, a)
    BY <1>1, <2>1, ItemsAreOrdered
  <2>3. CASE over = "forward"
    <3>1. \A a, b : Precedes(d, over, a, b) <=> ItemBefore(d, a, b)
      BY <2>3 DEF Precedes
    <3> QED
      BY <2>2, <3>1
  <2>4. CASE over = "backward"
    <3>1. \A a, b : Precedes(d, over, a, b) <=> ItemBefore(d, b, a)
      BY <2>4 DEF Precedes
    <3> QED
      BY <2>2, <3>1
  <2> QED
    BY <1>3, <2>3, <2>4 DEF Walks
<1> QED
  BY <1>2, <1>3

\* A cursor is beyond what it was taken from exactly as the walk goes.
LEMMA BeyondIsAfter ==
  ASSUME NEW d, NEW over \in Walks, NEW c, Placed(d, over, c), NEW id, Placed(d, over, id)
  PROVE  Beyond(d, over, id, CursorOf(d, over, c)) <=> Precedes(d, over, c, id)
<1>1. c \in Int /\ id \in Int
  BY ReadingAssumption DEF Placed
<1> DEFINE cursor == CursorOf(d, over, c)
<1>2. cursor.id = c /\ cursor.at = Place(d, over, c)
  BY DEF CursorOf, Place
<1> HIDE DEF cursor
<1>3. CASE over = "outbox"
  <2>1. d.rows[id].published \in Int /\ d.rows[c].published \in Int
    BY <1>3 DEF Placed
  <2>2. Beyond(d, over, id, cursor) <=> IsOlder(d, id, cursor)
    BY <1>3 DEF Beyond
  <2>3. Precedes(d, over, c, id) <=> Earlier(d, id, c)
    BY <1>3 DEF Precedes
  <2>4. IsOlder(d, id, cursor) <=> Earlier(d, id, c)
    BY <1>1, <1>2, <1>3, <2>1 DEF IsOlder, Earlier, Place
  <2> QED
    BY <2>2, <2>3, <2>4 DEF cursor
<1>4. CASE over = "forward"
  <2>1. /\ d.positions[id] \in Int \union {NullPosition}
        /\ d.positions[c] \in Int \union {NullPosition} /\ cursor.at = d.positions[c]
    BY <1>2, <1>4 DEF Placed, Place
  <2>2. Beyond(d, over, id, cursor) <=> IsAfter(d, id, cursor)
    BY <1>4 DEF Beyond
  <2>3. Precedes(d, over, c, id) <=> ItemBefore(d, c, id)
    BY <1>4 DEF Precedes
  <2>4. IsAfter(d, id, cursor) <=> ItemBefore(d, c, id)
    BY <1>1, <1>2, <2>1, ReadingAssumption DEF IsAfter, ItemBefore
  <2> QED
    BY <2>2, <2>3, <2>4 DEF cursor
<1>5. CASE over = "backward"
  <2>1. /\ d.positions[id] \in Int \union {NullPosition}
        /\ d.positions[c] \in Int \union {NullPosition} /\ cursor.at = d.positions[c]
    BY <1>2, <1>5 DEF Placed, Place
  <2>2. Beyond(d, over, id, cursor) <=> IsBefore(d, id, cursor)
    BY <1>5 DEF Beyond
  <2>3. Precedes(d, over, c, id) <=> ItemBefore(d, id, c)
    BY <1>5 DEF Precedes
  <2>4. IsBefore(d, id, cursor) <=> ItemBefore(d, id, c)
    BY <1>1, <1>2, <2>1, ReadingAssumption DEF IsBefore, ItemBefore
  <2> QED
    BY <2>2, <2>3, <2>4 DEF cursor
<1> QED
  BY <1>3, <1>4, <1>5 DEF Walks

\* What a walk listed stays where it stands while the database is written.
Extends(d, e) ==
  /\ \A id \in DOMAIN d.positions :
       id \in DOMAIN e.positions /\ e.positions[id] = d.positions[id]
  /\ \A id \in RowsOf(d, "activity") :
       id \in RowsOf(e, "activity") /\ e.rows[id] = d.rows[id]

LEMMA PlacesStay ==
  ASSUME NEW d, NEW e, Extends(d, e), NEW over \in Walks
  PROVE  \A a : Placed(d, over, a) =>
           /\ Placed(e, over, a) /\ CursorOf(e, over, a) = CursorOf(d, over, a)
           /\ \A b : Placed(d, over, b) =>
                (Precedes(e, over, a, b) <=> Precedes(d, over, a, b))
<1> SUFFICES ASSUME NEW a, Placed(d, over, a), NEW b, Placed(d, over, b)
             PROVE  /\ Placed(e, over, a) /\ CursorOf(e, over, a) = CursorOf(d, over, a)
                    /\ Precedes(e, over, a, b) <=> Precedes(d, over, a, b)
  OBVIOUS
<1>1. CASE over = "outbox"
  <2>1. /\ a \in RowsOf(e, "activity") /\ e.rows[a] = d.rows[a] /\ e.rows[b] = d.rows[b]
    BY <1>1 DEF Placed, Extends
  <2>2. Placed(e, over, a) /\ CursorOf(e, over, a) = CursorOf(d, over, a)
    BY <1>1, <2>1 DEF Placed, CursorOf
  <2>3. Earlier(e, b, a) <=> Earlier(d, b, a)
    BY <2>1 DEF Earlier
  <2> QED
    BY <1>1, <2>2, <2>3 DEF Precedes
<1>2. CASE over # "outbox"
  <2>1. /\ a \in DOMAIN e.positions /\ e.positions[a] = d.positions[a]
        /\ e.positions[b] = d.positions[b]
    BY <1>2 DEF Placed, Extends
  <2>2. Placed(e, over, a) /\ CursorOf(e, over, a) = CursorOf(d, over, a)
    BY <1>2, <2>1 DEF Placed, CursorOf
  <2>3. /\ ItemBefore(e, a, b) <=> ItemBefore(d, a, b)
        /\ ItemBefore(e, b, a) <=> ItemBefore(d, b, a)
    BY <2>1 DEF ItemBefore
  <2> QED
    BY <1>2, <2>2, <2>3 DEF Precedes, Walks
<1> QED
  BY <1>1, <1>2

\* What is written keeps what a database holds, and what a walk listed where it is.
LEMMA CreateKeeps ==
  ASSUME DatabaseOK(db), NEW create \in Incoming, NEW instance, ReceiveCreate(create, instance)
  PROVE  DatabaseOK(db') /\ Extends(db, db')
<1> DEFINE activity == create.activity
           object == create.object
           added == RowOf("activity", "remote", create.addressed, object, NoResource,
                        FALSE, create.content, 0)
           about == RowOf("object", "remote", create.objectAddressed, NoResource, activity,
                          create.fetched,
                          IF create.fetched THEN create.fetchedContent ELSE create.content, 0)
           withActivity == StoreAbsent(db.rows, activity, added)
           withObject == StoreAbsent(withActivity, object, about)
           known == activity \in RowsOf(db, "activity")
           rows == IF known THEN db.rows ELSE withObject
           carriedActivity == rows[activity].content = create.content
           carriedObject ==
             /\ carriedActivity
             /\ \E id \in DOMAIN rows :
                  /\ rows[id].kind = "object" /\ rows[id].carrier = activity
                  /\ rows[id].fetched =>
                       create.fetched /\ create.fetchedContent = rows[id].content
           link == [activity |-> activity, instance |-> instance,
                    carried |-> (IF carriedActivity THEN {"activity"} ELSE {})
                                \union (IF carriedObject THEN {"object"} ELSE {})]
<1>1. /\ db' = [db EXCEPT !.rows = rows, !.links = @ \union {link}]
      /\ \/ known
         \/ /\ MayBecome(activity, "activity") /\ MayBecome(object, "object")
            /\ activity # object
  BY DEF ReceiveCreate, Becomes
<1>2. "object" \in link.carried => "activity" \in link.carried
  OBVIOUS
<1>3. activity \in 1 .. MaxResource /\ object \in 1 .. MaxResource
  BY DatabasesAssumption
<1>4. /\ added.kind = "activity" /\ about.kind = "object" /\ about.carrier = activity
      /\ added.published = 0 /\ about.published = 0
  BY DEF RowOf
<1> HIDE DEF link, added, about, activity, object
<1>5. /\ DOMAIN rows \subseteq 1 .. MaxResource
      /\ \A id \in DOMAIN rows : rows[id].published \in Int
      /\ \A id \in RowsOf(db, "activity") : id \in DOMAIN rows /\ rows[id] = db.rows[id]
      /\ \A id \in DOMAIN rows :
           \/ rows[id].kind # "object" \/ rows[id].author = "local"
           \/ rows[id].carrier = NoResource
           \/ rows[id].carrier \in DOMAIN rows /\ rows[rows[id].carrier].kind = "activity"
  <2>1. CASE known
    BY <2>1 DEF DatabaseOK, RowsOf, StoredIds
  <2>2. CASE ~known
    <3>1. /\ MayBecome(activity, "activity") /\ MayBecome(object, "object")
          /\ activity # object
      BY <1>1, <2>2
    <3>2. activity \notin DOMAIN db.rows \/ db.rows[activity].kind = "unknown"
      BY <2>2, <3>1 DEF MayBecome, RowsOf, StoredIds
    <3>10. /\ StoredIn(db.rows, activity, added, withActivity)
           /\ StoredIn(withActivity, object, about, withObject)
      BY StoredOnce
    <3> HIDE DEF withActivity, withObject
    <3>3. /\ DOMAIN withActivity = DOMAIN db.rows \union {activity}
          /\ \A r \in DOMAIN db.rows :
               (r = activity /\ db.rows[r].kind = "unknown") \/ withActivity[r] = db.rows[r]
          /\ withActivity[activity] = added
          /\ \A r \in DOMAIN withActivity :
               \/ r \in DOMAIN db.rows /\ withActivity[r] = db.rows[r]
               \/ r = activity /\ withActivity[r] = added
      BY <3>2, <3>10 DEF StoredIn
    <3>4. /\ DOMAIN withObject = DOMAIN withActivity \union {object}
          /\ \A r \in DOMAIN withActivity :
               \/ r = object /\ withActivity[r].kind = "unknown"
               \/ withObject[r] = withActivity[r]
          /\ \A r \in DOMAIN withObject :
               \/ r \in DOMAIN withActivity /\ withObject[r] = withActivity[r]
               \/ r = object /\ withObject[r] = about
      BY <3>10 DEF StoredIn
    <3>5. DOMAIN withObject \subseteq 1 .. MaxResource
      BY <1>3, <3>3, <3>4 DEF DatabaseOK, StoredIds
    <3>6. activity \in DOMAIN withObject /\ withObject[activity].kind = "activity"
      BY <1>4, <3>1, <3>3, <3>4
    <3>7. \A r \in RowsOf(db, "activity") :
            /\ r \in DOMAIN withObject /\ withObject[r] = db.rows[r]
            /\ withObject[r].kind = "activity"
      BY <1>4, <3>3, <3>4 DEF RowsOf, StoredIds
    <3>8. \A id \in DOMAIN withObject :
           \/ withObject[id].kind # "object" \/ withObject[id].author = "local"
           \/ withObject[id].carrier = NoResource
           \/ /\ withObject[id].carrier \in DOMAIN withObject
              /\ withObject[withObject[id].carrier].kind = "activity"
      <4> SUFFICES ASSUME NEW id \in DOMAIN withObject, withObject[id].kind = "object",
                          withObject[id].author # "local",
                          withObject[id].carrier # NoResource
                   PROVE  /\ withObject[id].carrier \in DOMAIN withObject
                          /\ withObject[withObject[id].carrier].kind = "activity"
        OBVIOUS
      <4>1. CASE withObject[id] = about
        BY <1>4, <3>6, <4>1
      <4>2. CASE id \in DOMAIN db.rows /\ withObject[id] = db.rows[id]
        <5>1. withObject[id].carrier \in RowsOf(db, "activity")
          BY <4>2 DEF DatabaseOK, RowsOf, StoredIds
        <5> QED
          BY <3>7, <5>1
      <4>3. CASE withObject[id] = added
        BY <1>4, <4>3
      <4> QED
        BY <3>3, <3>4, <4>1, <4>2, <4>3
    <3>9. \A id \in DOMAIN withObject : withObject[id].published \in Int
      BY <1>4, <3>3, <3>4 DEF DatabaseOK, StoredIds
    <3> QED
      BY <2>2, <3>5, <3>7, <3>8, <3>9
  <2> QED
    BY <2>1, <2>2
<1> HIDE DEF rows
<1>6. /\ DOMAIN db' = DOMAIN db /\ db'.rows = rows
      /\ db'.links = db.links \union {link} /\ db'.positions = db.positions
  BY <1>1 DEF DatabaseOK
<1>7. \A id \in RowsOf(db', "object") :
        \/ db'.rows[id].author = "local"
        \/ db'.rows[id].carrier \in RowsOf(db', "activity") \union {NoResource}
  BY <1>5, <1>6 DEF RowsOf, StoredIds
<1>8. \A l \in db'.links : "object" \in l.carried => "activity" \in l.carried
  BY <1>2, <1>6 DEF DatabaseOK
<1>9. DatabaseOK(db')
  BY <1>5, <1>6, <1>7, <1>8 DEF DatabaseOK, StoredIds
<1> QED
  BY <1>5, <1>6, <1>9 DEF Extends, RowsOf, StoredIds

\* A finite set of integers has a least.
LEMMA LeastInteger ==
  ASSUME NEW S, S \subseteq Int, IsFiniteSet(S), S # {}
  PROVE  Min(S) \in S
<1> DEFINE R == {p \in S \X S : p[1] < p[2]}
<1>1. \A x, y \in S : <<x, y>> \in R <=> x < y
  OBVIOUS
<1> HIDE DEF R
<1>2. IsOrder(S, R)
  <2>1. \A x \in S : x \in Int
    OBVIOUS
  <2> QED
    BY <1>1, <2>1 DEF IsOrder
<1> DEFINE f == Listed(S, R)
           N == Cardinality(S)
<1>3. /\ N \in Nat /\ f \in [1 .. N -> S]
      /\ \A x \in S : \E i \in 1 .. N : f[i] = x
      /\ \A i, j \in 1 .. N : i < j => <<f[i], f[j]>> \in R
  BY <1>2, ListedInOrder
<1> HIDE DEF f, N
<1>4. 1 \in 1 .. N
  <2>1. PICK x \in S : TRUE
    OBVIOUS
  <2>2. PICK i \in 1 .. N : f[i] = x
    BY <1>3
  <2> QED
    BY <1>3, <2>2
<1>5. f[1] \in S /\ \A y \in S : f[1] =< y
  <2>1. f[1] \in S
    BY <1>3, <1>4
  <2>2. ASSUME NEW y \in S
        PROVE  f[1] =< y
    <3>1. PICK i \in 1 .. N : f[i] = y
      BY <1>3
    <3>2. i = 1 \/ f[1] < y
      <4>1. i = 1 \/ 1 < i
        BY <1>3
      <4>2. 1 < i => <<f[1], f[i]>> \in R
        BY <1>3, <1>4
      <4> QED
        BY <1>1, <2>1, <3>1, <4>1, <4>2
    <3>3. f[1] \in Int /\ y \in Int
      BY <2>1
    <3> QED
      BY <3>1, <3>2, <3>3
  <2> QED
    BY <2>1, <2>2
<1> QED
  BY <1>5 DEF Min

LEMMA FrontIsANumber ==
  ASSUME DatabaseOK(db)
  PROVE  FrontPosition(db.positions) \in Int
<1> DEFINE p == db.positions
           given == {p[id] : id \in DOMAIN p} \ {NullPosition}
           numbered == {id \in DOMAIN p : p[id] # NullPosition}
           g == [id \in numbered |-> p[id]]
<1>1. IsFiniteSet(1 .. MaxResource) /\ numbered \subseteq 1 .. MaxResource
  <2>1. MaxResource \in Int /\ 1 \in Int
    BY ReadingAssumption
  <2>2. IsFiniteSet(1 .. MaxResource)
    BY <2>1, FS_Interval
  <2>3. DOMAIN p \subseteq 1 .. MaxResource
    BY DEF DatabaseOK
  <2> QED
    BY <2>2, <2>3
<1>2. IsFiniteSet(numbered)
  BY <1>1, FS_Subset
<1>3. g \in Surjection(numbered, given)
  BY DEF Surjection
<1>4. IsFiniteSet(given)
  BY <1>2, <1>3, FS_Surjection
<1>5. given \subseteq Int
  BY DEF DatabaseOK
<1>6. FrontPosition(p) = IF given = {} THEN -1 ELSE Min(given) - 1
  BY DEF FrontPosition
<1> HIDE DEF given
<1>7. given # {} => Min(given) \in Int
  BY <1>4, <1>5, LeastInteger
<1> QED
  BY <1>6, <1>7

LEMMA PublishKeeps ==
  ASSUME DatabaseOK(db), NEW post \in Posts, PublishObject(post)
  PROVE  DatabaseOK(db') /\ Extends(db, db')
<1> DEFINE greatest == Max(StoredIds(db) \union {NoResource})
           object == greatest + 1
           activity == object + 1
           first == RowOf("object", "local", post, NoResource, NoResource, FALSE, 1,
                          post.published)
           second == RowOf("activity", "local", post, object, NoResource, FALSE, 1,
                           post.published)
           between == StoreAbsent(db.rows, object, first)
           rows == StoreAbsent(between, activity, second)
<1>1. activity <= MaxResource
  BY DEF PublishObject
<1>2. greatest \in 0 .. MaxResource
  <2>1. StoredIds(db) \union {NoResource} \in SUBSET (0 .. MaxResource)
    BY ReadingAssumption DEF DatabaseOK, NoResource
  <2>2. greatest \in StoredIds(db) \union {NoResource}
    BY <2>1, ReadingAssumption, GreatestOf
  <2> QED
    BY <2>1, <2>2
<1>3. /\ DOMAIN db' = DOMAIN db /\ db'.rows = rows /\ db'.links = db.links
      /\ db'.positions = [id \in DOMAIN db.positions \union {activity} |->
                            IF id \in DOMAIN db.positions THEN db.positions[id]
                            ELSE FrontPosition(db.positions)]
  BY DEF PublishObject, Becomes, DatabaseOK
<1>4. /\ first.kind = "object" /\ first.author = "local" /\ second.kind = "activity"
      /\ first.published \in Int /\ second.published \in Int
  BY DatabasesAssumption DEF RowOf
<1> HIDE DEF greatest, first, second
<1>5. object \in 1 .. MaxResource /\ activity \in 1 .. MaxResource
  BY <1>1, <1>2, ReadingAssumption
<1> HIDE DEF object, activity
<1>20. StoredIn(db.rows, object, first, between) /\ StoredIn(between, activity, second, rows)
  BY StoredOnce
<1> HIDE DEF between, rows
<1>6. /\ DOMAIN between = DOMAIN db.rows \union {object}
      /\ \A r \in DOMAIN db.rows :
           (r = object /\ db.rows[r].kind = "unknown") \/ between[r] = db.rows[r]
      /\ \A r \in DOMAIN between :
           \/ r \in DOMAIN db.rows /\ between[r] = db.rows[r]
           \/ r = object /\ between[r] = first
  BY <1>20 DEF StoredIn
<1>7. /\ DOMAIN rows = DOMAIN between \union {activity}
      /\ \A r \in DOMAIN between :
           (r = activity /\ between[r].kind = "unknown") \/ rows[r] = between[r]
      /\ \A r \in DOMAIN rows :
           \/ r \in DOMAIN between /\ rows[r] = between[r]
           \/ r = activity /\ rows[r] = second
  BY <1>20 DEF StoredIn
<1>8. DOMAIN rows \subseteq 1 .. MaxResource
  BY <1>5, <1>6, <1>7 DEF DatabaseOK, StoredIds
<1>9. \A r \in RowsOf(db, "activity") :
        r \in DOMAIN rows /\ rows[r].kind = "activity" /\ rows[r] = db.rows[r]
  BY <1>6, <1>7 DEF RowsOf, StoredIds
<1>10. \A id \in DOMAIN rows :
         \/ rows[id].kind # "object" \/ rows[id].author = "local"
         \/ id \in RowsOf(db, "object") /\ rows[id] = db.rows[id]
  BY <1>4, <1>6, <1>7 DEF RowsOf, StoredIds
<1>11. \A id \in RowsOf(db', "object") :
         \/ db'.rows[id].author = "local"
         \/ db'.rows[id].carrier \in RowsOf(db', "activity") \union {NoResource}
  <2> SUFFICES ASSUME NEW id \in RowsOf(db', "object"), db'.rows[id].author # "local"
               PROVE  db'.rows[id].carrier \in RowsOf(db', "activity") \union {NoResource}
    OBVIOUS
  <2>1. id \in RowsOf(db, "object") /\ rows[id] = db.rows[id]
    BY <1>3, <1>10 DEF RowsOf, StoredIds
  <2>2. rows[id].carrier \in RowsOf(db, "activity") \union {NoResource}
    BY <1>3, <2>1 DEF DatabaseOK
  <2> QED
    BY <1>3, <1>9, <2>2 DEF RowsOf, StoredIds
<1>12. \A id \in DOMAIN rows : rows[id].published \in Int
  BY <1>4, <1>6, <1>7 DEF DatabaseOK, StoredIds
<1>13. FrontPosition(db.positions) \in Int
  BY FrontIsANumber
<1>14. /\ DOMAIN db'.positions \subseteq 1 .. MaxResource
       /\ \A id \in DOMAIN db'.positions : db'.positions[id] \in Int \union {NullPosition}
       /\ \A id \in DOMAIN db.positions :
            id \in DOMAIN db'.positions /\ db'.positions[id] = db.positions[id]
  BY <1>3, <1>5, <1>13 DEF DatabaseOK
<1>15. DatabaseOK(db')
  BY <1>3, <1>8, <1>11, <1>12, <1>14 DEF DatabaseOK, StoredIds
<1> QED
  BY <1>3, <1>9, <1>14, <1>15 DEF Extends, RowsOf, StoredIds

LEMMA DatabaseStep ==
  ASSUME DatabaseOK(db), [ReadingNext]_readVars
  PROVE  DatabaseOK(db') /\ Extends(db, db')
<1>1. ASSUME NEW create \in Incoming, NEW instance \in LocalInstances,
             ReceiveCreate(create, instance)
      PROVE  DatabaseOK(db') /\ Extends(db, db')
  BY <1>1, CreateKeeps
<1>2. ASSUME NEW post \in Posts, PublishObject(post)
      PROVE  DatabaseOK(db') /\ Extends(db, db')
  BY <1>2, PublishKeeps
<1>3. CASE \/ \E over \in Walks : StartWalk(over)
           \/ ReadPage \/ UNCHANGED readVars
  <2>1. db' = db
    BY <1>3 DEF StartWalk, ReadPage, readVars
  <2> QED
    BY <2>1 DEF Extends
<1>4. ASSUME \/ \E id \in StoredIds(db) : DeleteObject(id)
             \/ \E author \in Authors : DeleteAuthor(author)
             \/ \E instance \in Memberships : AcceptMembership(instance) \/ EndMembership(instance)
      PROVE  DatabaseOK(db') /\ Extends(db, db')
  <2>1. /\ DOMAIN db' = DOMAIN db /\ db'.rows = db.rows /\ db'.links = db.links
        /\ db'.positions = db.positions
    BY <1>4 DEF DeleteObject, DeleteAuthor, AcceptMembership, EndMembership, Becomes,
                DatabaseOK
  <2> QED
    BY <2>1 DEF DatabaseOK, Extends, RowsOf, StoredIds
<1> QED
  BY <1>1, <1>2, <1>3, <1>4 DEF ReadingNext

\* What somebody may not read tells it nothing, whatever is delivered, written,
\* deleted, joined and left, for any databases that are as they are written:
\* readableResource() is asked for every row that is shown (readable.ts:211-214).
THEOREM HiddenStaysUntold ==
  ReadingInit /\ [][ReadingNext]_readVars => []HiddenTellsNothing
<1>1. ReadingInit => DatabaseOK(db)
  BY DatabasesAssumption DEF ReadingInit
<1>2. DatabaseOK(db) /\ [ReadingNext]_readVars => DatabaseOK(db)'
  BY DatabaseStep
<1>3. DatabaseOK(db) => HiddenTellsNothing
  <2> SUFFICES ASSUME DatabaseOK(db), NEW account \in Asking
               PROVE  Answers(db, ViewerOf(db, account))
                        = Answers(Told(db, account), ViewerOf(db, account))
    BY DEF HiddenTellsNothing, Asking, Told
  <2> QED
    BY HiddenIsUntold
<1> QED
  BY <1>1, <1>2, <1>3, PTL

-----------------------------------------------------------------------------
\* A walk, and what is left of it: everything it must still show is beyond its cursor.
SeenIn(w) == {w.seen[i] : i \in DOMAIN w.seen}
CursorOK(d, w) ==
  IF w.seen = <<>> THEN w.cursor = NoCursor
  ELSE w.cursor = CursorOf(d, w.over, w.seen[Len(w.seen)])
LeftOf(d, w, id) == w.cursor = NoCursor \/ Beyond(d, w.over, id, w.cursor)

WalkOK(d, w) ==
  /\ DOMAIN w = {"over", "cursor", "seen", "steady", "ended"}
  /\ w.over \in Walks
  /\ w.seen \in Seq(1 .. MaxResource) /\ \A i \in DOMAIN w.seen : Placed(d, w.over, w.seen[i])
  /\ \A i, j \in DOMAIN w.seen : i < j => Precedes(d, w.over, w.seen[i], w.seen[j])
  /\ CursorOK(d, w)
  /\ w.steady \subseteq ListedIn(d, w.over)
  /\ \A id \in w.steady : id \in SeenIn(w) \/ (~w.ended /\ LeftOf(d, w, id))

WalkInv == DatabaseOK(db) /\ (walk = NoWalk \/ WalkOK(db, walk))

LEMMA WalksStart ==
  ASSUME DatabaseOK(db), walk = NoWalk, NEW over \in Walks, StartWalk(over)
  PROVE  WalkOK(db', walk')
<1>1. db' = db /\ walk' = [NoWalk EXCEPT !.over = over, !.steady = ListedIn(db, over)]
  BY DEF StartWalk
<1>2. /\ DOMAIN walk' = {"over", "cursor", "seen", "steady", "ended"} /\ walk'.over = over
      /\ walk'.seen = <<>> /\ walk'.cursor = NoCursor /\ walk'.steady = ListedIn(db, over)
      /\ walk'.ended = FALSE
  BY <1>1 DEF NoWalk
<1>3. walk'.seen \in Seq(1 .. MaxResource) /\ DOMAIN walk'.seen = {}
  BY <1>2
<1> QED
  BY <1>1, <1>2, <1>3 DEF WalkOK, CursorOK, LeftOf

\* Whoever writes leaves a walk where it is.
LEMMA WalksStay ==
  ASSUME NEW d, NEW w, WalkOK(d, w), NEW e, DatabaseOK(e), Extends(d, e),
         DatabaseOK(d), NEW v, v = [w EXCEPT !.steady = @ \cap ListedIn(e, w.over)]
  PROVE  WalkOK(e, v)
<1> DEFINE over == w.over
<1>1. /\ DOMAIN v = DOMAIN w /\ v.over = w.over /\ v.seen = w.seen /\ v.cursor = w.cursor
      /\ v.ended = w.ended /\ v.steady = w.steady \cap ListedIn(e, w.over)
  BY DEF WalkOK
<1>2. over \in Walks
  BY DEF WalkOK
<1>3. \A a : Placed(d, over, a) =>
        /\ Placed(e, over, a) /\ CursorOf(e, over, a) = CursorOf(d, over, a)
        /\ \A b : Placed(d, over, b) => (Precedes(e, over, a, b) <=> Precedes(d, over, a, b))
  BY <1>2, PlacesStay
<1>4. \A i \in DOMAIN w.seen : Placed(d, over, w.seen[i])
  BY DEF WalkOK
<1>5. /\ \A i \in DOMAIN v.seen : Placed(e, over, v.seen[i])
      /\ \A i, j \in DOMAIN v.seen : i < j => Precedes(e, over, v.seen[i], v.seen[j])
  BY <1>1, <1>3, <1>4 DEF WalkOK
<1>6. DOMAIN w.seen = 1 .. Len(w.seen) /\ Len(w.seen) \in Nat
  BY DEF WalkOK
<1>7. w.seen # <<>> => Len(w.seen) \in DOMAIN w.seen
  BY <1>6 DEF WalkOK
<1>8. CursorOK(e, v)
  BY <1>1, <1>3, <1>4, <1>7 DEF WalkOK, CursorOK
<1>9. ASSUME NEW id \in v.steady
      PROVE  id \in SeenIn(v) \/ (~v.ended /\ LeftOf(e, v, id))
  <2>1. id \in w.steady /\ id \in ListedIn(d, over)
    BY <1>1, <1>9 DEF WalkOK
  <2>2. CASE id \in SeenIn(w)
    BY <1>1, <2>2 DEF SeenIn
  <2>3. CASE ~w.ended /\ LeftOf(d, w, id) /\ w.seen = <<>>
    BY <1>1, <2>3 DEF LeftOf, WalkOK, CursorOK
  <2>4. CASE ~w.ended /\ LeftOf(d, w, id) /\ w.seen # <<>>
    <3> DEFINE c == w.seen[Len(w.seen)]
    <3>1. Placed(d, over, c) /\ Placed(d, over, id)
      BY <1>2, <1>4, <1>7, <2>1, <2>4, ListedArePlaced
    <3>2. w.cursor = CursorOf(d, over, c) /\ w.cursor = CursorOf(e, over, c)
      BY <1>3, <2>4, <3>1 DEF WalkOK, CursorOK
    <3>3. w.cursor # NoCursor
      <4>1. c # NoResource
        BY <3>1 DEF Placed, NoResource
      <4>2. w.cursor.id = c
        BY <3>2 DEF CursorOf
      <4>3. NoCursor.id = NoResource
        BY DEF NoCursor
      <4> QED
        BY <4>1, <4>2, <4>3
    <3>4. Beyond(d, over, id, CursorOf(d, over, c))
      BY <2>4, <3>2, <3>3 DEF LeftOf
    <3>5. Precedes(d, over, c, id)
      BY <1>2, <3>1, <3>4, BeyondIsAfter
    <3>6. Placed(e, over, c) /\ Placed(e, over, id) /\ Precedes(e, over, c, id)
      BY <1>3, <3>1, <3>5
    <3>7. Beyond(e, over, id, CursorOf(e, over, c))
      BY <1>2, <3>6, BeyondIsAfter
    <3> QED
      BY <1>1, <2>4, <3>2, <3>7 DEF LeftOf
  <2> QED
    BY <2>1, <2>2, <2>3, <2>4 DEF WalkOK
<1> QED
  BY <1>1, <1>5, <1>8, <1>9 DEF WalkOK

\* A page goes on where the one before it ended, and leaves what is after it.
FoundIn(d, w) == {id \in ListedIn(d, w.over) : LeftOf(d, w, id)}
PageOrder(d, w) ==
  {p \in FoundIn(d, w) \X FoundIn(d, w) : Precedes(d, w.over, p[1], p[2])}

FoundBy(d, w) == Ordered(FoundIn(d, w), LAMBDA a, b : Precedes(d, w.over, a, b))

LEMMA FoundIsOrdered ==
  ASSUME NEW d, DatabaseOK(d), NEW w, WalkOK(d, w)
  PROVE  LET S == FoundIn(d, w)
             f == FoundBy(d, w)
         IN /\ Cardinality(S) \in Nat /\ f \in [1 .. Cardinality(S) -> S]
            /\ \A x \in S : \E i \in 1 .. Cardinality(S) : f[i] = x
            /\ \A i, j \in 1 .. Cardinality(S) : i < j => Precedes(d, w.over, f[i], f[j])
<1> DEFINE S == FoundIn(d, w)
           R == PageOrder(d, w)
           over == w.over
           f == FoundBy(d, w)
<1>1. over \in Walks /\ S \subseteq ListedIn(d, over)
  BY DEF WalkOK, FoundIn
<1>2. IsFiniteSet(S) /\ \A id \in S : Placed(d, over, id)
  BY <1>1, ListedArePlaced, FS_Subset
<1>3. \A a, b \in S : <<a, b>> \in R <=> Precedes(d, over, a, b)
  BY DEF PageOrder
<1>4. IsOrder(S, R)
  <2> HIDE DEF S, R
  <2>1. /\ \A a \in S : ~Precedes(d, over, a, a)
        /\ \A a, b, c \in S :
             Precedes(d, over, a, b) /\ Precedes(d, over, b, c) => Precedes(d, over, a, c)
        /\ \A a, b \in S : a = b \/ Precedes(d, over, a, b) \/ Precedes(d, over, b, a)
    BY <1>1, <1>2, WalksAreOrdered
  <2> QED
    BY <1>3, <2>1 DEF IsOrder
<1> HIDE DEF S, R
<1>5. \A i : AtRank(S, R, i - 1)
               = {x \in S : Cardinality({y \in S : Precedes(d, over, y, x)}) = i - 1}
  <2>1. \A x \in S : Under(S, R, x) = {y \in S : Precedes(d, over, y, x)}
    BY <1>3 DEF Under
  <2> QED
    BY <2>1 DEF AtRank, RankIn
<1>6. f = Listed(S, R)
  BY <1>5 DEF Ordered, Listed, FoundBy, S
<1>7. /\ Cardinality(S) \in Nat /\ Listed(S, R) \in [1 .. Cardinality(S) -> S]
      /\ \A x \in S : \E i \in 1 .. Cardinality(S) : Listed(S, R)[i] = x
      /\ \A i, j \in 1 .. Cardinality(S) : i < j => <<Listed(S, R)[i], Listed(S, R)[j]>> \in R
  BY <1>2, <1>4, ListedInOrder
<1> HIDE DEF f
<1>8. \A i \in 1 .. Cardinality(S) : f[i] \in S
  BY <1>6, <1>7
<1>9. \A i, j \in 1 .. Cardinality(S) : i < j => Precedes(d, over, f[i], f[j])
  BY <1>3, <1>6, <1>7, <1>8
<1>10. /\ Cardinality(S) \in Nat /\ f \in [1 .. Cardinality(S) -> S]
       /\ \A x \in S : \E i \in 1 .. Cardinality(S) : f[i] = x
  BY <1>6, <1>7
<1> QED
  BY <1>9, <1>10 DEF f, S

LEMMA LesserOf ==
  ASSUME NEW a \in Nat, NEW b \in Nat
  PROVE  /\ Min({a, b}) \in {a, b} /\ Min({a, b}) <= a /\ Min({a, b}) <= b
<1> DEFINE S == {a, b}
<1>1. \E x \in S : \A y \in S : x =< y
  BY a <= b \/ b <= a
<1>2. Min(S) \in S /\ \A y \in S : Min(S) =< y
  BY <1>1 DEF Min
<1> QED
  BY <1>2

LEMMA PagesFollow ==
  ASSUME DatabaseOK(db), WalkOK(db, walk), ReadPage
  PROVE  WalkOK(db', walk')
<1> DEFINE over == walk.over
           S == FoundIn(db, walk)
           N == Cardinality(S)
           found == FoundBy(db, walk)
           k == Min({PageSize, Len(found)})
           page == SubSeq(found, 1, k)
           seen == walk.seen
<1>1. /\ N \in Nat /\ found \in [1 .. N -> S]
      /\ \A x \in S : \E i \in 1 .. N : found[i] = x
      /\ \A i, j \in 1 .. N : i < j => Precedes(db, over, found[i], found[j])
  BY FoundIsOrdered
<1>2. /\ db' = db /\ ~walk.ended
      /\ walk' = [walk EXCEPT
                    !.seen = @ \o page,
                    !.ended = Len(found) <= PageSize,
                    !.cursor = IF page = <<>> THEN @
                               ELSE CursorOf(db, over, page[Len(page)])]
  BY DEF ReadPage, FoundBy, FoundIn, LeftOf, Ordered
<1>3. over \in Walks /\ seen \in Seq(1 .. MaxResource)
  BY DEF WalkOK
<1>4. /\ \A i \in DOMAIN seen : Placed(db, over, seen[i])
      /\ \A i, j \in DOMAIN seen : i < j => Precedes(db, over, seen[i], seen[j])
  BY DEF WalkOK
<1>5. \A x \in S : Placed(db, over, x) /\ x \in ListedIn(db, over) /\ LeftOf(db, walk, x)
  BY <1>3, ListedArePlaced DEF FoundIn
<1>6. found \in Seq(S) /\ Len(found) = N
  BY <1>1
<1> HIDE DEF found, S, N
<1>7. k \in Nat /\ k <= N /\ k <= PageSize /\ (k = N \/ k = PageSize)
  BY <1>1, <1>6, ReadingAssumption, LesserOf
<1> HIDE DEF k
<1>8. page \in Seq(1 .. MaxResource) /\ Len(page) = k /\ \A i \in 1 .. k : page[i] = found[i]
  <2>1. \A i \in 1 .. k : found[i] \in 1 .. MaxResource
    BY <1>1, <1>5, <1>7 DEF Placed
  <2>2. /\ page \in Seq(1 .. MaxResource)
        /\ Len(page) = IF 1 <= k THEN k - 1 + 1 ELSE 0
        /\ \A i \in 1 .. k - 1 + 1 : page[i] = found[1 + i - 1]
    BY <1>7, <2>1, SubSeqProperties
  <2>3. k - 1 + 1 = k /\ Len(page) = k
    BY <1>7, <2>2
  <2>4. \A i \in 1 .. k : 1 + i - 1 = i
    OBVIOUS
  <2> QED
    BY <2>2, <2>3, <2>4
<1> HIDE DEF page
<1>9. /\ DOMAIN walk' = DOMAIN walk /\ walk'.over = over /\ walk'.seen = seen \o page
      /\ walk'.steady = walk.steady /\ walk'.ended = (N <= PageSize)
      /\ walk'.cursor = IF page = <<>> THEN walk.cursor
                        ELSE CursorOf(db, over, page[Len(page)])
  BY <1>2, <1>6 DEF WalkOK
<1> DEFINE M == Len(seen)
<1>10. /\ M \in Nat /\ DOMAIN seen = 1 .. M
       /\ seen \o page \in Seq(1 .. MaxResource) /\ DOMAIN (seen \o page) = 1 .. M + k
       /\ Len(seen \o page) = M + k
       /\ \A i \in 1 .. M + k : (seen \o page)[i] = IF i <= M THEN seen[i] ELSE found[i - M]
  <2>1. /\ M \in Nat /\ DOMAIN seen = 1 .. M
    BY <1>3
  <2>2. /\ seen \o page \in Seq(1 .. MaxResource) /\ Len(seen \o page) = M + k
        /\ \A i \in 1 .. M + k :
             (seen \o page)[i] = IF i <= M THEN seen[i] ELSE page[i - M]
    BY <1>3, <1>8, ConcatProperties
  <2>3. DOMAIN (seen \o page) = 1 .. M + k
    BY <2>2, LenProperties
  <2>4. \A i \in 1 .. M + k : ~(i <= M) => i - M \in 1 .. k
    BY <1>7, <2>1
  <2> QED
    BY <1>8, <2>1, <2>2, <2>3, <2>4
<1> HIDE DEF M, seen
<1>11. \A i \in 1 .. M, j \in 1 .. k : Precedes(db, over, seen[i], found[j])
  <2> SUFFICES ASSUME NEW i \in 1 .. M, NEW j \in 1 .. k
               PROVE  Precedes(db, over, seen[i], found[j])
    OBVIOUS
  <2>1. M \in 1 .. M /\ seen # <<>>
    BY <1>10
  <2>2. walk.cursor = CursorOf(db, over, seen[M])
    BY <2>1 DEF WalkOK, CursorOK, M, seen
  <2>3. Placed(db, over, seen[M]) /\ Placed(db, over, seen[i])
    BY <1>4, <1>10, <2>1
  <2>4. found[j] \in S /\ Placed(db, over, found[j]) /\ LeftOf(db, walk, found[j])
    BY <1>1, <1>5, <1>7
  <2>5. walk.cursor # NoCursor
    <3>1. seen[M] # NoResource
      BY <2>3 DEF Placed, NoResource
    <3>2. walk.cursor.id = seen[M]
      BY <2>2 DEF CursorOf
    <3>3. NoCursor.id = NoResource
      BY DEF NoCursor
    <3> QED
      BY <3>1, <3>2, <3>3
  <2>6. Precedes(db, over, seen[M], found[j])
    BY <1>3, <2>2, <2>3, <2>4, <2>5, BeyondIsAfter DEF LeftOf
  <2>7. i = M \/ Precedes(db, over, seen[i], seen[M])
    BY <1>4, <1>10, <2>1
  <2>8. Precedes(db, over, seen[i], seen[M]) => Precedes(db, over, seen[i], found[j])
    <3> DEFINE T == {seen[i], seen[M], found[j]}
    <3>1. \A x \in T : Placed(db, over, x)
      BY <2>3, <2>4
    <3>2. seen[i] \in T /\ seen[M] \in T /\ found[j] \in T
      OBVIOUS
    <3> HIDE DEF T
    <3>3. \A x, y, z \in T :
            Precedes(db, over, x, y) /\ Precedes(db, over, y, z) => Precedes(db, over, x, z)
      BY <1>3, <3>1, WalksAreOrdered
    <3> QED
      BY <2>6, <3>2, <3>3
  <2> QED
    BY <2>6, <2>7, <2>8
<1>12. \A i \in DOMAIN walk'.seen : Placed(db, over, walk'.seen[i])
  <2>1. \A i \in 1 .. k : Placed(db, over, found[i])
    BY <1>1, <1>5, <1>7
  <2>2. \A i \in 1 .. M + k : ~(i <= M) => i - M \in 1 .. k
    BY <1>7, <1>10
  <2> QED
    BY <1>4, <1>9, <1>10, <2>1, <2>2
<1>13. ASSUME NEW i \in DOMAIN walk'.seen, NEW j \in DOMAIN walk'.seen, i < j
       PROVE  Precedes(db, over, walk'.seen[i], walk'.seen[j])
  <2>1. /\ i \in 1 .. M + k /\ j \in 1 .. M + k
        /\ walk'.seen[i] = (IF i <= M THEN seen[i] ELSE found[i - M])
        /\ walk'.seen[j] = (IF j <= M THEN seen[j] ELSE found[j - M])
    BY <1>9, <1>10
  <2>2. CASE j <= M
    BY <1>4, <1>10, <1>13, <2>1, <2>2
  <2>3. CASE i <= M /\ ~(j <= M)
    <3>1. i \in 1 .. M /\ j - M \in 1 .. k
      BY <1>7, <1>10, <2>1, <2>3
    <3> QED
      BY <1>11, <2>1, <2>3, <3>1
  <2>4. CASE ~(i <= M)
    <3>1. i - M \in 1 .. N /\ j - M \in 1 .. N /\ i - M < j - M /\ ~(j <= M)
      <4>1. N \in Nat /\ k \in Nat /\ k <= N /\ M \in Nat /\ i \in Int /\ j \in Int
        BY <1>1, <1>7, <1>10, <2>1
      <4>2. M < i /\ i < j /\ j <= M + k
        BY <1>13, <2>1, <2>4, <4>1
      <4> HIDE DEF N, M, k
      <4> QED
        BY <4>1, <4>2
    <3> QED
      BY <1>1, <2>1, <2>4, <3>1
  <2> QED
    BY <1>10, <1>13, <2>1, <2>2, <2>3, <2>4
<1>14. page = <<>> <=> k = 0
  BY <1>7, <1>8
<1>15. CursorOK(db, walk')
  <2>1. CASE k = 0
    <3>1. walk'.seen = seen
      BY <1>3, <1>9, <1>14, <2>1 DEF seen
    <3> QED
      BY <1>9, <1>14, <2>1, <3>1 DEF CursorOK, WalkOK, seen
  <2>2. CASE k # 0
    <3>1. Len(walk'.seen) = M + k /\ M + k \in 1 .. M + k /\ ~(M + k <= M) /\ M + k - M = k
      BY <1>7, <1>9, <1>10, <2>2
    <3>2. walk'.seen[M + k] = found[k] /\ page[Len(page)] = found[k]
      BY <1>7, <1>8, <1>9, <1>10, <2>2, <3>1
    <3>3. walk'.seen # <<>>
      BY <3>1
    <3> QED
      BY <1>9, <1>14, <2>2, <3>1, <3>2, <3>3 DEF CursorOK
  <2> QED
    BY <2>1, <2>2
<1>16. ASSUME NEW id \in walk.steady
       PROVE  id \in SeenIn(walk') \/ (~walk'.ended /\ LeftOf(db, walk', id))
  <2>1. id \in ListedIn(db, over) /\ (id \in SeenIn(walk) \/ LeftOf(db, walk, id))
    BY <1>16 DEF WalkOK
  <2>2. CASE id \in SeenIn(walk)
    <3>1. PICK i \in 1 .. M : seen[i] = id
      BY <1>10, <2>2 DEF SeenIn, seen
    <3>2. i \in 1 .. M + k /\ i <= M
      BY <1>7, <1>10
    <3>3. walk'.seen[i] = id /\ i \in DOMAIN walk'.seen
      BY <1>9, <1>10, <3>1, <3>2
    <3> QED
      BY <3>3 DEF SeenIn
  <2>3. CASE LeftOf(db, walk, id)
    <3>1. id \in S
      BY <2>1, <2>3 DEF S, FoundIn
    <3>2. PICK n \in 1 .. N : found[n] = id
      BY <1>1, <3>1
    <3>3. CASE n <= k
      <4>1. M + n \in 1 .. M + k /\ ~(M + n <= M) /\ M + n - M = n
        BY <1>7, <1>10, <3>3
      <4>2. walk'.seen[M + n] = id /\ M + n \in DOMAIN walk'.seen
        BY <1>9, <1>10, <3>2, <4>1
      <4> QED
        BY <4>2 DEF SeenIn
    <3>4. CASE ~(n <= k)
      <4>1. k = PageSize /\ k # 0 /\ k \in 1 .. N /\ k < n /\ ~(N <= PageSize)
        BY <1>1, <1>7, <3>4, ReadingAssumption
      <4>2. Precedes(db, over, found[k], found[n])
        BY <1>1, <4>1
      <4>3. walk'.cursor = CursorOf(db, over, found[k])
        BY <1>8, <1>9, <1>14, <4>1
      <4>4. Placed(db, over, found[k]) /\ Placed(db, over, id)
        BY <1>1, <1>5, <3>1, <4>1
      <4>5. Beyond(db, over, id, CursorOf(db, over, found[k]))
        BY <1>3, <3>2, <4>2, <4>4, BeyondIsAfter
      <4> QED
        BY <1>9, <4>1, <4>3, <4>5 DEF LeftOf
    <3> QED
      BY <3>3, <3>4
  <2> QED
    BY <2>1, <2>2, <2>3
<1>17. walk'.seen \in Seq(1 .. MaxResource)
  BY <1>9, <1>10
<1> HIDE DEF over
<1>18. /\ DOMAIN walk' = {"over", "cursor", "seen", "steady", "ended"}
       /\ walk'.steady \subseteq ListedIn(db, over)
  BY <1>9 DEF WalkOK, over
<1> QED
  BY <1>2, <1>3, <1>9, <1>12, <1>13, <1>15, <1>16, <1>17, <1>18 DEF WalkOK

LEMMA WalkStep ==
  ASSUME WalkInv, [ReadingNext]_readVars
  PROVE  WalkInv'
<1>1. DatabaseOK(db) /\ DatabaseOK(db') /\ Extends(db, db')
  BY DatabaseStep DEF WalkInv
<1>2. NoWalk.over = "none" /\ "none" \notin Walks
  BY DEF NoWalk, Walks
<1>3. walk = NoWalk <=> walk.over = "none"
  BY <1>2 DEF WalkInv, WalkOK
<1>4. ASSUME NEW over \in Walks, StartWalk(over)
      PROVE  WalkInv'
  <2>1. walk = NoWalk
    BY <1>3, <1>4 DEF StartWalk
  <2> QED
    BY <1>1, <1>4, <2>1, WalksStart DEF WalkInv
<1>5. CASE ReadPage
  <2>1. WalkOK(db, walk)
    BY <1>3, <1>5 DEF ReadPage, WalkInv
  <2> QED
    BY <1>1, <1>5, <2>1, PagesFollow DEF WalkInv
<1>6. CASE UNCHANGED readVars
  BY <1>6 DEF readVars, WalkInv
<1>7. ASSUME walk' = [walk EXCEPT !.steady = @ \cap ListedIn(db', walk.over)]
      PROVE  WalkInv'
  <2>1. CASE walk = NoWalk
    <3>1. walk' = NoWalk
      BY <1>7, <2>1 DEF NoWalk
    <3> QED
      BY <1>1, <3>1 DEF WalkInv
  <2>2. CASE WalkOK(db, walk)
    BY <1>1, <1>7, <2>2, WalksStay DEF WalkInv
  <2> QED
    BY <2>1, <2>2 DEF WalkInv
<1>8. ASSUME \/ \E create \in Incoming, instance \in LocalInstances :
                  ReceiveCreate(create, instance)
             \/ \E post \in Posts : PublishObject(post)
             \/ \E id \in StoredIds(db) : DeleteObject(id)
             \/ \E author \in Authors : DeleteAuthor(author)
             \/ \E instance \in Memberships : AcceptMembership(instance) \/ EndMembership(instance)
      PROVE  walk' = [walk EXCEPT !.steady = @ \cap ListedIn(db', walk.over)]
  <2>1. \A d : Becomes(d) => walk' = [walk EXCEPT !.steady = @ \cap ListedIn(db', walk.over)]
    BY DEF Becomes
  <2>2. ASSUME NEW create \in Incoming, NEW instance \in LocalInstances,
               ReceiveCreate(create, instance)
        PROVE  walk' = [walk EXCEPT !.steady = @ \cap ListedIn(db', walk.over)]
    BY <2>1, <2>2 DEF ReceiveCreate
  <2>3. ASSUME NEW post \in Posts, PublishObject(post)
        PROVE  walk' = [walk EXCEPT !.steady = @ \cap ListedIn(db', walk.over)]
    BY <2>1, <2>3 DEF PublishObject
  <2>4. ASSUME NEW id \in StoredIds(db), DeleteObject(id)
        PROVE  walk' = [walk EXCEPT !.steady = @ \cap ListedIn(db', walk.over)]
    BY <2>1, <2>4 DEF DeleteObject
  <2>5. ASSUME NEW author \in Authors, DeleteAuthor(author)
        PROVE  walk' = [walk EXCEPT !.steady = @ \cap ListedIn(db', walk.over)]
    BY <2>1, <2>5 DEF DeleteAuthor
  <2>6. ASSUME NEW instance \in Memberships,
               AcceptMembership(instance) \/ EndMembership(instance)
        PROVE  walk' = [walk EXCEPT !.steady = @ \cap ListedIn(db', walk.over)]
    BY <2>1, <2>6 DEF AcceptMembership, EndMembership
  <2> QED
    BY <1>8, <2>2, <2>3, <2>4, <2>5, <2>6
<1> QED
  BY <1>4, <1>5, <1>6, <1>7, <1>8 DEF ReadingNext

\* The pages of a walk are in order, list nothing twice and leave nothing out that
\* could be read all along, for any databases, page size and writers
\* (collectionCursorPredicate, resource.ts:342-378; collection.ts:43-46).
THEOREM WalksStayComplete ==
  ReadingInit /\ [][ReadingNext]_readVars => []WalksAreComplete
<1>1. ReadingInit => WalkInv
  BY DatabasesAssumption DEF ReadingInit, WalkInv
<1>2. WalkInv /\ [ReadingNext]_readVars => WalkInv'
  BY WalkStep
<1>3. WalkInv => WalksAreComplete
  <2>1. CASE walk = NoWalk
    <3>1. walk.seen = <<>> /\ walk.ended = FALSE
      BY <2>1 DEF NoWalk
    <3>2. DOMAIN walk.seen = {}
      BY <3>1
    <3> QED
      BY <3>1, <3>2 DEF WalksAreComplete
  <2>2. CASE WalkOK(db, walk)
    BY <2>2 DEF WalkOK, WalksAreComplete, SeenIn
  <2> QED
    BY <2>1, <2>2 DEF WalkInv
<1> QED
  BY <1>1, <1>2, <1>3, PTL

-----------------------------------------------------------------------------
(***************************************************************************)
(* Proofs about DeliveryVerification, for any reports that are as Fedify's  *)
(* types say (ReportOK).  The attempt that is shown vouches for the         *)
(* activity exactly if one of those that may be shown does; and a version   *)
(* that was observed stays, and is seen later if anything.                  *)
(***************************************************************************)

LEMMA EndsOfPlaces ==
  ASSUME NEW n \in Nat, NEW P \in SUBSET (1 .. n), P # {}
  PROVE  Min(P) \in P /\ Max(P) \in P
<1>1. P \subseteq Int /\ P \in SUBSET (0 .. n)
  OBVIOUS
<1>2. IsFiniteSet(P)
  <2>1. IsFiniteSet(1 .. n)
    BY FS_Interval
  <2> QED
    BY <2>1, FS_Subset
<1> QED
  BY <1>1, <1>2, LeastInteger, GreatestOf

LEMMA FirstIsThere ==
  ASSUME NEW s, Len(s) \in Nat, DOMAIN s = 1 .. Len(s), NEW P \in SUBSET (DOMAIN s)
  PROVE  \A default : \/ P = {} /\ FirstAt(s, P, default) = default
                     \/ \E i \in P : FirstAt(s, P, default) = s[i]
<1>1. P # {} => Min(P) \in P
  BY EndsOfPlaces
<1> QED
  BY <1>1 DEF FirstAt

LEMMA LastIsThere ==
  ASSUME NEW s, Len(s) \in Nat, DOMAIN s = 1 .. Len(s), NEW P \in SUBSET (DOMAIN s)
  PROVE  \A default : \/ P = {} /\ LastAt(s, P, default) = default
                     \/ \E i \in P : LastAt(s, P, default) = s[i]
<1>1. P # {} => Max(P) \in P
  BY EndsOfPlaces
<1> QED
  BY <1>1 DEF LastAt

LEMMA EligibleAreShown ==
  ASSUME NEW rep, ReportOK(rep)
  PROVE  /\ Eligible(rep) \subseteq DOMAIN rep.attempts
         /\ \A i \in Eligible(rep) : rep.attempts[i] \in ShownOf(rep)
         /\ \A a \in ShownOf(rep) : \E i \in Eligible(rep) : a = rep.attempts[i]
<1> DEFINE tries == rep.attempts
           meaningful == {i \in DOMAIN tries : IsMeaningful(rep, tries[i])}
           root == {i \in meaningful : tries[i].root}
<1>1. Eligible(rep) = IF root # {} THEN root ELSE meaningful
  BY DEF Eligible
<1>2. \A a : a \in Range(tries) <=> \E i \in DOMAIN tries : a = tries[i]
  BY DEF Range
<1>3. \A a : a \in ShownOf(rep)
               <=> /\ \E i \in meaningful : a = tries[i]
                   /\ a.root \/ root = {}
  BY <1>2 DEF ShownOf
<1> QED
  BY <1>1, <1>3

\* The attempt that is selected.
LEMMA SelectedIsShown ==
  ASSUME NEW rep, ReportOK(rep)
  PROVE  LET attempt == SelectAttempt(rep) IN
         \/ attempt = NoAttempt
         \/ /\ attempt \in ShownOf(rep) /\ AttemptOK(attempt) /\ attempt # NoAttempt
            /\ IsVerified(attempt) <=> \E a \in ShownOf(rep) : Vouches(a)
            /\ IsVerified(attempt) => Vouches(attempt)
<1> DEFINE tries == rep.attempts
           eligible == Eligible(rep)
           signed == {i \in eligible : Signatures(tries[i]) # {}}
           refused == {i \in eligible : AttributionFailure(tries[i])}
           attempt == SelectAttempt(rep)
<1>1. /\ Len(tries) \in Nat /\ DOMAIN tries = 1 .. Len(tries)
      /\ eligible \subseteq DOMAIN tries
  BY EligibleAreShown DEF ReportOK
<1>2. /\ signed \in SUBSET (DOMAIN tries) /\ refused \in SUBSET (DOMAIN tries)
      /\ eligible \in SUBSET (DOMAIN tries)
  BY <1>1
<1>3. attempt = IF rep.authentication = "verified" THEN FirstAt(tries, signed, NoAttempt)
                ELSE LastAt(tries, signed,
                            LastAt(tries, refused, LastAt(tries, eligible, NoAttempt)))
  BY DEF SelectAttempt
<1>4. \A i \in eligible : AttemptOK(tries[i]) /\ tries[i] \in ShownOf(rep)
  BY <1>1, EligibleAreShown DEF ReportOK
<1>5. \A i \in eligible : AttemptOK(tries[i]) => tries[i] # NoAttempt
  BY DEF AttemptOK, NoAttempt
<1>6. \A i \in eligible : Vouches(tries[i]) <=> i \in signed \/ i \in refused
  BY DEF Vouches, Signatures, AttributionFailure
<1>7. \A i \in eligible : AttemptOK(tries[i]) => (IsVerified(tries[i]) <=> Vouches(tries[i]))
  BY DEF IsVerified, Vouches, AttemptOK, AttributionFailure
<1>8. (\E a \in ShownOf(rep) : Vouches(a)) <=> (\E i \in eligible : Vouches(tries[i]))
  BY <1>4, EligibleAreShown
<1>9. \/ attempt = NoAttempt
      \/ \E i \in signed : attempt = tries[i]
      \/ (signed = {} /\ \E i \in refused : attempt = tries[i])
      \/ (signed = {} /\ refused = {} /\ \E i \in eligible : attempt = tries[i])
  <2> HIDE DEF tries, eligible, signed, refused, attempt
  <2>1. LastAt(tries, eligible, NoAttempt) = NoAttempt
          \/ \E i \in eligible : LastAt(tries, eligible, NoAttempt) = tries[i]
    BY <1>1, <1>2, LastIsThere
  <2>2. PICK third : third = LastAt(tries, eligible, NoAttempt)
    OBVIOUS
  <2>3. (refused = {} /\ LastAt(tries, refused, third) = third)
          \/ \E i \in refused : LastAt(tries, refused, third) = tries[i]
    BY <1>1, <1>2, LastIsThere
  <2>4. PICK second : second = LastAt(tries, refused, third)
    OBVIOUS
  <2>5. (signed = {} /\ LastAt(tries, signed, second) = second)
          \/ \E i \in signed : LastAt(tries, signed, second) = tries[i]
    BY <1>1, <1>2, LastIsThere
  <2>6. FirstAt(tries, signed, NoAttempt) = NoAttempt
          \/ \E i \in signed : FirstAt(tries, signed, NoAttempt) = tries[i]
    BY <1>1, <1>2, FirstIsThere
  <2>7. attempt = IF rep.authentication = "verified" THEN FirstAt(tries, signed, NoAttempt)
                  ELSE LastAt(tries, signed, second)
    BY <1>3, <2>2, <2>4
  <2> QED
    BY <2>1, <2>2, <2>3, <2>4, <2>5, <2>6, <2>7
<1> SUFFICES ASSUME attempt # NoAttempt
             PROVE  /\ attempt \in ShownOf(rep) /\ AttemptOK(attempt)
                    /\ IsVerified(attempt) <=> \E a \in ShownOf(rep) : Vouches(a)
                    /\ IsVerified(attempt) => Vouches(attempt)
  OBVIOUS
<1>10. PICK i \in eligible : /\ attempt = tries[i]
                             /\ i \in signed \/ i \in refused \/ (signed = {} /\ refused = {})
  BY <1>9
<1> HIDE DEF tries, eligible, signed, refused, attempt
<1>11. AttemptOK(attempt) /\ attempt \in ShownOf(rep)
  BY <1>4, <1>10
<1>12. IsVerified(attempt) <=> Vouches(attempt)
  BY <1>4, <1>7, <1>10
<1>13. Vouches(attempt) <=> \E j \in eligible : Vouches(tries[j])
  BY <1>6, <1>10
<1> QED
  BY <1>8, <1>11, <1>12, <1>13 DEF attempt

\* The check whose key is kept.
LEMMA SelectedIsChecked ==
  ASSUME NEW attempt, AttemptOK(attempt), IsVerified(attempt) => Vouches(attempt)
  PROVE  LET check == SelectedCheck(attempt) IN
         \/ check = NoCheck /\ ~IsVerified(attempt)
         \/ /\ \E i \in DOMAIN attempt.checks : check = attempt.checks[i]
            /\ IsVerified(attempt) => check.status = "verified"
<1> DEFINE checks == attempt.checks
           verified == VerifiedIn(checks)
           others == DOMAIN checks \ verified
           check == SelectedCheck(attempt)
<1>1. Len(checks) \in Nat /\ DOMAIN checks = 1 .. Len(checks)
  BY DEF AttemptOK
<1>2. verified \in SUBSET (DOMAIN checks) /\ others \in SUBSET (DOMAIN checks)
  BY DEF VerifiedIn
<1>3. \A i \in verified : i \in DOMAIN checks /\ checks[i].status = "verified"
  BY DEF VerifiedIn
<1>4. IsVerified(attempt) => verified # {}
  BY DEF Vouches
<1>5. check = IF IsVerified(attempt) THEN FirstAt(checks, verified, NoCheck)
              ELSE LastAt(checks, others, LastAt(checks, DOMAIN checks, NoCheck))
  BY DEF SelectedCheck
<1> HIDE DEF check, checks, verified, others
<1>6. CASE IsVerified(attempt)
  <2>1. \E i \in verified : check = checks[i]
    BY <1>1, <1>2, <1>4, <1>5, <1>6, FirstIsThere
  <2> QED
    BY <1>3, <2>1 DEF check, checks
<1>7. CASE ~IsVerified(attempt)
  <2>1. LastAt(checks, DOMAIN checks, NoCheck) = NoCheck
          \/ \E i \in DOMAIN checks : LastAt(checks, DOMAIN checks, NoCheck) = checks[i]
    BY <1>1, LastIsThere
  <2>2. PICK last : last = LastAt(checks, DOMAIN checks, NoCheck)
    OBVIOUS
  <2>3. check = LastAt(checks, others, last)
    BY <1>5, <1>7, <2>2
  <2>4. check = last \/ \E i \in others : check = checks[i]
    BY <1>1, <1>2, <2>3, LastIsThere
  <2> QED
    BY <1>7, <2>1, <2>2, <2>4 DEF check, checks, others
<1> QED
  BY <1>6, <1>7

\* What a summary says, of the attempts it may show.
SummaryOK(rep, summary) ==
  /\ summary.result # "unobserved"
  /\ summary.result \notin {"unattempted", "no_signature"} =>
       /\ summary.result = "verified" <=> \E a \in ShownOf(rep) : Vouches(a)
       /\ summary.result = "verified" =>
            \E a \in ShownOf(rep) : Vouches(a) /\ a.mechanism = summary.mechanism
       /\ summary.result # "verified" /\ ~rep.outcome.accepted => summary.detail # "none"
  /\ summary.key.material # "none" =>
       \E a \in ShownOf(rep) :
         /\ a.mechanism = summary.mechanism
         /\ \E check \in Range(a.checks) :
              /\ summary.key.material = IF check.status = "verified" THEN check.key.material
                                        ELSE check.tried.material
              /\ summary.result = "verified" => check.status = "verified"

LEMMA RefusalsAreTold ==
  ASSUME NEW rep, ReportOK(rep), NEW attempt, AttemptOK(attempt), ~IsVerified(attempt),
         NEW check, ~rep.outcome.accepted
  PROVE  RefusalDetail(rep, attempt, check) # "none"
<1>1. \/ attempt.status = "rejected" /\ attempt.reason # "none"
      \/ attempt.status = "error"
  BY DEF AttemptOK, IsVerified
<1>2. rep.outcome.disposition \in {"failed", "rejected"} => rep.outcome.reason # "none"
  BY DEF ReportOK
<1> QED
  BY <1>1, <1>2 DEF RefusalDetail

LEMMA SummaryTells ==
  ASSUME NEW rep, ReportOK(rep)
  PROVE  SummaryOK(rep, Summarize(rep))
<1> DEFINE attempt == SelectAttempt(rep)
           check == SelectedCheck(attempt)
           key == IF check.status = "verified" THEN check.key ELSE check.tried
           summary == Summarize(rep)
<1>1. CASE attempt = NoAttempt
  <2>1. PICK result \in {"unattempted", "no_signature"} : \E signed, detail :
          summary = Nothing(result, signed, detail)
    BY <1>1 DEF Summarize
  <2>2. summary.result = result /\ summary.key.material = "none"
    BY <2>1 DEF Nothing, NoKey
  <2> QED
    BY <2>1, <2>2 DEF SummaryOK
<1>2. CASE attempt # NoAttempt
  <2>1. /\ attempt \in ShownOf(rep) /\ AttemptOK(attempt)
        /\ IsVerified(attempt) <=> \E a \in ShownOf(rep) : Vouches(a)
        /\ IsVerified(attempt) => Vouches(attempt)
    BY <1>2, SelectedIsShown
  <2>2. \/ check = NoCheck /\ ~IsVerified(attempt)
        \/ /\ \E i \in DOMAIN attempt.checks : check = attempt.checks[i]
           /\ IsVerified(attempt) => check.status = "verified"
    BY <2>1, SelectedIsChecked
  <2>3. summary =
          [mechanism |-> attempt.mechanism,
           result |-> IF IsVerified(attempt) THEN "verified"
                      ELSE IF check.status = "rejected" /\ check.reason = "keyFetchError"
                      THEN "key_fetch_error" ELSE "invalid_signature",
           key |-> [key EXCEPT !.iri = IF key.iri # NoIri THEN key.iri
                                       ELSE check.declared],
           signed |-> HttpDeclaration(rep),
           detail |-> RefusalDetail(rep, attempt, check)]
    BY <1>2 DEF Summarize
  <2>4. \/ check = NoCheck
        \/ \E i \in DOMAIN attempt.checks :
             check = attempt.checks[i] /\ IsKey(check.key) /\ IsKey(check.tried)
    BY <2>1, <2>2 DEF AttemptOK
  <2>5. IsKey(key)
    BY <2>4 DEF IsKey, NoCheck, NoKey
  <2>6. check = NoCheck => key.material = "none"
    BY DEF NoCheck, NoKey
  <2> HIDE DEF attempt, check, key, summary
  <2>7. /\ summary.mechanism = attempt.mechanism
        /\ summary.result = "verified" <=> IsVerified(attempt)
        /\ summary.result \in {"verified", "key_fetch_error", "invalid_signature"}
        /\ summary.detail = RefusalDetail(rep, attempt, check)
    BY <2>3
  <2>8. summary.key.material = key.material
    BY <2>3, <2>5 DEF IsKey
  <2>9. summary.key.material # "none" =>
          \E c \in Range(attempt.checks) : c = check
    BY <2>2, <2>6, <2>8 DEF Range
  <2>10. key.material = IF check.status = "verified" THEN check.key.material ELSE check.tried.material
    BY DEF key
  <2>11. summary.result # "verified" /\ ~rep.outcome.accepted => summary.detail # "none"
    BY <2>1, <2>7, RefusalsAreTold
  <2>12. summary.key.material # "none" =>
           \E a \in ShownOf(rep) :
             /\ a.mechanism = summary.mechanism
             /\ \E c \in Range(a.checks) :
                  /\ summary.key.material = IF c.status = "verified" THEN c.key.material
                                            ELSE c.tried.material
                  /\ summary.result = "verified" => c.status = "verified"
    <3>1. ASSUME summary.key.material # "none"
          PROVE  /\ check \in Range(attempt.checks)
                 /\ summary.result = "verified" => check.status = "verified"
      BY <2>2, <2>6, <2>7, <2>8, <2>9, <3>1
    <3> QED
      BY <2>1, <2>7, <2>8, <2>10, <3>1
  <2> QED
    BY <2>1, <2>7, <2>11, <2>12 DEF SummaryOK, summary
<1> QED
  BY <1>1, <1>2

(* What is recorded.  `from` is the statement the observation ended at.     *)

\* Any request's summary is told, if anything was reported of it.
LEMMA RequestsAreTold ==
  ASSUME NEW d \in Deliveries, report[d] = NoReport \/ ReportOK(report[d])
  PROVE  /\ report[d] # NoReport => SummaryOK(report[d], SummaryOf(d))
         /\ report[d] = NoReport => /\ SummaryOf(d).result = "unobserved"
                                    /\ KeyOf(d).material = "none"
<1>1. report[d] # NoReport => SummaryOK(report[d], SummaryOf(d))
  BY SummaryTells DEF SummaryOf
<1>2. report[d] = NoReport => /\ SummaryOf(d).result = "unobserved"
                              /\ KeyOf(d).material = "none"
  BY DEF SummaryOf, KeyOf, Nothing, NoKey
<1> QED
  BY <1>1, <1>2

Endings == {"keyless", "observed", "failed"}
RowFrom(d, from) ==
  LET summary == SummaryOf(d)
      result == IF from = "failed" THEN "unobserved" ELSE summary.result
  IN [mechanism |-> IF from = "failed" THEN "none" ELSE summary.mechanism,
      result |-> result,
      version |-> IF from = "observed" THEN VersionOf(d) ELSE <<>>,
      signed |-> summary.signed,
      detail |-> IF from = "failed" THEN "observation failed" ELSE summary.detail,
      status |-> Classify(report[d], result)]

HasKey(d) == KeyOf(d).material # "none"
\* The version of a request's key is stored, and was seen since it was observed.
Seen(d) ==
  /\ HasKey(d)
  /\ KeyOf(d).iri \in keyIris /\ VersionOf(d) \in DOMAIN versions
  /\ seenAt[d] <= versions[VersionOf(d)].last

ReportsOK ==
  /\ DOMAIN observing = Deliveries /\ DOMAIN report = Deliveries /\ DOMAIN row = Deliveries
  /\ \A d \in Deliveries : report[d] = NoReport \/ ReportOK(report[d])
TimesOK ==
  /\ moment \in Nat /\ seenAt \in [Deliveries -> Nat]
  /\ \A v \in DOMAIN versions :
       versions[v] \in [first : Nat, last : Nat] /\ versions[v].first <= versions[v].last
KeysOK ==
  \A d \in Deliveries :
    /\ observing[d] \in {"inserting", "keyed", "timed", "versioned"} => HasKey(d)
    /\ observing[d] = "observed" => Seen(d)
RowsOK ==
  \A d \in Deliveries : observing[d] = "recorded" =>
    \E from \in Endings : row[d] = RowFrom(d, from) /\ (from = "observed" => Seen(d))
VerificationInv == ReportsOK /\ TimesOK /\ KeysOK /\ RowsOK

LEMMA RowsThatTell ==
  ASSUME VerificationInv
  PROVE  RowsTellTheVerification
<1> USE DEF VerificationInv
<1> SUFFICES ASSUME NEW d \in Deliveries, observing[d] = "recorded"
             PROVE  LET r == row[d]
                        rep == report[d]
                    IN /\ r.result = "unobserved" => r.version = <<>>
                       /\ r.status = "rejected" => r.result = "verified"
                       /\ r.result \notin {"unobserved", "unattempted", "no_signature"} =>
                            /\ r.result = "verified" <=> \E a \in ShownOf(rep) : Vouches(a)
                            /\ r.result = "verified" =>
                                 \E a \in ShownOf(rep) : Vouches(a) /\ a.mechanism = r.mechanism
                            /\ r.result # "verified" /\ ~rep.outcome.accepted => r.detail # "none"
                       /\ r.version # <<>> =>
                            /\ r.version \in DOMAIN versions /\ r.version[1] \in keyIris
                            /\ versions[r.version].first <= versions[r.version].last
                            /\ seenAt[d] <= versions[r.version].last
                            /\ \E a \in ShownOf(rep) :
                                 /\ a.mechanism = r.mechanism
                                 /\ \E check \in Range(a.checks) :
                                      /\ r.version[2] =
                                           IF check.status = "verified" THEN check.key.material
                                           ELSE check.tried.material
                                      /\ r.result = "verified" => check.status = "verified"
  BY DEF RowsTellTheVerification
<1> DEFINE r == row[d]
           rep == report[d]
           summary == SummaryOf(d)
<1>1. PICK from \in Endings : r = RowFrom(d, from) /\ (from = "observed" => Seen(d))
  BY DEF RowsOK
<1>2. /\ r.mechanism = IF from = "failed" THEN "none" ELSE summary.mechanism
      /\ r.result = IF from = "failed" THEN "unobserved" ELSE summary.result
      /\ r.version = IF from = "observed" THEN VersionOf(d) ELSE <<>>
      /\ r.detail = IF from = "failed" THEN "observation failed" ELSE summary.detail
      /\ r.status = Classify(rep, r.result)
  <2> DEFINE result == IF from = "failed" THEN "unobserved" ELSE summary.result
             mechanism == IF from = "failed" THEN "none" ELSE summary.mechanism
             version == IF from = "observed" THEN VersionOf(d) ELSE <<>>
             detail == IF from = "failed" THEN "observation failed" ELSE summary.detail
             signed == summary.signed
             status == Classify(rep, result)
  <2>1. r = [mechanism |-> mechanism, result |-> result, version |-> version,
             signed |-> signed, detail |-> detail, status |-> status]
    BY <1>1 DEF RowFrom
  <2>2. /\ r.mechanism = mechanism /\ r.result = result /\ r.version = version
        /\ r.detail = detail /\ r.status = status
    <3> HIDE DEF r, mechanism, result, version, signed, detail, status
    <3> QED
      BY <2>1
  <2> QED
    BY <2>2
<1>3. /\ rep # NoReport => SummaryOK(rep, summary)
      /\ rep = NoReport => summary.result = "unobserved" /\ ~HasKey(d)
  BY RequestsAreTold DEF ReportsOK, HasKey
<1>4. from = "observed" => rep # NoReport /\ Seen(d) /\ HasKey(d)
  BY <1>1, <1>3 DEF Seen
<1>5. r.status = "rejected" => r.result = "verified"
  BY <1>2 DEF Classify
<1>6. r.result = "unobserved" => r.version = <<>>
  BY <1>2, <1>3, <1>4 DEF SummaryOK, Endings
<1>7. r.result \notin {"unobserved", "unattempted", "no_signature"} =>
        /\ r.result = "verified" <=> \E a \in ShownOf(rep) : Vouches(a)
        /\ r.result = "verified" =>
             \E a \in ShownOf(rep) : Vouches(a) /\ a.mechanism = r.mechanism
        /\ r.result # "verified" /\ ~rep.outcome.accepted => r.detail # "none"
  BY <1>2, <1>3 DEF SummaryOK
<1>8. ASSUME r.version # <<>>
      PROVE  /\ r.version \in DOMAIN versions /\ r.version[1] \in keyIris
             /\ versions[r.version].first <= versions[r.version].last
             /\ seenAt[d] <= versions[r.version].last
             /\ \E a \in ShownOf(rep) :
                  /\ a.mechanism = r.mechanism
                  /\ \E check \in Range(a.checks) :
                       /\ r.version[2] =
                            IF check.status = "verified" THEN check.key.material
                            ELSE check.tried.material
                       /\ r.result = "verified" => check.status = "verified"
  <2>1. from = "observed" /\ Seen(d) /\ rep # NoReport /\ HasKey(d)
    BY <1>2, <1>4, <1>8
  <2>2. r.version = VersionOf(d) /\ r.mechanism = summary.mechanism /\ r.result = summary.result
    BY <1>2, <2>1
  <2>3. /\ r.version[1] = KeyOf(d).iri /\ r.version[2] = KeyOf(d).material
    BY <2>2 DEF VersionOf
  <2>4. /\ r.version \in DOMAIN versions /\ r.version[1] \in keyIris
        /\ seenAt[d] <= versions[r.version].last
    BY <2>1, <2>2, <2>3 DEF Seen
  <2>5. versions[r.version].first <= versions[r.version].last
    BY <2>4 DEF TimesOK
  <2>6. SummaryOK(rep, summary) /\ summary.key.material # "none" /\ r.version[2] = summary.key.material
    BY <1>3, <2>1, <2>3 DEF HasKey, KeyOf
  <2>7. \E a \in ShownOf(rep) :
          /\ a.mechanism = summary.mechanism
          /\ \E check \in Range(a.checks) :
               /\ summary.key.material = IF check.status = "verified" THEN check.key.material
                                         ELSE check.tried.material
               /\ summary.result = "verified" => check.status = "verified"
    BY <2>6 DEF SummaryOK
  <2> HIDE DEF r, rep, summary
  <2> QED
    BY <2>2, <2>4, <2>5, <2>6, <2>7
<1> QED
  BY <1>5, <1>6, <1>7, <1>8

\* What no step changes of a request: what was reported of it, once it is handled,
\* and so its key; and what was seen of that key stays seen.
Keeps(d) ==
  /\ report'[d] = report[d] /\ seenAt'[d] = seenAt[d]
  /\ keyIris \subseteq keyIris' /\ DOMAIN versions \subseteq DOMAIN versions'
  /\ \A v \in DOMAIN versions : versions[v].last <= versions'[v].last

LEMMA KeptIsSeen ==
  ASSUME TimesOK, TimesOK', NEW d \in Deliveries, Keeps(d)
  PROVE  /\ HasKey(d)' <=> HasKey(d)
         /\ Seen(d) => Seen(d)'
         /\ \A from : RowFrom(d, from)' = RowFrom(d, from)
         /\ KeyOf(d)' = KeyOf(d) /\ VersionOf(d)' = VersionOf(d)
<1>1. SummaryOf(d)' = SummaryOf(d)
  BY DEF SummaryOf, Keeps
<1>2. KeyOf(d)' = KeyOf(d) /\ VersionOf(d)' = VersionOf(d)
  BY <1>1 DEF KeyOf, VersionOf
<1>3. HasKey(d)' <=> HasKey(d)
  BY <1>2 DEF HasKey
<1>4. Seen(d) => Seen(d)'
  <2> SUFFICES ASSUME Seen(d) PROVE Seen(d)'
    OBVIOUS
  <2> DEFINE v == VersionOf(d)
  <2>1. /\ v \in DOMAIN versions /\ v \in DOMAIN versions' /\ seenAt'[d] = seenAt[d]
        /\ seenAt[d] <= versions[v].last /\ versions[v].last <= versions'[v].last
    BY DEF Seen, Keeps
  <2>2. seenAt[d] \in Nat /\ versions[v].last \in Nat /\ versions'[v].last \in Nat
    BY <2>1 DEF TimesOK
  <2>3. seenAt'[d] <= versions'[v].last
    BY <2>1, <2>2
  <2>4. KeyOf(d).iri \in keyIris'
    BY DEF Seen, Keeps
  <2> QED
    BY <1>2, <1>3, <2>1, <2>3, <2>4 DEF Seen
<1>5. \A from : RowFrom(d, from)' = RowFrom(d, from)
  BY <1>1, <1>2 DEF RowFrom, Keeps
<1> QED
  BY <1>2, <1>3, <1>4, <1>5

\* A step that keeps a request, and its statement and row, keeps what is known of it.
LEMMA KeptIsOK ==
  ASSUME VerificationInv, TimesOK', NEW d \in Deliveries, Keeps(d),
         observing'[d] = observing[d], row'[d] = row[d]
  PROVE  /\ observing'[d] \in {"inserting", "keyed", "timed", "versioned"} => HasKey(d)'
         /\ observing'[d] = "observed" => Seen(d)'
         /\ observing'[d] = "recorded" =>
              \E from \in Endings : row'[d] = RowFrom(d, from)' /\ (from = "observed" => Seen(d)')
<1>1. /\ HasKey(d)' <=> HasKey(d)
      /\ Seen(d) => Seen(d)'
      /\ \A from : RowFrom(d, from)' = RowFrom(d, from)
  BY KeptIsSeen DEF VerificationInv
<1>2. /\ observing[d] \in {"inserting", "keyed", "timed", "versioned"} => HasKey(d)
      /\ observing[d] = "observed" => Seen(d)
  BY DEF VerificationInv, KeysOK
<1>3. observing[d] = "recorded" =>
        \E from \in Endings : row[d] = RowFrom(d, from) /\ (from = "observed" => Seen(d))
  BY DEF VerificationInv, RowsOK
<1> QED
  BY <1>1, <1>2, <1>3

LEMMA HandleKeepsInv ==
  ASSUME VerificationInv, NEW d \in Deliveries, NEW rep \in ReportsOf[d], Handle(d, rep)
  PROVE  VerificationInv'
<1>1. rep = NoReport \/ ReportOK(rep)
  BY ReportsAssumption
<1>2. ReportsOK'
  BY <1>1 DEF VerificationInv, ReportsOK, Handle
<1>3. TimesOK'
  BY DEF VerificationInv, TimesOK, Handle
<1>4. observing'[d] = "summarizing"
  BY DEF Handle, VerificationInv, ReportsOK
<1>5. ASSUME NEW e \in Deliveries, e # d
      PROVE  Keeps(e) /\ observing'[e] = observing[e] /\ row'[e] = row[e]
  <2>1. report'[e] = report[e] /\ observing'[e] = observing[e] /\ row'[e] = row[e]
    BY <1>5 DEF Handle, VerificationInv, ReportsOK
  <2> QED
    BY <2>1 DEF Keeps, Handle, VerificationInv, TimesOK
<1>6. KeysOK'
  BY <1>3, <1>4, <1>5, KeptIsOK DEF KeysOK
<1>7. RowsOK'
  BY <1>3, <1>4, <1>5, KeptIsOK DEF RowsOK
<1> QED
  BY <1>2, <1>3, <1>6, <1>7 DEF VerificationInv

\* A step of one request's observation, which leaves its report and its row.
LEMMA ObservingKeepsInv ==
  ASSUME VerificationInv, NEW d \in Deliveries, TimesOK',
         report' = report, row' = row,
         \A e \in Deliveries \ {d} : Keeps(e) /\ observing'[e] = observing[e],
         DOMAIN observing' = Deliveries,
         observing'[d] \notin {"observed", "recorded"},
         observing'[d] \in {"inserting", "keyed", "timed", "versioned"} => HasKey(d)
  PROVE  VerificationInv'
<1>1. ReportsOK'
  BY DEF VerificationInv, ReportsOK
<1>2. HasKey(d)' <=> HasKey(d)
  BY DEF HasKey, KeyOf, SummaryOf
<1>3. \A e \in Deliveries \ {d} : row'[e] = row[e]
  OBVIOUS
<1>4. KeysOK'
  BY <1>2, <1>3, KeptIsOK DEF KeysOK
<1>5. RowsOK'
  BY <1>3, KeptIsOK DEF RowsOK
<1> QED
  BY <1>1, <1>4, <1>5 DEF VerificationInv

LEMMA ObservationKeepsInv ==
  ASSUME VerificationInv, NEW d \in Deliveries,
         \/ StartObserving(d) \/ InsertKey(d) \/ ReadTime(d) \/ UpsertVersion(d)
         \/ FailObserving(d)
  PROVE  VerificationInv'
<1>1. PICK from, to : Advance(d, from, to)
  BY DEF StartObserving, InsertKey, ReadTime, UpsertVersion, FailObserving
<1>2. /\ report' = report /\ row' = row /\ keyIris' = keyIris /\ versions' = versions
      /\ moment' = moment
      /\ seenAt' = seenAt \/ seenAt' = [seenAt EXCEPT ![d] = moment]
  BY DEF StartObserving, InsertKey, ReadTime, UpsertVersion, FailObserving
<1>3. TimesOK'
  BY <1>2 DEF VerificationInv, TimesOK
<1>4. DOMAIN observing = Deliveries /\ seenAt \in [Deliveries -> Nat]
  BY DEF VerificationInv, ReportsOK, TimesOK
<1>5. DOMAIN observing' = Deliveries
  BY <1>1, <1>4 DEF Advance
<1>6. \A e \in Deliveries \ {d} : observing'[e] = observing[e] /\ seenAt'[e] = seenAt[e]
  BY <1>1, <1>2, <1>4 DEF Advance
<1>7. \A v \in DOMAIN versions : versions[v].last \in Nat
  BY DEF VerificationInv, TimesOK
<1>8. \A e \in Deliveries \ {d} : Keeps(e)
  BY <1>2, <1>6, <1>7 DEF Keeps
<1>9. /\ observing'[d] \notin {"observed", "recorded"}
      /\ observing'[d] \in {"inserting", "keyed", "timed", "versioned"} =>
           HasKey(d) \/ observing[d] \in {"inserting", "keyed", "timed", "versioned"}
  <2>1. CASE StartObserving(d)
    BY <1>4, <2>1 DEF StartObserving, Advance, HasKey
  <2>2. CASE InsertKey(d) \/ ReadTime(d) \/ UpsertVersion(d)
    BY <1>4, <2>2 DEF InsertKey, ReadTime, UpsertVersion, Advance
  <2>3. CASE FailObserving(d)
    BY <1>4, <2>3 DEF FailObserving, Advance
  <2> QED
    BY <2>1, <2>2, <2>3
<1>10. observing'[d] \in {"inserting", "keyed", "timed", "versioned"} => HasKey(d)
  BY <1>9 DEF VerificationInv, KeysOK
<1> QED
  BY <1>2, <1>3, <1>5, <1>6, <1>8, <1>9, <1>10, ObservingKeepsInv

LEMMA CommitKeepsInv ==
  ASSUME VerificationInv, NEW d \in Deliveries, CommitVersion(d)
  PROVE  VerificationInv'
<1> DEFINE version == VersionOf(d)
<1>1. /\ observing[d] = "versioned" /\ observing' = [observing EXCEPT ![d] = "observed"]
      /\ keyIris' = keyIris \union {KeyOf(d).iri}
      /\ moment' = moment /\ report' = report /\ seenAt' = seenAt /\ row' = row
  BY DEF CommitVersion, Advance
<1>2. versions' =
       [v \in DOMAIN versions \union {version} |->
          IF v # version THEN versions[v]
          ELSE IF v \in DOMAIN versions
          THEN [versions[v] EXCEPT !.last = Later(@, seenAt[d])]
          ELSE [first |-> seenAt[d], last |-> seenAt[d]]]
  BY DEF CommitVersion
<1> HIDE DEF version
<1>3. /\ seenAt \in [Deliveries -> Nat] /\ DOMAIN observing = Deliveries
      /\ \A v \in DOMAIN versions :
           /\ versions[v] \in [first : Nat, last : Nat]
           /\ versions[v].first <= versions[v].last
  BY DEF VerificationInv, TimesOK, ReportsOK
<1>4. DOMAIN versions' = DOMAIN versions \union {version}
  BY <1>2
<1>5. \A v \in DOMAIN versions : v # version => versions'[v] = versions[v]
  BY <1>2
<1>6. version \in DOMAIN versions =>
        /\ versions'[version] \in [first : Nat, last : Nat]
        /\ versions'[version].first = versions[version].first
        /\ versions[version].last <= versions'[version].last
        /\ seenAt[d] <= versions'[version].last
  <2> SUFFICES ASSUME version \in DOMAIN versions
               PROVE  /\ versions'[version] \in [first : Nat, last : Nat]
                      /\ versions'[version].first = versions[version].first
                      /\ versions[version].last <= versions'[version].last
                      /\ seenAt[d] <= versions'[version].last
    OBVIOUS
  <2>1. versions'[version] = [versions[version] EXCEPT !.last = Later(@, seenAt[d])]
    BY <1>2
  <2>2. versions[version] \in [first : Nat, last : Nat] /\ seenAt[d] \in Nat
    BY <1>3
  <2>3. /\ Later(versions[version].last, seenAt[d]) \in Nat
        /\ versions[version].last <= Later(versions[version].last, seenAt[d])
        /\ seenAt[d] <= Later(versions[version].last, seenAt[d])
    BY <2>2 DEF Later
  <2> QED
    BY <2>1, <2>2, <2>3
<1>7. version \notin DOMAIN versions =>
        versions'[version] = [first |-> seenAt[d], last |-> seenAt[d]]
  BY <1>2
<1>8. seenAt[d] \in Nat
  BY <1>3
<1>9. TimesOK'
  <2>1. ASSUME NEW v \in DOMAIN versions'
        PROVE  /\ versions'[v] \in [first : Nat, last : Nat]
               /\ versions'[v].first <= versions'[v].last
    <3>1. CASE v # version
      BY <1>3, <1>4, <1>5, <2>1, <3>1
    <3>2. CASE v = version /\ version \in DOMAIN versions
      BY <1>3, <1>6, <3>2
    <3>3. CASE v = version /\ version \notin DOMAIN versions
      BY <1>7, <1>8, <3>3
    <3> QED
      BY <3>1, <3>2, <3>3
  <2>2. moment' \in Nat /\ seenAt' \in [Deliveries -> Nat]
    BY <1>1 DEF VerificationInv, TimesOK
  <2> QED
    BY <2>1, <2>2 DEF TimesOK
<1>10. \A e \in Deliveries : Keeps(e)
  <2>1. \A v \in DOMAIN versions : versions[v].last <= versions'[v].last
    <3>1. \A v \in DOMAIN versions : versions[v].last \in Nat
      BY <1>3
    <3> QED
      BY <1>5, <1>6, <3>1
  <2> QED
    BY <1>1, <1>4, <2>1 DEF Keeps
<1>11. ReportsOK'
  BY <1>1 DEF VerificationInv, ReportsOK
<1>12. HasKey(d)' /\ VersionOf(d)' = version /\ KeyOf(d)' = KeyOf(d)
  <2>1. HasKey(d)
    BY <1>1 DEF VerificationInv, KeysOK
  <2> QED
    BY <1>9, <1>10, <2>1, KeptIsSeen DEF VerificationInv, version
<1>13. Seen(d)'
  <2>1. seenAt'[d] <= versions'[version].last
    BY <1>1, <1>6, <1>7, <1>8
  <2>2. KeyOf(d).iri \in keyIris'
    BY <1>1
  <2> QED
    BY <1>4, <1>12, <2>1, <2>2 DEF Seen
<1>14. /\ observing'[d] = "observed"
       /\ \A e \in Deliveries \ {d} : observing'[e] = observing[e] /\ row'[e] = row[e]
  BY <1>1, <1>3
<1>15. KeysOK'
  BY <1>9, <1>10, <1>13, <1>14, KeptIsOK DEF KeysOK
<1>16. RowsOK'
  BY <1>9, <1>10, <1>14, KeptIsOK DEF RowsOK
<1> QED
  BY <1>9, <1>11, <1>15, <1>16 DEF VerificationInv

LEMMA RecordKeepsInv ==
  ASSUME VerificationInv, NEW d \in Deliveries, Record(d)
  PROVE  VerificationInv'
<1>1. PICK from \in Endings : Advance(d, from, "recorded")
  BY DEF Record, Endings
<1>2. /\ observing[d] = from /\ observing' = [observing EXCEPT ![d] = "recorded"]
      /\ DOMAIN observing = Deliveries /\ DOMAIN row = Deliveries
  BY <1>1 DEF Advance, VerificationInv, ReportsOK
<1>3. row' = [row EXCEPT ![d] = RowFrom(d, from)]
  BY <1>2 DEF Record, RowFrom
<1>4. UNCHANGED <<moment, keyIris, versions, report, seenAt>>
  BY DEF Record
<1>5. ReportsOK' /\ TimesOK'
  BY <1>2, <1>3, <1>4 DEF VerificationInv, ReportsOK, TimesOK
<1>6. \A e \in Deliveries : Keeps(e)
  <2>1. \A v \in DOMAIN versions : versions[v].last \in Nat
    BY DEF VerificationInv, TimesOK
  <2> QED
    BY <1>4, <2>1 DEF Keeps
<1>7. /\ observing'[d] = "recorded" /\ row'[d] = RowFrom(d, from)
      /\ \A e \in Deliveries \ {d} : observing'[e] = observing[e] /\ row'[e] = row[e]
  BY <1>2, <1>3
<1>8. from = "observed" => Seen(d)
  BY <1>2 DEF VerificationInv, KeysOK
<1>9. row'[d] = RowFrom(d, from)' /\ (from = "observed" => Seen(d)')
  BY <1>5, <1>6, <1>7, <1>8, KeptIsSeen DEF VerificationInv
<1>10. KeysOK'
  BY <1>5, <1>6, <1>7, KeptIsOK DEF KeysOK
<1>11. RowsOK'
  BY <1>5, <1>6, <1>7, <1>9, KeptIsOK DEF RowsOK
<1> QED
  BY <1>5, <1>10, <1>11 DEF VerificationInv

LEMMA UnchangedKeepsInv ==
  ASSUME VerificationInv, \/ Tick \/ UNCHANGED verificationVars
  PROVE  VerificationInv'
<1>1. /\ UNCHANGED <<keyIris, versions, report, observing, seenAt, row>>
      /\ moment' = moment \/ moment' = moment + 1
  BY DEF Tick, verificationVars
<1>2. ReportsOK' /\ TimesOK'
  BY <1>1 DEF VerificationInv, ReportsOK, TimesOK
<1>3. \A e \in Deliveries : Keeps(e) /\ observing'[e] = observing[e] /\ row'[e] = row[e]
  <2>1. \A v \in DOMAIN versions : versions[v].last \in Nat
    BY DEF VerificationInv, TimesOK
  <2> QED
    BY <1>1, <2>1 DEF Keeps
<1>4. KeysOK'
  BY <1>2, <1>3, KeptIsOK DEF KeysOK
<1>5. RowsOK'
  BY <1>2, <1>3, KeptIsOK DEF RowsOK
<1> QED
  BY <1>2, <1>4, <1>5 DEF VerificationInv

\* However the observations of the requests of a key interleave, and whatever Fedify
\* reports of each, a recorded row says verified exactly if an attempt it may show
\* vouches for the activity, names a key version of that attempt which is stored
\* and was seen since, and says why an attempt was refused.
THEOREM RowsStayTrue ==
  VerificationInit /\ [][VerificationNext]_verificationVars => []RowsTellTheVerification
<1>1. VerificationInit => VerificationInv
  BY VerificationAssumption DEF VerificationInit, VerificationInv, ReportsOK, TimesOK, KeysOK, RowsOK
<1>2. VerificationInv /\ [VerificationNext]_verificationVars => VerificationInv'
  BY HandleKeepsInv, ObservationKeepsInv, CommitKeepsInv, RecordKeepsInv, UnchangedKeepsInv
     DEF VerificationNext
<1>3. VerificationInv => RowsTellTheVerification
  BY RowsThatTell
<1> QED
  BY <1>1, <1>2, <1>3, PTL
=============================================================================
