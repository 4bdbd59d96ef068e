------------------------- MODULE ServerRuntimeProofs -------------------------
(***************************************************************************)
(* Proofs about ServerRuntime, for any requests, pages, faults and signals. *)
(* Work ends before resources close because the drain ends only when        *)
(* nothing is active, WorkOK, and nothing it waited for can begin again     *)
(* once the signal aborted.  Resources close in reverse because what is     *)
(* left to close, what is being closed and what is closed are together what *)
(* was acquired, in its order, OwnerOK.                                     *)
(***************************************************************************)
EXTENDS ServerRuntime, SequenceTheorems, TLAPS

StartupPoints == Steps \union {"up", "failing"}
WorkerPoints == {"none", "waiting", "handling", "ended"}
StopPoints == {"none", "waiting", "owner", "done", "failed"}
DrainPoints == {"idle", "waiting", "done"}
RequestPoints == {"none", "refused", "handling", "streaming", "done"}
Owner == [at : {"open", "closing", "closed"}, cleanups : Seq(Resources)]

ServerTypeOK ==
  /\ startup \in StartupPoints
  /\ worker \in WorkerPoints
  /\ aborted \in BOOLEAN
  /\ request \in [Requests -> RequestPoints]
  /\ connected \in [Requests -> BOOLEAN]
  /\ fetch \in [Requests -> {"none", "pending", "done"}]
  /\ resolver \in [Requests -> {"none", "running", "done"}]
  /\ drain \in [at : DrainPoints, awaits : SUBSET Operation]
  /\ stop \in StopPoints
  /\ owner \in Owner
  /\ disposing \in Resources \union {None}
  /\ acquired \in Seq(Resources)
  /\ closed \in Seq(Resources)
  /\ errors \subseteq Resources

\* The signal is aborted first, then the drain ends, then the owner closes.
StagesOK ==
  /\ stop = "none" <=> drain.at = "idle"
  /\ stop # "none" => aborted
  /\ owner.at = "open" <=> stop \in {"none", "waiting"}
  /\ owner.at = "closing" <=> stop = "owner"
  /\ owner.at # "open" => drain.at = "done"

\* What the drain waits for, the work of pages that stream excepted.
WorkEnded ==
  /\ startup \notin Steps
  /\ worker \in {"none", "ended"}
  /\ \A r \in Requests :
       request[r] # "handling" /\ (resolver[r] = "running" => r \in Pages)

WorkOK == drain.at = "done" => WorkEnded

Held == IF disposing = None THEN 0 ELSE 1

\* What is left, what is being closed and what is closed were acquired in this order.
OwnerOK ==
  /\ Len(acquired) = Len(owner.cleanups) + Held + Len(closed)
  /\ \A i \in 1 .. Len(owner.cleanups) : owner.cleanups[i] = acquired[i]
  /\ disposing # None => disposing = acquired[Len(owner.cleanups) + 1]
  /\ \A i \in 1 .. Len(closed) : closed[i] = acquired[Len(acquired) + 1 - i]
  /\ owner.at = "open" => closed = <<>> /\ disposing = None
  /\ owner.at = "closed" => owner.cleanups = <<>> /\ disposing = None

\* Success is decided when the owner has closed, and stays so.
OutcomeOK ==
  /\ stop = "done" => errors = {}
  /\ exit = "success" => stop = "done"

RInv == ServerTypeOK /\ StagesOK /\ WorkOK /\ OwnerOK /\ OutcomeOK

LEMMA ServerInitially == ServerInit => RInv
<1> SUFFICES ASSUME ServerInit PROVE RInv
  OBVIOUS
<1>1. <<"logging">> \in Seq(Resources) /\ <<>> \in Seq(Resources)
  BY DEF Resources
<1>2. ServerTypeOK
  BY <1>1 DEF ServerInit, ServerTypeOK, StartupPoints, Steps, WorkerPoints, StopPoints,
              DrainPoints, RequestPoints, Owner
<1>3. OwnerOK
  BY DEF ServerInit, OwnerOK, Held
<1> QED
  BY <1>2, <1>3 DEF ServerInit, RInv, StagesOK, WorkOK, OutcomeOK

-----------------------------------------------------------------------------
(* Startup.                                                                *)

\* Startup runs before the drain has ended, so that nothing is closed yet.
LEMMA StartupIsEarly ==
  ASSUME RInv, startup \in Steps
  PROVE  owner.at = "open" /\ drain.at # "done" /\ stop \in {"none", "waiting"}
BY DEF RInv, ServerTypeOK, StagesOK, WorkOK, WorkEnded, Owner

LEMMA RegisteringKeeps ==
  ASSUME RInv, owner.at = "open", NEW resources \in Seq(Resources),
         Registers(resources), UNCHANGED <<disposing, closed>>
  PROVE  OwnerOK' /\ owner' \in Owner /\ owner'.at = "open" /\ acquired' \in Seq(Resources)
<1> DEFINE cleanups == owner.cleanups
<1>1. /\ cleanups \in Seq(Resources) /\ acquired \in Seq(Resources) /\ closed = <<>>
      /\ disposing = None /\ owner \in Owner
  BY DEF RInv, ServerTypeOK, OwnerOK, Owner
<1>2. /\ owner' = [owner EXCEPT !.cleanups = cleanups \o resources]
      /\ acquired' = acquired \o resources
  BY DEF Registers
<1>3. owner'.at = "open" /\ owner'.cleanups = cleanups \o resources /\ owner' \in Owner
  <2>1. cleanups \o resources \in Seq(Resources)
    BY <1>1 DEF Owner
  <2>2. owner' = [at |-> owner.at, cleanups |-> cleanups \o resources]
    BY <1>1, <1>2 DEF Owner
  <2> HIDE DEF cleanups
  <2> QED
    BY <2>1, <2>2 DEF Owner
<1>4. Len(acquired) = Len(cleanups) /\ \A i \in 1 .. Len(cleanups) : cleanups[i] = acquired[i]
  BY <1>1 DEF RInv, OwnerOK, Held
<1> HIDE DEF cleanups
<1>5. /\ Len(acquired \o resources) = Len(cleanups \o resources)
      /\ \A i \in 1 .. Len(cleanups \o resources) :
           (cleanups \o resources)[i] = (acquired \o resources)[i]
  BY <1>1, <1>4
<1>6. acquired' \in Seq(Resources)
  BY <1>1, <1>2
<1> QED
  BY <1>1, <1>2, <1>3, <1>5, <1>6 DEF OwnerOK, Held

LEMMA StartupKeeps == ASSUME RInv, StartupNext PROVE RInv'
<1>1. /\ startup \in Steps /\ startup' \in StartupPoints /\ worker' \in WorkerPoints
      /\ StartupUnchanged
  <2> USE DEF StartupRuns, Goes, Steps, StartupPoints, WorkerPoints, RInv, ServerTypeOK
  <2>1. CASE PrepareMail
    BY <2>1 DEF PrepareMail
  <2>2. CASE OpenDatabase
    BY <2>2 DEF OpenDatabase
  <2>3. CASE CreateRuntime
    BY <2>3 DEF CreateRuntime
  <2>4. CASE Seed
    BY <2>4 DEF Seed
  <2>5. CASE CreateFederation
    BY <2>5 DEF CreateFederation
  <2>6. CASE WarnAboutStranded
    BY <2>6 DEF WarnAboutStranded, ListenNext
  <2>7. CASE CreateWeb
    BY <2>7 DEF CreateWeb
  <2>8. CASE Listen
    BY <2>8 DEF Listen
  <2>9. CASE StartupFails
    BY <2>9, ServerAssumption DEF StartupFails
  <2> QED
    BY <2>1, <2>2, <2>3, <2>4, <2>5, <2>6, <2>7, <2>8, <2>9 DEF StartupNext
<1>2. /\ UNCHANGED <<requestVars, stopVars, disposing, closed, errors, processVars>>
  BY <1>1 DEF StartupUnchanged
<1>3. owner.at = "open" /\ drain.at # "done"
  BY <1>1, StartupIsEarly
<1>4. \/ UNCHANGED <<owner, acquired>>
      \/ \E resources \in Seq(Resources) : Registers(resources)
  <2>1. /\ <<"store">> \in Seq(Resources) /\ <<"mail">> \in Seq(Resources)
        /\ <<"server">> \in Seq(Resources) /\ <<"web">> \in Seq(Resources)
        /\ <<"web", "server">> \in Seq(Resources)
    BY DEF Resources
  <2>2. CASE PrepareMail \/ Seed \/ CreateFederation \/ Listen \/ StartupFails
    BY <2>2 DEF PrepareMail, Seed, CreateFederation, Listen, StartupFails
  <2>3. CASE OpenDatabase \/ CreateRuntime
    BY <2>1, <2>3 DEF OpenDatabase, CreateRuntime
  <2>4. CASE WarnAboutStranded \/ CreateWeb
    BY <2>1, <2>4 DEF WarnAboutStranded, ListenNext, CreateWeb
  <2> QED
    BY <2>2, <2>3, <2>4 DEF StartupNext
<1>5. OwnerOK' /\ owner' \in Owner /\ owner'.at = "open" /\ acquired' \in Seq(Resources)
  <2>1. CASE UNCHANGED <<owner, acquired>>
    BY <1>2, <1>3, <2>1 DEF RInv, ServerTypeOK, OwnerOK, Held
  <2>2. CASE \E resources \in Seq(Resources) : Registers(resources)
    BY <1>2, <1>3, <2>2, RegisteringKeeps
  <2> QED
    BY <1>4, <2>1, <2>2
<1>6. ServerTypeOK'
  BY <1>1, <1>2, <1>5 DEF RInv, ServerTypeOK, requestVars, stopVars
<1>7. StagesOK' /\ WorkOK' /\ OutcomeOK'
  BY <1>2, <1>3, <1>5 DEF RInv, StagesOK, WorkOK, OutcomeOK, stopVars, processVars
<1> QED
  BY <1>5, <1>6, <1>7 DEF RInv

-----------------------------------------------------------------------------
(* Requests and the worker.                                                *)

\* A step that neither starts nor stops the server.
WorkStep == UNCHANGED <<startupVars, server, stopVars, ownerVars, processVars>>

LEMMA WorkingKeeps ==
  ASSUME RInv, WorkStep, WorkOK',
         worker' \in WorkerPoints,
         request' \in [Requests -> RequestPoints],
         connected' \in [Requests -> BOOLEAN],
         fetch' \in [Requests -> {"none", "pending", "done"}],
         resolver' \in [Requests -> {"none", "running", "done"}]
  PROVE  RInv'
<1> USE DEF RInv, WorkStep, startupVars, stopVars, ownerVars, processVars
<1>1. ServerTypeOK'
  BY DEF ServerTypeOK
<1>2. StagesOK' /\ OutcomeOK'
  BY DEF StagesOK, OutcomeOK
<1>3. OwnerOK'
  BY DEF OwnerOK, Held
<1> QED
  BY <1>1, <1>2, <1>3

\* Once the drain has ended the signal has aborted: nothing is admitted.
LEMMA DrainedIsAborted == ASSUME RInv, drain.at = "done" PROVE aborted
BY DEF RInv, StagesOK

LEMMA RequestsKeep == ASSUME RInv, NEW r \in Requests, RequestNext(r) PROVE RInv'
<1> USE DEF RInv, ServerTypeOK, RequestPoints
<1>1. WorkStep /\ UNCHANGED worker
  BY DEF RequestNext, Accept, HandlerSettles, QueryGraphql, StartResolver, ResolverSettles,
         FetchSettles, StreamEnds, Disconnect, RequestUnchanged, WorkStep
<1>2. /\ request' \in [Requests -> RequestPoints]
      /\ connected' \in [Requests -> BOOLEAN]
      /\ fetch' \in [Requests -> {"none", "pending", "done"}]
      /\ resolver' \in [Requests -> {"none", "running", "done"}]
      /\ drain.at = "done" => \A q \in Requests :
           request'[q] # "handling" /\ (resolver'[q] = "running" => q \in Pages)
  <2> USE DEF WorkOK, WorkEnded
  <2>1. CASE Accept(r)
    BY <2>1, DrainedIsAborted DEF Accept
  <2>2. CASE HandlerSettles(r)
    BY <2>2 DEF HandlerSettles
  <2>3. CASE QueryGraphql(r)
    BY <2>3 DEF QueryGraphql
  <2>4. CASE StartResolver(r)
    BY <2>4 DEF StartResolver
  <2>5. CASE ResolverSettles(r)
    BY <2>5 DEF ResolverSettles
  <2>6. CASE FetchSettles(r)
    BY <2>6 DEF FetchSettles
  <2>7. CASE StreamEnds(r)
    BY <2>7 DEF StreamEnds
  <2>8. CASE Disconnect(r)
    BY <2>8 DEF Disconnect, Dropped
  <2> QED
    BY <2>1, <2>2, <2>3, <2>4, <2>5, <2>6, <2>7, <2>8 DEF RequestNext
<1>3. WorkOK'
  BY <1>1, <1>2 DEF WorkOK, WorkEnded, WorkStep, startupVars, stopVars
<1> QED
  BY <1>1, <1>2, <1>3, WorkingKeeps

LEMMA WorkerKeeps == ASSUME RInv, WorkerNext PROVE RInv'
<1> USE DEF RInv, ServerTypeOK
<1>1. /\ WorkStep /\ UNCHANGED requestVars
      /\ worker \in {"waiting", "handling"} /\ worker' \in WorkerPoints
  BY DEF WorkerNext, WorkerTakes, WorkerHandles, WorkerEnds, WorkerUnchanged, WorkStep,
         WorkerPoints
<1>2. WorkOK'
  BY <1>1 DEF WorkOK, WorkEnded, WorkStep, stopVars
<1> QED
  BY <1>1, <1>2, WorkingKeeps DEF requestVars

-----------------------------------------------------------------------------
(* cleanup() and the owner.                                                *)

LEMMA ActiveIsOperation == ServerTypeOK => Active \subseteq Operation
BY DEF Active, ActiveStartup, ActiveWorker, ActiveRequests, ActiveFetches, ActiveResolvers,
       Operation

\* Nothing is active when the drain ends.
LEMMA NothingIsActive == ASSUME ServerTypeOK, Active = {} PROVE WorkEnded
<1>1. ActiveStartup = {} /\ ActiveWorker = {} /\ ActiveRequests = {} /\ ActiveResolvers = {}
  BY DEF Active
<1>2. startup \notin Steps
  BY <1>1 DEF ActiveStartup
<1>3. worker \in {"none", "ended"}
  BY <1>1 DEF ActiveWorker, ServerTypeOK, WorkerPoints
<1>4. ASSUME NEW r \in Requests PROVE request[r] # "handling" /\ resolver[r] # "running"
  <2>1. request[r] = "handling" => <<"request", r>> \in ActiveRequests
    BY DEF ActiveRequests
  <2>2. resolver[r] = "running" => <<"resolver", r>> \in ActiveResolvers
    BY DEF ActiveResolvers
  <2> QED
    BY <1>1, <2>1, <2>2
<1> QED
  BY <1>2, <1>3, <1>4 DEF WorkEnded

\* What a step of cleanup leaves alone, and what it may do to requests.
StopStep ==
  /\ UNCHANGED <<startupVars, workerVars, fetch, resolver, processVars>>
  /\ \/ UNCHANGED <<request, connected>>
     \/ /\ connected' = [r \in Requests |-> FALSE]
        /\ request' = [r \in Requests |-> Dropped(r)]

LEMMA StopsAreSteps ==
  ASSUME CleanupNext
  PROVE  StopStep
<1> USE DEF StopStep, StopUnchanged
<1>1. CASE Cleanup
  BY <1>1 DEF Cleanup
<1>2. CASE ServerDrained \/ OwnerCloses \/ Disposed \/ DisposalFails \/ OwnerClosed
  BY <1>2 DEF ServerDrained, OwnerCloses, Disposed, DisposalFails, OwnerClosed
<1>3. CASE ForceClose
  BY <1>3 DEF ForceClose, DropConnections
<1>4. CASE DrainNext
  BY <1>4 DEF DrainNext, requestVars
<1>5. CASE Dispose
  BY <1>5 DEF Dispose, DropConnections
<1> QED
  BY <1>1, <1>2, <1>3, <1>4, <1>5 DEF CleanupNext

\* The invariant's parts that steps of cleanup disturb one at a time.
LEMMA StoppingKeeps ==
  ASSUME RInv, StopStep, StagesOK', OwnerOK', OutcomeOK',
         drain'.at = "done" => drain.at = "done" \/ WorkEnded,
         aborted' \in BOOLEAN,
         drain' \in [at : DrainPoints, awaits : SUBSET Operation],
         stop' \in StopPoints, owner' \in Owner,
         disposing' \in Resources \union {None},
         closed' \in Seq(Resources), errors' \subseteq Resources
  PROVE  RInv'
<1> USE DEF RInv, StopStep, startupVars, workerVars
<1>1. /\ request' \in [Requests -> RequestPoints] /\ connected' \in [Requests -> BOOLEAN]
      /\ \A r \in Requests : request'[r] = "handling" => request[r] = "handling"
  BY DEF ServerTypeOK, Dropped, RequestPoints
<1>2. ServerTypeOK'
  BY <1>1 DEF ServerTypeOK
<1>3. WorkEnded => WorkEnded'
  BY <1>1 DEF WorkEnded
<1>4. WorkOK'
  BY <1>3 DEF WorkOK
<1> QED
  BY <1>2, <1>4

LEMMA CleanupKeeps == ASSUME RInv, Cleanup PROVE RInv'
<1> USE DEF Cleanup, StopUnchanged, ownerVars, RInv
<1>1. StopStep
  BY StopsAreSteps DEF CleanupNext
<1>2. /\ aborted' \in BOOLEAN /\ stop' \in StopPoints
      /\ drain' \in [at : DrainPoints, awaits : SUBSET Operation]
      /\ drain'.at # "done"
  BY ActiveIsOperation DEF ServerTypeOK, DrainPoints, StopPoints
<1>3. StagesOK' /\ OutcomeOK'
  BY DEF StagesOK, OutcomeOK, processVars
<1>4. OwnerOK'
  BY DEF OwnerOK, Held, startupVars
<1> QED
  BY <1>1, <1>2, <1>3, <1>4, StoppingKeeps DEF ServerTypeOK

LEMMA DrainingKeeps == ASSUME RInv, DrainNext PROVE RInv'
<1> USE DEF DrainNext, ownerVars, RInv
<1>1. StopStep
  BY StopsAreSteps DEF CleanupNext
<1>2. /\ drain' \in [at : DrainPoints, awaits : SUBSET Operation]
      /\ drain'.at \in {"waiting", "done"} /\ (drain'.at = "done" => WorkEnded)
  BY ActiveIsOperation, NothingIsActive DEF ServerTypeOK, DrainPoints
<1>3. StagesOK' /\ OutcomeOK'
  BY <1>2 DEF StagesOK, OutcomeOK, processVars
<1>4. OwnerOK'
  BY DEF OwnerOK, Held, startupVars
<1> QED
  BY <1>1, <1>2, <1>3, <1>4, StoppingKeeps DEF ServerTypeOK

LEMMA ConnectionsKeep == ASSUME RInv, ServerDrained \/ ForceClose PROVE RInv'
<1> USE DEF ownerVars, RInv
<1>1. StopStep
  BY StopsAreSteps DEF CleanupNext
<1>2. UNCHANGED <<ownerVars, aborted, drain, stop>>
  BY DEF ServerDrained, ForceClose, stopVars
<1>3. StagesOK' /\ OutcomeOK'
  BY <1>1, <1>2 DEF StagesOK, OutcomeOK, processVars, StopStep
<1>4. OwnerOK'
  BY <1>1, <1>2 DEF OwnerOK, Held, startupVars, StopStep
<1> QED
  BY <1>1, <1>2, <1>3, <1>4, StoppingKeeps DEF ServerTypeOK

LEMMA ClosingBegins == ASSUME RInv, OwnerCloses PROVE RInv'
<1> USE DEF OwnerCloses, StopUnchanged, RInv
<1>1. StopStep
  BY StopsAreSteps DEF CleanupNext
<1>2. /\ owner' \in Owner /\ owner'.at = "closing" /\ owner'.cleanups = owner.cleanups
      /\ stop' \in StopPoints
  BY DEF ServerTypeOK, Owner, StopPoints
<1>3. StagesOK' /\ OutcomeOK'
  BY <1>2 DEF StagesOK, OutcomeOK, processVars
<1>4. OwnerOK'
  BY <1>2 DEF OwnerOK, Held, startupVars
<1> QED
  BY <1>1, <1>2, <1>3, <1>4, StoppingKeeps DEF ServerTypeOK

LEMMA LastAndRest ==
  ASSUME NEW s \in Seq(Resources), s # <<>>
  PROVE  /\ AllButLast(s) \in Seq(Resources) /\ Len(AllButLast(s)) = Len(s) - 1
         /\ \A i \in 1 .. Len(AllButLast(s)) : AllButLast(s)[i] = s[i]
         /\ LastOf(s) \in Resources /\ LastOf(s) = s[Len(s)] /\ Len(s) \in Nat \ {0}
<1>1. Len(s) \in Nat \ {0} /\ \A i \in 1 .. Len(s) : s[i] \in Resources
  BY EmptySeq, ElementOfSeq
<1>2. SubSeq(s, 1, Len(s) - 1) \in Seq(Resources)
  BY <1>1, SubSeqProperties
<1>3. /\ Len(SubSeq(s, 1, Len(s) - 1)) = Len(s) - 1
      /\ \A i \in 1 .. Len(s) - 1 : SubSeq(s, 1, Len(s) - 1)[i] = s[i]
  <2> DEFINE n == Len(s) - 1
             rest == SubSeq(s, 1, n)
  <2>1. n \in Nat /\ \A i \in 1 .. n : s[i] \in Resources
    BY <1>1
  <2> HIDE DEF n
  <2>2. /\ Len(rest) = IF 1 <= n THEN n - 1 + 1 ELSE 0
        /\ \A i \in 1 .. n - 1 + 1 : rest[i] = s[1 + i - 1]
    BY <2>1, SubSeqProperties
  <2>3. Len(rest) = n /\ \A i \in 1 .. n : rest[i] = s[i]
    BY <2>1, <2>2
  <2> QED
    BY <2>3 DEF n
<1>4. s[Len(s)] \in Resources
  BY <1>1
<1> HIDE DEF Resources
<1>5. \A i \in 1 .. Len(AllButLast(s)) : AllButLast(s)[i] = s[i]
  BY <1>1, <1>3 DEF AllButLast
<1> QED
  BY <1>1, <1>2, <1>3, <1>4, <1>5 DEF AllButLast, LastOf

LEMMA DisposingKeeps == ASSUME RInv, Dispose PROVE RInv'
<1> USE DEF Dispose, StopUnchanged, RInv
<1> DEFINE cleanups == owner.cleanups
           rest == AllButLast(cleanups)
           last == LastOf(cleanups)
<1>1. StopStep
  BY StopsAreSteps DEF CleanupNext
<1>2. cleanups \in Seq(Resources) /\ cleanups # <<>>
  BY DEF ServerTypeOK, Owner
<1>3. /\ rest \in Seq(Resources) /\ Len(rest) = Len(cleanups) - 1
      /\ \A i \in 1 .. Len(rest) : rest[i] = cleanups[i]
      /\ last \in Resources /\ last = cleanups[Len(cleanups)] /\ Len(cleanups) \in Nat \ {0}
  BY <1>2, LastAndRest
<1>4. owner' = [at |-> "closing", cleanups |-> rest] /\ disposing' = last
  BY DEF ServerTypeOK, Owner
<1>5. owner' \in Owner /\ owner'.at = owner.at /\ owner'.cleanups = rest
  BY <1>3, <1>4 DEF Owner
<1>6. StagesOK' /\ OutcomeOK'
  BY <1>5 DEF StagesOK, OutcomeOK, stopVars, processVars
<1>7. OwnerOK'
  <2>1. last # None
    BY <1>3, ServerAssumption
  <2>2. /\ Len(acquired) = Len(cleanups) + Len(closed)
        /\ \A i \in 1 .. Len(cleanups) : cleanups[i] = acquired[i]
        /\ \A i \in 1 .. Len(closed) : closed[i] = acquired[Len(acquired) + 1 - i]
    BY DEF OwnerOK, Held, ServerTypeOK
  <2>3. Len(closed) \in Nat /\ Len(acquired) \in Nat
    BY DEF ServerTypeOK
  <2> HIDE DEF cleanups, rest, last
  <2>4. /\ Len(acquired) = Len(rest) + 1 + Len(closed)
        /\ \A i \in 1 .. Len(rest) : rest[i] = acquired[i]
        /\ last = acquired[Len(rest) + 1]
    BY <1>3, <2>2, <2>3
  <2> QED
    BY <1>4, <1>5, <2>1, <2>2, <2>4 DEF OwnerOK, Held, startupVars
<1> QED
  BY <1>1, <1>3, <1>4, <1>5, <1>6, <1>7, StoppingKeeps DEF ServerTypeOK, stopVars

LEMMA DisposalsKeep == ASSUME RInv, Disposed \/ DisposalFails PROVE RInv'
<1> USE DEF StopUnchanged, RInv
<1>1. StopStep
  BY StopsAreSteps DEF CleanupNext
<1>2. /\ disposing \in Resources /\ disposing # None /\ disposing' = None
      /\ closed' = Append(closed, disposing) /\ errors' \subseteq Resources
      /\ UNCHANGED <<owner, acquired, stopVars, processVars>>
      /\ owner.at = "closing"
  BY ServerAssumption DEF Disposed, DisposalFails, ServerTypeOK, OwnerOK, Owner, startupVars
<1>3. StagesOK' /\ OutcomeOK'
  BY <1>2 DEF StagesOK, OutcomeOK, stopVars, processVars
<1>4. closed' \in Seq(Resources) /\ Len(closed') = Len(closed) + 1
  BY <1>2 DEF ServerTypeOK
<1>5. OwnerOK'
  <2>1. Len(closed) \in Nat /\ Len(owner.cleanups) \in Nat /\ closed \in Seq(Resources)
    BY DEF ServerTypeOK, Owner
  <2>2. Len(acquired) = Len(owner.cleanups) + 1 + Len(closed)
    BY <1>2 DEF OwnerOK, Held
  <2>3. \A i \in 1 .. Len(closed') : closed'[i] = acquired[Len(acquired) + 1 - i]
    BY <1>2, <1>4, <2>1, <2>2 DEF OwnerOK
  <2>4. owner' = owner /\ acquired' = acquired /\ Held' = 0
    BY <1>2 DEF Held
  <2>5. \A i \in 1 .. Len(owner.cleanups) : owner.cleanups[i] = acquired[i]
    BY DEF OwnerOK
  <2>6. owner.at = "closing"
    BY <1>2
  <2> HIDE DEF RInv
  <2>7. Len(acquired') = Len(owner'.cleanups) + Held' + Len(closed')
    <3>1. /\ Len(owner'.cleanups) = Len(owner.cleanups) /\ Len(acquired') = Len(acquired)
          /\ Len(closed') = Len(closed) + 1
      BY <1>4, <2>4
    <3>2. Len(owner.cleanups) + 1 + Len(closed) = Len(owner.cleanups) + 0 + (Len(closed) + 1)
      <4>1. \A a, c \in Nat : a + 1 + c = a + 0 + (c + 1)
        OBVIOUS
      <4> QED
        BY <2>1, <4>1
    <3> QED
      BY <2>2, <2>4, <3>1, <3>2
  <2>8. \A i \in 1 .. Len(owner'.cleanups) : owner'.cleanups[i] = acquired'[i]
    BY <2>4, <2>5
  <2>9. \A i \in 1 .. Len(closed') : closed'[i] = acquired'[Len(acquired') + 1 - i]
    BY <2>3, <2>4
  <2> QED
    BY <1>2, <2>4, <2>6, <2>7, <2>8, <2>9 DEF OwnerOK
<1> QED
  BY <1>1, <1>2, <1>3, <1>4, <1>5, StoppingKeeps DEF ServerTypeOK, stopVars

LEMMA ClosingEnds == ASSUME RInv, OwnerClosed PROVE RInv'
<1> USE DEF OwnerClosed, StopUnchanged, RInv
<1>1. StopStep
  BY StopsAreSteps DEF CleanupNext
<1>2. /\ owner' \in Owner /\ owner'.at = "closed" /\ owner'.cleanups = owner.cleanups
      /\ stop' \in {"done", "failed"} /\ stop' \in StopPoints
  BY DEF ServerTypeOK, Owner, StopPoints
<1>3. StagesOK' /\ OutcomeOK'
  BY <1>2 DEF StagesOK, OutcomeOK, processVars
<1>4. OwnerOK'
  BY <1>2 DEF OwnerOK, Held, startupVars
<1> QED
  BY <1>1, <1>2, <1>3, <1>4, StoppingKeeps DEF ServerTypeOK

LEMMA ProcessKeeps == ASSUME RInv, ProcessNext PROVE RInv'
<1> USE DEF RInv
<1>1. ProcessUnchanged /\ (exit' = "success" => stop = "done")
  BY DEF ProcessNext, Signal, Exit, Deadline
<1>2. ServerTypeOK' /\ StagesOK' /\ WorkOK' /\ OwnerOK'
  BY <1>1 DEF ProcessUnchanged, ServerTypeOK, StagesOK, WorkOK, WorkEnded, OwnerOK, Held,
              startupVars, requestVars, workerVars, stopVars, ownerVars
<1>3. OutcomeOK'
  BY <1>1 DEF OutcomeOK, ProcessUnchanged, stopVars, ownerVars
<1> QED
  BY <1>2, <1>3

-----------------------------------------------------------------------------
LEMMA ServerStep == RInv /\ [ServerNext]_serverVars => RInv'
<1> SUFFICES ASSUME RInv, [ServerNext]_serverVars PROVE RInv'
  OBVIOUS
<1>1. CASE StartupNext \/ WorkerNext \/ ProcessNext
  BY <1>1, StartupKeeps, WorkerKeeps, ProcessKeeps
<1>2. CASE \E r \in Requests : RequestNext(r)
  BY <1>2, RequestsKeep
<1>3. CASE CleanupNext
  BY <1>3, CleanupKeeps, DrainingKeeps, ConnectionsKeep, ClosingBegins, DisposingKeeps,
     DisposalsKeep, ClosingEnds DEF CleanupNext
<1>4. CASE UNCHANGED serverVars
  BY <1>4 DEF RInv, ServerTypeOK, StagesOK, WorkOK, WorkEnded, OwnerOK, Held, OutcomeOK,
              serverVars, startupVars, requestVars, workerVars, stopVars, ownerVars,
              processVars
<1> QED
  BY <1>1, <1>2, <1>3, <1>4 DEF ServerNext

LEMMA OrderFollows == RInv => ShutdownKeepsOrder
<1> SUFFICES ASSUME RInv PROVE ShutdownKeepsOrder
  OBVIOUS
<1>1. WorkEndsFirst
  BY DEF RInv, StagesOK, WorkOK, WorkEnded, WorkEndsFirst
<1>2. ASSUME stop \in {"done", "failed"} PROVE Len(closed) = Len(acquired)
  <2>1. owner.at = "closed"
    BY <1>2 DEF RInv, ServerTypeOK, StagesOK, Owner
  <2>2. Len(closed) \in Nat
    BY DEF RInv, ServerTypeOK
  <2> QED
    BY <2>1, <2>2 DEF RInv, OwnerOK, Held
<1>3. DOMAIN closed = 1 .. Len(closed)
  BY DEF RInv, ServerTypeOK
<1>4. ClosedInReverse
  BY <1>2, <1>3 DEF RInv, OwnerOK, OutcomeOK, ClosedInReverse
<1> QED
  BY <1>1, <1>4 DEF ShutdownKeepsOrder

\* Whatever requests, pages, faults and signals there are, work the registry
\* admitted ends before a resource closes, and resources close once each, in the
\* reverse of the order they were acquired (operations.ts, resources.ts).
THEOREM OrderIsKept == ServerSpec => []ShutdownKeepsOrder
<1> QED
  BY ServerInitially, ServerStep, OrderFollows, PTL DEF ServerSpec

\* The server's state keeps its type.
THEOREM ServerTypeCorrectness == ServerSpec => []ServerTypeOK
<1>1. RInv => ServerTypeOK
  BY DEF RInv
<1> QED
  BY <1>1, ServerInitially, ServerStep, PTL DEF ServerSpec
=============================================================================
