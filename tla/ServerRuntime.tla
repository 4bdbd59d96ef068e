---------------------------- MODULE ServerRuntime ----------------------------
(***************************************************************************)
(* The life of one server process (drfed index.ts, operations.ts,           *)
(* resources.ts, runtime-options.ts and database-runtime.ts, federation     *)
(* task-queue.ts, graphql operations.ts, web bridge.ts and runtime.ts):     *)
(* startup acquires resources one after the other; requests, the GraphQL    *)
(* resolvers they start and the key worker are registered while they run;   *)
(* a signal or a failed startup stops the server: no new work is admitted,  *)
(* what runs is drained, and the owned resources are closed, last first.    *)
(*                                                                         *)
(* JavaScript runs one callback at a time, so a step here is what the code  *)
(* does between two awaits.  srvx, Yoga and Nitro are external.             *)
(***************************************************************************)
EXTENDS Integers, Sequences, FiniteSets

CONSTANTS
  Requests,    \* HTTP requests that may arrive
  Pages,       \* those answered by a streamed page, which queries GraphQL
  FaultySteps, \* startup steps that may fail by themselves
  Stubborn,    \* resources whose cleanup may fail
  MaxSignals,  \* bound on the signals sent to the process
  MaxMessages, \* bound on the key warmups the resolvers enqueue
  None         \* no resource named

Resources == {"logging", "store", "mail", "web", "server"}
Steps == {"mail", "database", "history", "seed", "federation", "stranded",
          "web", "listen"}

ASSUME ServerAssumption ==
  /\ Pages \subseteq Requests
  /\ FaultySteps \subseteq Steps
  /\ Stubborn \subseteq Resources
  /\ MaxSignals \in Nat
  /\ MaxMessages \in Nat
  /\ None \notin Resources

VARIABLES
  driver,    \* the configured database
  withWeb,   \* whether the web front end is configured
  startup,   \* where runServer() is
  aborted,   \* the registry's signal
  server,    \* the HTTP server
  request,   \* each request
  connected, \* whether its client still is
  fetch,     \* the query a page sends through the web binding
  resolver,  \* the GraphQL work of a request
  worker,    \* the key worker
  messages,  \* warmups in its queue
  enqueued,  \* how many were ever enqueued
  drain,     \* drain(): where it is, and what it awaits
  stop,      \* cleanup()
  force,     \* its timer
  owner,     \* ResourceOwner: its state, and the cleanups left
  disposing, \* the resource whose cleanup runs
  acquired,  \* history: resources in the order they were registered
  closed,    \* history: resources whose cleanup ended
  errors,    \* resources whose cleanup failed
  signals,   \* signals received
  exit       \* how the process ended

startupVars == <<driver, withWeb, startup, acquired>>
requestVars == <<request, connected, fetch, resolver>>
workerVars == <<worker, messages, enqueued>>
stopVars == <<aborted, drain, stop, force>>
ownerVars == <<owner, disposing, closed, errors>>
processVars == <<signals, exit>>
serverVars == <<startupVars, server, requestVars, workerVars, stopVars,
                ownerVars, processVars>>

ServerInit ==
  /\ driver \in {"pglite", "postgres"}
  /\ withWeb \in BOOLEAN
  /\ startup = "mail"
  /\ aborted = FALSE
  /\ server = "none"
  /\ request = [r \in Requests |-> "none"]
  /\ connected = [r \in Requests |-> FALSE]
  /\ fetch = [r \in Requests |-> "none"]
  /\ resolver = [r \in Requests |-> "none"]
  /\ worker = "none"
  /\ messages = 0
  /\ enqueued = 0
  /\ drain = [at |-> "idle", awaits |-> {}]
  /\ stop = "none"
  /\ force = "off"
  /\ owner = [at |-> "open", cleanups |-> <<"logging">>]
  /\ disposing = None
  /\ acquired = <<"logging">>
  /\ closed = <<>>
  /\ errors = {}
  /\ signals = 0
  /\ exit = "none"

-----------------------------------------------------------------------------
(* OperationRegistry                                                       *)

\* What run() and track() register: the kind of work, and its request.
Operation == {"startup", "worker", "request", "fetch", "resolver"}
               \X (Requests \union {"process"})

ActiveRequests ==
  {<<"request", r>> : r \in {q \in Requests : request[q] = "handling"}}
ActiveFetches ==
  {<<"fetch", r>> : r \in {q \in Requests : fetch[q] = "pending"}}
ActiveResolvers ==
  {<<"resolver", r>> : r \in {q \in Requests : resolver[q] = "running"}}
ActiveStartup == IF startup \in Steps THEN {<<"startup", "process">>} ELSE {}
ActiveWorker ==
  IF worker \in {"waiting", "handling"} THEN {<<"worker", "process">>} ELSE {}

Active == ActiveStartup \union ActiveWorker \union ActiveRequests
            \union ActiveFetches \union ActiveResolvers

\* Mutant: only what runs when the drain begins is awaited.
DrainOnce ==
  /\ exit = "none"
  /\ drain.at = "waiting"
  /\ drain.awaits \intersect Active = {}
  /\ drain' = [at |-> "done", awaits |-> {}]
  /\ UNCHANGED <<startupVars, server, requestVars, workerVars, aborted, stop,
                 force, ownerVars, processVars>>

\* The operations awaited have settled; others may have been registered.
DrainNext ==
  /\ exit = "none"
  /\ drain.at = "waiting"
  /\ drain.awaits \intersect Active = {}
  /\ drain' = IF Active = {} THEN [at |-> "done", awaits |-> {}]
              ELSE [at |-> "waiting", awaits |-> Active]
  /\ UNCHANGED <<startupVars, server, requestVars, workerVars, aborted, stop,
                 force, ownerVars, processVars>>

-----------------------------------------------------------------------------
(* runServer(): startup                                                    *)

\* register() puts a resource's cleanup on the owner's list.
Registers(resources) ==
  /\ owner' = [owner EXCEPT !.cleanups = @ \o resources]
  /\ acquired' = acquired \o resources

\* The next step is an operation of its own, refused once the signal aborted.
Goes(step) == startup' = IF aborted THEN "failing" ELSE step

\* Where startup goes once the instances are checked, or the web runtime runs.
ListenNext ==
  /\ Registers(<<"server">>)
  /\ server' = "made"
  /\ Goes("listen")

StartupRuns(step) == exit = "none" /\ startup = step

StartupUnchanged ==
  UNCHANGED <<driver, withWeb, requestVars, messages, enqueued, stopVars,
              disposing, closed, errors, processVars>>

\* prepareMail() reads the credentials and observes the signal.
PrepareMail ==
  /\ StartupRuns("mail")
  /\ Goes("database")
  /\ UNCHANGED <<owner, acquired, server, worker>>
  /\ StartupUnchanged

\* PGlite is registered before it is ready; PostgreSQL is prepared first,
\* which a signal may stop, and its client is registered after.
OpenDatabase ==
  /\ StartupRuns("database")
  /\ \/ /\ Registers(<<"store">>)
        /\ startup' = "history"
     \/ /\ driver = "postgres" /\ aborted
        /\ startup' = "failing"
        /\ UNCHANGED <<owner, acquired>>
  /\ UNCHANGED <<server, worker>>
  /\ StartupUnchanged

\* The schema is ready; the signal is looked at before mail is constructed.
CreateRuntime ==
  /\ StartupRuns("history")
  /\ \/ /\ aborted
        /\ startup' = "failing"
        /\ UNCHANGED <<owner, acquired>>
     \/ /\ ~aborted
        /\ Registers(<<"mail">>)
        /\ startup' \in {"seed", "federation"}
  /\ UNCHANGED <<server, worker>>
  /\ StartupUnchanged

Seed ==
  /\ StartupRuns("seed")
  /\ Goes("federation")
  /\ UNCHANGED <<owner, acquired, server, worker>>
  /\ StartupUnchanged

\* The worker is started beside the startup; its run is refused like others.
CreateFederation ==
  /\ StartupRuns("federation")
  /\ worker' = IF aborted THEN "none" ELSE "waiting"
  /\ Goes("stranded")
  /\ UNCHANGED <<owner, acquired, server>>
  /\ StartupUnchanged

WarnAboutStranded ==
  /\ StartupRuns("stranded")
  /\ IF withWeb
     THEN Goes("web") /\ UNCHANGED <<owner, acquired, server>>
     ELSE ListenNext
  /\ UNCHANGED worker
  /\ StartupUnchanged

\* The runtime is registered before the signal is looked at again.
CreateWeb ==
  /\ StartupRuns("web")
  /\ IF aborted
     THEN /\ Registers(<<"web">>)
          /\ startup' = "failing"
          /\ UNCHANGED server
     ELSE /\ Registers(<<"web", "server">>)
          /\ server' = "made"
          /\ startup' = "listen"
  /\ UNCHANGED worker
  /\ StartupUnchanged

\* A server that cleanup() began to close stays so.
Listen ==
  /\ StartupRuns("listen")
  /\ startup' = "up"
  /\ server' = IF server = "made" THEN "listening" ELSE server
  /\ UNCHANGED <<owner, acquired, worker>>
  /\ StartupUnchanged

\* A store that was opened is registered even if what follows fails.
StartupFails ==
  /\ exit = "none"
  /\ startup \in FaultySteps
  /\ startup' = "failing"
  /\ UNCHANGED <<owner, acquired, server, worker>>
  /\ StartupUnchanged

StartupNext ==
  \/ PrepareMail \/ OpenDatabase \/ CreateRuntime \/ Seed \/ CreateFederation
  \/ WarnAboutStranded \/ CreateWeb \/ Listen \/ StartupFails

-----------------------------------------------------------------------------
(* Requests, resolvers and the web binding                                 *)

RequestUnchanged ==
  UNCHANGED <<startupVars, server, worker, stopVars, ownerVars, processVars>>

Open(r) == connected[r] /\ request[r] \in {"handling", "streaming"}

\* A connection kept alive may still bring a request while the server
\* drains; it is answered 503.
Accept(r) ==
  /\ exit = "none"
  /\ server \in {"listening", "draining"}
  /\ request[r] = "none"
  /\ r \in Pages => withWeb
  /\ request' = [request EXCEPT ![r] = IF aborted THEN "refused" ELSE "handling"]
  /\ connected' = [connected EXCEPT ![r] = ~aborted]
  /\ UNCHANGED <<fetch, resolver, messages, enqueued>>
  /\ RequestUnchanged

\* A page's handler settles with a stream; another's when its resolvers have,
\* or as soon as Yoga cancels the execution for a client that left.
HandlerSettles(r) ==
  /\ exit = "none"
  /\ request[r] = "handling"
  /\ IF r \in Pages
     THEN request' = [request EXCEPT ![r] = IF connected[r] THEN "streaming"
                                            ELSE "done"]
     ELSE /\ resolver[r] # "running" \/ ~connected[r]
          /\ request' = [request EXCEPT ![r] = "done"]
  /\ UNCHANGED <<connected, fetch, resolver, messages, enqueued>>
  /\ RequestUnchanged

\* queryGraphql(), refused once the binding is aborted.
QueryGraphql(r) ==
  /\ exit = "none"
  /\ r \in Pages
  /\ request[r] = "streaming"
  /\ fetch[r] = "none"
  /\ disposing # "web"
  /\ fetch' = [fetch EXCEPT ![r] = "pending"]
  /\ UNCHANGED <<request, connected, resolver, messages, enqueued>>
  /\ RequestUnchanged

\* A continuation of admitted work, tracked whether or not the signal aborted.
StartResolver(r) ==
  /\ exit = "none"
  /\ resolver[r] = "none"
  /\ connected[r]
  /\ IF r \in Pages THEN fetch[r] = "pending" ELSE request[r] = "handling"
  /\ resolver' = [resolver EXCEPT ![r] = "running"]
  /\ UNCHANGED <<request, connected, fetch, messages, enqueued>>
  /\ RequestUnchanged

\* A resolver that created an actor enqueues a key warmup, which a worker
\* that has ended drops.
ResolverSettles(r) ==
  /\ exit = "none"
  /\ resolver[r] = "running"
  /\ resolver' = [resolver EXCEPT ![r] = "done"]
  /\ \/ UNCHANGED <<messages, enqueued>>
     \/ /\ enqueued < MaxMessages
        /\ enqueued' = enqueued + 1
        /\ messages' = IF worker = "ended" THEN messages ELSE messages + 1
  /\ UNCHANGED <<request, connected, fetch>>
  /\ RequestUnchanged

\* The answer was read, or the client's or the binding's signal cancelled it.
FetchSettles(r) ==
  /\ exit = "none"
  /\ fetch[r] = "pending"
  /\ resolver[r] = "done" \/ ~connected[r] \/ disposing = "web"
  /\ fetch' = [fetch EXCEPT ![r] = "done"]
  /\ UNCHANGED <<request, connected, resolver, messages, enqueued>>
  /\ RequestUnchanged

StreamEnds(r) ==
  /\ exit = "none"
  /\ request[r] = "streaming"
  /\ fetch[r] \in {"none", "done"}
  /\ request' = [request EXCEPT ![r] = "done"]
  /\ UNCHANGED <<connected, fetch, resolver, messages, enqueued>>
  /\ RequestUnchanged

\* What is left of a request whose connection is gone.
Dropped(r) == IF request[r] = "streaming" THEN "done" ELSE request[r]

Disconnect(r) ==
  /\ exit = "none"
  /\ Open(r)
  /\ connected' = [connected EXCEPT ![r] = FALSE]
  /\ request' = [request EXCEPT ![r] = Dropped(r)]
  /\ UNCHANGED <<fetch, resolver, messages, enqueued>>
  /\ RequestUnchanged

RequestNext(r) ==
  \/ Accept(r) \/ HandlerSettles(r) \/ QueryGraphql(r) \/ StartResolver(r)
  \/ ResolverSettles(r) \/ FetchSettles(r) \/ StreamEnds(r) \/ Disconnect(r)

-----------------------------------------------------------------------------
(* KeyGenerationQueue.listen()                                             *)

WorkerUnchanged ==
  UNCHANGED <<startupVars, server, requestVars, enqueued, stopVars, ownerVars,
              processVars>>

WorkerTakes ==
  /\ exit = "none"
  /\ worker = "waiting"
  /\ ~aborted
  /\ messages > 0
  /\ worker' = "handling"
  /\ messages' = messages - 1
  /\ WorkerUnchanged

\* A handler that fails is logged.
WorkerHandles ==
  /\ exit = "none"
  /\ worker = "handling"
  /\ worker' = "waiting"
  /\ UNCHANGED messages
  /\ WorkerUnchanged

\* Mutant: the signal does not wake a worker that waits for a message.
WorkerEndsAwake ==
  /\ exit = "none"
  /\ worker = "waiting"
  /\ aborted
  /\ messages > 0
  /\ worker' = "ended"
  /\ messages' = 0
  /\ WorkerUnchanged

\* The signal wakes a waiting worker; what is queued is dropped.
WorkerEnds ==
  /\ exit = "none"
  /\ worker = "waiting"
  /\ aborted
  /\ worker' = "ended"
  /\ messages' = 0
  /\ WorkerUnchanged

WorkerNext == WorkerTakes \/ WorkerHandles \/ WorkerEnds

-----------------------------------------------------------------------------
(* cleanup()                                                               *)

StopUnchanged ==
  UNCHANGED <<startupVars, workerVars, fetch, resolver, processVars>>

\* stop() is memoized: a signal, or startup once it failed.  In one go the
\* signal aborts, the server stops accepting and the drain takes what runs.
Cleanup ==
  /\ exit = "none"
  /\ stop = "none"
  /\ signals > 0 \/ startup = "failing"
  /\ stop' = "waiting"
  /\ aborted' = TRUE
  /\ server' = IF server = "none" THEN "none" ELSE "draining"
  /\ drain' = [at |-> "waiting", awaits |-> Active]
  /\ force' = "armed"
  /\ UNCHANGED <<request, connected, ownerVars>>
  /\ StopUnchanged

ServerDrained ==
  /\ exit = "none"
  /\ server = "draining"
  /\ \A r \in Requests : ~Open(r)
  /\ server' = "closed"
  /\ UNCHANGED <<request, connected, stopVars, ownerVars>>
  /\ StopUnchanged

\* close(true) drops every connection.
DropConnections ==
  /\ server' = "closed"
  /\ connected' = [r \in Requests |-> FALSE]
  /\ request' = [r \in Requests |-> Dropped(r)]

\* After five seconds the connections are dropped; the timer is cleared as
\* soon as the drain and the server are done.
ForceClose ==
  /\ exit = "none"
  /\ force = "armed"
  /\ force' = "fired"
  /\ IF server = "none" THEN UNCHANGED <<server, request, connected>>
     ELSE DropConnections
  /\ UNCHANGED <<aborted, drain, stop, ownerVars>>
  /\ StopUnchanged

\* A server startup registered after cleanup() began is not waited for here.
OwnerCloses ==
  /\ exit = "none"
  /\ stop = "waiting"
  /\ server # "draining"
  /\ drain.at = "done"
  /\ stop' = "owner"
  /\ force' = "off"
  /\ owner' = [owner EXCEPT !.at = "closing"]
  /\ UNCHANGED <<server, request, connected, aborted, drain, disposing, closed,
                 errors>>
  /\ StopUnchanged

-----------------------------------------------------------------------------
(* ResourceOwner.close()                                                   *)

LastOf(s) == s[Len(s)]
AllButLast(s) == SubSeq(s, 1, Len(s) - 1)

Dispose ==
  /\ exit = "none"
  /\ owner.at = "closing"
  /\ disposing = None
  /\ owner.cleanups # <<>>
  /\ disposing' = LastOf(owner.cleanups)
  /\ owner' = [owner EXCEPT !.cleanups = AllButLast(@)]
  /\ IF LastOf(owner.cleanups) = "server" THEN DropConnections
     ELSE UNCHANGED <<server, request, connected>>
  /\ UNCHANGED <<stopVars, closed, errors>>
  /\ StopUnchanged

\* The web binding's close() awaits the queries it still knows.
Disposable == disposing = "web" => \A r \in Requests : fetch[r] # "pending"

Disposed ==
  /\ exit = "none"
  /\ disposing # None
  /\ Disposable
  /\ closed' = Append(closed, disposing)
  /\ disposing' = None
  /\ UNCHANGED <<owner, errors, server, request, connected, stopVars>>
  /\ StopUnchanged

\* A failed cleanup is remembered, and the next one runs.
DisposalFails ==
  /\ exit = "none"
  /\ disposing \in Stubborn
  /\ Disposable
  /\ closed' = Append(closed, disposing)
  /\ errors' = errors \union {disposing}
  /\ disposing' = None
  /\ UNCHANGED <<owner, server, request, connected, stopVars>>
  /\ StopUnchanged

OwnerClosed ==
  /\ exit = "none"
  /\ owner.at = "closing"
  /\ disposing = None
  /\ owner.cleanups = <<>>
  /\ owner' = [owner EXCEPT !.at = "closed"]
  /\ stop' = IF errors = {} THEN "done" ELSE "failed"
  /\ UNCHANGED <<server, request, connected, aborted, drain, force, disposing,
                 closed, errors>>
  /\ StopUnchanged

CleanupNext ==
  \/ Cleanup \/ ServerDrained \/ ForceClose \/ DrainNext \/ OwnerCloses
  \/ Dispose \/ Disposed \/ DisposalFails \/ OwnerClosed

-----------------------------------------------------------------------------
(* The process                                                             *)

ProcessUnchanged ==
  UNCHANGED <<startupVars, server, requestVars, workerVars, stopVars, ownerVars>>

\* A failed startup takes its handlers off, so that a signal kills.
Signal ==
  /\ exit = "none"
  /\ signals < MaxSignals
  /\ signals' = signals + 1
  /\ exit' = CASE startup = "failing" -> "killed"
               [] startup # "failing" /\ signals > 0 -> "failure"
               [] OTHER -> "none"
  /\ ProcessUnchanged

\* The signal handler, or the startup that failed, sees cleanup() through.
Exit ==
  /\ exit = "none"
  /\ stop \in {"done", "failed"}
  /\ exit' = IF stop = "done" /\ signals > 0 THEN "success" ELSE "failure"
  /\ UNCHANGED signals
  /\ ProcessUnchanged

\* Ten seconds after the signal, or after startup failed.
Deadline ==
  /\ exit = "none"
  /\ signals > 0 \/ startup = "failing"
  /\ exit' = "failure"
  /\ UNCHANGED signals
  /\ ProcessUnchanged

ProcessNext == Signal \/ Exit \/ Deadline

ServerNext ==
  \/ StartupNext
  \/ \E r \in Requests : RequestNext(r)
  \/ WorkerNext
  \/ CleanupNext
  \/ ProcessNext

ServerSpec == ServerInit /\ [][ServerNext]_serverVars

\* What startup, handlers, resolvers and the worker do ends; timers fire.
\* Clients need not read or leave, and the ten-second deadline is not used.
ServerFairSpec ==
  /\ ServerSpec
  /\ WF_serverVars(StartupNext)
  /\ WF_serverVars(CleanupNext)
  /\ WF_serverVars(WorkerHandles)
  /\ WF_serverVars(WorkerEnds)
  /\ \A r \in Requests :
       /\ WF_serverVars(HandlerSettles(r))
       /\ WF_serverVars(ResolverSettles(r))
       /\ WF_serverVars(FetchSettles(r))

-----------------------------------------------------------------------------
(* Properties                                                              *)

\* No startup step, worker, request or resolver that the registry admitted
\* runs once the owned resources are being closed, whatever was registered
\* while it drained.  Pages stream beyond their request and are excepted.
WorkEndsFirst ==
  owner.at # "open" =>
    /\ startup \notin Steps
    /\ worker \in {"none", "ended"}
    /\ \A r \in Requests :
         request[r] # "handling" /\ (resolver[r] = "running" => r \in Pages)

\* However cleanups fail, every resource startup registered is closed, each
\* once, after everything registered later; only then has cleanup() ended,
\* and success is reported only if nothing failed.
ClosedInReverse ==
  /\ \A i \in DOMAIN closed : closed[i] = acquired[Len(acquired) + 1 - i]
  /\ stop \in {"done", "failed"} => Len(closed) = Len(acquired)
  /\ exit = "success" => Len(closed) = Len(acquired) /\ errors = {}

\* cleanup() keeps both orders: work before resources, and resources from the
\* last registered to the first.
ShutdownKeepsOrder == WorkEndsFirst /\ ClosedInReverse

\* What runtime-lifecycle.md says: GraphQL resolvers are drained before owned
\* resources are closed, those of a page that still streams included.
ResolversEndFirst ==
  "store" \in {closed[i] : i \in DOMAIN closed} =>
    \A r \in Requests : resolver[r] # "running"

\* Once cleanup() began it ends, without the ten-second deadline: the worker
\* wakes up, and clients that stay are dropped.
CleanupEnds == stop # "none" ~> stop \in {"done", "failed"} \/ exit # "none"
=============================================================================
