# TLA+ specifications of DrFed

DrFed is a server for developing and debugging ActivityPub implementations. It
hosts local actors on test instances, receives and records what other servers
deliver to them, keeps the history of every object and activity, and lets
members write as their actors. This directory specifies the parts of it whose
correctness depends on the order in which several actors act, or on inputs too
many to write tests for; model-checks them on small instances with TLC; and
proves the most important results for every instance with TLAPS.

Paths below are relative to the repository; `federation/`, `models/`,
`graphql/` and `drfed/` stand for `packages/<name>/src/`.

## Inventory

| Component | State it keeps | Operations | Talks to |
| --- | --- | --- | --- |
| **Inbound delivery observation** (`federation/activity-delivery/{inbound,queue,tracking}.ts`) | the request being answered, a settled-tracking record, two marks in the key-value store | wrap a request, enqueue and handle an inbox message, receive, keep a fetched object, link | Fedify (inbox handler, queue), the delivery store, the inbox listener |
| **Activity delivery store** (`models/activity-delivery.ts`) | `activity_deliveries` and its satellites, `revision_receipts` | recordInbound, receiveInbound, recordFetchedObject, linkInboundActivity, recordOutbound, settleOutbound | PostgreSQL or PGlite |
| **Delivery verification and keys** (`federation/activity-delivery/verification.ts`, `models/key.ts`) | logical keys and their versions | summarize Fedify's report, classify an answer, observe a key version | the delivery store |
| **Inbox persistence** (`federation/inbox-persist.ts`) | typed `activities`, `objects`, `actors` rows of remote origin | persistCreate: load, accept, store | resource registry, revision capture |
| **Resource registry and revision store** (`models/{resource,resource-revision,legacy-resource-revision}.ts`, the triggers in `models/drizzle`) | `resources`, `resource_revisions`, `resource_heads`, typed rows | ensure, lock, promote, append, typed write, capture | every writer of content |
| **Lock order** (`models/{resource,instance}.ts`, `federation/inbox-persist.ts`, `local-write/operation.ts`) | the locks of transactions that write several resources | register, lock in order | PostgreSQL |
| **Local write operations** (`federation/local-write/`) | preview tokens (signed, not stored), actor and outbox locks, outbox items | preview, commit, createObject | revision store, collections |
| **Local write preparation** (`federation/local-write/prepare.ts` and what it calls) | none; reads the object, its colleagues and registered IRIs | prepare a creation, an edit, a deletion; write the typed row of a document | documents, local writes |
| **Documents** (`models/document.ts`) | none | understand a context, validate, preview, prepare | local write preparation |
| **Outbound delivery settlement** (`federation/activity-delivery/{outbound,queue}.ts`) | outbound delivery rows and their attempts | group recipients, record, settle | Fedify's outbox queue |
| **Actor keys and prewarming** (`federation/{actor-key,actor-key-task,task-queue}.ts`) | `local_actor_keys`, shared promises, a bounded in-memory queue | ensure, generate, save, enqueue, listen | Fedify's task dispatch |
| **Runtime lifecycle** (`drfed/{index,operations,resources,runtime-options,database-runtime}.ts`, `web/src/{bridge,runtime}.ts`) | active operations, owned resources, listener state | start, admit, track, drain, close | everything the server runs |
| **Database preparation** (`models/{migration-session,migration-state,migration-snapshot,pglite-preparation,pglite-store}.ts`) | migration lock, history, the PGlite directory's owner | inspect, apply, open, close | the database |
| **Login challenges and sessions** (`models/login.ts`, `graphql/auth/`) | `login_challenges`, `sessions` | request, complete, revoke | mail |
| **GraphQL readers** (`graphql/{readable,builder,resource,object,classification}.ts`) | none of their own | filter, count, page, follow references | typed rows, deliveries, receipts |
| **GraphQL mutations of instances and actors** (`graphql/{instance,actor}.ts`) | instances, memberships, actors | create an instance, generate actors | registry, keys |
| **Federation dispatchers** (`federation/{collection,visibility,object-dispatchers}.ts`) | none | serve actors, objects, collections | typed rows |
| **Mail configuration** (`drfed/{configuration,mail-settings,mail-parser,*-settings,secret-source}.ts`) | none | choose a transport, a credential, a protection | the command line, environment, file |
| **Release scripts** (`scripts/release.mts`, called by the workflow) | npm, image and GitHub state, deployment records | pack, publish, promote, push, attest, release, deploy the documentation | the registries, GitHub |
| **Documentation previews** (`scripts/docs-{preview,deploy}.mts`) | preview deployments, comments | find the pull request, deploy, comment | GitHub, Pages |
| **Mail delivery** (`drfed/{bounded-mail-runtime,resend-runtime,mail-runtime}.ts`) | sends under way, their abort controllers | send, time out, retry, cancel, close | the mail providers' SDKs |
| **HTTP serving, CLI, web front end** | none that several actors share | route, parse, render | the components above |

### What is hard, and what makes each part correct

*Inbound deliveries.* Two parties write one row without waiting for each other.
The recorder chose the delivery ID before it called the federation; a queue
worker may run the listener before the row exists, while it is being written, or
long after. Either may fail at any await; messages are retried and delivered
again; activities and objects are deleted and stored again in between. Correct
means: no reception, link or fetched object is lost to an order; a delivery
never claims to have carried what it did not carry, since the claim opens the
activity to the receiving instance; the receipts follow the claim.

*Revisions.* Several kinds of transaction add to one history, each from a
revision its caller loaded long before. Correct means: no update is lost, a
history only grows and ends with its deletion, and the older typed row says the
same as the newest revision, whatever raced.

*Local writes.* A commit replays values a preview allocated, perhaps twice at
once, perhaps after the member lost the right to write, perhaps after what it
was prepared from changed. Correct means: a token saves at most once, and what
its preview showed; a revocation that came first is seen; an edit, the activity
that announces it and the outbox item exist together, in one order.

*Outbound deliveries.* A call writes its row and sends; with a queue, workers send,
and a retry is enqueued before the failed run has settled. Several rows may be
pending for one activity and inbox, and a message whose call could not write a row
names none. Correct means: a row ends as its delivery did and keeps only its own
attempts; what ended never changes; nothing stays queued.

*Runtime.* Work is admitted, starts more work through an in-process binding, and
outlives its handler while it streams; startup may be interrupted anywhere.
Correct means: work ends before what it uses is closed, everything acquired is
closed once and last first, and cleanup ends whatever clients do.

*Databases.* Programs of several releases open one database, are killed while a
backend still runs their SQL, and are replaced on disk. Correct means: the
history is always one release's, and nobody waits for a lock for ever; a PGlite
directory has one owner, also after a close that failed.

*Locks, keys, logins, limits.* Transactions that write several resources must not
wait in a cycle; everyone who asks for an actor's keys must sign with the stored
pairs; one challenge must open one session; concurrent mutations must not exceed
an instance's room.

*Readers.* Every count, cursor, relation and derived field must filter on its own
what the viewer may not read, and pages are read while rows come and go.

*Documents and settings.* The hazard is the product of independent features:
aliases, lists, nesting and ownership in documents; three sources, five
transports and two credentials in mail settings.

*Mail.* A provider's answer races a timer, a cancellation and the close of the transport,
and a mail whose answer was lost is submitted again. Correct means: it is accepted once,
the caller is told what happened to its send, and closing waits for every send and no
provider.

*Releases.* Jobs fail half way, run again days later and overtake each other on
channels they share. Correct means: a version is built once, a shared tag names
only what is there in full, and no channel goes back.

## Modules

| Module | What it is |
| --- | --- |
| `InboundDelivery` | recorder, listener, worker and deletions around the rows of inbound deliveries |
| `InboundLifecycle` | the abstract log of deliveries that `InboundDelivery` implements |
| `ResourceRevisions` | transactions on the revision store: lock, check, write |
| `RevisionHistory` | the abstract append-only history that `ResourceRevisions` implements |
| `LocalWrites` | previews and commits of one actor; extends `ResourceRevisions` and takes its steps from it |
| `OutboundDelivery` | calls and workers that send, retry and settle outbound deliveries |
| `OutboundLifecycle` | the abstract log of deliveries that `OutboundDelivery` implements |
| `ServerRuntime` | one server process from its start to its exit; composes the operation registry, the resource owner, requests, pages, resolvers and the key worker |
| `LockOrder` | the locks of transactions that write several resources |
| `ActorKeys` | the keys of one actor, asked for by several processes |
| `LoginSessions` | challenges, completions, sessions and their revocation |
| `DatabasePreparation`, `PgliteStores` | programs that prepare one database; processes that own one PGlite directory |
| `ReadableResources` | what viewers are shown of resources that change, and the walks of connections and the outbox |
| `AccountLimits` | mutations that create instances and actors |
| `DeliveryVerification` | reports of signatures, the shown attempt, and key versions |
| `DocumentContexts`, `DocumentPreparation` | a context's terms; validation and preparation of a document |
| `LocalWritePreparation` | what a preview shows and its commit saves |
| `MailConfiguration` | the mail settings three sources give |
| `MailTransport` | sends of mail over HTTP, and the transport's close; extends `MailConfiguration` and holds `MailIsSound`, about both |
| `ReleaseWorkflow`, `DocsDeployment`, `DocsPreviews` | releases, the documentation's site, and its previews |
| `Operations` | what operates the program, side by side: releases, documentation and previews; holds `ReleasesNeverGoBack` |
| `ResourceRevisionsProofs`, `LocalWritesProofs`, `OutboundDeliveryProofs`, `InboundDeliveryProofs`, `ServerRuntimeProofs`, `ConcurrentCallersProofs`, `DocumentProofs`, `OperationsProofs` | theorems and proofs |
| `MC...` | values for TLC |

`MCComponents` checks the thirteen modules that share no state with each other or
with the rest in one run: the variable `part` names the one a behaviour is of, and
the others rest in an initial state, so that the state space is the sum of
theirs and not the product. `MCOperations` does the same with the server process,
releases, documentation and previews.

In each module the definitions marked *Mutant* are plausible mistakes in the
definition they precede; replacing that definition by the mutant makes TLC find
the property they are listed with violated. They play no part in a
specification.

### InboundDelivery

One database transaction is one step: the first statement of each locks the row
it decides about (`decideCarried` takes the delivery `FOR UPDATE` and the object
`FOR KEY SHARE`; `store()` locks the registered IRIs) and holds it to the commit.
Between the awaits of one party everything else may happen.

| State | In the code |
| --- | --- |
| `request[d]` | where `record()` in `inbound.ts` stands and what `trackSettled` gave it |
| `run[d][n]` | the n-th run of the listener for the message of request `d`, inside `handleInbox()` |
| `row`, `receipts` | `activity_deliveries`, `revision_receipts` |
| `received`, `left` | the key-value marks of `receive()` and `fetchObject()` |
| `activity`, `object`, `revision` | the typed rows of the activity IRI and its object, and their first revisions |
| `seen` | Fedify's memory of processed activities |
| `faulty`, `witnessed`, `storer`, `deletions` | history variables of the properties and a bound |

The recorder's actions are `RecordInbound`, `LookReceived`, `ReceiveMeanwhile`,
`LookFetched`, `FetchedMeanwhile`, `RequestLinks`; the worker's `WorkerMarks`,
`WorkerReceives`, `WorkerLeavesObject`, `WorkerRecordsObject`, `WorkerLinks`; the
listener's `LoadObject`, `RefuseCreate`, `StoreCreate`, `ThrowInListener`. A read of a mark
and the update that follows it are two steps, because they are two awaits.
`DecideCarried` is the code's recomputation of what a delivery carried, its
marks and its receipts. `RecorderFails`, `WorkerFails` and `WorkerDies` fail any
bookkeeping step. Payloads and documents are model values that are only
compared; a value of `Unstorable` is what jsonb refuses and is stored as NULL.
`Queued` names the deliveries whose federation has an inbox queue; the others run
the listener inside the request, as the shipped server does.

Fedify itself is external: it answers with an error, answers for a duplicate,
enqueues one message per accepted request, hands messages out at least once and
retries a listener that threw.

### ResourceRevisions

A writer is one transaction of one of three forms: `append`
(`appendResourceRevision`), `typed` (`writeTypedResourceRevision`) and `insert`
(`promoteResource` and the capture of the new typed row). It reads the head long
before (`Call`), takes the resource row's lock (`Lock`), decides from a fresh read
(`Check`) and writes revision, head, kind and typed row (`Write`), where
`GuardsAllow` is what the triggers on `resource_revisions` and
`resource_heads` check once more. Under READ COMMITTED others see all of a
transaction's writes at its commit, so these are one step. `Abort` is any error,
`Rewrite` a change to a typed row outside the API.

Folded: the head's deferred triggers are checked with the writes; the capture
category of a revision, its addressing and its relations are not modelled.

### LocalWrites

Adds the actor's part to `ResourceRevisions`: `Load`, `Allocate`, `Preview` and `Expire` of
a request, `Revoke`, and per commit `Begin` (the token), `LockActor`, `Permit` (a read
after the lock), `Prepare` (unlocked reads), then `LockTarget`, `CheckTarget` and
`Save`, which are the actions `Lock`, `Check` and `Write` of `ResourceRevisions` with
the outbox. Writers that are no commits call the revision API directly and
take no actor lock.

Folded: the outbox's lock is taken only by holders of the actor's lock, and the
dispatch reservation runs in the transaction of the outbox item, so neither has
a step of its own. A create saves one object and its activity; only the
requests of `NewObject` create one. `createObject`
allocates its IRIs under the lock and is never replayed. Registering IRIs that
are only mentioned is not modelled. The clock advances between two allocations.

### OutboundDelivery

Calls of `deliverActivity()` that send one activity to one inbox, one group of
recipients each. `Sends` are numbered by the `created` of their rows, which is
what an unnamed settlement picks by; the rows may be written in any order.

| State | In the code |
| --- | --- |
| `synchronous` | whether the federation is in the `queued` set of `outbound.ts`; fixed |
| `caller[s]` | where the call stands, and what its `settle()` is about to write |
| `rows[s]` | the `activity_deliveries` row and its `activity_delivery_attempts` |
| `task[s][n]` | the n-th handling of the call's message in `handle()`: the delivery it names and the settlements left |
| `ended`, `verdict`, `faulty`, `redeliveries` | history variables of the properties and a bound |

`RecordOutbound`, `SendSynchronously`, `SendThrows`, `SendLeavesOut`, `Enqueue` and
`CallerSettles` are the call; `StartRun`, `RunIsLast`, `RunIsRetried`, `RunThrows` and
`WorkerSettles` a worker; `RecordFails`, `CallerCannotSettle`,
`WorkerCannotSettle` and `Redeliver` what may go wrong. `SettleOutbound` is one
transaction: the candidate rows, the most recent of them, its attempt and its
status. `QueuedSettlements` is the code's translation of what Fedify reported. The
retry is enqueued in the step that ends the handler, before the wrapper settles, as
Fedify does it.

Fedify's outbox worker and the queue are external: it reports success, failure,
giving up and permanent failure in the combinations `queue.test.ts` lists, holds
messages back, and enqueues the retry while it handles the message, after which any free
worker may take it: no delay is assumed to be long enough. The retry policy may give up at any run and
does at the last (`MaxRuns`). A redelivered run does not enqueue a retry while one of the
same number is under way.

### ServerRuntime

JavaScript runs one callback at a time, so a step is what the code does between
two awaits.

| State | In the code |
| --- | --- |
| `startup`, `exit`, `signals` | where `runServer()` stands, how the process ended, the signals it received |
| `aborted`, `drain` | the signal of `OperationRegistry` and what `drain()` awaits |
| `request`, `connected`, `fetch`, `resolver` | requests with their connection, a page's query through the web binding, the GraphQL work |
| `worker`, `messages` | the key worker and its queue |
| `stop`, `force`, `server` | `cleanup()`, its five-second timer, the HTTP server |
| `owner`, `disposing`, `errors` | `ResourceOwner`: the cleanups left, the one that runs, those that failed |
| `acquired`, `closed`, `enqueued` | history variables of the properties and a bound |

`Active` is what the registry holds; it is computed from the states of those who
registered. Startup is one action per step (`PrepareMail` to `Listen`), each
refused once the signal aborted, and `StartupFails`. `Cleanup` aborts, closes the
server to new connections and takes the drain in one go, as `cleanup()` does;
`ServerDrained`, `ForceClose`, `DrainNext`, `OwnerCloses`, `Dispose`, `Disposed`,
`DisposalFails` and `OwnerClosed` are what follows. srvx, Yoga and Nitro are
external.

### LockOrder

`plan[w]` is what a transaction writes, `phase[w]` the part of it that runs, `done[w]`
the IRIs it went through, `held[w]` its locks. `EnsureInstance`, `LockActor`,
`LockActorCollection`, `EnsureResource`, `LockRows`, `LockResource`, `StoreAddressing`,
`AddressResource`, `Commit` and `Rollback` follow `store()` and
`commitLocalWrite()`. A plan says whether the transaction is a reception or a commit, of
which host or actor, and whether an outbox item follows. `ensureRemoteInstance()` holds the place
of its host in the unique index only if it inserts it: receptions from a registered host
(`instances`), or from different ones, run beside each other. `findWritingActor()` locks
the row of one actor, and `lockActorCollection()` that actor's outbox, only if the write
is published: commits of different actors run beside each other. What they then meet on are IRIs.
Inserting the row of an unregistered IRI holds its place in the unique index, so two
transactions that register the same IRIs wait for each other before either has a row to lock.

### ActorKeys

Each process has one operation (`op`) that its callers share; it goes through
`LoadActor`, `ReadKeys`, `Generate`, `LockLocalActor` and `SaveKeys`, and
`OperationFails` at any of them is a database error or the end of the process. A pair
is named by the attempt that generated it. `broken` says that a stored pair does
not sign. `DeleteActor` and `RemoveActor` take the actor's lock. The prewarming queue
may drop what it is given: a dropped task is a caller that has not asked.

### LoginSessions

A login goes through `FindAccount`, `InsertChallenge` and `SendMail`; a completion
through `FindLoginChallenge`, `CompareCodes`, `ConsumeLoginChallenge`, `InsertSession`
and `AnswerSession`. The update that consumes a challenge waits for a transaction
that updated the row and judges what that one leaves. Sessions are loaded into a
request's context, revoked, and expire. Rate limits and the texts of mails are left
out.

### DatabasePreparation and PgliteStores

A program (`prep[p]`) verifies its manifest, acquires the migration lock,
inspects, verifies the snapshot, begins, sends the commit, inspects again and
closes; `Interrupt` destroys its connection while its `backend` goes on, commits or
rolls back, and unlocks later. `ClassifyMigrationHistory` decides what a history
is to a release: the first row that disagrees does. On PGlite, preparations
queue and an abort waits for the SQL. `ReplaceInstallation` changes the SQL files on disk.

`PgliteStores` is the ownership of a data directory: `AcquireLock`, `StartClient`,
`ClientReady`, `CallClose`, `CloseClient`, `CloseLock` and `ExitProcess`, any of
which may fail.

### ReadableResources and AccountLimits

`db` holds the typed rows, the items of a collection, deliveries with their
marks, and memberships. `ReadableActivity`, `ReadableObject` and what builds on
them are the SQL filters of `readable.ts`; the resolvers are operators on `db` and a
viewer. `walk` is a client that reads a collection or the outbox a page at a time;
`ReadPage` answers as `resolveCursorConnection()` does, with PostgreSQL's order of
nulls and the cursor's comparisons, which null does not satisfy. A Create that arrives
for an activity that is stored writes nothing but its delivery's link, and one whose IRI is
registered as something else is refused (`MayBecome`), as `persistCreate()` does.

`AccountLimits` has the statements of the two mutations one by one, the row lock
of `generateActors`, and the counts, which read what is committed. Usernames are drawn
with a retry.

### DeliveryVerification

`report[d]` is what Fedify reported of a request; `Summarize` picks the
attempt a row shows, as `summarizeVerification()` does, and an observation of the key
goes through `InsertKey`, `ReadTime`, `UpsertVersion` and `CommitVersion`, waiting for
another transaction's row. `StoredVersions` are the versions earlier requests may have left: with one
of them the logical key is there, and the transactions of two requests overlap from their first
statement on. Fedify's verification is external; `ReportsOf` samples it.

### Documents: DocumentContexts, DocumentPreparation, LocalWritePreparation

`DocumentContexts` reads the keys of a context in rounds (`VisitName`, `EndRound`)
until nothing is pending or a round brings nothing. `DocumentPreparation` has
two steps, `ValidateDocument` and `PrepareDocument`, over documents of a root and an
embedded child; which property a key means is `PropertyOf`, for which the first
module stands. `LocalWritePreparation` prepares a request twice, for the
preview and for the commit, with the object, its typed row and addressing, the
colleagues and the registered IRIs as they are by then; the commit is one step, whose
locks `LocalWrites` has.

### MailConfiguration

`given` is what the command line, the environment and the file give, each value with
the rank of its source; `ResolveMailSettings` is the whole resolution, including the
refusals and the report of ignored settings.

### MailTransport

| State | Code |
| --- | --- |
| `sends` | one call of `send()`: where it is, its attempts, the reason its controller was aborted with, whether its caller cancelled it, what the SDK returned and what it was answered |
| `wire`, `taken` | the keys a mail was submitted under, and those the provider accepted; both external |
| `runtime` | `closing` of the transport and of `createMailRuntime`, and the promises `allSettled` awaits |

`SendMessage` to `AnswerSend` are `send()` of `bounded-mail-runtime.ts`, with the key and the
retries of `resend-runtime.ts`; the other providers have one attempt. `DeliveryTimesOut` is the
timer, `CancelSend` the caller's signal. `CloseRuntime`, `DisposeTransport`, `AbortSends`,
`SendsEnded` and `DisposeSdk` are the two memoized closes, one action per promise they go on
in. An SDK answers or fails whenever it likes, also after it was aborted, and a request may
arrive after its sender gave up. `Quiet` keeps timers and the network from coming between
promises that are ready.

### Releases: ReleaseWorkflow, DocsDeployment, DocsPreviews

A job is a sequence of steps as `.github/workflows/main.yaml` calls
`release.mts`: `PackArtifacts`; `Preflight`, `PublishOne`, `ReadTags`,
`PromotePackage`, `EndPublish`; `ImagePush`, `AttestImage`, `VerifyAttestation`,
`ImageTags`, `CheckAnonymousPull`; `CreateRelease`, `UploadAsset`, `AssetsUploaded`.
Each may fail after its effect or before, a build's jobs are run again, artifacts expire
and Git tags move. `DocsDeployment` posts an intent, uploads and records, and settles what
an earlier job left; `DocsPreviews` has the jobs of a pull request. The registries,
GitHub and Pages are external.

## Runs

| Run | Question | Bounds and why they are enough |
| --- | --- | --- |
| `InboundQueued` | does any order of recorder and worker lose something? | two deliveries (a pair is what competes for one activity), which differ in nothing but their names, hence symmetry; a payload that embeds its object and one that refers to it, an object served in two versions; one run per message, no failures, since the property speaks of deliveries whose bookkeeping worked |
| `InboundFailures` | do marks and receipts stay justified, and does a row follow the log's life cycle, when everything fails and rows come and go? | one delivery (rows do not share state), its message retried once, a storable and an unstorable payload, one deletion followed by storing again, every bookkeeping step may fail |
| `InboundMixed` | does a reception show in the end, with the listener inside the request too? | one delivery of each mode |
| `InboundRetried` | does the guarantee of `InboundQueued` survive a retry? | one delivery, two runs; **violated**, see below |
| `RevisionRaces` | can racing transactions lose an update, break a history, or block? | three writers of any form on one resource and one rewrite: enough for insert, edit and deletion, or for two writers between another's read and write |
| `LocalWriteRaces` | does a token save twice, or a revoked member at all? | a request that creates the object, one that edits or deletes it with its token committed twice, a direct caller and one foreign rewrite of the row: the object exists when the others begin, so the direct caller may change it between a commit's preparation and its lock, or hold it while a commit waits with the actor's lock |
| `LocalWriteChanges` | do history, timestamps and outbox agree? | three requests of different operations on up to three objects |
| `OutboundDeliveries` | do rows keep their own attempts, end as the delivery did, and follow the log's life cycle? | two sends (a message that names no row may settle the other's), one retry each, two workers so that runs overlap, with and without a queue; the bookkeeping of one send may fail anywhere and one message is handled again |
| `OutboundOvertaken` | is every attempt that ended kept? | one send, one retry, two workers, no failures; **violated**, see below |
| `Operations` | does the server close what it opened, after what uses it, and does closing end? Do releases, documentation and previews stay whole and never go back? | the server: an API request and a page that queries the API itself, one key warmup, two signals (the second is the one that is taken differently), steps that fail and cleanups that do not succeed at the ends and in the middle of startup; the others: see below |
| `ServerStreams` | are the resolvers of pages that stream drained too? | the same, in any order; **violated**, see below |
| `Components` | the properties of thirteen modules, each in behaviours of its own | see below |

Bounds of `Components` and `Operations`, by module:

| Module | Bounds and why they are enough |
| --- | --- |
| `LockOrder` | three transactions out of four over three IRIs, any of them registered: receptions of a new host and of one that may be registered, commits of two actors, one published. Any two name IRIs in common, so receptions wait for receptions and commits of different actors for each other, on rows and on unique indexes, and three may wait in a chain, which IRIs taken in another order close to a cycle of two or three. Writers are interchangeable, so only plans in ascending order are tried |
| `ActorKeys` | three callers in two processes, two attempts: sharing in one, a race with the other |
| `LoginSessions` | one challenge, two completions, one bearer, a lifetime of one tick: the property is about one challenge |
| `DatabasePreparation` | a release, its successor and a fork, both databases: every relation two releases can have |
| `PgliteStores` | three processes: an owner, one that waits, one that comes after |
| `ReleaseWorkflow` | two builds of two packages on the channel `latest`, five buildings of packages or images, two repetitions or losses; jobs may start and fail at will. Both builds are released to the end in either order, an older one runs again after a newer one half way through, and artifacts that were lost are built anew beside ones that were kept |
| `DocsDeployment`, `DocsPreviews` | three builds and four records; two pull requests, two commits, two jobs |
| `MailConfiguration` | two families of settings (SMTP, and the choice of a transport) over three sources |
| `MailTransport` | two mails, two attempts each: one retry, and a close that finds one send under way and another beginning |
| `DocumentContexts` | every order of three terms that use each other |
| `DocumentPreparation` | notes and links with aliased and repeated fields, activities with an embedded object or actor, three sets of owned fields |
| `LocalWritePreparation` | creations with nested resources, edits and deletions by two accounts, with what they read changing between preview and commit; the object is one with a typed row, in the present or the legacy context (an edit replaces that, a deletion cannot read it), or one without |
| `ReadableResources` | a member of the receiving instance and everybody else, two Creates for one object that deliveries bring differently, a collection of four activities with equal and missing positions and a page of one, so that a walk is under way while rows change |
| `AccountLimits` | two mutations, three usernames, room for two actors: both fit alone and not together |
| `DeliveryVerification` | two deliveries that observe one key, which may have a version already, one of them with any report of up to two attempts by three checks of every outcome |

Deadlock checking is off in all of them: requests, transactions, jobs and clients
end, and nothing makes another begin.

What the properties say:

- *Inbound.* `NothingIsLost` (`NoLostReception`, `NoLostLink`) and
  `StorerCarriedBoth`: no order of the two parties loses a reception, a link or the
  object. `ReceiptsAreJustified`: a mark or receipt exists only while what it says can be
  read off the stored rows. `ImplementsLifecycle`: the log's abstract life cycle is a
  refinement, through failures too. `HandledIsReceived`: a handled delivery becomes
  received.
- *Revisions.* `NoLostUpdate`: every revision was based on the one before it.
  `HistoryWellFormed`, `ImplementsHistory`: histories only grow and end with their
  deletion. `TypedInStep`: typed row and history agree. `NoGuardFires`: what was read
  under the lock holds at the write, so the triggers never refuse. `WritersEnd`.
- *Local writes.* `TokenSavesOnce`, `NoWriteAfterRevocation`, `UpdatedAdvances`,
  `OutboxTellsHistory` (`ChangesAreAnnounced`, `OutboxFollowsHistory`): a commit's effects
  exist once, together and in order. `CommitsAreTransactions`, `CommitsEnd`.
  `PreviewIsSaved`, `SavedIsOwned`: what is saved is what was shown, and says nothing
  in another's name.
- *Outbound.* `AttemptsAreOwn`, `OutcomeIsKept`: whatever order calls, workers and
  retries settle in, a row shows the outcome, and only attempts of its own.
  `ImplementsOutbound`, `QueuedIsSettled`.
- *Server.* `ShutdownKeepsOrder` (`WorkEndsFirst`, `ClosedInReverse`): nothing admitted runs once
  resources are being closed; these close once each, last first, also when some fail.
  `CleanupEnds`: without the deadline.
- *Transactions of several rows.* `NoWaitCycle`; `AnswersAreSaved`: callers sign
  with the pairs that are stored; `OneSessionPerChallenge`; `ActorsWithinLimit`.
- *Databases.* `HistoryIsOneRelease`, `EveryCallEnds` (`PreparationEnds`): every program that opens
  the database is answered; `DirectoryHasOneOwner`.
- *Readers.* `HiddenTellsNothing`: a viewer is told what it would be told if the rows it may
  not read did not exist. `WalksAreComplete`: pages list what could be read all
  along, in order, once. `RowsTellTheVerification`: a row says verified exactly if what it
  shows was.
- *Documents and settings.* `ContextIsOrderFree`: the order of keys has no meaning.
  `PreviewIsFinal`: the preview is what is published. `MailIsSound` is two: `MailFollowsSources`, no
  password without TLS, no two credentials of one source, and what is reported as ignored
  plays no part; and `SendsSettle`, about the sends of mail: accepted once, answered with what
  happened, and the SDK disposed of when no send uses it. `EveryCallEnds` (`SendsEnd`): sends
  are answered and a close ends without any provider's answer.
- *Releases.* `BuildsAreWhole`: what is found under a version was built once and is
  all there. `ReleasesNeverGoBack`: no channel, site or preview does.

### Findings

`InboundRetried` finds a delivery whose listener stored the object it fetched and
which is still marked as not having carried it. A first run fetches version 1,
leaves it in the key-value store and throws; the recorder reads that mark
(`fetchedMeanwhile`, `queue.ts:319`); the retry fetches version 2, stores it and
records version 2 on the row; the recorder then records the version 1 it had
read. `decideCarried` documents that the object is carried "when its inbox
listener fetched the object as stored" (`models/activity-delivery.ts:296`).
The instance that received the activity then cannot read its object.

`OutboundOvertaken` finds an attempt that is not kept. A run fails and Fedify
enqueues the retry while handling it; a second worker runs and settles the retry
before the first worker's `settleQueued()` reaches the database; the row is then
terminal, `settleOutbound` finds no pending row and drops the failed attempt. The
documentation says "Each attempt that ends is kept in `activity_delivery_attempts`"
(`docs/internals/activity-deliveries.md:30`). It needs a queue that handles messages
in parallel and a settlement slower than the retry's delay. The status is right all
the same (`OutcomeIsKept`).

`ServerStreams` finds a resolver that runs while the store is closed. A page's
handler settles as soon as it returns its stream, so nothing of the request is active any
more although the page still renders; `drain()` returns, and a query the rendering
then makes through the web binding enters the registry after it, while
`owner.close()` already closes the store under the resolver. The documentation says that
shutdown drains "active requests, GraphQL resolvers and the task worker, then close owned
resources in reverse order" (`docs/internals/runtime-lifecycle.md:11-14`,
`drfed/operations.ts:75`). The query fails; nothing is corrupted, and cleanup ends.

### Fairness

`FairSpec` of `InboundDelivery` is weak fairness of each recorder and each
listener run with its bookkeeping: the event loop runs the continuations of a
request it answered and of a message it took, and a queue with a listener hands
out its messages. Arrivals, deletions and failures have none, and the liveness property
excludes deliveries that may fail. `FairSpec` of `ResourceRevisions` and
`LocalFairSpec` are weak fairness of each transaction that began: the database hands a
lock on when its holder ends. It is weak, not strong, so the properties show too
that nobody is overtaken forever with finitely many writers. `FairSpec` of
`OutboundDelivery` only says that calls and workers do not all stop while one of
them can go on; every call and message ends, so `QueuedIsSettled` needs no more.

`ServerFairSpec` (which `MCOperations` repeats for the behaviours of the server): startup steps, the steps of cleanup with its five-second timer, the
worker, handlers, resolvers and in-process fetches end. Clients need not read what is
sent to them or leave, and the ten-second deadline is not used, so `CleanupEnds` shows that
cleanup does not depend on either. `PrepFairness`: each program goes on with its next step, and
the deadline of one that waits for the lock fires; the backend that holds the lock need never
give it up. `TransportFairness`: promises and timers have their turn, and an SDK ends what was
aborted; no provider need accept or answer.

## Proofs

`ResourceRevisionsProofs`, for any resources, writers and number of rewrites:

- The inductive invariant `Inv` adds to `TypeOK`, `HeadIsLatest`, `NoLostUpdate` and
  `HistoryWellFormed` that a transaction past its check holds its lock, that what it read is
  current and still admitted (`ReadsStayCurrent`), and that no transaction was refused by
  a guard. Without the last three the write step could append to a head someone else moved.
- From it: `TypeCorrectness`, `UpdatesAreKept`, `HistoriesAreWellFormed`,
  `TriggersNeverRefuse`. `TypedRowsStayInStep` is a second invariant on
  top of it, and `HistoriesImplement` the refinement of `RevisionHistory`: a `Write`
  that saves is `Save` or `Delete` of the abstract history, every other step a stutter.

`LocalWritesProofs`, for any requests, commits and direct callers:

- `CommitsImplement`: each step of a commit is a step of `ResourceRevisions` or leaves
  its variables alone, so every theorem above holds of local writes too
  (`LocalWritesKeepStep`). It needs the invariant that the revision a client loaded is not
  newer than the head, and that a `Prepare` which passed found it current.
- `TokensSaveOnce`: a request that saved an object has its change in that object's
  history at the sequence after the one it expected; a second commit of
  the same token expects a revision that is no longer the head. The invariant relates
  the saved requests, the history and the commits under way.
- `RevocationIsSeen`: a commit that got the lock after the revocation never
  leaves `permit` but to its end.
- `StampsAdvance` and `OutboxIsTrue` rest on `TellsOK`: what a commit's transaction asks for is
  what its request names (`WritesOK`), a preview's timestamp is later than those of the revisions
  its client knew (`StampsOK`; nothing is known of the others, but a commit whose client did not
  know them saves nothing), nobody else can name the object a request is about to create
  (`UnsavedOK`), and what is announced was asked for (`AnnouncedOK`).

`OutboundDeliveryProofs`, for any sends, runs, workers and redeliveries:

- A row changes in only two ways: it is recorded, or a transaction settles a pending
  one with one of four settlements (`RowStep`). The inductive invariant `OInv` adds to
  types and `StatusShowsAttempts` that who is settling has something to settle, and
  that a call before its record has neither row nor message; without the latter a second record could
  reset a row.
- From it: `OutboundTypeCorrectness`, `StatusesShowAttempts`, and `DeliveriesImplement`, the
  refinement of `OutboundLifecycle`.
- `AttemptsStayOwn` needs `OwnersOK` besides: whoever is about to settle names its own
  row or has none, and what it is about to write did end that way; and a call that went on without a row
  never gets one.
- `OutcomesAreKept` needs `OutcomesOK`: as long as every call could write its row, the runs of a
  send's message are a chain of which all but the last failed and were retried, and the last either
  has yet to settle what it ended with or has done so. A run before it that settles late finds the row
  terminal or adds a failed attempt, and neither changes the status the last one leaves.

`InboundDeliveryProofs`, for any deliveries, payloads, documents, retries and failures:

- `DInv` (`InboundTypeCorrectness`) says of every delivery where its recorder and its runs are
  and what each has still to do (`DeliveryOK`). `NothingStaysLost` follows: a worker past its mark has left
  it, and a row it found missing is of a recorder that will yet look for the mark, whichever of the
  two was first; and for links (`LInv`), that of the recorder and the worker whoever links
  last finds both the row and the activity (`LeavesOpen`, `WitnessOK`).
- `ReceiptsStayJustified` (`JInv`) adds what is stored: only a typed activity is linked, and a
  typed activity has a first revision. `DecideCarried` recomputes marks and receipts from that, and a
  deletion takes with it what it makes unreadable.
- `InboundRefinesLifecycle`: a transaction changes a row in one of a few ways (`Writes`), and each is a step
  of `InboundLifecycle` or a stutter.
- `OnceHandedOutCarriesBoth` (`CInv`), for any number of runs: as long as a message was handed out once,
  the mark of the fetched object is what its one run fetched, the recorder can have found nothing
  else, and a row that neither party has yet to write shows both it and the payload (`Carried`). Every
  transaction that touches a linked row decides its marks (`MarksOK`), and what is stored is what the
  listener that stored it had fetched, until something is deleted (`StorerOK`). `StorerCarriesBoth` is
  `StorerCarriedBoth` for `MaxRuns = 1`; with retries the code breaks it, as `InboundRetried` shows.

`ServerRuntimeProofs`, for any requests, pages, faults and signals: `OrderIsKept`. `RInv` is
four facts. The signal is aborted first, then the drain ends, then the owner closes (`StagesOK`).
Once the drain has ended, no work it waited for is active and none can begin (`WorkOK`): every
way to begin either looks at the signal or starts from work that is active. What is left to
close, what is being closed and what is closed are together what was acquired, in its order
(`OwnerOK`), however many cleanups fail. And success is decided only after the owner closed
without errors (`OutcomeOK`).

`ConcurrentCallersProofs` has one section for each of six components that share nothing:

- *LockOrder*, for any transactions, hosts, local actors and any finite number of IRIs:
  `NobodyWaitsForever`, that transactions never wait in a cycle, however many receptions and
  commits hold locks beside each other. Locks are ranked by class (instance or actor, of whatever
  host or name, outbox, unique index, row) and then by IRI. The invariant `LockInv` says what a transaction may hold in each
  phase and that it went through its IRIs in ascending order; so whoever may wait asks for a lock
  ranked above all it holds (`Ascending`). Of any transactions that wait, take the one that asks
  for the highest rank: what it waits for is held by none of the others that wait, or that one would
  ask for something higher still.
- *ActorKeys*, for any callers, processes, algorithms and attempts: `AnswersAreWhatIsSaved`.
  `KInv` adds that an operation which is about to save knows of every type either that it is missing
  or that it is stored, and that it holds the actor's row. Without it an answer read back could be
  incomplete for a live actor. `PairsAreFinal`: no step replaces a stored pair, nor gives any to
  an actor that was deleted before; for this the operations past their read have found no broken pair.
- *LoginSessions*, for any logins, completions, accounts and lifetime: `SessionsAreSingle`.
  `LInv` adds that a completion about to insert its session is the only one whose update of
  that challenge stands, and found it unconsumed; that every session is of a challenge consumed
  by it; and that every consumed challenge has one.
- *AccountLimits*, for any mutations, instances, usernames and limits: `LimitsHold`. `AInv` adds
  that two mutations never hold the row of one instance, and that what a mutation counted still
  leaves room for what it is about to insert. The sets are finite, so the count of a union of
  disjoint sets is the sum.
- *ReadableResources*, for any databases and anything written to them: `HiddenStaysUntold` needs of a
  database only that carriers of remote objects are activities it has (`DatabaseOK`), which every
  write keeps. The one hard case is a remote object readable through its carrier alone: its carrier
  is then readable, so that leaving out what is hidden leaves it in. `WalksStayComplete` says
  that the items a walk listed stay where they stand (`Extends`), that its cursor is where its last
  page ended, and that whatever it must still list is beyond the cursor (`WalkOK`). It needs
  that `Ordered` enumerates a finite set in the given strict order, proved by counting the items before
  each (`RankIn`), since pages are cut from it.
- *DeliveryVerification*, for any reports that are as Fedify's types say: `RowsStayTrue`. The attempt
  that is selected is one of those a row may show, and vouches for the activity exactly if one of
  them does (`SelectedIsShown`); the check whose key is kept is of that attempt, and verified if it
  did (`SelectedIsChecked`). `VerificationInv` adds that whoever is about to insert has a key,
  that the version it observed stays stored and is only seen later (`Seen`), and from which
  statement a row was recorded.

`DocumentProofs`, over `DocumentPreparation` and `LocalWritePreparation`, for any documents, ownership,
requests, accounts and stored objects:

- `PreviewsAreFinal`. A report of a field depends on the values of a few fields of its node alone, so
  a preview differs from its document only where something was omitted or proposed (`MayChange`): an
  omitted value is a missing one afterwards and gives no report, a proposed one is the server's and is
  well formed, and a field neither touches is reported as before. `DocumentInv` says of
  every answer that it is what the operation computes of the document, the ownership and the authority.
- `TokensSavePreviews` (`WritesInv`). A preview's token binds the request and what was
  allocated for it (`PreviewOK`). A commit prepares again, with the same allocation and whatever is
  stored by then: for a creation the preparation uses neither, for an edit or deletion only the
  target's newest revision, typed row and addressing (`Shown`), and a commit that found another revision
  fails. What a token saved keeps the token from saving again (`SaveOK`).
- `SavesAreOwned` (`SavesInv`). Of a creation: extraction goes from the inner nodes outwards, and a node's
  final document has its own identity, author and time, with the identities of the nodes below it that
  were replaced by references (`IsNewDocument`, `NewDocumentIs`); each saved child is carried by the
  nearest saved node above it (`ParentCarries`). Of an edit or deletion: what is recognized as the
  server's is put back before it is compared (`Faithful`). Both hold of the saves of
  every commit at its time (`SavedAsOwn`), and later writes only add identities that are alive.

`OperationsProofs`, over `Operations`, which puts releases, documentation and previews side by
side, and over the mail modules:

- `VersionsAreWhole` and `ChannelsAdvance`, for any builds and any finite number of packages.
  `RelInv` says that what was published, and what is kept of it, is of one packing (`KeptOK`); what a
  job that passed vouches for, though it runs again (`PassedOK`); what the job that runs has found so
  far (`JobOK`); and what the shared tags name (`TagsOK`). Without `KeptOK` a repeated job could
  publish the second half of a version from another packing.
- `DocsAdvance` (`DocsInv`): what the site serves is named by a deployment record that a later
  job finds, and between a job's intent and its upload nothing newer is served. `PreviewsAdvance`
  (`PreviewInv`): a run past its check shows no more than the commit it found at the head.
  `NothingGoesBack` is the three together.
- `SendsEndAsToldOf` (`SendInv`): an accepted mail is accepted under one key, a caller is told of a
  receipt, a time-out or a close only if that is what ended its send (`SendOK`), and the close awaits every
  send it found (`DrainOK`).
- `MailFollowsAnySources`, for any givens: the rank of a credential is the greatest of its fields' ranks, so the
  chosen one is alone at the highest rank (`Chosen`); and erasing what is reported as ignored only
  lowers ranks that were not chosen, so the same settings result. `MailStaysSound` is both.

At its end, over `PgliteStores` and `DatabasePreparation`, for any processes, programs and
manifests:

- `DirectoriesAreOwned`. From its lock to its database's end a process holds the lock, also when
  closing failed; before and after, its database does not run.
- `OneReleasesHistory` rests on what is known under the migration lock: its holder is the backend that
  took it (`LockOK`), at these points of a preparation it is held (`PointsOK`), and whoever found the
  history to be a beginning of its release's finds it so until it commits the rest (`MigrationOK`), also if
  the program was killed and only its backend goes on. Programs that were told the database
  is ready have their whole release in it (`ReadyOK`).

Assumptions on the constants, each evaluated by TLC in every run of the module that declares it:
`RevisionsAssumption`, `LocalWritesAssumption`, `OutboundAssumption`, `InboundAssumption`,
`ServerAssumption`; `LockAssumption` (IRIs are numbered in the order they sort); `KeyAssumption`,
`LoginAssumption`, `NoRowAssumption` and `OwnersAssumption` (the values that stand for nothing are
not among the others); `LimitsAssumption` (usernames are finitely many, requests and initial instances well
formed); `PreparationAssumption` (a release's migrations are strictly increasing, as
`parseMigrationManifest()` accepts no others); `ReadingAssumption` and `DatabasesAssumption` (what the foreign keys
say of the rows a reader starts from); `VerificationAssumption` and `ReportsAssumption` (what Fedify's
types say: a verified attempt has a verified check, a refusal has a reason); `ReleaseAssumption` (builds are
numbered, packages are finitely many and published in order), `DocsAssumption`,
`PreviewAssumption`, `MailsAssumption` and `GivensAssumption` (a source gives a text or nothing);
`DocumentAssumption` (documents are JSON, and no two fields the server owns mean the same property of one
node, which `checkServerOwnedField()` refuses) and `WriteAssumption` (requests have the shape of
`LocalWriteRequest`; a stored object has a history, at most one typed row, and the addressing rows of its newest
document, which every version replaces).

Only model-checked: `ContextIsOrderFree`, whose
rounds are a recursive function of the rounds before, so that a proof is an induction over data; and
liveness. Liveness under fairness and ENABLED are out of the prover's reach, as is induction over
data and anything about RECURSIVE operators; none of the modules declares one.

## Not modelled

- *The marks' expiry* (`RECEIVED_TTL`, one hour): steps have no duration.
- *A worker that dies after its listener stored the activity* leaves an
  acknowledged delivery, because the message delivered again is skipped as a
  duplicate. The runs include it; the no-loss properties exclude such deliveries.
- *The second transaction of a permanent failure* (`settleQueued`) may fail and leave a
  row that says failed although nothing will retry; the runs include it, and `OutcomeIsKept`
  excludes sends whose bookkeeping failed.
- *The quota of instances.* `createInstance` counts the account's memberships without a lock.
  `AccountLimits` has its statements; nothing in the repository promises the bound under
  concurrency, so no property states it.
- *Reports.* Fedify's reports are sampled, with one assumption: a request it authenticates while it
  evaluated attempts on the activity itself was authenticated by one of them. The `firstSeen` of a
  key's version may be later than an observation that began earlier, and no property denies it.
- *Documents.* Vocabulary tables, the forms of values and remote contexts are sampled or left
  out; `PropertyOf` is a table of the instance that is checked.
- *HTTP routing, command-line parsing, the web front end, the dispatchers of single actors and
  objects*: sequential or read-only, and better served by the repository's tests.
- *Mail over SMTP and to the log* is not bounded by this code, and the reading of credentials is
  sequential. That mail is sent inside a GraphQL operation, which is drained before the transport
  closes, is `ServerRuntime`'s.
- *SQL isolation below READ COMMITTED's statement snapshots*, connection loss
  other than as a transaction's abort, and PGlite's single connection, which allows fewer
  interleavings than the model.

## Plan

What could come next: a module for the dispatchers of actors and objects beside the outbox that
`ReadableResources` has.
