--------------------------- MODULE InboundDelivery ---------------------------
(***************************************************************************)
(* The life of an inbound delivery observation, from the inbox request to   *)
(* the row, the link and the receipts that let an instance read what it     *)
(* received.  Two parties write the row of one request without waiting for  *)
(* each other: the recorder, which wraps the federation's HTTP surface      *)
(* (federation activity-delivery/inbound.ts), and the queue worker that     *)
(* runs the inbox listener for the message the request enqueued             *)
(* (activity-delivery/queue.ts).  They meet through the delivery ID the     *)
(* recorder chose before it called the federation, and through two marks    *)
(* the worker leaves in the key-value store for a row not written yet.      *)
(*                                                                         *)
(* Every request carries the same activity IRI.  What differs, and what the *)
(* properties tell apart, is the document each carries and the object each  *)
(* listener fetches.  One database transaction is one step: the first       *)
(* statement of each takes the lock of the delivery's row, or, to store an  *)
(* activity, of its registered IRIs, and holds it to the commit.            *)
(***************************************************************************)
EXTENDS Naturals

CONSTANTS
  Deliveries,   \* inbox requests, named by the delivery ID chosen for each
  Payloads,     \* documents a request may carry for the activity IRI
  ObjectDocs,   \* documents the object's IRI may serve, fetch after fetch
  Embedding,    \* payloads whose embedded object needs no fetch
  Unstorable,   \* documents jsonb cannot hold
  MaxRuns,      \* listener runs of one message: the first and its retries
  Queued,       \* deliveries to a federation with an inbox queue
  Fallible,     \* deliveries whose bookkeeping may fail or be killed
  MaxDeletions, \* bound on deletions of typed rows
  None          \* no document

ASSUME InboundAssumption ==
  /\ Embedding \subseteq Payloads
  /\ Unstorable \subseteq Payloads \union ObjectDocs
  /\ MaxRuns \in Nat \ {0}
  /\ Queued \subseteq Deliveries
  /\ Fallible \subseteq Deliveries
  /\ MaxDeletions \in Nat
  /\ None \notin Payloads \union ObjectDocs \union Deliveries

VARIABLES
  request,    \* the recorder's call for each request
  run,        \* the listener runs of each request's message
  row,        \* activity_deliveries
  receipts,   \* revision_receipts, the roles kept for each delivery
  received,   \* key-value marks: the listener ran
  left,       \* key-value marks: the object the listener fetched
  activity,   \* the document of the typed activities row, or None
  object,     \* the typed objects row
  revision,   \* the first retained revision of the activity and the object
  seen,       \* whether Fedify remembers having processed the activity
  deletions,  \* how many typed rows were deleted
  faulty,     \* history: deliveries whose bookkeeping failed once
  witnessed,  \* history: deliveries handled while the activity was stored
  storer      \* history: the delivery whose listener stored the activity

vars == <<request, run, row, receipts, received, left, activity, object,
          revision, seen, deletions, faulty, witnessed, storer>>

store == <<activity, object, revision>>
marks == <<received, left>>
history == <<faulty, witnessed, storer>>

Docs == Payloads \union ObjectDocs
Runs == 1 .. MaxRuns
Roles == {"activity", "object"}
Statuses == {"unrecorded", "received", "acknowledged", "unverified", "rejected"}

\* Where a recorder stands: which of its awaits it is about to make.
RequestPoints == {"expected", "answering", "record", "lookReceived", "receive",
                  "lookFetched", "fetched", "link", "done"}
\* Where a worker stands with one message.
RunPoints == {"none", "queued", "load", "store", "mark", "receive", "leave",
              "recordObject", "link", "done"}

Expected == [at |-> "expected", payload |-> None, accepted |-> FALSE,
             verified |-> FALSE, handled |-> FALSE, fetched |-> None,
             found |-> None]
NoRun == [at |-> "none", handled |-> FALSE, fetched |-> None]
Unrecorded == [status |-> "unrecorded", verified |-> FALSE, payload |-> None,
               fetchedObject |-> None, linked |-> FALSE,
               carriedSnapshot |-> FALSE, carriedObjectSnapshot |-> FALSE]
NoObject == [document |-> None, fetched |-> FALSE, carrier |-> FALSE]

\* jsonb() and storedObject(): a document jsonb refuses is stored as SQL NULL.
Stored(document) == IF document \in Unstorable THEN None ELSE document

\* Another activity may have carried the object before; the object then keeps
\* that carrier, and its first revision was retained with it.
Init ==
  /\ request = [d \in Deliveries |-> Expected]
  /\ run = [d \in Deliveries |-> [n \in Runs |-> NoRun]]
  /\ row = [d \in Deliveries |-> Unrecorded]
  /\ receipts = [d \in Deliveries |-> {}]
  /\ received = {}
  /\ left = [d \in Deliveries |-> None]
  /\ activity = None
  /\ \/ /\ object = NoObject
        /\ revision = [activity |-> None, object |-> None]
     \/ \E doc \in ObjectDocs :
          /\ object = [document |-> doc, fetched |-> TRUE, carrier |-> FALSE]
          /\ revision = [activity |-> None, object |-> doc]
  /\ seen = FALSE
  /\ deletions = 0
  /\ faulty = {}
  /\ witnessed = {}
  /\ storer = None

-----------------------------------------------------------------------------
(* What a delivery carried.                                                *)

CarriesActivity(r) == r.payload # None /\ r.payload = activity

CarriesObject(r) ==
  /\ CarriesActivity(r)
  /\ object.document # None
  /\ object.carrier
  /\ object.fetched => /\ r.fetchedObject # None
                       /\ r.fetchedObject = object.document

\* The receipts name the first revisions, and only while those still are what
\* the typed rows hold.
ReceiptsOf(r) ==
  IF CarriesActivity(r) /\ revision.activity = activity
  THEN {"activity"} \union
       {role \in {"object"} : /\ CarriesObject(r)
                              /\ revision.object = object.document}
  ELSE {}

\* decideCarried() on the row r of delivery d, which this transaction locked.
DecideCarried(d, r) ==
  IF r.linked
  THEN /\ row' = [row EXCEPT ![d] =
                    [r EXCEPT !.carriedSnapshot = CarriesActivity(r),
                              !.carriedObjectSnapshot = CarriesObject(r)]]
       /\ receipts' = [receipts EXCEPT ![d] = ReceiptsOf(r)]
  ELSE /\ row' = [row EXCEPT ![d] = r]
       /\ receipts' = [receipts EXCEPT ![d] = {}]

Linkable(d) ==
  /\ row[d].status \in {"received", "acknowledged"}
  /\ row[d].verified
  /\ ~row[d].linked
  /\ activity # None

\* Mutant: the link is made but nothing decided with it.
LinkUndecided(d) ==
  IF Linkable(d)
  THEN row' = [row EXCEPT ![d].linked = TRUE] /\ UNCHANGED receipts
  ELSE UNCHANGED <<row, receipts>>

LinkInboundActivity(d) ==
  IF Linkable(d)
  THEN DecideCarried(d, [row[d] EXCEPT !.linked = TRUE])
  ELSE UNCHANGED <<row, receipts>>

\* Mutant: the fetched object is upserted with a fresh acknowledged row.
RecordFetchedObjectAnew(d, document) ==
  DecideCarried(d, [row[d] EXCEPT !.fetchedObject = Stored(document),
                                  !.status = "acknowledged"])

RecordFetchedObject(d, document) ==
  IF row[d].status # "unrecorded"
  THEN DecideCarried(d, [row[d] EXCEPT !.fetchedObject = Stored(document)])
  ELSE UNCHANGED <<row, receipts>>

ReceiveInbound(d) ==
  /\ row' = IF row[d].status = "acknowledged"
            THEN [row EXCEPT ![d].status = "received"] ELSE row
  /\ UNCHANGED receipts

-----------------------------------------------------------------------------
(* The request, up to Fedify's answer.                                     *)

Answered(d, payload, verified, accepted) ==
  request' = [request EXCEPT ![d] =
                [Expected EXCEPT !.at = "record", !.payload = payload,
                                 !.verified = verified, !.accepted = accepted]]

\* Fedify answers with an error: a signature it does not accept, or a verified
\* activity it refuses.
Refuse(d, payload, verified) ==
  /\ request[d].at = "expected"
  /\ Answered(d, payload, verified, FALSE)
  /\ UNCHANGED <<run, row, receipts, marks, store, seen, deletions, history>>

Witness(d) ==
  witnessed' = IF activity' # None THEN witnessed \union {d} ELSE witnessed

\* Fedify answers 2xx for an activity it remembers, without a message.
AcknowledgeDuplicate(d, payload, verified) ==
  /\ request[d].at = "expected"
  /\ seen
  /\ Answered(d, payload, verified, TRUE)
  /\ UNCHANGED <<run, row, receipts, marks, store, seen, deletions,
                 faulty, storer>>
  /\ Witness(d)

\* Fedify accepts the activity: with a queue it enqueues a message naming the
\* delivery and answers; without one it runs the listener first.
Accept(d, payload, verified) ==
  /\ request[d].at = "expected"
  /\ IF d \in Queued
     THEN /\ Answered(d, payload, verified, TRUE)
          /\ run' = [run EXCEPT ![d][1].at = "queued"]
     ELSE /\ request' = [request EXCEPT ![d] =
                [Expected EXCEPT !.at = "answering", !.payload = payload,
                                 !.verified = verified]]
          /\ run' = [run EXCEPT ![d][1].at = "load"]
  /\ UNCHANGED <<row, receipts, marks, store, seen, deletions, history>>

-----------------------------------------------------------------------------
(* The inbox listener, persistCreate(), in a worker or inside the request.  *)

\* Where handleInbox() goes once the handler returned.
Report(handled, fetched) ==
  IF handled THEN "mark" ELSE IF fetched # None THEN "leave" ELSE "link"

\* The handler is over.  A listener that threw is not reported as handled, and
\* Fedify enqueues a retry, tagged with the same delivery, from inside the run;
\* without a queue it answers 500 instead.
Return(d, n, handled, threw) ==
  LET fetched == run[d][n].fetched IN
  IF d \in Queued
  THEN /\ run' = [run EXCEPT ![d] = [m \in Runs |->
                    CASE m = n -> [at |-> Report(handled, fetched),
                                   handled |-> handled, fetched |-> fetched]
                      [] m = n + 1 /\ threw -> [NoRun EXCEPT !.at = "queued"]
                      [] OTHER -> run[d][m]]]
       /\ UNCHANGED request
  ELSE /\ run' = [run EXCEPT ![d][n] = [at |-> "done", handled |-> handled,
                                        fetched |-> fetched]]
       /\ request' = [request EXCEPT ![d] =
                        [@ EXCEPT !.at = "record", !.accepted = ~threw,
                                  !.handled = handled, !.fetched = fetched]]

StartRun(d, n) ==
  /\ run[d][n].at = "queued"
  /\ run' = [run EXCEPT ![d][n].at = "load"]
  /\ UNCHANGED <<request, row, receipts, marks, store, seen, deletions, history>>

\* Fedify leaves out the listener of an activity it remembers.
SkipDuplicate(d, n) ==
  /\ run[d][n].at = "queued"
  /\ seen
  /\ Return(d, n, FALSE, FALSE)
  /\ UNCHANGED <<row, receipts, marks, store, seen, deletions, faulty, storer>>
  /\ Witness(d)

\* loadObject(): a fetched object is noted for the delivery before any rule
\* refuses it.
LoadObject(d, n) ==
  /\ run[d][n].at = "load"
  /\ IF request[d].payload \in Embedding
     THEN run' = [run EXCEPT ![d][n].at = "store"]
     ELSE \E doc \in ObjectDocs :
            run' = [run EXCEPT ![d][n] = [@ EXCEPT !.at = "store",
                                                   !.fetched = doc]]
  /\ UNCHANGED <<request, row, receipts, marks, store, seen, deletions, history>>

\* A rule refused the Create, before or after its object was loaded, or the
\* transaction found the activity stored and rolled back: nothing is written,
\* and the listener is done with it all the same.
RefuseCreate(d, n) ==
  /\ run[d][n].at \in {"load", "store"}
  /\ Return(d, n, TRUE, FALSE)
  /\ seen' = TRUE
  /\ UNCHANGED <<row, receipts, marks, store, deletions, faulty, storer>>
  /\ Witness(d)

\* store(): the transaction that stores the activity and, unless another
\* activity carried it before, its object.  A registered activity IRI is never
\* stored again, and a registered object needs its typed row.
StoreCreate(d, n) ==
  LET fetched == run[d][n].fetched
      payload == request[d].payload
      created == [document |-> IF fetched = None THEN payload ELSE fetched,
                  fetched |-> fetched # None, carrier |-> TRUE]
  IN
  /\ run[d][n].at = "store"
  /\ revision.activity = None
  /\ revision.object # None => object.document # None
  /\ activity' = payload
  /\ object' = IF revision.object = None THEN created ELSE object
  /\ revision' = [activity |-> payload, object |-> object'.document]
  /\ Return(d, n, TRUE, FALSE)
  /\ seen' = TRUE
  /\ storer' = d
  /\ UNCHANGED <<row, receipts, marks, deletions, faulty>>
  /\ Witness(d)

\* A database error inside the listener.
ThrowInListener(d, n) ==
  /\ run[d][n].at \in {"load", "store"}
  /\ Return(d, n, FALSE, TRUE)
  /\ UNCHANGED <<row, receipts, marks, store, seen, deletions, history>>

-----------------------------------------------------------------------------
(* The worker's bookkeeping, handleInbox() after the handler.               *)

AfterReceive(d, n) == IF run[d][n].fetched # None THEN "leave" ELSE "link"

RunTo(d, n, from, to) ==
  /\ run[d][n].at = from
  /\ run' = [run EXCEPT ![d][n].at = to]
  /\ UNCHANGED <<request, store, seen, deletions, history>>

\* Mutant: the worker trusts the row to be there and leaves no mark.
WorkerLeavesNoMark(d, n) ==
  /\ RunTo(d, n, "mark", "receive")
  /\ UNCHANGED <<received, left, row, receipts>>

\* receive(): the mark first, for a recorder that has not written the row yet.
WorkerMarks(d, n) ==
  /\ RunTo(d, n, "mark", "receive")
  /\ received' = received \union {d}
  /\ UNCHANGED <<left, row, receipts>>

WorkerReceives(d, n) ==
  /\ RunTo(d, n, "receive", AfterReceive(d, n))
  /\ ReceiveInbound(d)
  /\ UNCHANGED marks

\* fetchObject(): the same order for the fetched object.
WorkerLeavesObject(d, n) ==
  /\ RunTo(d, n, "leave", "recordObject")
  /\ left' = [left EXCEPT ![d] = run[d][n].fetched]
  /\ UNCHANGED <<received, row, receipts>>

WorkerRecordsObject(d, n) ==
  /\ RunTo(d, n, "recordObject", "link")
  /\ RecordFetchedObject(d, run[d][n].fetched)
  /\ UNCHANGED marks

WorkerLinks(d, n) ==
  /\ RunTo(d, n, "link", "done")
  /\ LinkInboundActivity(d)
  /\ UNCHANGED marks

\* Each of receive(), fetchObject() and the link logs its own error and lets
\* the next one run.
WorkerFails(d, n) ==
  /\ d \in Fallible
  /\ \/ /\ run[d][n].at \in {"mark", "receive"}
        /\ run' = [run EXCEPT ![d][n].at = AfterReceive(d, n)]
     \/ /\ run[d][n].at \in {"leave", "recordObject"}
        /\ run' = [run EXCEPT ![d][n].at = "link"]
     \/ /\ run[d][n].at = "link"
        /\ run' = [run EXCEPT ![d][n].at = "done"]
  /\ faulty' = faulty \union {d}
  /\ UNCHANGED <<request, row, receipts, marks, store, seen, deletions,
                 witnessed, storer>>

\* The worker's process dies; an at-least-once queue delivers the message again.
WorkerDies(d, n) ==
  /\ d \in Queued \intersect Fallible
  /\ run[d][n].at \notin {"none", "queued", "done"}
  /\ run' = [run EXCEPT ![d] = [m \in Runs |->
               CASE m = n -> [run[d][m] EXCEPT !.at = "done"]
                 [] m = n + 1 /\ run[d][m].at = "none" ->
                      [NoRun EXCEPT !.at = "queued"]
                 [] OTHER -> run[d][m]]]
  /\ faulty' = faulty \union {d}
  /\ UNCHANGED <<request, row, receipts, marks, store, seen, deletions,
                 witnessed, storer>>

-----------------------------------------------------------------------------
(* The recorder's bookkeeping, record() after Fedify answered.              *)

RequestTo(d, from, to) ==
  /\ request[d].at = from
  /\ request' = [request EXCEPT ![d].at = to]
  /\ UNCHANGED <<run, marks, store, seen, deletions, history>>

ClassifyInbound(q) ==
  IF q.accepted THEN IF q.handled THEN "received" ELSE "acknowledged"
  ELSE IF q.verified THEN "rejected" ELSE "unverified"

\* recordInbound(); only an acknowledged delivery looks for the worker's marks.
RecordInbound(d) ==
  LET q == request[d] IN
  /\ RequestTo(d, "record", IF ClassifyInbound(q) = "acknowledged"
                            THEN "lookReceived" ELSE "link")
  /\ row' = [row EXCEPT ![d] =
               [Unrecorded EXCEPT !.status = ClassifyInbound(q),
                                  !.verified = q.verified,
                                  !.payload = Stored(q.payload),
                                  !.fetchedObject = Stored(q.fetched)]]
  /\ UNCHANGED receipts

\* receivedMeanwhile() reads the mark, then updates the row.
LookReceived(d) ==
  /\ RequestTo(d, "lookReceived",
               IF d \in received THEN "receive" ELSE "lookFetched")
  /\ UNCHANGED <<row, receipts>>

ReceiveMeanwhile(d) ==
  /\ RequestTo(d, "receive", "lookFetched")
  /\ ReceiveInbound(d)

\* Mutant: the recorder never looks for the object the worker left.
LookPast(d) ==
  /\ RequestTo(d, "lookFetched", "link")
  /\ UNCHANGED <<row, receipts>>

\* fetchedMeanwhile() reads the document, then records what it read.
LookFetched(d) ==
  /\ request[d].at = "lookFetched"
  /\ request' = [request EXCEPT ![d] =
       [@ EXCEPT !.at = IF left[d] # None THEN "fetched" ELSE "link",
                 !.found = left[d]]]
  /\ UNCHANGED <<run, row, receipts, marks, store, seen, deletions, history>>

FetchedMeanwhile(d) ==
  /\ RequestTo(d, "fetched", "link")
  /\ RecordFetchedObject(d, request[d].found)

RequestLinks(d) ==
  /\ RequestTo(d, "link", "done")
  /\ LinkInboundActivity(d)

\* The first error ends the recording, and so does the death of the process.
RecorderFails(d) ==
  /\ d \in Fallible
  /\ request[d].at \notin {"expected", "answering", "done"}
  /\ request' = [request EXCEPT ![d].at = "done"]
  /\ faulty' = faulty \union {d}
  /\ UNCHANGED <<run, row, receipts, marks, store, seen, deletions,
                 witnessed, storer>>

-----------------------------------------------------------------------------
(* Typed rows come and go apart from the deliveries that observed them.     *)

\* ON DELETE SET NULL unlinks every delivery, and the trigger on the link
\* removes its receipts; the marks on the row stay.
DeleteActivity ==
  /\ deletions < MaxDeletions
  /\ activity # None
  /\ activity' = None
  /\ row' = [d \in Deliveries |-> [row[d] EXCEPT !.linked = FALSE]]
  /\ receipts' = [d \in Deliveries |->
                    IF row[d].linked THEN {} ELSE receipts[d]]
  /\ deletions' = deletions + 1
  /\ UNCHANGED <<request, run, marks, object, revision, seen, history>>

\* The typed row is stored again for the IRI that stays registered, perhaps
\* with another document.
RestoreActivity(payload) ==
  /\ activity = None
  /\ revision.activity # None
  /\ activity' = payload
  /\ UNCHANGED <<request, run, row, receipts, marks, object, revision, seen,
                 deletions, history>>

\* Mutant: no trigger removes the receipts of a deleted object.
DeleteObjectOnly ==
  /\ deletions < MaxDeletions
  /\ object.document # None
  /\ object' = NoObject
  /\ deletions' = deletions + 1
  /\ UNCHANGED <<request, run, row, receipts, marks, activity, revision, seen,
                 history>>

\* The trigger on objects removes the receipts that name the object.
DeleteObject ==
  /\ deletions < MaxDeletions
  /\ object.document # None
  /\ object' = NoObject
  /\ receipts' = [d \in Deliveries |-> receipts[d] \ {"object"}]
  /\ deletions' = deletions + 1
  /\ UNCHANGED <<request, run, row, marks, activity, revision, seen, history>>

-----------------------------------------------------------------------------
Arrive(d) ==
  \E payload \in Payloads, verified \in BOOLEAN :
    \/ Refuse(d, payload, verified)
    \/ AcknowledgeDuplicate(d, payload, verified)
    \/ Accept(d, payload, verified)

Listener(d, n) ==
  \/ StartRun(d, n)
  \/ SkipDuplicate(d, n)
  \/ LoadObject(d, n)
  \/ RefuseCreate(d, n)
  \/ StoreCreate(d, n)
  \/ ThrowInListener(d, n)

Worker(d, n) ==
  \/ WorkerMarks(d, n)
  \/ WorkerReceives(d, n)
  \/ WorkerLeavesObject(d, n)
  \/ WorkerRecordsObject(d, n)
  \/ WorkerLinks(d, n)

Recorder(d) ==
  \/ RecordInbound(d)
  \/ LookReceived(d)
  \/ ReceiveMeanwhile(d)
  \/ LookFetched(d)
  \/ FetchedMeanwhile(d)
  \/ RequestLinks(d)

Failure(d) ==
  \/ RecorderFails(d)
  \/ \E n \in Runs : WorkerFails(d, n) \/ WorkerDies(d, n)

Deletion ==
  \/ DeleteActivity
  \/ \E payload \in Payloads : RestoreActivity(payload)
  \/ DeleteObject

Next ==
  \/ \E d \in Deliveries :
       \/ Arrive(d)
       \/ \E n \in Runs : Listener(d, n) \/ Worker(d, n)
       \/ Recorder(d)
       \/ Failure(d)
  \/ Deletion

Spec == Init /\ [][Next]_vars

\* The event loop keeps running the continuations of a request it answered and
\* of a message it took, and a queue with a listener hands out its messages.
\* Nothing makes a request arrive, a row be deleted or a step fail.
FairSpec ==
  /\ Spec
  /\ \A d \in Deliveries : WF_vars(Recorder(d))
  /\ \A d \in Deliveries, n \in Runs : WF_vars(Listener(d, n) \/ Worker(d, n))
-----------------------------------------------------------------------------
(* Properties.                                                             *)

DocOrNone == Docs \union {None}

\* Every variable keeps its type; an unrecorded row is exactly Unrecorded, and
\* a run names only points a worker or an inline listener can stand at.
TypeOK ==
  /\ request \in [Deliveries ->
       [at : RequestPoints, payload : Payloads \union {None},
        accepted : BOOLEAN, verified : BOOLEAN, handled : BOOLEAN,
        fetched : ObjectDocs \union {None}, found : ObjectDocs \union {None}]]
  /\ run \in [Deliveries -> [Runs ->
       [at : RunPoints, handled : BOOLEAN, fetched : ObjectDocs \union {None}]]]
  /\ row \in [Deliveries ->
       [status : Statuses, verified : BOOLEAN,
        payload : Payloads \union {None},
        fetchedObject : ObjectDocs \union {None}, linked : BOOLEAN,
        carriedSnapshot : BOOLEAN, carriedObjectSnapshot : BOOLEAN]]
  /\ receipts \in [Deliveries -> SUBSET Roles]
  /\ received \in SUBSET Deliveries
  /\ left \in [Deliveries -> ObjectDocs \union {None}]
  /\ activity \in Payloads \union {None}
  /\ object \in [document : DocOrNone, fetched : BOOLEAN, carrier : BOOLEAN]
  /\ revision \in [activity : Payloads \union {None}, object : DocOrNone]
  /\ seen \in BOOLEAN
  /\ deletions \in 0 .. MaxDeletions
  /\ faulty \in SUBSET Deliveries
  /\ witnessed \in SUBSET Deliveries
  /\ storer \in Deliveries \union {None}

\* A linked delivery claims to have carried the stored activity, or its object,
\* only when what the row itself holds is what is stored, whichever of the two
\* writers linked it, however late the fetched object came and whatever was
\* deleted and stored again in between.  The claim opens the activity and the
\* object to the receiving instance (schema.ts, carriedSnapshot).
MarksAreEvidence ==
  \A d \in Deliveries : row[d].linked =>
    /\ row[d].carriedSnapshot => row[d].payload # None /\ row[d].payload = activity
    /\ row[d].carriedObjectSnapshot /\ object.document # None =>
         /\ row[d].carriedSnapshot
         /\ object.fetched => row[d].fetchedObject = object.document

\* A receipt exists exactly while its delivery is linked and marked, and the
\* first revision it names is still what the typed row holds: no receipt
\* outlives a link, a mark or an object, and none is missing.
ReceiptsFollowMarks ==
  \A d \in Deliveries :
    LET activityKept == /\ row[d].linked
                        /\ row[d].carriedSnapshot
                        /\ revision.activity = activity
    IN /\ "activity" \in receipts[d] <=> activityKept
       /\ "object" \in receipts[d] <=>
            /\ activityKept
            /\ row[d].carriedObjectSnapshot
            /\ object.document # None
            /\ revision.object = object.document

\* Whatever fails and whatever is deleted and stored again, marks are evidence
\* and receipts follow the marks (linkInboundActivity(), recordFetchedObject(),
\* the receipt triggers).
ReceiptsAreJustified == MarksAreEvidence /\ ReceiptsFollowMarks

Quiet(d) ==
  /\ request[d].at = "done"
  /\ \A n \in Runs : run[d][n].at \in {"none", "done"}

Recorded(d) == Quiet(d) /\ d \notin faulty

\* Neither order of recorder and worker loses a reception or invents one: once
\* both are through, a delivery whose listener ran is "received", and no row
\* is ever "received" whose listener ran neither in a run of its own message
\* nor in the request itself.
NoLostReception ==
  \A d \in Deliveries :
    /\ Recorded(d) /\ (\E n \in Runs : run[d][n].handled)
         => row[d].status = "received"
    /\ row[d].status = "received"
         => request[d].handled \/ \E n \in Runs : run[d][n].handled

\* Neither order loses a link: a verified delivery that was handled, or left
\* out as a duplicate, while the activity was stored ends linked to it.
NoLostLink ==
  \A d \in Deliveries :
    /\ Recorded(d)
    /\ d \in witnessed
    /\ row[d].verified
    /\ row[d].status \in {"received", "acknowledged"}
    /\ deletions = 0
    => row[d].linked

\* Neither order of recorder and worker loses a reception or a link
\* (receivedMeanwhile() and linkInboundActivity() of both).
NothingIsLost == NoLostReception /\ NoLostLink

\* The delivery whose own listener stored the activity and the object ends
\* marked as having carried both, so its instance may read them: "when the
\* delivery carried the activity and the object was taken from it, or when its
\* inbox listener fetched the object as stored" (activity-delivery.ts).
StorerCarriedBoth ==
  \A d \in Deliveries :
    /\ Recorded(d)
    /\ d = storer
    /\ row[d].verified
    /\ deletions = 0
    /\ request[d].payload \notin Unstorable
    => /\ row[d].carriedSnapshot
       /\ object.carrier /\ object.document \notin Unstorable
            => row[d].carriedObjectSnapshot

\* The log of deliveries as InboundLifecycle promises it, read off the rows.
Lifecycle == INSTANCE InboundLifecycle WITH
  status   <- [d \in Deliveries |-> row[d].status],
  verified <- [d \in Deliveries |-> row[d].verified],
  payload  <- [d \in Deliveries |-> row[d].payload],
  linked   <- {d \in Deliveries : row[d].linked},
  activity <- activity

\* Recorder and worker together implement that promise: a row is recorded
\* once and its status, payload and link change only as the log allows, in
\* whatever order the two write it and whichever of them fails.
ImplementsLifecycle == Lifecycle!Spec

\* A listener that ran shows on the row in the end, although the recorder and
\* the worker never wait for each other.
HandledIsReceived ==
  \A d \in Deliveries \ Fallible :
    (\E n \in Runs : run[d][n].handled)
      ~> row[d].status = "received"
=============================================================================
