------------------------ MODULE InboundDeliveryProofs ------------------------
(***************************************************************************)
(* Proofs about InboundDelivery, for any requests, documents, retries and   *)
(* failures.  No reception is lost because a worker past its mark has left  *)
(* it, and a row it found missing belongs to a recorder that will look for  *)
(* the mark, ReceptionOK; no link is lost because whichever of the two      *)
(* links last finds the row and the activity, LeavesOpen.  Marks, receipts  *)
(* and the log follow from the few ways a transaction writes a row, Writes. *)
(* What a delivery carried is shown by its row in the end because the mark  *)
(* of the fetched object and the row follow its one run, Carried.           *)
(***************************************************************************)
EXTENDS InboundDelivery, TLAPS

ObjectOrNone == ObjectDocs \union {None}
PayloadOrNone == Payloads \union {None}
Request == [at : RequestPoints, payload : PayloadOrNone, accepted : BOOLEAN,
            verified : BOOLEAN, handled : BOOLEAN, fetched : ObjectOrNone,
            found : ObjectOrNone]
Run == [at : RunPoints, handled : BOOLEAN, fetched : ObjectOrNone]
Row == [status : Statuses, verified : BOOLEAN, payload : PayloadOrNone,
        fetchedObject : ObjectOrNone, linked : BOOLEAN,
        carriedSnapshot : BOOLEAN, carriedObjectSnapshot : BOOLEAN]
Revision == [activity : PayloadOrNone, object : DocOrNone]
TypedObject == [document : DocOrNone, fetched : BOOLEAN, carrier : BOOLEAN]

LEMMA TypeIs ==
  TypeOK <=>
    /\ request \in [Deliveries -> Request]
    /\ run \in [Deliveries -> [Runs -> Run]]
    /\ row \in [Deliveries -> Row]
    /\ receipts \in [Deliveries -> SUBSET Roles]
    /\ received \in SUBSET Deliveries
    /\ left \in [Deliveries -> ObjectOrNone]
    /\ activity \in PayloadOrNone
    /\ object \in TypedObject
    /\ revision \in Revision
    /\ seen \in BOOLEAN
    /\ deletions \in 0 .. MaxDeletions
    /\ faulty \in SUBSET Deliveries
    /\ witnessed \in SUBSET Deliveries
    /\ storer \in Deliveries \union {None}
BY DEF TypeOK, Request, Run, Row, Revision, TypedObject, ObjectOrNone, PayloadOrNone

\* What a step leaves of the rest of the type, apart from what it changes.
LEMMA TypeNext ==
  ASSUME request' \in [Deliveries -> Request],
         run' \in [Deliveries -> [Runs -> Run]],
         row' \in [Deliveries -> Row],
         receipts' \in [Deliveries -> SUBSET Roles],
         received' \in SUBSET Deliveries,
         left' \in [Deliveries -> ObjectOrNone],
         activity' \in PayloadOrNone, object' \in TypedObject, revision' \in Revision,
         seen' \in BOOLEAN, deletions' \in 0 .. MaxDeletions,
         faulty' \in SUBSET Deliveries, witnessed' \in SUBSET Deliveries,
         storer' \in Deliveries \union {None}
  PROVE  TypeOK'
BY DEF TypeOK, Request, Run, Row, Revision, TypedObject, ObjectOrNone, PayloadOrNone

-----------------------------------------------------------------------------
(* What is written of a delivery: its row and its receipts.                 *)

\* The recorder's first write of the row of d.
Records(d) ==
  /\ row[d].status = "unrecorded"
  /\ ~row[d].linked
  /\ \E status \in Statuses \ {"unrecorded"}, verified \in BOOLEAN,
        payload \in PayloadOrNone, fetched \in ObjectOrNone :
       /\ status = "rejected" => verified
       /\ status = "unverified" => ~verified
       /\ row' = [row EXCEPT ![d] =
                   [Unrecorded EXCEPT !.status = status, !.verified = verified,
                                      !.payload = payload, !.fetchedObject = fetched]]
  /\ UNCHANGED receipts

\* The ways a transaction writes the row of d and its receipts.
Writes(d) ==
  \/ UNCHANGED <<row, receipts>>
  \/ Records(d)
  \/ ReceiveInbound(d)
  \/ LinkInboundActivity(d)
  \/ \E document \in ObjectOrNone : RecordFetchedObject(d, document)

\* What every write does to the row of d: an unlinked row keeps no receipts.
Written(d, status, linked) ==
  /\ row' \in [Deliveries -> Row]
  /\ receipts' \in [Deliveries -> SUBSET Roles]
  /\ \A e \in Deliveries \ {d} : row'[e] = row[e] /\ receipts'[e] = receipts[e]
  /\ row'[d].status = status
  /\ row'[d].linked = linked

LEMMA StoredType ==
  ASSUME InboundAssumption
  PROVE  /\ \A document \in ObjectOrNone : Stored(document) \in ObjectOrNone
         /\ \A document \in PayloadOrNone : Stored(document) \in PayloadOrNone
BY DEF Stored, ObjectOrNone, PayloadOrNone

LEMMA DecideWrites ==
  ASSUME TypeOK, NEW d \in Deliveries, NEW r \in Row, DecideCarried(d, r)
  PROVE  Written(d, r.status, r.linked)
<1>1. row \in [Deliveries -> Row] /\ receipts \in [Deliveries -> SUBSET Roles]
  BY TypeIs
<1>2. ReceiptsOf(r) \in SUBSET Roles
  BY DEF ReceiptsOf, Roles
<1>3. CASE r.linked
  <2> DEFINE decided == [r EXCEPT !.carriedSnapshot = CarriesActivity(r),
                                  !.carriedObjectSnapshot = CarriesObject(r)]
  <2>1. CarriesActivity(r) \in BOOLEAN /\ CarriesObject(r) \in BOOLEAN
    BY DEF CarriesActivity, CarriesObject
  <2>2. decided \in Row /\ decided.status = r.status /\ decided.linked = r.linked
    BY <2>1 DEF Row
  <2>3. row' = [row EXCEPT ![d] = decided] /\ receipts' = [receipts EXCEPT ![d] = ReceiptsOf(r)]
    BY <1>3 DEF DecideCarried
  <2> HIDE DEF decided
  <2> QED
    BY <1>1, <1>2, <2>2, <2>3 DEF Written
<1>4. CASE ~r.linked
  <2>1. row' = [row EXCEPT ![d] = r] /\ receipts' = [receipts EXCEPT ![d] = {}]
    BY <1>4 DEF DecideCarried
  <2> QED
    BY <1>1, <2>1 DEF Written
<1> QED
  BY <1>3, <1>4

LEMMA UnwrittenRow ==
  ASSUME TypeOK, NEW d \in Deliveries, UNCHANGED <<row, receipts>>
  PROVE  Written(d, row[d].status, row[d].linked)
BY TypeIs DEF Written, Row

LEMMA ReceiveWrites ==
  ASSUME TypeOK, NEW d \in Deliveries, ReceiveInbound(d)
  PROVE  Written(d, IF row[d].status = "acknowledged" THEN "received" ELSE row[d].status,
                 row[d].linked)
<1>1. row \in [Deliveries -> Row] /\ receipts \in [Deliveries -> SUBSET Roles]
  BY TypeIs
<1> QED
  BY <1>1 DEF Written, Row, ReceiveInbound, Statuses

LEMMA LinkWrites ==
  ASSUME TypeOK, NEW d \in Deliveries, LinkInboundActivity(d)
  PROVE  Written(d, row[d].status, row[d].linked \/ Linkable(d))
<1> DEFINE r == [row[d] EXCEPT !.linked = TRUE]
<1>1. row[d] \in Row
  BY TypeIs
<1>2. r \in Row /\ r.status = row[d].status /\ r.linked = TRUE
  BY <1>1 DEF Row
<1>3. CASE Linkable(d)
  <2>1. DecideCarried(d, r)
    BY <1>3 DEF LinkInboundActivity
  <2> HIDE DEF r
  <2>2. Written(d, r.status, r.linked)
    BY <1>2, <2>1, DecideWrites
  <2> QED
    BY <1>2, <1>3, <2>2 DEF Written
<1>4. CASE ~Linkable(d)
  <2>1. Written(d, row[d].status, row[d].linked)
    BY <1>4, UnwrittenRow DEF LinkInboundActivity
  <2>2. row[d].linked \in BOOLEAN
    BY <1>1 DEF Row
  <2> QED
    BY <1>4, <2>1, <2>2
<1> QED
  BY <1>3, <1>4

LEMMA FetchedWrites ==
  ASSUME InboundAssumption, TypeOK, NEW d \in Deliveries, NEW document \in ObjectOrNone,
         RecordFetchedObject(d, document)
  PROVE  Written(d, row[d].status, row[d].linked)
<1> DEFINE r == [row[d] EXCEPT !.fetchedObject = Stored(document)]
<1>1. row[d] \in Row
  BY TypeIs
<1>2. Stored(document) \in ObjectOrNone
  BY StoredType
<1>3. r \in Row /\ r.status = row[d].status /\ r.linked = row[d].linked
  BY <1>1, <1>2 DEF Row
<1>4. CASE row[d].status # "unrecorded"
  <2>1. DecideCarried(d, r)
    BY <1>4 DEF RecordFetchedObject
  <2> HIDE DEF r
  <2> QED
    BY <1>3, <2>1, DecideWrites
<1>5. CASE row[d].status = "unrecorded"
  BY <1>5, UnwrittenRow DEF RecordFetchedObject
<1> QED
  BY <1>4, <1>5
-----------------------------------------------------------------------------
(* Neither order of recorder and worker loses what the other wrote.         *)

BeforeRow == {"expected", "answering", "record"}
Listening == {"none", "queued", "load", "store"}
Reported == {"leave", "recordObject", "link", "done"}

\* A run that has not reported its handler has no retry, and without a queue
\* there is one run, inside the request.
RunOK(d, n) ==
  /\ run[d][n].at \in Listening =>
       /\ ~run[d][n].handled
       /\ n + 1 \in Runs => run[d][n + 1].at = "none"
  /\ run[d][n].at \in {"mark", "receive"} => run[d][n].handled
  /\ run[d][n].at # "none" =>
       /\ request[d].at # "expected"
       /\ request[d].payload # None
       /\ d \in Queued => request[d].accepted /\ request[d].at # "answering"
  /\ d \notin Queued =>
       /\ run[d][n].at \in {"none", "load", "store", "done"}
       /\ n # 1 => run[d][n].at = "none"
       /\ run[d][n].at \in {"load", "store"} => request[d].at = "answering"
       /\ run[d][n].handled => request[d].handled /\ request[d].accepted

RequestOK(d) ==
  /\ request[d].at \in BeforeRow => row[d].status = "unrecorded" /\ ~row[d].linked
  /\ request[d].handled => d \notin Queued
  /\ request[d].at = "receive" => d \in received

Handled(d) == \E n \in Runs : run[d][n].handled

\* The row shows what the answer made of the request, or what came of it since.
Classified(d) ==
  \/ row[d].status = ClassifyInbound(request[d])
  \/ /\ row[d].status = "received"
     /\ ClassifyInbound(request[d]) = "acknowledged"

\* The recorder has not looked for the mark yet, or the row shows the reception.
Shown(d) ==
  \/ request[d].at \in {"record", "lookReceived", "receive"}
  \/ row[d].status = "received"

\* A worker past its mark has left it, and one past its update either made it
\* or will be made up for by a recorder that has not looked yet.
ReceptionOK(d) ==
  /\ d \in received => Handled(d)
  /\ row[d].status = "received" => request[d].handled \/ Handled(d)
  /\ d \notin faulty =>
       /\ request[d].at \notin BeforeRow => Classified(d)
       /\ d \in Queued => \A n \in Runs :
            /\ run[d][n].handled /\ run[d][n].at # "mark" => d \in received
            /\ run[d][n].handled /\ run[d][n].at \in Reported => Shown(d)

DeliveryOK(d) == (\A n \in Runs : RunOK(d, n)) /\ RequestOK(d) /\ ReceptionOK(d)

OthersKept(d) ==
  \A e \in Deliveries \ {d} :
    /\ request'[e] = request[e]
    /\ run'[e] = run[e]
    /\ row'[e] = row[e]
    /\ e \in received' <=> e \in received
    /\ e \in faulty' <=> e \in faulty

Kept(d) == TypeOK' /\ OthersKept(d) /\ DeliveryOK(d)'

DInv == TypeOK /\ \A d \in Deliveries : DeliveryOK(d)

\* The state of a run that Fedify enqueued again.
Retried == [NoRun EXCEPT !.at = "queued"]

\* Run n of d goes to the state "new", and a retry of it is enqueued if "again".
RunGoes(d, n, new, again) ==
  /\ run' \in [Deliveries -> [Runs -> Run]]
  /\ \A e \in Deliveries \ {d} : run'[e] = run[e]
  /\ run'[d][n] = new
  /\ \A m \in Runs \ {n} :
       run'[d][m] = IF m = n + 1 /\ again THEN Retried ELSE run[d][m]

RequestGoes(d, q) ==
  /\ request' \in [Deliveries -> Request]
  /\ request'[d] = q
  /\ \A e \in Deliveries \ {d} : request'[e] = request[e]

LEMMA RetriedIs ==
  Retried \in Run /\ Retried.at = "queued" /\ ~Retried.handled
<1>1. NoRun \in Run /\ ~NoRun.handled
  BY DEF NoRun, Run, RunPoints, ObjectOrNone
<1> QED
  BY <1>1 DEF Retried, Run, RunPoints

LEMMA RunChanged ==
  ASSUME TypeOK, NEW d \in Deliveries, NEW n \in Runs, NEW new \in Run,
         run' = [run EXCEPT ![d][n] = new]
  PROVE  RunGoes(d, n, new, FALSE)
<1>1. run \in [Deliveries -> [Runs -> Run]]
  BY TypeIs
<1>2. run' = [run EXCEPT ![d] = [run[d] EXCEPT ![n] = new]]
  OBVIOUS
<1>3. [run[d] EXCEPT ![n] = new] \in [Runs -> Run]
  BY <1>1
<1> QED
  BY <1>1, <1>2, <1>3 DEF RunGoes

LEMMA RunMoves ==
  ASSUME TypeOK, NEW d \in Deliveries, NEW n \in Runs, NEW at \in RunPoints,
         run' = [run EXCEPT ![d][n].at = at]
  PROVE  RunGoes(d, n, [at |-> at, handled |-> run[d][n].handled,
                        fetched |-> run[d][n].fetched], FALSE)
<1> DEFINE new == [at |-> at, handled |-> run[d][n].handled,
                   fetched |-> run[d][n].fetched]
<1>1. run[d][n] \in Run
  BY TypeIs
<1>2. new \in Run /\ new = [run[d][n] EXCEPT !.at = at]
  BY <1>1 DEF Run
<1>3. run' = [run EXCEPT ![d][n] = new]
  BY <1>2
<1> HIDE DEF new
<1>4. RunGoes(d, n, new, FALSE)
  BY <1>2, <1>3, RunChanged
<1> QED
  BY <1>4 DEF new

LEMMA RunIsAt ==
  ASSUME TypeOK, NEW d \in Deliveries, NEW n \in Runs, NEW at \in RunPoints,
         run' = [run EXCEPT ![d][n].at = at]
  PROVE  run'[d][n].at = at
<1> DEFINE new == [at |-> at, handled |-> run[d][n].handled,
                   fetched |-> run[d][n].fetched]
<1>1. RunGoes(d, n, new, FALSE) /\ new.at = at
  BY RunMoves
<1> HIDE DEF new
<1> QED
  BY <1>1 DEF RunGoes

LEMMA RunsReplaced ==
  ASSUME TypeOK, NEW d \in Deliveries, NEW n \in Runs, NEW new \in Run,
         NEW again \in BOOLEAN, NEW runs, run' = [run EXCEPT ![d] = runs],
         runs = [m \in Runs |-> IF m = n THEN new
                                ELSE IF m = n + 1 /\ again THEN Retried
                                ELSE run[d][m]]
  PROVE  RunGoes(d, n, new, again)
<1>1. run \in [Deliveries -> [Runs -> Run]]
  BY TypeIs
<1>2. Retried \in Run
  BY RetriedIs
<1>3. runs \in [Runs -> Run]
  BY <1>1, <1>2
<1> QED
  BY <1>1, <1>3 DEF RunGoes

LEMMA RequestChanged ==
  ASSUME TypeOK, NEW d \in Deliveries, NEW q \in Request,
         request' = [request EXCEPT ![d] = q]
  PROVE  RequestGoes(d, q)
BY TypeIs DEF RequestGoes

\* The deliveries a step does not touch keep what holds of them.
LEMMA OthersStay ==
  ASSUME DInv, NEW d \in Deliveries, Kept(d)
  PROVE  DInv'
<1>1. ASSUME NEW e \in Deliveries \ {d} PROVE DeliveryOK(e)'
  <2>1. /\ request'[e] = request[e] /\ run'[e] = run[e] /\ row'[e] = row[e]
        /\ e \in received' <=> e \in received
        /\ e \in faulty' <=> e \in faulty
    BY DEF Kept, OthersKept
  <2>2. DeliveryOK(e)
    BY DEF DInv
  <2>3. \A n \in Runs : RunOK(e, n)'
    BY <2>1, <2>2 DEF DeliveryOK, RunOK
  <2>4. RequestOK(e)'
    BY <2>1, <2>2 DEF DeliveryOK, RequestOK
  <2>5. ReceptionOK(e)'
    BY <2>1, <2>2 DEF DeliveryOK, ReceptionOK, Handled, Classified, Shown, ClassifyInbound
  <2> QED
    BY <2>3, <2>4, <2>5 DEF DeliveryOK
<1> QED
  BY <1>1 DEF DInv, Kept

-----------------------------------------------------------------------------
(* The request.                                                            *)

\* Nothing else of the type is at stake when a step changes only these.
Rest == <<left, activity, object, revision, deletions, storer>>

LEMMA TypeKept ==
  ASSUME TypeOK, request' \in [Deliveries -> Request],
         run' \in [Deliveries -> [Runs -> Run]],
         row' \in [Deliveries -> Row], receipts' \in [Deliveries -> SUBSET Roles],
         received' \in SUBSET Deliveries, faulty' \in SUBSET Deliveries,
         seen' \in BOOLEAN, witnessed' \in SUBSET Deliveries, UNCHANGED Rest
  PROVE  TypeOK'
BY TypeIs, TypeNext DEF Rest

LEMMA WitnessType ==
  ASSUME TypeOK, NEW d \in Deliveries, Witness(d)
  PROVE  witnessed' \in SUBSET Deliveries
BY TypeIs DEF Witness

\* What an answer leaves of a request.
AnswerIs(q, at, payload, accepted) ==
  /\ q \in Request
  /\ q.at = at
  /\ q.payload = payload
  /\ q.accepted <=> accepted
  /\ ~q.handled

LEMMA ExpectedIs ==
  /\ Expected \in Request
  /\ ~Expected.accepted /\ ~Expected.handled
  /\ Expected.fetched = None /\ Expected.found = None
BY DEF Expected, Request, RequestPoints, PayloadOrNone, ObjectOrNone

LEMMA AnsweredRequest ==
  ASSUME TypeOK, NEW d \in Deliveries, NEW payload \in Payloads,
         NEW verified \in BOOLEAN, NEW accepted \in BOOLEAN,
         Answered(d, payload, verified, accepted)
  PROVE  \E q : RequestGoes(d, q) /\ AnswerIs(q, "record", payload, accepted)
<1> DEFINE q == [Expected EXCEPT !.at = "record", !.payload = payload,
                                 !.verified = verified, !.accepted = accepted]
<1>1. AnswerIs(q, "record", payload, accepted)
  BY ExpectedIs DEF AnswerIs, Request, RequestPoints, PayloadOrNone
<1>2. request' = [request EXCEPT ![d] = q]
  BY Zenon DEF Answered
<1> HIDE DEF q
<1> QED
  BY <1>1, <1>2, RequestChanged DEF AnswerIs

\* Nothing has happened to a delivery whose request has not been answered.
LEMMA ExpectedHasNoRun ==
  ASSUME DInv, NEW d \in Deliveries, request[d].at = "expected"
  PROVE  /\ \A n \in Runs : run[d][n].at = "none" /\ ~run[d][n].handled
         /\ row[d].status = "unrecorded" /\ ~row[d].linked
         /\ d \notin received
BY DEF DInv, DeliveryOK, RunOK, RequestOK, ReceptionOK, Handled, BeforeRow, Listening

LEMMA AnsweredKeeps ==
  ASSUME InboundAssumption, DInv, NEW d \in Deliveries, NEW payload \in Payloads,
         NEW verified \in BOOLEAN, NEW accepted \in BOOLEAN,
         request[d].at = "expected", Answered(d, payload, verified, accepted),
         UNCHANGED <<run, row, receipts, received, seen, faulty, Rest>>,
         witnessed' \in SUBSET Deliveries
  PROVE  Kept(d)
<1>1. PICK q : RequestGoes(d, q) /\ AnswerIs(q, "record", payload, accepted)
  BY AnsweredRequest DEF DInv
<1>2. TypeOK'
  BY <1>1, TypeIs, TypeKept DEF DInv, RequestGoes
<1>3. OthersKept(d)
  BY <1>1 DEF OthersKept, RequestGoes
<1>4. /\ \A n \in Runs : run[d][n].at = "none" /\ ~run[d][n].handled
      /\ row[d].status = "unrecorded" /\ ~row[d].linked
      /\ d \notin received
  BY ExpectedHasNoRun
<1>5. \A n \in Runs : RunOK(d, n)'
  BY <1>4 DEF RunOK, Listening
<1>6. RequestOK(d)'
  BY <1>1, <1>4 DEF RequestOK, RequestGoes, AnswerIs
<1>7. ReceptionOK(d)'
  BY <1>1, <1>4 DEF ReceptionOK, RequestGoes, AnswerIs, Handled, BeforeRow
<1> QED
  BY <1>2, <1>3, <1>5, <1>6, <1>7 DEF Kept, DeliveryOK

LEMMA AcceptKeeps ==
  ASSUME InboundAssumption, DInv, NEW d \in Deliveries, NEW payload \in Payloads,
         NEW verified \in BOOLEAN, Accept(d, payload, verified)
  PROVE  Kept(d)
<1> DEFINE first == IF d \in Queued THEN "queued" ELSE "load"
           at == IF d \in Queued THEN "record" ELSE "answering"
<1>1. 1 \in Runs /\ first \in RunPoints
  BY DEF InboundAssumption, Runs, RunPoints
<1>2. request[d].at = "expected" /\ run' = [run EXCEPT ![d][1].at = first]
  BY DEF Accept
<1>3. PICK q : RequestGoes(d, q) /\ AnswerIs(q, at, payload, d \in Queued)
  <2>1. CASE d \in Queued
    BY <2>1, AnsweredRequest DEF Accept, DInv
  <2>2. CASE d \notin Queued
    <3> DEFINE q == [Expected EXCEPT !.at = "answering", !.payload = payload,
                                     !.verified = verified]
    <3>1. AnswerIs(q, at, payload, d \in Queued)
      BY <2>2, ExpectedIs DEF AnswerIs, Request, RequestPoints, PayloadOrNone
    <3>2. request' = [request EXCEPT ![d] = q]
      BY <2>2, Zenon DEF Accept
    <3> HIDE DEF q
    <3> QED
      BY <3>1, <3>2, RequestChanged DEF AnswerIs, DInv
  <2> QED
    BY <2>1, <2>2
<1>4. RunGoes(d, 1, [at |-> first, handled |-> run[d][1].handled,
                     fetched |-> run[d][1].fetched], FALSE)
  <2> HIDE DEF first
  <2> QED
    BY <1>1, <1>2, RunMoves DEF DInv
<1>5. UNCHANGED <<row, receipts, received, faulty, seen, witnessed, Rest>>
  BY DEF Accept, marks, store, history, Rest
<1>6. TypeOK'
  BY <1>3, <1>4, <1>5, TypeIs, TypeKept DEF DInv, RequestGoes, RunGoes
<1>7. OthersKept(d)
  BY <1>3, <1>4, <1>5 DEF OthersKept, RequestGoes, RunGoes
<1>8. /\ \A n \in Runs : run[d][n].at = "none" /\ ~run[d][n].handled
      /\ row[d].status = "unrecorded" /\ ~row[d].linked
      /\ d \notin received
  BY <1>2, ExpectedHasNoRun
<1>9. /\ run'[d][1].at = first /\ ~run'[d][1].handled
      /\ \A n \in Runs \ {1} : run'[d][n].at = "none" /\ ~run'[d][n].handled
  BY <1>1, <1>4, <1>8 DEF RunGoes
<1>10. /\ request'[d].at = IF d \in Queued THEN "record" ELSE "answering"
       /\ request'[d].payload = payload /\ (d \in Queued => request'[d].accepted)
       /\ ~request'[d].handled
  BY <1>3 DEF RequestGoes, AnswerIs
<1>11. payload # None
  BY DEF InboundAssumption
<1>12. \A n \in Runs : RunOK(d, n)'
  <2>1. RunOK(d, 1)'
    <3>1. 1 + 1 \in Runs => run'[d][1 + 1].at = "none"
      BY <1>9, InboundAssumption DEF InboundAssumption, Runs
    <3> QED
      BY <1>9, <1>10, <1>11, <3>1 DEF RunOK, Listening
  <2>2. ASSUME NEW n \in Runs \ {1} PROVE RunOK(d, n)'
    <3>1. n + 1 \in Runs => n + 1 \in Runs \ {1}
      BY DEF InboundAssumption, Runs
    <3> QED
      BY <1>9, <3>1 DEF RunOK, Listening
  <2> QED
    BY <2>1, <2>2
<1>13. RequestOK(d)'
  BY <1>5, <1>8, <1>10 DEF RequestOK
<1>14. ReceptionOK(d)'
  BY <1>5, <1>8, <1>9, <1>10 DEF ReceptionOK, Handled, BeforeRow
<1> QED
  BY <1>6, <1>7, <1>12, <1>13, <1>14 DEF Kept, DeliveryOK

LEMMA ArriveKeeps ==
  ASSUME InboundAssumption, DInv, NEW d \in Deliveries, Arrive(d)
  PROVE  Kept(d)
<1> PICK payload \in Payloads, verified \in BOOLEAN :
      \/ Refuse(d, payload, verified)
      \/ AcknowledgeDuplicate(d, payload, verified)
      \/ Accept(d, payload, verified)
  BY DEF Arrive
<1>1. CASE Refuse(d, payload, verified)
  <2>1. UNCHANGED <<run, row, receipts, received, seen, faulty, Rest, witnessed>>
    BY <1>1 DEF Refuse, marks, store, history, Rest
  <2>2. witnessed' \in SUBSET Deliveries
    BY <2>1, TypeIs DEF DInv
  <2> QED
    BY <1>1, <2>1, <2>2, AnsweredKeeps DEF Refuse
<1>2. CASE AcknowledgeDuplicate(d, payload, verified)
  <2>1. UNCHANGED <<run, row, receipts, received, seen, faulty, Rest>>
    BY <1>2 DEF AcknowledgeDuplicate, marks, store, Rest
  <2>2. witnessed' \in SUBSET Deliveries
    BY <1>2, WitnessType DEF AcknowledgeDuplicate, DInv
  <2> QED
    BY <1>2, <2>1, <2>2, AnsweredKeeps DEF AcknowledgeDuplicate
<1> QED
  BY <1>1, <1>2, AcceptKeeps

-----------------------------------------------------------------------------
(* The runs of a message.                                                  *)

\* A run that goes on, whether it enqueues its retry or not.
GoesOn(d, n, new, again) ==
  /\ run[d][n].at # "none"
  /\ new.at # "none"
  /\ new.at \in Listening => run[d][n].at \in Listening /\ ~new.handled /\ ~again
  /\ new.at \in {"mark", "receive"} => new.handled
  /\ again /\ n + 1 \in Runs => run[d][n + 1].at = "none"
  /\ run[d][n].handled => new.handled

LEMMA SuccessorIsNone ==
  ASSUME DInv, NEW d \in Deliveries, NEW n \in Runs, run[d][n].at \in Listening,
         n + 1 \in Runs
  PROVE  run[d][n + 1].at = "none" /\ ~run[d][n + 1].handled
BY DEF DInv, DeliveryOK, RunOK, Listening

LEMMA RunsGoOn ==
  ASSUME InboundAssumption, DInv, NEW d \in Queued, NEW n \in Runs, NEW new \in Run,
         NEW again \in BOOLEAN, RunGoes(d, n, new, again), GoesOn(d, n, new, again),
         request'[d].at \notin {"expected", "answering"},
         request'[d].payload # None, request'[d].accepted
  PROVE  (\A m \in Runs : RunOK(d, m)') /\ (Handled(d) => Handled(d)')
<1>1. d \in Deliveries /\ \A m \in Runs : RunOK(d, m)
  BY DEF DInv, DeliveryOK, InboundAssumption
<1>2. /\ run'[d][n] = new
      /\ \A m \in Runs \ {n} :
           run'[d][m] = IF m = n + 1 /\ again THEN Retried ELSE run[d][m]
  BY DEF RunGoes
<1>3. ASSUME NEW m \in Runs PROVE RunOK(d, m)'
  <2>1. RunOK(d, m)
    BY <1>1
  <2>2. m + 1 \in Runs => m + 1 # m /\ m \in Nat /\ n \in Nat
    BY DEF Runs, InboundAssumption
  <2>3. CASE m = n
    <3>1. new.at \in Listening /\ n + 1 \in Runs => run'[d][n + 1].at = "none"
      BY <1>2, <2>1, <2>2, <2>3 DEF GoesOn, RunOK
    <3> QED
      BY <1>2, <2>3, <3>1 DEF RunOK, GoesOn
  <2>4. CASE m = n + 1 /\ again
    <3>1. m # n
      BY <2>4 DEF Runs
    <3>2. run'[d][m] = Retried /\ run[d][m].at = "none"
      BY <1>2, <2>4, <3>1 DEF GoesOn
    <3>3. m + 1 \in Runs => run'[d][m + 1].at = "none"
      <4> SUFFICES ASSUME m + 1 \in Runs PROVE run'[d][m + 1].at = "none"
        OBVIOUS
      <4>1. m + 1 # n /\ m + 1 # n + 1
        BY <2>4 DEF Runs
      <4>2. run[d][m + 1].at = "none"
        BY <2>1, <3>2 DEF RunOK, Listening
      <4> QED
        BY <1>2, <4>1, <4>2
    <3> QED
      BY <3>2, <3>3, RetriedIs DEF RunOK
  <2>5. CASE m # n /\ ~(m = n + 1 /\ again)
    <3>1. run'[d][m] = run[d][m]
      BY <1>2, <2>5
    <3>2. run[d][m].at \in Listening /\ m + 1 \in Runs => run'[d][m + 1].at = "none"
      <4> SUFFICES ASSUME run[d][m].at \in Listening, m + 1 \in Runs
                   PROVE  run'[d][m + 1].at = "none"
        OBVIOUS
      <4>1. run[d][m + 1].at = "none"
        BY <2>1 DEF RunOK
      <4>2. m + 1 # n
        BY <4>1 DEF GoesOn
      <4>3. ~(m + 1 = n + 1 /\ again)
        BY <2>5 DEF Runs
      <4> QED
        BY <1>2, <4>1, <4>2, <4>3
    <3> QED
      BY <2>1, <3>1, <3>2 DEF RunOK
  <2> QED
    BY <2>3, <2>4, <2>5
<1>4. Handled(d) => Handled(d)'
  <2> SUFFICES ASSUME NEW m \in Runs, run[d][m].handled PROVE Handled(d)'
    BY DEF Handled
  <2>1. CASE m = n
    BY <1>2, <2>1 DEF GoesOn, Handled
  <2>2. CASE m # n
    <3>1. ~(m = n + 1 /\ again)
      BY <1>1 DEF GoesOn, RunOK, Listening
    <3>2. run'[d][m].handled
      BY <1>2, <2>2, <3>1
    <3> QED
      BY <3>2 DEF Handled
  <2> QED
    BY <2>1, <2>2
<1> QED
  BY <1>3, <1>4

LEMMA ReceptionGoesOn ==
  ASSUME InboundAssumption, DInv, NEW d \in Queued, NEW n \in Runs, NEW new \in Run,
         NEW again \in BOOLEAN, RunGoes(d, n, new, again), GoesOn(d, n, new, again),
         Handled(d) => Handled(d)',
         request'[d].handled <=> request[d].handled,
         d \in received => d \in received',
         d \in received' => d \in received \/ new.handled,
         row'[d].status = "received" => row[d].status = "received" \/ Handled(d)',
         d \notin faulty' =>
           /\ d \notin faulty
           /\ request'[d].at \notin BeforeRow => Classified(d)'
           /\ new.handled /\ new.at # "mark" => d \in received'
           /\ new.handled /\ new.at \in Reported => Shown(d)'
           /\ Shown(d) => Shown(d)'
  PROVE  ReceptionOK(d)'
<1>1. d \in Deliveries /\ ReceptionOK(d)
  BY DEF DInv, DeliveryOK, InboundAssumption
<1>2. /\ run'[d][n] = new
      /\ \A m \in Runs \ {n} : run'[d][m] = Retried \/ run'[d][m] = run[d][m]
  BY DEF RunGoes
<1>3. d \in received' => Handled(d)'
  BY <1>1, <1>2 DEF ReceptionOK, Handled
<1>4. row'[d].status = "received" => request'[d].handled \/ Handled(d)'
  BY <1>1 DEF ReceptionOK
<1>5. ASSUME d \notin faulty', NEW m \in Runs
      PROVE  /\ run'[d][m].handled /\ run'[d][m].at # "mark" => d \in received'
             /\ run'[d][m].handled /\ run'[d][m].at \in Reported => Shown(d)'
  BY <1>1, <1>2, <1>5, RetriedIs DEF ReceptionOK
<1> QED
  BY <1>3, <1>4, <1>5 DEF ReceptionOK

\* Where a returning handler leaves its run and its request.
LEMMA ReturnGoes ==
  ASSUME TypeOK, NEW d \in Deliveries, NEW n \in Runs, NEW handled \in BOOLEAN,
         NEW threw \in BOOLEAN, Return(d, n, handled, threw)
  PROVE  \E new \in Run, again \in BOOLEAN, q \in Request :
           /\ RunGoes(d, n, new, again) /\ RequestGoes(d, q)
           /\ new.handled <=> handled
           /\ new.fetched = run[d][n].fetched
           /\ IF d \in Queued
              THEN /\ q = request[d]
                   /\ new.at = Report(handled, run[d][n].fetched)
              ELSE /\ ~again /\ new.at = "done"
                   /\ q.at = "record" /\ q.payload = request[d].payload
                   /\ q.fetched = run[d][n].fetched
                   /\ q.accepted <=> ~threw
                   /\ q.handled <=> handled
<1> DEFINE fetched == run[d][n].fetched
           at == IF d \in Queued THEN Report(handled, fetched) ELSE "done"
           new == [at |-> at, handled |-> handled, fetched |-> fetched]
<1>1. run \in [Deliveries -> [Runs -> Run]] /\ request \in [Deliveries -> Request]
  BY TypeIs
<1>2. at \in RunPoints /\ fetched \in ObjectOrNone
  BY <1>1 DEF Report, RunPoints, Run
<1>3. /\ new \in Run /\ new.at = at /\ (new.handled <=> handled)
      /\ new.fetched = run[d][n].fetched
      /\ new = [at |-> at, handled |-> handled, fetched |-> fetched]
  <2>1. new.fetched = run[d][n].fetched
    OBVIOUS
  <2> HIDE DEF at, fetched
  <2> QED
    BY <1>2, <2>1 DEF Run
<1>4. CASE d \in Queued
  <2> DEFINE runs == [m \in Runs |->
                        CASE m = n -> [at |-> Report(handled, fetched),
                                       handled |-> handled, fetched |-> fetched]
                          [] m = n + 1 /\ threw -> [NoRun EXCEPT !.at = "queued"]
                          [] OTHER -> run[d][m]]
  <2>1. run' = [run EXCEPT ![d] = runs] /\ UNCHANGED request
    BY <1>4 DEF Return
  <2>2. new = [at |-> Report(handled, fetched), handled |-> handled, fetched |-> fetched]
    BY <1>4
  <2> HIDE DEF new, at, fetched
  <2>3. runs = [m \in Runs |-> IF m = n THEN new
                               ELSE IF m = n + 1 /\ threw THEN Retried
                               ELSE run[d][m]]
    <3>1. n # n + 1
      BY DEF Runs
    <3> QED
      BY <2>2, <3>1 DEF Retried
  <2> HIDE DEF runs
  <2>4. RunGoes(d, n, new, threw)
    BY <1>3, <2>1, <2>3, RunsReplaced
  <2>5. RequestGoes(d, request[d]) /\ request[d] \in Request
    BY <1>1, <2>1 DEF RequestGoes
  <2>6. new.at = Report(handled, run[d][n].fetched)
    BY <1>3, <1>4 DEF at, fetched
  <2> QED
    BY <1>3, <1>4, <2>4, <2>5, <2>6
<1>5. CASE d \notin Queued
  <2> DEFINE q == [request[d] EXCEPT !.at = "record", !.accepted = ~threw,
                                     !.handled = handled, !.fetched = fetched]
  <2>1. run' = [run EXCEPT ![d][n] = new] /\ request' = [request EXCEPT ![d] = q]
    BY <1>5 DEF Return
  <2>2. request[d] \in Request
    BY <1>1
  <2> HIDE DEF new, at, fetched
  <2>3. /\ q \in Request /\ q.at = "record" /\ q.payload = request[d].payload
        /\ (q.accepted <=> ~threw) /\ (q.handled <=> handled)
        /\ q.fetched = fetched
    BY <1>2, <2>2 DEF Request, RequestPoints
  <2> HIDE DEF q
  <2>4. RunGoes(d, n, new, FALSE) /\ RequestGoes(d, q)
    BY <1>3, <2>1, <2>3, RunChanged, RequestChanged
  <2>5. new.at = "done"
    BY <1>3, <1>5 DEF at
  <2>6. q.fetched = run[d][n].fetched
    BY <2>3 DEF fetched
  <2> QED
    BY <1>3, <1>5, <2>3, <2>4, <2>5, <2>6
<1> QED
  BY <1>4, <1>5

LEMMA ReturnKeeps ==
  ASSUME InboundAssumption, DInv, NEW d \in Deliveries, NEW n \in Runs,
         NEW handled \in BOOLEAN, NEW threw \in BOOLEAN, Return(d, n, handled, threw),
         ~(handled /\ threw), run[d][n].at \in {"queued", "load", "store"},
         UNCHANGED <<row, receipts, received, left, deletions, faulty>>,
         activity' \in PayloadOrNone, object' \in TypedObject, revision' \in Revision,
         seen' \in BOOLEAN, witnessed' \in SUBSET Deliveries,
         storer' \in Deliveries \union {None}
  PROVE  Kept(d)
<1>1. PICK new \in Run, again \in BOOLEAN, q \in Request :
        /\ RunGoes(d, n, new, again) /\ RequestGoes(d, q)
        /\ new.handled <=> handled
        /\ IF d \in Queued
           THEN /\ q = request[d]
                /\ new.at = Report(handled, run[d][n].fetched)
           ELSE /\ ~again /\ new.at = "done"
                /\ q.at = "record" /\ q.payload = request[d].payload
                /\ q.accepted <=> ~threw
                /\ q.handled <=> handled
  BY ReturnGoes DEF DInv
<1>2. TypeOK'
  BY <1>1, TypeIs, TypeNext DEF DInv, RunGoes, RequestGoes
<1>3. OthersKept(d)
  BY <1>1 DEF OthersKept, RunGoes, RequestGoes
<1>4. RunOK(d, n) /\ RequestOK(d) /\ ReceptionOK(d)
  BY DEF DInv, DeliveryOK
<1>5. run[d][n].at \in Listening /\ ~run[d][n].handled
  BY <1>4 DEF RunOK, Listening
<1>6. CASE d \in Queued
  <2>1. request'[d] = request[d]
    BY <1>1, <1>6 DEF RequestGoes
  <2>2. /\ new.at = "mark" <=> handled
        /\ new.at \in {"mark", "leave", "link"}
    BY <1>1, <1>6 DEF Report
  <2>3. GoesOn(d, n, new, again)
    BY <1>1, <1>5, <2>2, SuccessorIsNone DEF GoesOn, Listening
  <2>4. request[d].at \notin {"expected", "answering"} /\ request[d].payload # None
        /\ request[d].accepted
    BY <1>4, <1>6 DEF RunOK
  <2>5. (\A m \in Runs : RunOK(d, m)') /\ (Handled(d) => Handled(d)')
    BY <1>1, <1>6, <2>1, <2>3, <2>4, RunsGoOn
  <2>6. RequestOK(d)'
    BY <1>4, <2>1 DEF RequestOK
  <2>7. /\ Shown(d) => Shown(d)'
        /\ Classified(d) => Classified(d)'
    BY <2>1 DEF Shown, Classified, ClassifyInbound
  <2>8. ReceptionOK(d)'
    BY <1>1, <1>4, <1>6, <2>1, <2>2, <2>3, <2>5, <2>7, ReceptionGoesOn
    DEF ReceptionOK, Reported
  <2> QED
    BY <1>2, <1>3, <2>5, <2>6, <2>8 DEF Kept, DeliveryOK
<1>7. CASE d \notin Queued
  <2>1. n = 1 /\ request[d].at = "answering" /\ request[d].payload # None
    BY <1>4, <1>7 DEF RunOK
  <2>2. \A m \in Runs \ {1} : run[d][m].at = "none" /\ ~run[d][m].handled
    BY <1>7 DEF DInv, DeliveryOK, RunOK, Listening
  <2>3. /\ run'[d][1] = new
        /\ \A m \in Runs \ {1} : run'[d][m] = run[d][m]
        /\ request'[d] = q
    BY <1>1, <1>7, <2>1 DEF RunGoes, RequestGoes
  <2>4. ~Handled(d) /\ d \notin received /\ ~row[d].linked
        /\ row[d].status = "unrecorded"
    BY <1>4, <1>5, <2>1, <2>2 DEF Handled, RequestOK, ReceptionOK, BeforeRow
  <2>5. \A m \in Runs : RunOK(d, m)'
    <3>1. \A m \in Runs \ {1} : m + 1 \in Runs => m + 1 \in Runs \ {1}
      BY DEF Runs, InboundAssumption
    <3>2. \A m \in Runs \ {1} : RunOK(d, m)'
      BY <1>7, <2>2, <2>3, <3>1 DEF RunOK
    <3>3. RunOK(d, 1)'
      BY <1>1, <1>7, <2>1, <2>3 DEF RunOK, Listening
    <3> QED
      BY <3>2, <3>3
  <2>6. RequestOK(d)'
    BY <1>1, <1>7, <2>3, <2>4 DEF RequestOK
  <2>7. ReceptionOK(d)'
    BY <1>1, <1>7, <2>3, <2>4 DEF ReceptionOK, BeforeRow
  <2> QED
    BY <1>2, <1>3, <2>5, <2>6, <2>7 DEF Kept, DeliveryOK
<1> QED
  BY <1>6, <1>7

\* A run that moves on before its handler returned.
LEMMA ListenerMoves ==
  ASSUME InboundAssumption, DInv, NEW d \in Deliveries, NEW n \in Runs, NEW new \in Run,
         RunGoes(d, n, new, FALSE), run[d][n].at \in {"queued", "load"},
         run[d][n].at = "queued" => new.at = "load",
         run[d][n].at = "load" => new.at = "store",
         ~new.handled,
         UNCHANGED <<request, row, receipts, received, seen, witnessed, faulty, Rest>>
  PROVE  Kept(d)
<1>1. TypeOK'
  BY TypeIs, TypeKept DEF DInv, RunGoes
<1>2. OthersKept(d)
  BY DEF OthersKept, RunGoes
<1>3. (\A m \in Runs : RunOK(d, m)) /\ RequestOK(d) /\ ReceptionOK(d)
  BY DEF DInv, DeliveryOK
<1>4. run'[d][n] = new /\ \A m \in Runs \ {n} : run'[d][m] = run[d][m]
  BY DEF RunGoes
<1>5. ~run[d][n].handled
  BY <1>3 DEF RunOK, Listening
<1>6. ASSUME NEW m \in Runs PROVE RunOK(d, m)'
  <2>1. RunOK(d, m) /\ RunOK(d, n)
    BY <1>3
  <2>2. m + 1 \in Runs => m + 1 # m
    BY DEF Runs
  <2>3. run'[d][m].at \in Listening <=> run[d][m].at \in Listening
    BY <1>4 DEF Listening
  <2>4. run'[d][m].at # "none" <=> run[d][m].at # "none"
    BY <1>4
  <2>5. m + 1 \in Runs => (run'[d][m + 1].at = "none" <=> run[d][m + 1].at = "none")
    BY <1>4
  <2>6. run'[d][m].handled <=> run[d][m].handled
    BY <1>4, <1>5
  <2>7. run'[d][m].at \in {"mark", "receive"} <=> run[d][m].at \in {"mark", "receive"}
    BY <1>4
  <2>8. m # n => run'[d][m].at = run[d][m].at
    BY <1>4
  <2> QED
    BY <1>4, <2>1, <2>3, <2>4, <2>5, <2>6, <2>7, <2>8 DEF RunOK
<1>7. RequestOK(d)'
  BY <1>3 DEF RequestOK
<1>8. ReceptionOK(d)'
  BY <1>3, <1>4, <1>5 DEF ReceptionOK, Handled, Shown, Classified, ClassifyInbound
<1> QED
  BY <1>1, <1>2, <1>6, <1>7, <1>8 DEF Kept, DeliveryOK

\* A stored activity holds the document of a request.
LEMMA StoreCreateTypes ==
  ASSUME InboundAssumption, DInv, NEW d \in Deliveries, NEW n \in Runs,
         StoreCreate(d, n)
  PROVE  /\ activity' \in Payloads
         /\ object' \in TypedObject
         /\ revision' = [activity |-> activity', object |-> object'.document]
         /\ revision' \in Revision
<1> DEFINE fetched == run[d][n].fetched
           payload == request[d].payload
           created == [document |-> IF fetched = None THEN payload ELSE fetched,
                       fetched |-> fetched # None, carrier |-> TRUE]
<1>1. request[d] \in Request /\ run[d][n] \in Run /\ object \in TypedObject
  BY TypeIs DEF DInv
<1>2. payload # None
  BY DEF StoreCreate, DInv, DeliveryOK, RunOK
<1>3. payload \in Payloads /\ payload \in DocOrNone /\ fetched \in DocOrNone
  BY <1>1, <1>2 DEF Request, Run, PayloadOrNone, ObjectOrNone, DocOrNone, Docs
<1>4. created \in TypedObject
  <2> HIDE DEF payload, fetched
  <2> QED
    BY <1>3 DEF TypedObject
<1>5. /\ activity' = payload
      /\ object' = IF revision.object = None THEN created ELSE object
      /\ revision' = [activity |-> payload, object |-> object'.document]
  BY DEF StoreCreate
<1> HIDE DEF created, payload, fetched
<1>6. object' \in TypedObject
  BY <1>1, <1>4, <1>5
<1>7. object'.document \in DocOrNone
  BY <1>6 DEF TypedObject
<1> QED
  BY <1>3, <1>5, <1>6, <1>7 DEF Revision, PayloadOrNone

LEMMA ListenerKeeps ==
  ASSUME InboundAssumption, DInv, NEW d \in Deliveries, NEW n \in Runs, Listener(d, n)
  PROVE  Kept(d)
<1> USE DEF DInv
<1>1. /\ run[d][n] \in Run /\ ~(run[d][n].at \in Listening /\ run[d][n].handled)
      /\ activity \in PayloadOrNone /\ object \in TypedObject /\ revision \in Revision
      /\ seen \in BOOLEAN /\ witnessed \in SUBSET Deliveries
      /\ storer \in Deliveries \union {None}
  BY TypeIs DEF DeliveryOK, RunOK
<1>2. CASE StartRun(d, n)
  <2> DEFINE new == [at |-> "load", handled |-> run[d][n].handled,
                     fetched |-> run[d][n].fetched]
  <2>1. RunGoes(d, n, new, FALSE)
    BY <1>2, RunMoves DEF StartRun, RunPoints
  <2>2. new \in Run /\ new.at = "load" /\ ~new.handled
    BY <1>1, <1>2 DEF Run, RunPoints, StartRun, Listening
  <2> HIDE DEF new
  <2>3. UNCHANGED <<request, row, receipts, received, seen, witnessed, faulty, Rest>>
    BY <1>2 DEF StartRun, marks, store, history, Rest
  <2>4. run[d][n].at = "queued"
    BY <1>2 DEF StartRun
  <2> QED
    BY <2>1, <2>2, <2>3, <2>4, ListenerMoves
<1>3. CASE SkipDuplicate(d, n)
  <2>1. UNCHANGED <<row, receipts, received, left, deletions, faulty, activity,
                    object, revision, seen, storer>>
    BY <1>3 DEF SkipDuplicate, marks, store
  <2>2. witnessed' \in SUBSET Deliveries
    BY <1>3, WitnessType DEF SkipDuplicate
  <2>3. Return(d, n, FALSE, FALSE) /\ run[d][n].at \in {"queued", "load", "store"}
    BY <1>3 DEF SkipDuplicate
  <2> QED
    BY <1>1, <2>1, <2>2, <2>3, ReturnKeeps
<1>4. CASE LoadObject(d, n)
  <2>1. UNCHANGED <<request, row, receipts, received, seen, witnessed, faulty, Rest>>
    BY <1>4 DEF LoadObject, marks, store, history, Rest
  <2>2. run[d][n].at = "load" /\ ~run[d][n].handled
    BY <1>1, <1>4 DEF LoadObject, Listening
  <2>3. CASE request[d].payload \in Embedding
    <3> DEFINE new == [at |-> "store", handled |-> run[d][n].handled,
                       fetched |-> run[d][n].fetched]
    <3>1. RunGoes(d, n, new, FALSE)
      BY <1>4, <2>3, RunMoves DEF LoadObject, RunPoints
    <3>2. new \in Run /\ new.at = "store" /\ ~new.handled
      BY <1>1, <2>2 DEF Run, RunPoints
    <3> HIDE DEF new
    <3> QED
      BY <2>1, <2>2, <3>1, <3>2, ListenerMoves
  <2>4. CASE request[d].payload \notin Embedding
    <3> PICK doc \in ObjectDocs :
          run' = [run EXCEPT ![d][n] = [@ EXCEPT !.at = "store", !.fetched = doc]]
      BY <1>4, <2>4 DEF LoadObject
    <3> DEFINE new == [run[d][n] EXCEPT !.at = "store", !.fetched = doc]
    <3>1. run' = [run EXCEPT ![d][n] = new]
      OBVIOUS
    <3>2. new \in Run /\ new.at = "store" /\ ~new.handled
      BY <1>1, <2>2 DEF Run, RunPoints, ObjectOrNone
    <3> HIDE DEF new
    <3>3. RunGoes(d, n, new, FALSE)
      BY <3>1, <3>2, RunChanged
    <3> QED
      BY <2>1, <2>2, <3>2, <3>3, ListenerMoves
  <2> QED
    BY <2>3, <2>4
<1>5. CASE RefuseCreate(d, n)
  <2>1. UNCHANGED <<row, receipts, received, left, deletions, faulty, activity,
                    object, revision, storer>>
    BY <1>5 DEF RefuseCreate, marks, store
  <2>2. witnessed' \in SUBSET Deliveries /\ seen' = TRUE
    BY <1>5, WitnessType DEF RefuseCreate
  <2>3. Return(d, n, TRUE, FALSE) /\ run[d][n].at \in {"queued", "load", "store"}
    BY <1>5 DEF RefuseCreate
  <2> QED
    BY <1>1, <2>1, <2>2, <2>3, ReturnKeeps
<1>6. CASE StoreCreate(d, n)
  <2>1. UNCHANGED <<row, receipts, received, left, deletions, faulty>>
    BY <1>6 DEF StoreCreate, marks
  <2>2. witnessed' \in SUBSET Deliveries /\ seen' = TRUE /\ storer' = d
    BY <1>6, WitnessType DEF StoreCreate
  <2>3. Return(d, n, TRUE, FALSE) /\ run[d][n].at \in {"queued", "load", "store"}
    BY <1>6 DEF StoreCreate
  <2>4. activity' \in PayloadOrNone /\ object' \in TypedObject /\ revision' \in Revision
    BY <1>6, StoreCreateTypes DEF PayloadOrNone
  <2> QED
    BY <2>1, <2>2, <2>3, <2>4, ReturnKeeps
<1>7. CASE ThrowInListener(d, n)
  <2>1. UNCHANGED <<row, receipts, received, left, deletions, faulty, activity,
                    object, revision, seen, witnessed, storer>>
    BY <1>7 DEF ThrowInListener, marks, store, history
  <2>2. Return(d, n, FALSE, TRUE) /\ run[d][n].at \in {"queued", "load", "store"}
    BY <1>7 DEF ThrowInListener
  <2> QED
    BY <1>1, <2>1, <2>2, ReturnKeeps
<1> QED
  BY <1>2, <1>3, <1>4, <1>5, <1>6, <1>7 DEF Listener

-----------------------------------------------------------------------------
(* What is left to write after the handler.                                *)

LEMMA WritesKeep ==
  ASSUME NEW d \in Deliveries, NEW status, NEW linked, Written(d, status, linked)
  PROVE  /\ row' \in [Deliveries -> Row] /\ receipts' \in [Deliveries -> SUBSET Roles]
         /\ \A e \in Deliveries \ {d} : row'[e] = row[e]
         /\ row'[d].status = status
BY DEF Written

\* A worker's step moves its run among the points after the handler, writes
\* what "status" says, and marks the reception if it leaves "mark" behind.
LEMMA WorkerGoes ==
  ASSUME InboundAssumption, DInv, NEW d \in Queued, NEW n \in Runs,
         NEW to \in {"receive", "leave", "recordObject", "link", "done"},
         run[d][n].at \in ({"mark", "receive"} \union Reported) \ {"done"},
         run' = [run EXCEPT ![d][n].at = to],
         to = "receive" => run[d][n].handled /\ d \in received',
         NEW status, NEW linked, Written(d, status, linked),
         UNCHANGED <<request, activity, object, revision, seen, deletions, witnessed,
                     storer>>,
         received' \in {received, received \union {d}},
         received' # received => run[d][n].handled,
         left' \in [Deliveries -> ObjectOrNone],
         faulty' \in {faulty, faulty \union {d}},
         status = row[d].status \/ (row[d].status = "acknowledged" /\ status = "received"),
         status = "received" => row[d].status = "received" \/ Handled(d),
         request[d].at \in BeforeRow => ~linked,
         d \notin faulty' => /\ run[d][n].at = "mark" => to = "receive"
                             /\ run[d][n].at = "receive" /\ row[d].status = "acknowledged"
                                  => status = "received"
  PROVE  Kept(d)
<1> DEFINE new == [at |-> to, handled |-> run[d][n].handled,
                   fetched |-> run[d][n].fetched]
<1>1. d \in Deliveries /\ run[d][n] \in Run
  BY TypeIs DEF InboundAssumption, DInv
<1>2. to \in RunPoints
  BY DEF RunPoints
<1>3. RunGoes(d, n, new, FALSE)
  BY <1>1, <1>2, RunMoves DEF DInv
<1>4. new \in Run /\ new.at = to /\ (new.handled <=> run[d][n].handled)
  BY <1>1, <1>2 DEF Run
<1> HIDE DEF new
<1>5. TypeOK'
  BY <1>1, <1>3, TypeIs, TypeNext, WritesKeep DEF DInv, RunGoes
<1>6. OthersKept(d)
  BY <1>1, <1>3, WritesKeep DEF OthersKept, RunGoes
<1>7. RunOK(d, n) /\ RequestOK(d) /\ ReceptionOK(d)
  BY <1>1 DEF DInv, DeliveryOK
<1>8. /\ request[d].at \notin {"expected", "answering"}
      /\ request[d].payload # None /\ request[d].accepted
  BY <1>7 DEF RunOK, Reported
<1>9. GoesOn(d, n, new, FALSE)
  BY <1>4, <1>7 DEF GoesOn, Listening, Reported
<1>10. (\A m \in Runs : RunOK(d, m)') /\ (Handled(d) => Handled(d)')
  BY <1>3, <1>4, <1>8, <1>9, RunsGoOn
<1>11. row'[d].status = status /\ row'[d].linked = linked
  BY DEF Written
<1>12. RequestOK(d)'
  <2>1. request[d].at \in BeforeRow => status = "unrecorded"
    BY <1>7 DEF RequestOK
  <2> QED
    BY <1>7, <1>11, <2>1 DEF RequestOK
<1>13. ASSUME d \notin faulty'
       PROVE  /\ d \notin faulty
              /\ request[d].at \notin BeforeRow => Classified(d)'
              /\ new.handled /\ new.at # "mark" => d \in received'
              /\ new.handled /\ new.at \in Reported => Shown(d)'
              /\ Shown(d) => Shown(d)'
  <2>1. d \notin faulty
    BY <1>13
  <2>2. request[d].at \notin BeforeRow => Classified(d)
    BY <1>7, <2>1 DEF ReceptionOK
  <2>3. request[d].at \notin BeforeRow => Classified(d)'
    BY <1>11, <2>2 DEF Classified, ClassifyInbound
  <2>4. Shown(d) => Shown(d)'
    BY <1>11 DEF Shown
  <2>5. new.handled /\ new.at # "mark" => d \in received'
    BY <1>4, <1>7, <1>13, <2>1 DEF ReceptionOK
  <2>6. new.handled /\ new.at \in Reported => Shown(d)'
    <3> SUFFICES ASSUME new.handled, new.at \in Reported PROVE Shown(d)'
      OBVIOUS
    <3>1. run[d][n].at # "mark"
      BY <1>4, <1>13 DEF Reported
    <3>2. CASE run[d][n].at = "receive"
      <4>1. CASE request[d].at = "record"
        BY <4>1 DEF Shown
      <4>2. CASE request[d].at \notin BeforeRow
        <5>1. ClassifyInbound(request[d]) \in {"received", "acknowledged"}
          BY <1>8 DEF ClassifyInbound
        <5>2. row[d].status \in {"received", "acknowledged"}
          BY <2>2, <4>2, <5>1 DEF Classified
        <5> QED
          BY <1>11, <1>13, <3>2, <5>2 DEF Shown
      <4> QED
        BY <1>8, <4>1, <4>2 DEF BeforeRow
    <3>3. CASE run[d][n].at \in Reported
      BY <1>4, <1>7, <2>1, <2>4, <3>3 DEF ReceptionOK
    <3> QED
      BY <3>1, <3>2, <3>3
  <2> QED
    BY <2>1, <2>3, <2>4, <2>5, <2>6
<1>14. d \in received' => d \in received \/ new.handled
  BY <1>4
<1>15. row'[d].status = "received" => row[d].status = "received" \/ Handled(d)'
  BY <1>10, <1>11
<1>16. ReceptionOK(d)'
  BY <1>3, <1>4, <1>9, <1>10, <1>13, <1>14, <1>15, ReceptionGoesOn
<1> QED
  BY <1>5, <1>6, <1>10, <1>12, <1>16 DEF Kept, DeliveryOK

AfterHandler == ({"mark", "receive"} \union Reported) \ {"done"}

\* Only a message has bookkeeping of a worker, and its recorder will classify it.
LEMMA WorkerIsQueued ==
  ASSUME DInv, NEW d \in Deliveries, NEW n \in Runs, run[d][n].at \in AfterHandler
  PROVE  /\ d \in Queued
         /\ request[d].at \in BeforeRow => row[d].status = "unrecorded" /\ ~row[d].linked
         /\ d \in received \/ row[d].status = "received" => Handled(d) \/ request[d].handled
         /\ request[d].handled => d \notin Queued
         /\ run[d][n].at \in {"mark", "receive"} => run[d][n].handled /\ Handled(d)
BY DEF DInv, DeliveryOK, RunOK, RequestOK, ReceptionOK, AfterHandler, Reported, Handled

LEMMA WorkerKeeps ==
  ASSUME InboundAssumption, DInv, NEW d \in Deliveries, NEW n \in Runs, Worker(d, n)
  PROVE  Kept(d)
<1> USE DEF DInv
<1>1. run[d][n] \in Run /\ left \in [Deliveries -> ObjectOrNone]
  BY TypeIs
<1>2. CASE WorkerMarks(d, n)
  <2>1. /\ run[d][n].at = "mark" /\ run' = [run EXCEPT ![d][n].at = "receive"]
        /\ UNCHANGED <<request, activity, object, revision, seen, deletions, witnessed,
                       storer, faulty, left, row, receipts>>
        /\ received' = received \union {d}
    BY <1>2 DEF WorkerMarks, RunTo, store, history
  <2>2. d \in Queued /\ run[d][n].handled /\ (request[d].at \in BeforeRow => ~row[d].linked)
    BY <2>1, WorkerIsQueued DEF AfterHandler
  <2>3. row[d].status = "received" => Handled(d)
    BY <2>1, WorkerIsQueued DEF AfterHandler
  <2>4. Written(d, row[d].status, row[d].linked)
    BY <2>1, UnwrittenRow
  <2> QED
    BY <1>1, <2>1, <2>2, <2>3, <2>4, WorkerGoes
<1>3. CASE WorkerReceives(d, n)
  <2> DEFINE status == IF row[d].status = "acknowledged" THEN "received" ELSE row[d].status
  <2>1. /\ run[d][n].at = "receive"
        /\ run' = [run EXCEPT ![d][n].at = AfterReceive(d, n)]
        /\ UNCHANGED <<request, activity, object, revision, seen, deletions, witnessed,
                       storer, faulty, left, received>>
        /\ ReceiveInbound(d)
    BY <1>3 DEF WorkerReceives, RunTo, store, history, marks
  <2>2. /\ d \in Queued /\ run[d][n].handled /\ Handled(d)
        /\ request[d].at \in BeforeRow => ~row[d].linked
    BY <2>1, WorkerIsQueued DEF AfterHandler
  <2>3. AfterReceive(d, n) \in {"leave", "link"}
    BY DEF AfterReceive
  <2>4. Written(d, status, row[d].linked)
    BY <2>1, ReceiveWrites
  <2>5. status = row[d].status \/ (row[d].status = "acknowledged" /\ status = "received")
    OBVIOUS
  <2>6. row[d].status = "acknowledged" => status = "received"
    OBVIOUS
  <2> HIDE DEF status
  <2> QED
    BY <1>1, <2>1, <2>2, <2>3, <2>4, <2>5, <2>6, WorkerGoes
<1>4. CASE WorkerLeavesObject(d, n)
  <2>1. /\ run[d][n].at = "leave" /\ run' = [run EXCEPT ![d][n].at = "recordObject"]
        /\ UNCHANGED <<request, activity, object, revision, seen, deletions, witnessed,
                       storer, faulty, received, row, receipts>>
        /\ left' = [left EXCEPT ![d] = run[d][n].fetched]
    BY <1>4 DEF WorkerLeavesObject, RunTo, store, history
  <2>2. /\ d \in Queued /\ (request[d].at \in BeforeRow => ~row[d].linked)
        /\ row[d].status = "received" => Handled(d)
    BY <2>1, WorkerIsQueued DEF AfterHandler, Reported
  <2>3. Written(d, row[d].status, row[d].linked)
    BY <2>1, UnwrittenRow
  <2>4. left' \in [Deliveries -> ObjectOrNone]
    BY <1>1, <2>1 DEF Run
  <2>5. run[d][n].at \in Reported \ {"done"}
    BY <2>1 DEF Reported
  <2> QED
    BY <2>1, <2>2, <2>3, <2>4, <2>5, WorkerGoes
<1>5. CASE WorkerRecordsObject(d, n)
  <2>1. /\ run[d][n].at = "recordObject" /\ run' = [run EXCEPT ![d][n].at = "link"]
        /\ UNCHANGED <<request, activity, object, revision, seen, deletions, witnessed,
                       storer, faulty, received, left>>
        /\ RecordFetchedObject(d, run[d][n].fetched)
    BY <1>5 DEF WorkerRecordsObject, RunTo, store, history, marks
  <2>2. /\ d \in Queued /\ (request[d].at \in BeforeRow => ~row[d].linked)
        /\ row[d].status = "received" => Handled(d)
    BY <2>1, WorkerIsQueued DEF AfterHandler, Reported
  <2>3. Written(d, row[d].status, row[d].linked)
    BY <1>1, <2>1, FetchedWrites DEF Run
  <2>4. run[d][n].at \in Reported \ {"done"}
    BY <2>1 DEF Reported
  <2> QED
    BY <1>1, <2>1, <2>2, <2>3, <2>4, WorkerGoes
<1>6. CASE WorkerLinks(d, n)
  <2>1. /\ run[d][n].at = "link" /\ run' = [run EXCEPT ![d][n].at = "done"]
        /\ UNCHANGED <<request, activity, object, revision, seen, deletions, witnessed,
                       storer, faulty, received, left>>
        /\ LinkInboundActivity(d)
    BY <1>6 DEF WorkerLinks, RunTo, store, history, marks
  <2>2. /\ d \in Queued
        /\ request[d].at \in BeforeRow => row[d].status = "unrecorded" /\ ~row[d].linked
        /\ row[d].status = "received" => Handled(d)
    BY <2>1, WorkerIsQueued DEF AfterHandler, Reported
  <2>3. Written(d, row[d].status, row[d].linked \/ Linkable(d))
    BY <2>1, LinkWrites
  <2>4. request[d].at \in BeforeRow => ~(row[d].linked \/ Linkable(d))
    BY <2>2 DEF Linkable
  <2>5. run[d][n].at \in Reported \ {"done"}
    BY <2>1 DEF Reported
  <2> DEFINE linked == row[d].linked \/ Linkable(d)
  <2>6. Written(d, row[d].status, linked) /\ (request[d].at \in BeforeRow => ~linked)
    BY <2>3, <2>4
  <2> HIDE DEF linked
  <2> QED
    BY <1>1, <2>1, <2>2, <2>5, <2>6, WorkerGoes
<1> QED
  BY <1>2, <1>3, <1>4, <1>5, <1>6 DEF Worker

LEMMA WorkerFailsKeeps ==
  ASSUME InboundAssumption, DInv, NEW d \in Deliveries, NEW n \in Runs, WorkerFails(d, n)
  PROVE  Kept(d)
<1> USE DEF DInv
<1>1. /\ UNCHANGED <<request, activity, object, revision, seen, deletions, witnessed,
                     storer, received, left, row, receipts>>
      /\ faulty' = faulty \union {d}
      /\ run[d][n].at \in AfterHandler
  BY DEF WorkerFails, store, marks, AfterHandler, Reported
<1>2. PICK to \in {"leave", "link", "done"} : run' = [run EXCEPT ![d][n].at = to]
  BY DEF WorkerFails, AfterReceive
<1>3. /\ d \in Queued /\ (request[d].at \in BeforeRow => ~row[d].linked)
      /\ row[d].status = "received" => Handled(d)
  BY <1>1, WorkerIsQueued
<1>4. Written(d, row[d].status, row[d].linked) /\ left \in [Deliveries -> ObjectOrNone]
  BY <1>1, UnwrittenRow, TypeIs
<1> QED
  BY <1>1, <1>2, <1>3, <1>4, WorkerGoes DEF AfterHandler

LEMMA WorkerDiesKeeps ==
  ASSUME InboundAssumption, DInv, NEW d \in Deliveries, NEW n \in Runs, WorkerDies(d, n)
  PROVE  Kept(d)
<1> DEFINE new == [run[d][n] EXCEPT !.at = "done"]
           again == n + 1 \in Runs /\ run[d][n + 1].at = "none"
           runs == [m \in Runs |->
                      CASE m = n -> [run[d][m] EXCEPT !.at = "done"]
                        [] m = n + 1 /\ run[d][m].at = "none" ->
                             [NoRun EXCEPT !.at = "queued"]
                        [] OTHER -> run[d][m]]
<1>1. /\ d \in Queued /\ run[d][n].at \notin {"none", "queued", "done"}
      /\ run' = [run EXCEPT ![d] = runs] /\ faulty' = faulty \union {d}
      /\ UNCHANGED <<request, row, receipts, received, left, activity, object, revision,
                     seen, deletions, witnessed, storer>>
  BY DEF WorkerDies, marks, store
<1>2. run[d][n] \in Run
  BY TypeIs DEF DInv
<1>3. new \in Run /\ new.at = "done" /\ (new.handled <=> run[d][n].handled)
  BY <1>2 DEF Run, RunPoints
<1>4. runs = [m \in Runs |-> IF m = n THEN new ELSE IF m = n + 1 /\ again THEN Retried
                             ELSE run[d][m]]
  <2>1. n # n + 1
    BY DEF Runs
  <2> QED
    BY <2>1 DEF Retried
<1> HIDE DEF new, runs
<1>5. again \in BOOLEAN /\ (again /\ n + 1 \in Runs => run[d][n + 1].at = "none")
  OBVIOUS
<1> HIDE DEF again
<1>6. RunGoes(d, n, new, again)
  BY <1>1, <1>3, <1>4, <1>5, RunsReplaced DEF DInv
<1>7. GoesOn(d, n, new, again)
  BY <1>1, <1>3, <1>5 DEF GoesOn, Listening
<1>8. RunOK(d, n) /\ RequestOK(d) /\ ReceptionOK(d)
  BY DEF DInv, DeliveryOK
<1>9. (\A m \in Runs : RunOK(d, m)') /\ (Handled(d) => Handled(d)')
  BY <1>1, <1>3, <1>5, <1>6, <1>7, <1>8, RunsGoOn DEF RunOK
<1>10. TypeOK'
  BY <1>1, <1>6, TypeIs, TypeNext DEF DInv, RunGoes
<1>11. OthersKept(d)
  BY <1>1, <1>6 DEF OthersKept, RunGoes
<1>12. RequestOK(d)'
  BY <1>1, <1>8 DEF RequestOK
<1>13. ReceptionOK(d)'
  BY <1>1, <1>3, <1>5, <1>6, <1>7, <1>9, ReceptionGoesOn
<1> QED
  BY <1>9, <1>10, <1>11, <1>12, <1>13 DEF Kept, DeliveryOK

-----------------------------------------------------------------------------
(* The recorder.                                                           *)

RecordPoints == RequestPoints \ {"expected", "answering", "done"}

\* A recorder that knows of the worker's mark is bound to update the row.
LEMMA RecorderGoes ==
  ASSUME InboundAssumption, DInv, NEW d \in Deliveries, request[d].at \in RecordPoints,
         NEW q \in Request, RequestGoes(d, q), q.at \notin BeforeRow,
         q.payload = request[d].payload, q.verified <=> request[d].verified,
         q.accepted <=> request[d].accepted, q.handled <=> request[d].handled,
         q.at = "receive" => d \in received,
         NEW status, NEW linked, Written(d, status, linked),
         UNCHANGED <<run, received, seen, witnessed, Rest>>,
         faulty' \in {faulty, faulty \union {d}},
         status = "received" => row[d].status = "received" \/ Handled(d) \/ request[d].handled,
         d \notin faulty' =>
           /\ \/ status = ClassifyInbound(request[d])
              \/ status = "received" /\ ClassifyInbound(request[d]) = "acknowledged"
           /\ Shown(d) /\ d \in received /\ request[d].accepted =>
                q.at \in {"record", "lookReceived", "receive"} \/ status = "received"
  PROVE  Kept(d)
<1>1. /\ request'[d] = q /\ run'[d] = run[d] /\ row'[d].status = status
      /\ \A n \in Runs : RunOK(d, n)
      /\ RequestOK(d) /\ ReceptionOK(d)
  BY DEF DInv, DeliveryOK, RequestGoes, Written
<1>2. TypeOK'
  BY TypeIs, TypeKept, WritesKeep DEF DInv, RequestGoes
<1>3. OthersKept(d)
  BY WritesKeep DEF OthersKept, RequestGoes
<1>4. \A n \in Runs : RunOK(d, n)'
  BY <1>1 DEF RunOK, BeforeRow, RecordPoints
<1>5. RequestOK(d)'
  BY <1>1 DEF RequestOK
<1>6. ReceptionOK(d)'
  <2>1. ClassifyInbound(q) = ClassifyInbound(request[d])
    BY DEF ClassifyInbound
  <2>2. Handled(d)' <=> Handled(d)
    BY <1>1 DEF Handled
  <2>3. d \in received' => Handled(d)'
    BY <1>1, <2>2 DEF ReceptionOK
  <2>4. row'[d].status = "received" => request'[d].handled \/ Handled(d)'
    BY <1>1, <2>2 DEF ReceptionOK
  <2>5. ASSUME d \notin faulty' PROVE Classified(d)'
    <3>1. \/ status = ClassifyInbound(q)
          \/ status = "received" /\ ClassifyInbound(q) = "acknowledged"
      BY <2>1, <2>5
    <3>2. Classified(d)' <=> \/ row'[d].status = ClassifyInbound(request'[d])
                             \/ /\ row'[d].status = "received"
                                /\ ClassifyInbound(request'[d]) = "acknowledged"
      BY DEF Classified, ClassifyInbound
    <3> QED
      BY <1>1, <3>1, <3>2
  <2>6. ASSUME d \notin faulty', d \in Queued, NEW n \in Runs
        PROVE  /\ run[d][n].handled /\ run[d][n].at # "mark" => d \in received
               /\ run[d][n].handled /\ run[d][n].at \in Reported => Shown(d)'
    <3>1. d \notin faulty
      BY <2>6
    <3>2. /\ run[d][n].handled /\ run[d][n].at # "mark" => d \in received
          /\ run[d][n].handled /\ run[d][n].at \in Reported => Shown(d)
      BY <1>1, <2>6, <3>1 DEF ReceptionOK
    <3>3. run[d][n].at \in Reported => request[d].accepted /\ run[d][n].at # "mark"
      BY <1>1, <2>6 DEF RunOK, Reported
    <3>4. run[d][n].handled /\ run[d][n].at \in Reported => Shown(d)'
      BY <1>1, <2>6, <3>2, <3>3 DEF Shown
    <3> QED
      BY <3>2, <3>4
  <2> QED
    BY <1>1, <2>3, <2>4, <2>5, <2>6 DEF ReceptionOK
<1> QED
  BY <1>2, <1>3, <1>4, <1>5, <1>6 DEF Kept, DeliveryOK

LEMMA UnrecordedIs == Unrecorded \in Row /\ ~Unrecorded.linked
BY DEF Unrecorded, Row, Statuses, PayloadOrNone, ObjectOrNone

LEMMA NewRowWrites ==
  ASSUME TypeOK, NEW d \in Deliveries, NEW status \in Statuses, NEW verified \in BOOLEAN,
         NEW payload \in PayloadOrNone, NEW fetched \in ObjectOrNone,
         row' = [row EXCEPT ![d] =
                  [Unrecorded EXCEPT !.status = status, !.verified = verified,
                                     !.payload = payload, !.fetchedObject = fetched]],
         UNCHANGED receipts
  PROVE  /\ Written(d, status, FALSE)
         /\ row'[d].verified <=> verified
         /\ row'[d].payload = payload
<1> DEFINE r == [Unrecorded EXCEPT !.status = status, !.verified = verified,
                                   !.payload = payload, !.fetchedObject = fetched]
<1>1. /\ r \in Row /\ r.status = status /\ ~r.linked /\ r.payload = payload
      /\ r.verified <=> verified
  BY UnrecordedIs DEF Row
<1>2. row' = [row EXCEPT ![d] = r]
  OBVIOUS
<1> HIDE DEF r
<1>3. r.linked = FALSE
  BY <1>1 DEF Row
<1> QED
  BY <1>1, <1>2, <1>3, TypeIs DEF Written

LEMMA RecordWrites ==
  ASSUME InboundAssumption, DInv, NEW d \in Deliveries, RecordInbound(d)
  PROVE  Records(d) /\ Written(d, ClassifyInbound(request[d]), FALSE)
<1> DEFINE q == request[d]
           status == ClassifyInbound(q)
           payload == Stored(q.payload)
           fetched == Stored(q.fetched)
<1>1. q \in Request /\ row[d].status = "unrecorded" /\ ~row[d].linked
  BY TypeIs DEF DInv, DeliveryOK, RequestOK, BeforeRow, RecordInbound, RequestTo
<1>2. /\ status \in Statuses \ {"unrecorded"}
      /\ status = "rejected" => q.verified
      /\ status = "unverified" => ~q.verified
  BY DEF ClassifyInbound, Statuses
<1>3. payload \in PayloadOrNone /\ fetched \in ObjectOrNone /\ q.verified \in BOOLEAN
  BY <1>1, StoredType DEF Request
<1>4. /\ row' = [row EXCEPT ![d] =
                   [Unrecorded EXCEPT !.status = status, !.verified = q.verified,
                                      !.payload = payload, !.fetchedObject = fetched]]
      /\ UNCHANGED receipts
  BY DEF RecordInbound
<1> HIDE DEF status, payload, fetched, q
<1>5. Written(d, status, FALSE)
  BY <1>2, <1>3, <1>4, NewRowWrites DEF DInv
<1>6. Records(d)
  BY <1>1, <1>2, <1>3, <1>4 DEF Records
<1> QED
  BY <1>5, <1>6 DEF status, q

LEMMA RecorderKeeps ==
  ASSUME InboundAssumption, DInv, NEW d \in Deliveries, Recorder(d)
  PROVE  Kept(d)
<1> USE DEF DInv
<1>1. request[d] \in Request /\ left[d] \in ObjectOrNone
  BY TypeIs
<1>2. /\ row[d].status = "received" => Handled(d) \/ request[d].handled
      /\ request[d].at = "receive" => d \in received
      /\ d \in received => Handled(d)
      /\ d \notin faulty /\ request[d].at \notin BeforeRow => Classified(d)
  BY DEF DeliveryOK, RequestOK, ReceptionOK
<1>3. ASSUME NEW to \in RequestPoints \ BeforeRow, request' = [request EXCEPT ![d].at = to]
      PROVE  \E q \in Request :
               /\ RequestGoes(d, q) /\ q.at = to
               /\ q.payload = request[d].payload
               /\ q.verified <=> request[d].verified
               /\ q.accepted <=> request[d].accepted
               /\ q.handled <=> request[d].handled
  <2> DEFINE q == [request[d] EXCEPT !.at = to]
  <2>1. /\ q \in Request /\ q.at = to /\ q.payload = request[d].payload
        /\ q.verified <=> request[d].verified
        /\ q.accepted <=> request[d].accepted
        /\ q.handled <=> request[d].handled
    BY <1>1 DEF Request
  <2>2. request' = [request EXCEPT ![d] = q]
    BY <1>3
  <2> HIDE DEF q
  <2> QED
    BY <2>1, <2>2, RequestChanged
<1>4. CASE RecordInbound(d)
  <2> DEFINE status == ClassifyInbound(request[d])
             to == IF status = "acknowledged" THEN "lookReceived" ELSE "link"
  <2>1. /\ request[d].at = "record" /\ request' = [request EXCEPT ![d].at = to]
        /\ UNCHANGED <<run, received, seen, witnessed, Rest, faulty>>
    BY <1>4 DEF RecordInbound, RequestTo, marks, store, history, Rest
  <2>2. to \in RequestPoints \ BeforeRow /\ to \in {"lookReceived", "link"}
    BY DEF RequestPoints, BeforeRow
  <2>3. Written(d, status, FALSE)
    BY <1>4, RecordWrites
  <2>4. /\ status = "received" => request[d].handled
        /\ request[d].accepted => to = "lookReceived" \/ status = "received"
    BY DEF ClassifyInbound
  <2>5. status = ClassifyInbound(request[d])
    OBVIOUS
  <2> HIDE DEF status, to
  <2>6. PICK q \in Request :
          /\ RequestGoes(d, q) /\ q.at = to
          /\ q.payload = request[d].payload
          /\ q.verified <=> request[d].verified
          /\ q.accepted <=> request[d].accepted
          /\ q.handled <=> request[d].handled
    BY <1>3, <2>1, <2>2
  <2>7. q.at \notin BeforeRow /\ q.at # "receive" /\ request[d].at \in RecordPoints
    BY <2>1, <2>2, <2>6 DEF RecordPoints, RequestPoints
  <2> QED
    BY <2>1, <2>3, <2>4, <2>5, <2>6, <2>7, RecorderGoes
<1>5. ASSUME NEW to \in RequestPoints \ BeforeRow, NEW linked,
             request' = [request EXCEPT ![d].at = to],
             request[d].at \in RecordPoints \ {"record"},
             UNCHANGED <<run, received, seen, witnessed, Rest>>,
             Written(d, row[d].status, linked),
             faulty' \in {faulty, faulty \union {d}},
             to = "receive" => d \in received,
             d \notin faulty' =>
               /\ request[d].at # "receive"
               /\ request[d].at = "lookReceived" /\ d \in received => to = "receive"
      PROVE  Kept(d)
  <2>1. PICK q \in Request :
          /\ RequestGoes(d, q) /\ q.at = to
          /\ q.payload = request[d].payload
          /\ q.verified <=> request[d].verified
          /\ q.accepted <=> request[d].accepted
          /\ q.handled <=> request[d].handled
    BY <1>3, <1>5
  <2>2. d \notin faulty' => Classified(d)
    BY <1>2, <1>5 DEF RecordPoints, BeforeRow
  <2>3. d \notin faulty' =>
          /\ \/ row[d].status = ClassifyInbound(request[d])
             \/ /\ row[d].status = "received"
                /\ ClassifyInbound(request[d]) = "acknowledged"
          /\ Shown(d) /\ d \in received =>
               to \in {"record", "lookReceived", "receive"} \/ row[d].status = "received"
    BY <1>5, <2>2 DEF Classified, Shown
  <2> QED
    BY <1>2, <1>5, <2>1, <2>3, RecorderGoes
<1>6. CASE LookReceived(d)
  <2> DEFINE to == IF d \in received THEN "receive" ELSE "lookFetched"
  <2>1. /\ request[d].at = "lookReceived" /\ request' = [request EXCEPT ![d].at = to]
        /\ UNCHANGED <<run, received, seen, witnessed, Rest, faulty, row, receipts>>
    BY <1>6 DEF LookReceived, RequestTo, marks, store, history, Rest
  <2>2. to \in RequestPoints \ BeforeRow /\ request[d].at \in RecordPoints \ {"record"}
    BY <2>1 DEF RequestPoints, BeforeRow, RecordPoints
  <2>3. to = "receive" <=> d \in received
    OBVIOUS
  <2> HIDE DEF to
  <2> QED
    BY <1>5, <2>1, <2>2, <2>3, UnwrittenRow
<1>7. CASE ReceiveMeanwhile(d)
  <2> DEFINE status == IF row[d].status = "acknowledged" THEN "received" ELSE row[d].status
  <2>1. /\ request[d].at = "receive" /\ request' = [request EXCEPT ![d].at = "lookFetched"]
        /\ UNCHANGED <<run, received, seen, witnessed, Rest, faulty>>
    BY <1>7 DEF ReceiveMeanwhile, RequestTo, marks, store, history, Rest
  <2>2. Written(d, status, row[d].linked)
    BY <1>7, ReceiveWrites DEF ReceiveMeanwhile
  <2>3. PICK q \in Request :
          /\ RequestGoes(d, q) /\ q.at = "lookFetched"
          /\ q.payload = request[d].payload
          /\ q.verified <=> request[d].verified
          /\ q.accepted <=> request[d].accepted
          /\ q.handled <=> request[d].handled
    BY <1>3, <2>1 DEF RequestPoints, BeforeRow
  <2>4. q.at \notin BeforeRow /\ request[d].at \in RecordPoints
    BY <2>1, <2>3 DEF RecordPoints, RequestPoints, BeforeRow
  <2>5. Handled(d)
    BY <1>2, <2>1
  <2>6. d \notin faulty => Classified(d)
    BY <1>2, <2>1 DEF BeforeRow
  <2>7. d \notin faulty =>
          /\ \/ status = ClassifyInbound(request[d])
             \/ status = "received" /\ ClassifyInbound(request[d]) = "acknowledged"
          /\ request[d].accepted => status = "received"
    BY <2>6 DEF Classified, ClassifyInbound
  <2> HIDE DEF status
  <2> QED
    BY <2>1, <2>2, <2>3, <2>4, <2>5, <2>7, RecorderGoes
<1>8. CASE LookFetched(d)
  <2> DEFINE to == IF left[d] # None THEN "fetched" ELSE "link"
             q == [request[d] EXCEPT !.at = to, !.found = left[d]]
  <2>1. /\ request[d].at = "lookFetched" /\ request' = [request EXCEPT ![d] = q]
        /\ UNCHANGED <<run, received, seen, witnessed, Rest, faulty, row, receipts>>
    BY <1>8 DEF LookFetched, marks, store, history, Rest
  <2>2. to \in RequestPoints \ BeforeRow /\ to # "receive"
    BY DEF RequestPoints, BeforeRow
  <2> HIDE DEF to
  <2>3. /\ q \in Request /\ q.at = to /\ q.payload = request[d].payload
        /\ q.verified <=> request[d].verified
        /\ q.accepted <=> request[d].accepted
        /\ q.handled <=> request[d].handled
    BY <1>1, <2>2 DEF Request
  <2> HIDE DEF q
  <2>4. RequestGoes(d, q)
    BY <2>1, <2>3, RequestChanged
  <2>5. d \notin faulty => Classified(d)
    BY <1>2, <2>1 DEF BeforeRow
  <2>6. Shown(d) => row[d].status = "received"
    BY <2>1 DEF Shown
  <2>7. Written(d, row[d].status, row[d].linked)
    BY <2>1, UnwrittenRow
  <2>8. request[d].at \in RecordPoints
    BY <2>1 DEF RecordPoints, RequestPoints
  <2> QED
    BY <1>2, <2>1, <2>2, <2>3, <2>4, <2>5, <2>6, <2>7, <2>8, RecorderGoes DEF Classified
<1>9. CASE FetchedMeanwhile(d)
  <2>1. /\ request[d].at = "fetched" /\ request' = [request EXCEPT ![d].at = "link"]
        /\ UNCHANGED <<run, received, seen, witnessed, Rest, faulty>>
        /\ RecordFetchedObject(d, request[d].found)
    BY <1>9 DEF FetchedMeanwhile, RequestTo, marks, store, history, Rest
  <2>2. Written(d, row[d].status, row[d].linked)
    BY <1>1, <2>1, FetchedWrites DEF Request
  <2>3. "link" \in RequestPoints \ BeforeRow /\ request[d].at \in RecordPoints \ {"record"}
    BY <2>1 DEF RequestPoints, BeforeRow, RecordPoints
  <2> QED
    BY <1>5, <2>1, <2>2, <2>3
<1>10. CASE RequestLinks(d)
  <2>1. /\ request[d].at = "link" /\ request' = [request EXCEPT ![d].at = "done"]
        /\ UNCHANGED <<run, received, seen, witnessed, Rest, faulty>>
        /\ LinkInboundActivity(d)
    BY <1>10 DEF RequestLinks, RequestTo, marks, store, history, Rest
  <2>2. Written(d, row[d].status, row[d].linked \/ Linkable(d))
    BY <2>1, LinkWrites
  <2>3. "done" \in RequestPoints \ BeforeRow /\ request[d].at \in RecordPoints \ {"record"}
    BY <2>1 DEF RequestPoints, BeforeRow, RecordPoints
  <2> QED
    BY <1>5, <2>1, <2>2, <2>3
<1> QED
  BY <1>4, <1>6, <1>7, <1>8, <1>9, <1>10 DEF Recorder

LEMMA RecorderFailsKeeps ==
  ASSUME InboundAssumption, DInv, NEW d \in Deliveries, RecorderFails(d)
  PROVE  Kept(d)
<1>1. /\ request[d].at \in RecordPoints /\ request' = [request EXCEPT ![d].at = "done"]
      /\ UNCHANGED <<run, received, seen, witnessed, Rest, row, receipts>>
      /\ faulty' = faulty \union {d}
  <2>1. request[d].at \in RequestPoints
    BY TypeIs DEF DInv, Request
  <2> QED
    BY <2>1 DEF RecorderFails, RecordPoints, marks, store, Rest
<1> DEFINE q == [request[d] EXCEPT !.at = "done"]
<1>2. request[d] \in Request
  BY TypeIs DEF DInv
<1>3. /\ q \in Request /\ q.at = "done" /\ q.payload = request[d].payload
      /\ q.verified <=> request[d].verified
      /\ q.accepted <=> request[d].accepted
      /\ q.handled <=> request[d].handled
  BY <1>2 DEF Request, RequestPoints
<1>4. request' = [request EXCEPT ![d] = q]
  BY <1>1
<1> HIDE DEF q
<1>5. RequestGoes(d, q) /\ q.at \notin BeforeRow
  BY <1>3, <1>4, RequestChanged DEF DInv, BeforeRow
<1>6. row[d].status = "received" => Handled(d) \/ request[d].handled
  BY DEF DInv, DeliveryOK, ReceptionOK
<1>7. Written(d, row[d].status, row[d].linked)
  BY <1>1, UnwrittenRow DEF DInv
<1> QED
  BY <1>1, <1>3, <1>5, <1>6, <1>7, RecorderGoes

-----------------------------------------------------------------------------
(* Every step.                                                             *)

LEMMA DeletionKeeps ==
  ASSUME InboundAssumption, DInv, Deletion
  PROVE  DInv'
<1>1. /\ row \in [Deliveries -> Row] /\ receipts \in [Deliveries -> SUBSET Roles]
      /\ deletions \in 0 .. MaxDeletions /\ object \in TypedObject
  BY TypeIs DEF DInv
<1>2. NoObject \in TypedObject
  BY DEF NoObject, TypedObject, DocOrNone
<1>3. UNCHANGED <<request, run, received, left, seen, faulty, witnessed, storer>>
  BY DEF Deletion, DeleteActivity, RestoreActivity, DeleteObject, marks, history
<1>4. /\ row' \in [Deliveries -> Row] /\ receipts' \in [Deliveries -> SUBSET Roles]
      /\ \A d \in Deliveries : /\ row'[d].status = row[d].status
                               /\ ~row[d].linked => ~row'[d].linked
  <2>1. CASE DeleteActivity
    <3>1. row' = [d \in Deliveries |-> [row[d] EXCEPT !.linked = FALSE]]
      BY <2>1 DEF DeleteActivity
    <3>2. \A d \in Deliveries : /\ [row[d] EXCEPT !.linked = FALSE] \in Row
                                /\ [row[d] EXCEPT !.linked = FALSE].status = row[d].status
                                /\ ~[row[d] EXCEPT !.linked = FALSE].linked
      BY <1>1 DEF Row
    <3>3. receipts' \in [Deliveries -> SUBSET Roles]
      BY <1>1, <2>1 DEF DeleteActivity
    <3> QED
      BY <3>1, <3>2, <3>3
  <2>2. ASSUME NEW payload \in Payloads, RestoreActivity(payload)
        PROVE  UNCHANGED <<row, receipts>>
    BY <2>2 DEF RestoreActivity
  <2>3. CASE DeleteObject
    BY <1>1, <2>3 DEF DeleteObject
  <2> QED
    BY <1>1, <2>1, <2>2, <2>3 DEF Deletion
<1>5. /\ activity' \in PayloadOrNone /\ object' \in TypedObject /\ revision' \in Revision
      /\ deletions' \in 0 .. MaxDeletions
  <2>1. activity \in PayloadOrNone /\ revision \in Revision
    BY TypeIs DEF DInv
  <2>2. deletions < MaxDeletions => deletions + 1 \in 0 .. MaxDeletions
    BY <1>1, InboundAssumption DEF InboundAssumption
  <2> QED
    BY <1>1, <1>2, <2>1, <2>2
    DEF Deletion, DeleteActivity, RestoreActivity, DeleteObject, PayloadOrNone
<1>6. TypeOK'
  BY <1>3, <1>4, <1>5, TypeIs, TypeNext DEF DInv
<1>7. ASSUME NEW d \in Deliveries PROVE DeliveryOK(d)'
  <2>1. DeliveryOK(d)
    BY DEF DInv
  <2>2. row'[d].status = row[d].status /\ (~row[d].linked => ~row'[d].linked)
    BY <1>4
  <2>3. \A n \in Runs : RunOK(d, n)'
    BY <1>3, <2>1 DEF DeliveryOK, RunOK
  <2>4. RequestOK(d)'
    BY <1>3, <2>1, <2>2 DEF DeliveryOK, RequestOK
  <2>5. ReceptionOK(d)'
    BY <1>3, <2>1, <2>2
    DEF DeliveryOK, ReceptionOK, Handled, Shown, Classified, ClassifyInbound
  <2> QED
    BY <2>3, <2>4, <2>5 DEF DeliveryOK
<1> QED
  BY <1>6, <1>7 DEF DInv

LEMMA InitDeliveries == ASSUME InboundAssumption, Init PROVE DInv
<1>1. Expected \in Request /\ Expected.at = "expected" /\ ~Expected.handled
  BY ExpectedIs DEF Expected
<1>2. NoRun \in Run /\ NoRun.at = "none" /\ ~NoRun.handled
  BY DEF NoRun, Run, RunPoints, ObjectOrNone
<1>3. Unrecorded \in Row /\ ~Unrecorded.linked /\ Unrecorded.status = "unrecorded"
  BY UnrecordedIs DEF Unrecorded
<1>4. object \in TypedObject /\ revision \in Revision
  <2>1. NoObject \in TypedObject
    BY DEF NoObject, TypedObject, DocOrNone
  <2>2. \A doc \in ObjectDocs :
          [document |-> doc, fetched |-> TRUE, carrier |-> FALSE] \in TypedObject
    BY DEF TypedObject, DocOrNone, Docs
  <2> QED
    BY <2>1, <2>2 DEF Init, Revision, PayloadOrNone, DocOrNone, Docs
<1>5. /\ request = [d \in Deliveries |-> Expected]
      /\ run = [d \in Deliveries |-> [n \in Runs |-> NoRun]]
      /\ row = [d \in Deliveries |-> Unrecorded]
      /\ receipts = [d \in Deliveries |-> {}] /\ received = {}
      /\ left = [d \in Deliveries |-> None] /\ activity = None /\ seen = FALSE
      /\ deletions = 0 /\ faulty = {} /\ witnessed = {} /\ storer = None
  BY DEF Init
<1>6. 0 \in 0 .. MaxDeletions
  BY DEF InboundAssumption
<1>7. TypeOK
  BY <1>1, <1>2, <1>3, <1>4, <1>5, <1>6, TypeIs DEF PayloadOrNone, ObjectOrNone
<1>8. ASSUME NEW d \in Deliveries PROVE DeliveryOK(d)
  <2>1. request[d] = Expected /\ row[d] = Unrecorded /\ \A n \in Runs : run[d][n] = NoRun
    BY <1>5
  <2>2. \A n \in Runs : n + 1 \in Runs => run[d][n + 1].at = "none"
    BY <1>2, <2>1
  <2>3. \A n \in Runs : RunOK(d, n)
    BY <1>2, <2>1, <2>2 DEF RunOK
  <2>4. RequestOK(d) /\ ReceptionOK(d)
    BY <1>1, <1>2, <1>3, <1>5, <2>1 DEF RequestOK, ReceptionOK, BeforeRow
  <2> QED
    BY <2>3, <2>4 DEF DeliveryOK
<1> QED
  BY <1>7, <1>8 DEF DInv

LEMMA DeliveriesNext == ASSUME InboundAssumption, DInv, [Next]_vars PROVE DInv'
<1>1. CASE UNCHANGED vars
  <2>1. UNCHANGED <<request, run, row, receipts, received, left, activity, object,
                    revision, seen, deletions, faulty, witnessed, storer>>
    BY <1>1 DEF vars
  <2>2. TypeOK'
    BY <2>1, TypeIs, TypeNext DEF DInv
  <2>3. ASSUME NEW d \in Deliveries PROVE DeliveryOK(d)'
    BY <2>1 DEF DInv, DeliveryOK, RunOK, RequestOK, ReceptionOK, Handled, Shown,
                Classified, ClassifyInbound
  <2> QED
    BY <2>2, <2>3 DEF DInv
<1>2. ASSUME NEW d \in Deliveries,
             Arrive(d) \/ (\E n \in Runs : Listener(d, n) \/ Worker(d, n))
               \/ Recorder(d) \/ Failure(d)
      PROVE  DInv'
  <2>1. Kept(d)
    BY <1>2, ArriveKeeps, ListenerKeeps, WorkerKeeps, RecorderKeeps, RecorderFailsKeeps,
       WorkerFailsKeeps, WorkerDiesKeeps
    DEF Failure
  <2> QED
    BY <2>1, OthersStay
<1> QED
  BY <1>1, <1>2, DeletionKeeps DEF Next

\* Whatever the requests carry and whichever bookkeeping fails or is retried,
\* every variable keeps its type.
THEOREM InboundTypeCorrectness == Spec => []TypeOK
<1>1. Init => DInv
  BY InitDeliveries, InboundAssumption
<1>2. DInv /\ [Next]_vars => DInv'
  BY DeliveriesNext, InboundAssumption
<1>3. DInv => TypeOK
  BY DEF DInv
<1> QED
  BY <1>1, <1>2, <1>3, PTL DEF Spec

-----------------------------------------------------------------------------
(* What is linked and received of the stored activity and object.           *)

\* Only a typed activity is linked, and a typed activity has a first revision.
StoreOK ==
  /\ activity # None => revision.activity # None
  /\ \A d \in Deliveries : row[d].linked => activity # None

\* The transaction of a listener that stores the activity.
StoresActivity ==
  /\ revision.activity = None
  /\ activity' \in Payloads
  /\ revision' = [activity |-> activity', object |-> object'.document]
  /\ UNCHANGED <<row, receipts, deletions>>

\* A step that does not store or delete a typed row.
WritesOf(d) == Writes(d) /\ UNCHANGED <<activity, object, revision, deletions>>

\* A step of the request, the worker or the recorder of d.
StepOf(d) ==
  \/ Arrive(d)
  \/ \E n \in Runs : Listener(d, n) \/ Worker(d, n)
  \/ Recorder(d)
  \/ Failure(d)

LEMMA DeliveryWrites ==
  ASSUME InboundAssumption, DInv, NEW d \in Deliveries, StepOf(d)
  PROVE  (WritesOf(d) /\ UNCHANGED storer) \/ \E n \in Runs : StoreCreate(d, n)
<1> USE DEF DInv
<1>1. ASSUME Arrive(d) PROVE WritesOf(d) /\ UNCHANGED storer
  BY <1>1 DEF Arrive, Refuse, AcknowledgeDuplicate, Accept, store, history, WritesOf, Writes
<1>2. ASSUME NEW n \in Runs, Listener(d, n), ~StoreCreate(d, n)
      PROVE  WritesOf(d) /\ UNCHANGED storer
  BY <1>2 DEF Listener, StartRun, SkipDuplicate, LoadObject, RefuseCreate, ThrowInListener,
              store, history, WritesOf, Writes
<1>3. ASSUME NEW n \in Runs, Worker(d, n) PROVE WritesOf(d) /\ UNCHANGED storer
  <2>1. run[d][n].fetched \in ObjectOrNone
    BY TypeIs DEF Run
  <2> QED
    BY <1>3, <2>1
    DEF Worker, WorkerMarks, WorkerReceives, WorkerLeavesObject, WorkerRecordsObject,
        WorkerLinks, RunTo, store, history, WritesOf, Writes
<1>4. ASSUME Recorder(d) PROVE WritesOf(d) /\ UNCHANGED storer
  <2>1. request[d].found \in ObjectOrNone
    BY TypeIs DEF Request
  <2>2. CASE RecordInbound(d)
    BY <2>2, RecordWrites DEF RecordInbound, RequestTo, store, history, WritesOf, Writes
  <2>3. CASE FetchedMeanwhile(d)
    BY <2>1, <2>3 DEF FetchedMeanwhile, RequestTo, store, history, WritesOf, Writes
  <2> QED
    BY <1>4, <2>2, <2>3
    DEF Recorder, LookReceived, ReceiveMeanwhile, LookFetched, RequestLinks, RequestTo,
        store, history, WritesOf, Writes
<1>5. ASSUME Failure(d) PROVE WritesOf(d) /\ UNCHANGED storer
  BY <1>5 DEF Failure, RecorderFails, WorkerFails, WorkerDies, store, history, WritesOf, Writes
<1> QED
  BY <1>1, <1>2, <1>3, <1>4, <1>5 DEF StepOf

LEMMA StepWrites ==
  ASSUME InboundAssumption, DInv, Next
  PROVE  (\E d \in Deliveries : WritesOf(d)) \/ StoresActivity \/ Deletion
<1>1. ASSUME NEW d \in Deliveries, NEW n \in Runs, StoreCreate(d, n) PROVE StoresActivity
  BY <1>1, StoreCreateTypes DEF StoreCreate, StoresActivity
<1>2. CASE \E d \in Deliveries : StepOf(d)
  BY <1>1, <1>2, DeliveryWrites
<1>3. CASE Deletion
  BY <1>3
<1> QED
  BY <1>2, <1>3 DEF Next, StepOf

\* MarksAreEvidence and ReceiptsFollowMarks for one delivery.
Evident(d) ==
  row[d].linked =>
    /\ row[d].carriedSnapshot => row[d].payload # None /\ row[d].payload = activity
    /\ row[d].carriedObjectSnapshot /\ object.document # None =>
         /\ row[d].carriedSnapshot
         /\ object.fetched => row[d].fetchedObject = object.document

ActivityKept(d) == row[d].linked /\ row[d].carriedSnapshot /\ revision.activity = activity

Followed(d) ==
  /\ "activity" \in receipts[d] <=> ActivityKept(d)
  /\ "object" \in receipts[d] <=>
       /\ ActivityKept(d)
       /\ row[d].carriedObjectSnapshot
       /\ object.document # None
       /\ revision.object = object.document

LEMMA JustifiedIs ==
  ReceiptsAreJustified <=> \A d \in Deliveries : Evident(d) /\ Followed(d)
BY DEF ReceiptsAreJustified, MarksAreEvidence, ReceiptsFollowMarks, Evident, Followed, ActivityKept

\* A decision leaves exactly the marks and the receipts the row justifies.
LEMMA DecideJustifies ==
  ASSUME TypeOK, NEW d \in Deliveries, NEW r \in Row, DecideCarried(d, r),
         UNCHANGED <<activity, object, revision>>
  PROVE  Evident(d)' /\ Followed(d)'
<1>1. row \in [Deliveries -> Row] /\ receipts \in [Deliveries -> SUBSET Roles]
  BY TypeIs
<1>2. CASE r.linked
  <2> DEFINE decided == [r EXCEPT !.carriedSnapshot = CarriesActivity(r),
                                  !.carriedObjectSnapshot = CarriesObject(r)]
  <2>1. CarriesActivity(r) \in BOOLEAN /\ CarriesObject(r) \in BOOLEAN
    BY DEF CarriesActivity, CarriesObject
  <2>2. /\ decided.payload = r.payload /\ decided.fetchedObject = r.fetchedObject
        /\ decided.linked
        /\ decided.carriedSnapshot <=> CarriesActivity(r)
        /\ decided.carriedObjectSnapshot <=> CarriesObject(r)
    BY <1>2, <2>1 DEF Row
  <2>3. row' = [row EXCEPT ![d] = decided] /\ receipts' = [receipts EXCEPT ![d] = ReceiptsOf(r)]
    BY <1>2 DEF DecideCarried
  <2> HIDE DEF decided
  <2>4. row'[d] = decided /\ receipts'[d] = ReceiptsOf(r)
    BY <1>1, <2>3
  <2>5. Evident(d)'
    BY <2>2, <2>4 DEF Evident, CarriesActivity, CarriesObject
  <2>6. /\ "activity" \in ReceiptsOf(r) <=> CarriesActivity(r) /\ revision.activity = activity
        /\ "object" \in ReceiptsOf(r) <=> /\ CarriesActivity(r)
                                          /\ revision.activity = activity
                                          /\ CarriesObject(r)
                                          /\ revision.object = object.document
    BY DEF ReceiptsOf
  <2>7. CarriesObject(r) => object.document # None
    BY DEF CarriesObject
  <2>8. ActivityKept(d)' <=> CarriesActivity(r) /\ revision.activity = activity
    BY <2>2, <2>4 DEF ActivityKept
  <2>9. Followed(d)'
    BY <2>2, <2>4, <2>6, <2>7, <2>8 DEF Followed
  <2> QED
    BY <2>5, <2>9
<1>3. CASE ~r.linked
  <2>1. row'[d] = r /\ receipts'[d] = {}
    BY <1>1, <1>3 DEF DecideCarried
  <2> QED
    BY <1>3, <2>1 DEF Evident, Followed, ActivityKept
<1> QED
  BY <1>2, <1>3

LEMMA WritesJustify ==
  ASSUME InboundAssumption, DInv, StoreOK, ReceiptsAreJustified,
         NEW d \in Deliveries, WritesOf(d)
  PROVE  StoreOK' /\ ReceiptsAreJustified'
<1>1. /\ row \in [Deliveries -> Row] /\ receipts \in [Deliveries -> SUBSET Roles]
      /\ row[d] \in Row /\ TypeOK
  BY TypeIs DEF DInv
<1>2. Evident(d) /\ Followed(d)
  BY JustifiedIs
<1>3. UNCHANGED <<activity, object, revision>>
  BY DEF WritesOf
<1>4. \E status, linked : Written(d, status, linked) /\ (linked => row[d].linked \/ activity # None)
  <2>1. CASE UNCHANGED <<row, receipts>>
    BY <1>1, <2>1, UnwrittenRow
  <2>2. CASE Records(d)
    BY <1>1, <2>2, NewRowWrites DEF Records
  <2>3. CASE ReceiveInbound(d)
    BY <1>1, <2>3, ReceiveWrites
  <2>4. CASE LinkInboundActivity(d)
    BY <1>1, <2>4, LinkWrites DEF Linkable
  <2>5. ASSUME NEW document \in ObjectOrNone, RecordFetchedObject(d, document)
        PROVE  \E status, linked :
                 Written(d, status, linked) /\ (linked => row[d].linked \/ activity # None)
    BY <1>1, <2>5, FetchedWrites
  <2> QED
    BY <2>1, <2>2, <2>3, <2>4, <2>5 DEF WritesOf, Writes
<1>5. StoreOK'
  BY <1>3, <1>4 DEF StoreOK, Written
<1>6. Evident(d)' /\ Followed(d)'
  <2>1. CASE UNCHANGED <<row, receipts>>
    BY <1>2, <1>3, <2>1 DEF Evident, Followed, ActivityKept
  <2>2. CASE Records(d)
    <3>1. PICK status \in Statuses \ {"unrecorded"}, verified \in BOOLEAN,
               payload \in PayloadOrNone, fetched \in ObjectOrNone :
            row' = [row EXCEPT ![d] =
                     [Unrecorded EXCEPT !.status = status, !.verified = verified,
                                        !.payload = payload, !.fetchedObject = fetched]]
      BY <2>2 DEF Records
    <3>2. UNCHANGED receipts /\ ~row[d].linked
      BY <2>2 DEF Records
    <3>3. ~row'[d].linked
      BY <1>1, <3>1, <3>2, NewRowWrites DEF Written
    <3>4. receipts'[d] = receipts[d]
      BY <3>2
    <3> QED
      BY <1>2, <3>2, <3>3, <3>4 DEF Evident, Followed, ActivityKept
  <2>3. CASE ReceiveInbound(d)
    <3>1. /\ row'[d].linked = row[d].linked
          /\ row'[d].carriedSnapshot = row[d].carriedSnapshot
          /\ row'[d].carriedObjectSnapshot = row[d].carriedObjectSnapshot
          /\ row'[d].payload = row[d].payload
          /\ row'[d].fetchedObject = row[d].fetchedObject
          /\ receipts'[d] = receipts[d]
      BY <1>1, <2>3 DEF ReceiveInbound, Row
    <3> QED
      BY <1>2, <1>3, <3>1 DEF Evident, Followed, ActivityKept
  <2>4. CASE LinkInboundActivity(d)
    <3>1. CASE Linkable(d)
      <4> DEFINE r == [row[d] EXCEPT !.linked = TRUE]
      <4>1. r \in Row /\ DecideCarried(d, r)
        BY <1>1, <2>4, <3>1 DEF LinkInboundActivity, Row
      <4> HIDE DEF r
      <4> QED
        BY <1>1, <1>3, <4>1, DecideJustifies
    <3>2. CASE ~Linkable(d)
      BY <2>1, <2>4, <3>2 DEF LinkInboundActivity
    <3> QED
      BY <3>1, <3>2
  <2>5. ASSUME NEW document \in ObjectOrNone, RecordFetchedObject(d, document)
        PROVE  Evident(d)' /\ Followed(d)'
    <3>1. CASE row[d].status # "unrecorded"
      <4> DEFINE r == [row[d] EXCEPT !.fetchedObject = Stored(document)]
      <4>1. r \in Row /\ DecideCarried(d, r)
        BY <1>1, <2>5, <3>1, StoredType DEF RecordFetchedObject, Row
      <4> HIDE DEF r
      <4> QED
        BY <1>1, <1>3, <4>1, DecideJustifies
    <3>2. CASE row[d].status = "unrecorded"
      BY <2>1, <2>5, <3>2 DEF RecordFetchedObject
    <3> QED
      BY <3>1, <3>2
  <2> QED
    BY <2>1, <2>2, <2>3, <2>4, <2>5 DEF WritesOf, Writes
<1>7. ASSUME NEW e \in Deliveries \ {d} PROVE Evident(e)' /\ Followed(e)'
  <2>1. row'[e] = row[e] /\ receipts'[e] = receipts[e]
    BY <1>4 DEF Written
  <2>2. Evident(e) /\ Followed(e)
    BY JustifiedIs
  <2> QED
    BY <1>3, <2>1, <2>2 DEF Evident, Followed, ActivityKept
<1>8. \A e \in Deliveries : Evident(e)' /\ Followed(e)'
  BY <1>6, <1>7
<1> QED
  BY <1>5, <1>8 DEF ReceiptsAreJustified, MarksAreEvidence, ReceiptsFollowMarks, Evident,
                    Followed, ActivityKept

\* While nothing is linked nothing is marked or received.
LEMMA UnlinkedIsJustified ==
  ASSUME \A d \in Deliveries : /\ ~row'[d].linked
                               /\ "activity" \notin receipts'[d]
                               /\ "object" \notin receipts'[d]
  PROVE  ReceiptsAreJustified'
BY DEF ReceiptsAreJustified, MarksAreEvidence, ReceiptsFollowMarks

LEMMA StoringJustifies ==
  ASSUME InboundAssumption, DInv, StoreOK, ReceiptsAreJustified, StoresActivity
  PROVE  StoreOK' /\ ReceiptsAreJustified' /\ activity = None
<1>1. activity = None /\ \A d \in Deliveries : ~row[d].linked
  BY DEF StoreOK, StoresActivity
<1>2. \A d \in Deliveries : Followed(d)
  BY JustifiedIs
<1>3. \A d \in Deliveries : "activity" \notin receipts[d] /\ "object" \notin receipts[d]
  BY <1>1, <1>2 DEF Followed, ActivityKept
<1>4. UNCHANGED <<row, receipts>> /\ revision'.activity = activity'
  BY DEF StoresActivity
<1>5. ReceiptsAreJustified'
  BY <1>1, <1>3, <1>4, UnlinkedIsJustified
<1>6. StoreOK'
  BY <1>1, <1>4 DEF StoreOK
<1> QED
  BY <1>1, <1>5, <1>6

LEMMA DeletionJustifies ==
  ASSUME InboundAssumption, DInv, StoreOK, ReceiptsAreJustified, Deletion
  PROVE  StoreOK' /\ ReceiptsAreJustified'
<1>1. /\ row \in [Deliveries -> Row] /\ receipts \in [Deliveries -> SUBSET Roles]
  BY TypeIs DEF DInv
<1>2. \A d \in Deliveries : Evident(d) /\ Followed(d)
  BY JustifiedIs
<1>3. CASE DeleteActivity
  <2>1. /\ activity' = None
        /\ row' = [d \in Deliveries |-> [row[d] EXCEPT !.linked = FALSE]]
        /\ receipts' = [d \in Deliveries |-> IF row[d].linked THEN {} ELSE receipts[d]]
        /\ UNCHANGED revision
    BY <1>3 DEF DeleteActivity
  <2>2. \A d \in Deliveries : ~[row[d] EXCEPT !.linked = FALSE].linked
    BY <1>1 DEF Row
  <2>3. \A d \in Deliveries : ~row'[d].linked
    BY <2>1, <2>2
  <2>4. \A d \in Deliveries : "activity" \notin receipts'[d] /\ "object" \notin receipts'[d]
    BY <1>2, <2>1 DEF Followed, ActivityKept
  <2>5. ReceiptsAreJustified'
    BY <2>3, <2>4, UnlinkedIsJustified
  <2> QED
    BY <2>1, <2>3, <2>5 DEF StoreOK
<1>4. ASSUME NEW payload \in Payloads, RestoreActivity(payload)
      PROVE  StoreOK' /\ ReceiptsAreJustified'
  <2>1. /\ activity = None /\ revision.activity # None
        /\ UNCHANGED <<row, receipts, revision>>
    BY <1>4 DEF RestoreActivity
  <2>2. \A d \in Deliveries : ~row[d].linked
    BY <2>1 DEF StoreOK
  <2>3. \A d \in Deliveries : "activity" \notin receipts[d] /\ "object" \notin receipts[d]
    BY <1>2, <2>2 DEF Followed, ActivityKept
  <2>4. ReceiptsAreJustified'
    BY <2>1, <2>2, <2>3, UnlinkedIsJustified
  <2> QED
    BY <2>1, <2>2, <2>4 DEF StoreOK
<1>5. CASE DeleteObject
  <2>1. /\ UNCHANGED <<row, activity, revision>> /\ object'.document = None
        /\ receipts' = [d \in Deliveries |-> receipts[d] \ {"object"}]
    BY <1>5 DEF DeleteObject, NoObject
  <2>2. StoreOK'
    BY <2>1 DEF StoreOK
  <2>3. ASSUME NEW d \in Deliveries PROVE Evident(d)' /\ Followed(d)'
    BY <1>2, <2>1 DEF Evident, Followed, ActivityKept
  <2> QED
    BY <2>2, <2>3 DEF ReceiptsAreJustified, MarksAreEvidence, ReceiptsFollowMarks, Evident,
                      Followed, ActivityKept
<1> QED
  BY <1>3, <1>4, <1>5 DEF Deletion

JInv == DInv /\ StoreOK /\ ReceiptsAreJustified

LEMMA InitJustified == ASSUME InboundAssumption, Init PROVE JInv
<1>1. /\ \A d \in Deliveries : row[d] = Unrecorded /\ receipts[d] = {}
      /\ activity = None
  BY DEF Init
<1>2. StoreOK
  BY <1>1, UnrecordedIs DEF StoreOK
<1>3. ReceiptsAreJustified
  BY <1>1, UnrecordedIs DEF ReceiptsAreJustified, MarksAreEvidence, ReceiptsFollowMarks
<1> QED
  BY <1>2, <1>3, InitDeliveries DEF JInv

LEMMA JustifiedNext == ASSUME InboundAssumption, JInv, [Next]_vars PROVE JInv'
<1>1. DInv'
  BY DeliveriesNext DEF JInv
<1>2. CASE UNCHANGED vars
  BY <1>1, <1>2 DEF JInv, vars, StoreOK, ReceiptsAreJustified, MarksAreEvidence,
                    ReceiptsFollowMarks
<1>3. CASE Next
  BY <1>1, <1>3, StepWrites, WritesJustify, StoringJustifies, DeletionJustifies DEF JInv
<1> QED
  BY <1>2, <1>3

LEMMA JustifiedInvariance == Spec => []JInv
<1>1. Init => JInv
  BY InitJustified, InboundAssumption
<1>2. JInv /\ [Next]_vars => JInv'
  BY JustifiedNext, InboundAssumption
<1> QED
  BY <1>1, <1>2, PTL DEF Spec

\* Whatever fails, is retried, deleted or stored again, a linked delivery is
\* marked with no more than its row holds, and has the receipts its marks and
\* the first revisions justify, no more and no fewer.
THEOREM ReceiptsStayJustified == Spec => []ReceiptsAreJustified
<1>1. JInv => ReceiptsAreJustified
  BY DEF JInv
<1> QED
  BY <1>1, JustifiedInvariance, PTL

-----------------------------------------------------------------------------
(* The log of deliveries.                                                  *)

\* A step that does not change what the log shows of d besides its link.
SameLog(d) ==
  /\ row'[d].status = row[d].status
  /\ row'[d].verified = row[d].verified
  /\ row'[d].payload = row[d].payload

LEMMA DecideKeepsLog ==
  ASSUME TypeOK, NEW d \in Deliveries, NEW r \in Row, DecideCarried(d, r)
  PROVE  /\ row'[d].status = r.status /\ row'[d].verified = r.verified
         /\ row'[d].payload = r.payload /\ row'[d].linked = r.linked
<1> DEFINE decided == [r EXCEPT !.carriedSnapshot = CarriesActivity(r),
                                !.carriedObjectSnapshot = CarriesObject(r)]
<1>1. row \in [Deliveries -> Row]
  BY TypeIs
<1>2. /\ decided.status = r.status /\ decided.verified = r.verified
      /\ decided.payload = r.payload /\ decided.linked = r.linked
  BY DEF Row
<1>3. row' = [row EXCEPT ![d] = decided] \/ row' = [row EXCEPT ![d] = r]
  BY DEF DecideCarried
<1> HIDE DEF decided
<1> QED
  BY <1>1, <1>2, <1>3

\* The ways a write shows in the log: not at all, or as one of its steps.
LEMMA WriteIsLogStep ==
  ASSUME InboundAssumption, JInv, NEW d \in Deliveries, WritesOf(d)
  PROVE  /\ \A e \in Deliveries \ {d} : row'[e] = row[e]
         /\ \/ SameLog(d) /\ row'[d].linked = row[d].linked
            \/ /\ row[d].status = "unrecorded" /\ ~row[d].linked /\ ~row'[d].linked
               /\ \E s \in {"received", "acknowledged", "unverified", "rejected"},
                     v \in BOOLEAN, p \in PayloadOrNone :
                    /\ s = "rejected" => v
                    /\ s = "unverified" => ~v
                    /\ row'[d].status = s /\ row'[d].verified = v /\ row'[d].payload = p
            \/ /\ row[d].status = "acknowledged" /\ row'[d].status = "received"
               /\ row'[d].verified = row[d].verified /\ row'[d].payload = row[d].payload
               /\ row'[d].linked = row[d].linked
            \/ SameLog(d) /\ Linkable(d) /\ row'[d].linked
<1>1. TypeOK /\ row[d] \in Row /\ row \in [Deliveries -> Row]
  BY TypeIs DEF JInv, DInv
<1>2. CASE UNCHANGED <<row, receipts>>
  BY <1>2 DEF SameLog
<1>3. CASE Records(d)
  <2>1. PICK status \in Statuses \ {"unrecorded"}, verified \in BOOLEAN,
             payload \in PayloadOrNone, fetched \in ObjectOrNone :
          /\ status = "rejected" => verified
          /\ status = "unverified" => ~verified
          /\ row' = [row EXCEPT ![d] =
                   [Unrecorded EXCEPT !.status = status, !.verified = verified,
                                      !.payload = payload, !.fetchedObject = fetched]]
    BY <1>3 DEF Records
  <2>2. UNCHANGED receipts /\ row[d].status = "unrecorded" /\ ~row[d].linked
    BY <1>3 DEF Records
  <2>3. /\ Written(d, status, FALSE)
        /\ row'[d].verified <=> verified
        /\ row'[d].payload = payload
    BY <1>1, <2>1, <2>2, NewRowWrites
  <2>4. row' \in [Deliveries -> Row] /\ row'[d].verified \in BOOLEAN
    BY <2>3 DEF Written, Row
  <2>5. row'[d].verified = verified
    BY <2>3, <2>4
  <2> QED
    BY <2>1, <2>2, <2>3, <2>5 DEF Written, Statuses
<1>4. CASE ReceiveInbound(d)
  <2>1. /\ row'[d].verified = row[d].verified /\ row'[d].payload = row[d].payload
        /\ row'[d].linked = row[d].linked
        /\ \A e \in Deliveries \ {d} : row'[e] = row[e]
        /\ row'[d].status = IF row[d].status = "acknowledged" THEN "received" ELSE row[d].status
    BY <1>1, <1>4 DEF ReceiveInbound, Row
  <2> QED
    BY <2>1 DEF SameLog
<1>5. CASE LinkInboundActivity(d)
  <2>1. CASE Linkable(d)
    <3> DEFINE r == [row[d] EXCEPT !.linked = TRUE]
    <3>1. /\ r \in Row /\ r.status = row[d].status /\ r.verified = row[d].verified
          /\ r.payload = row[d].payload /\ r.linked
      BY <1>1 DEF Row
    <3>2. DecideCarried(d, r)
      BY <1>5, <2>1 DEF LinkInboundActivity
    <3> HIDE DEF r
    <3> QED
      BY <1>1, <2>1, <3>1, <3>2, DecideKeepsLog, DecideWrites DEF SameLog, Written
  <2>2. CASE ~Linkable(d)
    BY <1>2, <1>5, <2>2 DEF LinkInboundActivity
  <2> QED
    BY <2>1, <2>2
<1>6. ASSUME NEW document \in ObjectOrNone, RecordFetchedObject(d, document),
             row[d].status # "unrecorded"
      PROVE  /\ SameLog(d) /\ row'[d].linked = row[d].linked
             /\ \A e \in Deliveries \ {d} : row'[e] = row[e]
  <2> DEFINE r == [row[d] EXCEPT !.fetchedObject = Stored(document)]
  <2>1. /\ r \in Row /\ r.status = row[d].status /\ r.verified = row[d].verified
        /\ r.payload = row[d].payload /\ r.linked = row[d].linked
    BY <1>1, <1>6, StoredType DEF Row
  <2>2. DecideCarried(d, r)
    BY <1>6 DEF RecordFetchedObject
  <2> HIDE DEF r
  <2> QED
    BY <1>1, <2>1, <2>2, DecideKeepsLog, DecideWrites DEF SameLog, Written
<1>7. ASSUME NEW document \in ObjectOrNone, RecordFetchedObject(d, document),
             row[d].status = "unrecorded"
      PROVE  UNCHANGED <<row, receipts>>
  BY <1>7 DEF RecordFetchedObject
<1> QED
  BY <1>2, <1>3, <1>4, <1>5, <1>6, <1>7 DEF WritesOf, Writes

LogStatus == [d \in Deliveries |-> row[d].status]
LogVerified == [d \in Deliveries |-> row[d].verified]
LogPayload == [d \in Deliveries |-> row[d].payload]
Linked == {d \in Deliveries : row[d].linked}

LEMMA LogStep ==
  ASSUME InboundAssumption, JInv, [Next]_vars
  PROVE  [Lifecycle!Next]_(Lifecycle!vars)
<1> SUFFICES Lifecycle!Next \/ UNCHANGED <<LogStatus, LogVerified, LogPayload, Linked, activity>>
  BY DEF Lifecycle!vars, LogStatus, LogVerified, LogPayload, Linked
<1>1. CASE UNCHANGED vars
  BY <1>1 DEF vars, LogStatus, LogVerified, LogPayload, Linked
<1>2. ASSUME NEW d \in Deliveries, WritesOf(d)
      PROVE  Lifecycle!Next \/ UNCHANGED <<LogStatus, LogVerified, LogPayload, Linked, activity>>
  <2>1. UNCHANGED activity /\ \A e \in Deliveries \ {d} : row'[e] = row[e]
    BY <1>2, WriteIsLogStep DEF WritesOf
  <2>2. CASE SameLog(d) /\ row'[d].linked = row[d].linked
    BY <2>1, <2>2 DEF SameLog, LogStatus, LogVerified, LogPayload, Linked
  <2>3. ASSUME row[d].status = "unrecorded", ~row[d].linked, ~row'[d].linked,
               NEW s \in {"received", "acknowledged", "unverified", "rejected"},
               NEW v \in BOOLEAN, NEW p \in PayloadOrNone,
               s = "rejected" => v, s = "unverified" => ~v,
               row'[d].status = s, row'[d].verified = v, row'[d].payload = p
        PROVE  Lifecycle!Next
    <3>1. /\ LogStatus[d] = "unrecorded"
          /\ LogStatus' = [LogStatus EXCEPT ![d] = s]
          /\ LogVerified' = [LogVerified EXCEPT ![d] = v]
          /\ LogPayload' = [LogPayload EXCEPT ![d] = p]
          /\ Linked' = Linked
      BY <2>1, <2>3 DEF LogStatus, LogVerified, LogPayload, Linked
    <3>2. Lifecycle!Record(d, s, v, p)
      BY <2>1, <2>3, <3>1
      DEF Lifecycle!Record, LogStatus, LogVerified, LogPayload, Linked
    <3> QED
      BY <3>2 DEF Lifecycle!Next, PayloadOrNone
  <2>4. CASE /\ row[d].status = "acknowledged" /\ row'[d].status = "received"
             /\ row'[d].verified = row[d].verified /\ row'[d].payload = row[d].payload
             /\ row'[d].linked = row[d].linked
    <3>1. /\ LogStatus[d] = "acknowledged"
          /\ LogStatus' = [LogStatus EXCEPT ![d] = "received"]
          /\ UNCHANGED <<LogVerified, LogPayload, Linked>>
      BY <2>1, <2>4 DEF LogStatus, LogVerified, LogPayload, Linked
    <3>2. Lifecycle!Receive(d)
      BY <2>1, <3>1 DEF Lifecycle!Receive, LogStatus, LogVerified, LogPayload, Linked
    <3> QED
      BY <3>2 DEF Lifecycle!Next
  <2>5. CASE SameLog(d) /\ Linkable(d) /\ row'[d].linked
    <3>1. /\ UNCHANGED <<LogStatus, LogVerified, LogPayload>>
          /\ LogStatus[d] \in {"received", "acknowledged"} /\ LogVerified[d]
          /\ activity # None /\ d \notin Linked
          /\ Linked' = Linked \union {d}
      BY <2>1, <2>5 DEF SameLog, Linkable, LogStatus, LogVerified, LogPayload, Linked
    <3>2. Lifecycle!Link(d)
      BY <2>1, <3>1 DEF Lifecycle!Link, LogStatus, LogVerified, LogPayload, Linked
    <3> QED
      BY <3>2 DEF Lifecycle!Next
  <2> QED
    BY <1>2, <2>2, <2>3, <2>4, <2>5, WriteIsLogStep
<1>3. CASE StoresActivity
  <2>1. activity = None /\ activity' \in Payloads /\ UNCHANGED row
    BY <1>3, StoringJustifies DEF JInv, StoresActivity
  <2> QED
    BY <2>1 DEF Lifecycle!Next, Lifecycle!Store
<1>4. CASE Deletion
  <2>1. CASE DeleteActivity
    <3>1. \A d \in Deliveries : row[d] \in Row
      BY TypeIs DEF JInv, DInv
    <3>2. \A d \in Deliveries : /\ row'[d].status = row[d].status
                                /\ row'[d].verified = row[d].verified
                                /\ row'[d].payload = row[d].payload
                                /\ ~row'[d].linked
      BY <2>1, <3>1 DEF DeleteActivity, Row
    <3>3. UNCHANGED <<LogStatus, LogVerified, LogPayload>> /\ Linked' = {}
      BY <3>2 DEF LogStatus, LogVerified, LogPayload, Linked
    <3>4. Lifecycle!Remove
      BY <2>1, <3>3
      DEF DeleteActivity, Lifecycle!Remove, LogStatus, LogVerified, LogPayload, Linked
    <3> QED
      BY <3>4 DEF Lifecycle!Next
  <2>2. ASSUME NEW payload \in Payloads, RestoreActivity(payload)
        PROVE  Lifecycle!Next
    BY <2>2 DEF RestoreActivity, Lifecycle!Next, Lifecycle!Store
  <2>3. CASE DeleteObject
    BY <2>3 DEF DeleteObject, LogStatus, LogVerified, LogPayload, Linked
  <2> QED
    BY <1>4, <2>1, <2>2, <2>3 DEF Deletion
<1> QED
  BY <1>1, <1>2, <1>3, <1>4, StepWrites DEF JInv

\* In whatever order recorder and worker write a row and whichever of them
\* fails, the rows and their links change only as the log of deliveries allows:
\* recorded once, acknowledged to received, linked once and only while verified
\* and answered with 2xx.
THEOREM InboundRefinesLifecycle == Spec => ImplementsLifecycle
<1>1. Init => Lifecycle!Init
  <2> SUFFICES ASSUME Init PROVE Lifecycle!Init
    OBVIOUS
  <2>1. \A d \in Deliveries : /\ row[d].status = "unrecorded" /\ row[d].verified = FALSE
                              /\ row[d].payload = None /\ ~row[d].linked
    BY DEF Init, Unrecorded
  <2> QED
    BY <2>1 DEF Init, Lifecycle!Init
<1>2. JInv /\ [Next]_vars => [Lifecycle!Next]_(Lifecycle!vars)
  BY LogStep, InboundAssumption
<1> QED
  BY <1>1, <1>2, JustifiedInvariance, PTL DEF Spec, ImplementsLifecycle, Lifecycle!Spec

-----------------------------------------------------------------------------
(* Nothing is lost.                                                        *)

LEMMA ReceptionIsKept == ASSUME DInv PROVE NoLostReception
<1> SUFFICES ASSUME NEW d \in Deliveries
             PROVE  /\ Recorded(d) /\ Handled(d) => row[d].status = "received"
                    /\ row[d].status = "received" => request[d].handled \/ Handled(d)
  BY DEF NoLostReception, Handled
<1>1. RequestOK(d) /\ ReceptionOK(d) /\ \A n \in Runs : RunOK(d, n)
  BY DEF DInv, DeliveryOK
<1>2. ASSUME Recorded(d), NEW n \in Runs, run[d][n].handled
      PROVE  row[d].status = "received"
  <2>1. /\ request[d].at = "done" /\ d \notin faulty
        /\ run[d][n].at \in {"none", "done"}
    BY <1>2 DEF Recorded, Quiet
  <2>2. run[d][n].at = "done"
    BY <1>1, <1>2, <2>1 DEF RunOK, Listening
  <2>3. CASE d \in Queued
    BY <1>1, <1>2, <2>1, <2>2, <2>3 DEF ReceptionOK, Reported, Shown
  <2>4. CASE d \notin Queued
    BY <1>1, <1>2, <2>1, <2>4 DEF RunOK, ReceptionOK, Classified, ClassifyInbound, BeforeRow
  <2> QED
    BY <2>3, <2>4
<1>3. row[d].status = "received" => request[d].handled \/ Handled(d)
  BY <1>1 DEF ReceptionOK
<1> QED
  BY <1>2, <1>3 DEF Handled

\* While no typed row was deleted, whoever was witnessed left the activity stored.
WitnessOK == deletions = 0 /\ witnessed # {} => activity # None

\* What a step of d that is not a failure leaves to be done: unless it linked,
\* something of d is still under way.
LeavesOpen(d) ==
  /\ UNCHANGED deletions
  /\ activity # None => activity' # None
  /\ \/ UNCHANGED witnessed
     \/ witnessed' = witnessed \union {d} /\ activity' # None
  /\ Quiet(d)' /\ d \notin faulty' =>
       LinkInboundActivity(d) /\ UNCHANGED <<witnessed, activity>>

LEMMA WitnessLeaves ==
  ASSUME NEW d, Witness(d)
  PROVE  UNCHANGED witnessed \/ (witnessed' = witnessed \union {d} /\ activity' # None)
BY DEF Witness

LEMMA ArriveLeavesOpen ==
  ASSUME InboundAssumption, DInv, NEW d \in Deliveries, Arrive(d)
  PROVE  LeavesOpen(d)
<1> PICK payload \in Payloads, verified \in BOOLEAN :
      \/ Refuse(d, payload, verified)
      \/ AcknowledgeDuplicate(d, payload, verified)
      \/ Accept(d, payload, verified)
  BY DEF Arrive
<1>1. request'[d].at # "done"
  <2>1. ASSUME NEW accepted \in BOOLEAN, Answered(d, payload, verified, accepted)
        PROVE  request'[d].at # "done"
    <3>1. \E q : RequestGoes(d, q) /\ AnswerIs(q, "record", payload, accepted)
      BY <2>1, AnsweredRequest DEF DInv
    <3> QED
      BY <3>1 DEF RequestGoes, AnswerIs
  <2>2. CASE Accept(d, payload, verified) /\ d \notin Queued
    <3> DEFINE q == [Expected EXCEPT !.at = "answering", !.payload = payload,
                                     !.verified = verified]
    <3>1. q.at = "answering"
      BY ExpectedIs DEF Request
    <3>2. request' = [request EXCEPT ![d] = q]
      BY <2>2, Zenon DEF Accept
    <3> HIDE DEF q
    <3>3. request'[d] = q
      BY <3>2, TypeIs DEF DInv
    <3> QED
      BY <3>1, <3>3
  <2> QED
    BY <2>1, <2>2 DEF Refuse, AcknowledgeDuplicate, Accept
<1>2. UNCHANGED <<activity, deletions>>
  BY DEF Refuse, AcknowledgeDuplicate, Accept, store
<1>3. UNCHANGED witnessed \/ (witnessed' = witnessed \union {d} /\ activity' # None)
  BY WitnessLeaves DEF Refuse, AcknowledgeDuplicate, Accept, history
<1> QED
  BY <1>1, <1>2, <1>3 DEF LeavesOpen, Quiet

LEMMA ListenerLeavesOpen ==
  ASSUME InboundAssumption, DInv, NEW d \in Deliveries, NEW n \in Runs, Listener(d, n)
  PROVE  LeavesOpen(d)
<1> USE DEF DInv
<1>1. ASSUME NEW handled \in BOOLEAN, NEW threw \in BOOLEAN, Return(d, n, handled, threw)
      PROVE  ~Quiet(d)'
  <2>1. PICK new \in Run, again \in BOOLEAN, q \in Request :
          /\ RunGoes(d, n, new, again) /\ RequestGoes(d, q)
          /\ IF d \in Queued THEN new.at = Report(handled, run[d][n].fetched)
                             ELSE q.at = "record"
    BY <1>1, ReturnGoes
  <2> QED
    BY <2>1 DEF Quiet, RunGoes, RequestGoes, Report
<1>2. CASE StartRun(d, n)
  <2>1. run'[d][n].at = "load"
    BY <1>2, RunIsAt DEF StartRun, RunPoints
  <2> QED
    BY <1>2, <2>1 DEF StartRun, store, history, LeavesOpen, Quiet
<1>3. CASE LoadObject(d, n)
  <2>1. run'[d][n].at = "store"
    <3>1. CASE run' = [run EXCEPT ![d][n].at = "store"]
      BY <3>1, RunIsAt DEF RunPoints
    <3>2. ASSUME NEW doc \in ObjectDocs,
                 run' = [run EXCEPT ![d][n] = [@ EXCEPT !.at = "store", !.fetched = doc]]
          PROVE  run'[d][n].at = "store"
      <4> DEFINE new == [run[d][n] EXCEPT !.at = "store", !.fetched = doc]
      <4>1. run[d][n] \in Run
        BY TypeIs
      <4>2. new \in Run /\ new.at = "store"
        BY <4>1 DEF Run, RunPoints, ObjectOrNone
      <4>3. run' = [run EXCEPT ![d][n] = new]
        BY <3>2
      <4> HIDE DEF new
      <4>4. RunGoes(d, n, new, FALSE)
        BY <4>2, <4>3, RunChanged
      <4> QED
        BY <4>2, <4>4 DEF RunGoes
    <3> QED
      BY <1>3, <3>1, <3>2 DEF LoadObject
  <2> QED
    BY <1>3, <2>1 DEF LoadObject, store, history, LeavesOpen, Quiet
<1>4. CASE SkipDuplicate(d, n)
  BY <1>1, <1>4, WitnessLeaves DEF SkipDuplicate, store, LeavesOpen
<1>5. CASE RefuseCreate(d, n)
  BY <1>1, <1>5, WitnessLeaves DEF RefuseCreate, store, LeavesOpen
<1>6. CASE StoreCreate(d, n)
  <2>1. activity' # None
    BY <1>6, StoreCreateTypes DEF InboundAssumption
  <2> QED
    BY <1>1, <1>6, <2>1, WitnessLeaves DEF StoreCreate, LeavesOpen
<1>7. CASE ThrowInListener(d, n)
  BY <1>1, <1>7 DEF ThrowInListener, store, history, LeavesOpen
<1> QED
  BY <1>2, <1>3, <1>4, <1>5, <1>6, <1>7 DEF Listener

LEMMA WorkerLeavesOpen ==
  ASSUME InboundAssumption, DInv, NEW d \in Deliveries, NEW n \in Runs, Worker(d, n)
  PROVE  LeavesOpen(d)
<1>1. UNCHANGED <<activity, deletions, witnessed>>
  BY DEF Worker, WorkerMarks, WorkerReceives, WorkerLeavesObject, WorkerRecordsObject,
         WorkerLinks, RunTo, store, history
<1>2. ASSUME NEW to \in {"receive", "leave", "recordObject", "link"},
             run' = [run EXCEPT ![d][n].at = to]
      PROVE  ~Quiet(d)'
  <2>1. run'[d][n].at = to
    BY <1>2, RunIsAt DEF DInv, RunPoints
  <2> QED
    BY <2>1 DEF Quiet
<1>3. LinkInboundActivity(d) \/ ~Quiet(d)'
  BY <1>2 DEF Worker, WorkerMarks, WorkerReceives, WorkerLeavesObject, WorkerRecordsObject,
              WorkerLinks, RunTo, AfterReceive
<1> QED
  BY <1>1, <1>3 DEF LeavesOpen

LEMMA RecorderLeavesOpen ==
  ASSUME InboundAssumption, DInv, NEW d \in Deliveries, Recorder(d)
  PROVE  LeavesOpen(d)
<1>1. UNCHANGED <<activity, deletions, witnessed>>
  BY DEF Recorder, RecordInbound, LookReceived, ReceiveMeanwhile, LookFetched,
         FetchedMeanwhile, RequestLinks, RequestTo, store, history
<1>2. request \in [Deliveries -> Request]
  BY TypeIs DEF DInv
<1>3. ASSUME NEW to, to # "done", request' = [request EXCEPT ![d].at = to]
      PROVE  ~Quiet(d)'
  BY <1>2, <1>3 DEF Request, Quiet
<1>4. CASE LookFetched(d)
  <2> DEFINE to == IF left[d] # None THEN "fetched" ELSE "link"
             q == [request[d] EXCEPT !.at = to, !.found = left[d]]
  <2>1. q.at = to /\ to # "done"
    BY <1>2 DEF Request
  <2>2. request' = [request EXCEPT ![d] = q]
    BY <1>4 DEF LookFetched
  <2> HIDE DEF q
  <2>3. request'[d].at # "done"
    BY <1>2, <2>1, <2>2
  <2> QED
    BY <1>1, <2>3 DEF LeavesOpen, Quiet
<1>5. CASE RecordInbound(d) \/ LookReceived(d) \/ ReceiveMeanwhile(d) \/ FetchedMeanwhile(d)
  <2>1. ~Quiet(d)'
    BY <1>3, <1>5 DEF RecordInbound, LookReceived, ReceiveMeanwhile, FetchedMeanwhile, RequestTo
  <2> QED
    BY <1>1, <2>1 DEF LeavesOpen
<1>6. CASE RequestLinks(d)
  BY <1>1, <1>6 DEF RequestLinks, LeavesOpen
<1> QED
  BY <1>4, <1>5, <1>6 DEF Recorder

LEMMA FailureLeavesOpen ==
  ASSUME InboundAssumption, DInv, NEW d \in Deliveries, Failure(d)
  PROVE  LeavesOpen(d)
BY DEF Failure, RecorderFails, WorkerFails, WorkerDies, store, LeavesOpen

\* NoLostLink for one delivery.
Unlost(d) ==
  /\ Recorded(d)
  /\ d \in witnessed
  /\ row[d].verified
  /\ row[d].status \in {"received", "acknowledged"}
  /\ deletions = 0
  => row[d].linked

LEMMA UnlostIs == NoLostLink <=> \A d \in Deliveries : Unlost(d)
BY DEF NoLostLink, Unlost

LEMMA OpenStays ==
  ASSUME InboundAssumption, DInv, WitnessOK, NoLostLink, NEW d \in Deliveries,
         Kept(d), LeavesOpen(d)
  PROVE  WitnessOK' /\ NoLostLink'
<1>1. WitnessOK'
  BY DEF WitnessOK, LeavesOpen
<1>2. Unlost(d)'
  <2> SUFFICES ASSUME Recorded(d)', d \in witnessed', deletions' = 0, row'[d].verified,
                      row'[d].status \in {"received", "acknowledged"}
               PROVE  row'[d].linked
    BY DEF Unlost
  <2>1. LinkInboundActivity(d) /\ UNCHANGED <<witnessed, activity, deletions>>
    BY DEF Recorded, LeavesOpen
  <2>2. activity # None
    BY <2>1 DEF WitnessOK
  <2>3. CASE Linkable(d)
    BY <2>1, <2>3, LinkWrites DEF Written, DInv
  <2>4. CASE ~Linkable(d)
    <3>1. UNCHANGED row
      BY <2>1, <2>4 DEF LinkInboundActivity
    <3> QED
      BY <2>2, <2>4, <3>1 DEF Linkable
  <2> QED
    BY <2>3, <2>4
<1>3. ASSUME NEW e \in Deliveries \ {d} PROVE Unlost(e)'
  <2>1. /\ request'[e] = request[e] /\ run'[e] = run[e] /\ row'[e] = row[e]
        /\ e \in faulty' <=> e \in faulty
        /\ e \in witnessed' => e \in witnessed
        /\ UNCHANGED deletions
    BY DEF Kept, OthersKept, LeavesOpen
  <2>2. Unlost(e)
    BY UnlostIs
  <2> QED
    BY <2>1, <2>2 DEF Unlost, Recorded, Quiet
<1>4. \A e \in Deliveries : Unlost(e)'
  BY <1>2, <1>3
<1>5. NoLostLink'
  BY <1>4 DEF NoLostLink, Unlost
<1> QED
  BY <1>1, <1>5

LEMMA DeletionLosesNothing ==
  ASSUME InboundAssumption, DInv, WitnessOK, NoLostLink, Deletion
  PROVE  WitnessOK' /\ NoLostLink'
<1>1. deletions \in Nat /\ MaxDeletions \in Nat
  BY TypeIs DEF DInv, InboundAssumption
<1>2. CASE DeleteActivity \/ DeleteObject
  <2>1. deletions' # 0
    BY <1>1, <1>2 DEF DeleteActivity, DeleteObject
  <2> QED
    BY <2>1 DEF WitnessOK, NoLostLink
<1>3. ASSUME NEW payload \in Payloads, RestoreActivity(payload)
      PROVE  WitnessOK' /\ NoLostLink'
  <2>1. /\ activity' # None
        /\ UNCHANGED <<request, run, row, deletions, faulty, witnessed>>
    BY <1>3 DEF RestoreActivity, history, InboundAssumption
  <2>2. WitnessOK'
    BY <2>1 DEF WitnessOK
  <2>3. NoLostLink'
    BY <2>1 DEF NoLostLink, Recorded, Quiet
  <2> QED
    BY <2>2, <2>3
<1> QED
  BY <1>2, <1>3 DEF Deletion

LInv == DInv /\ WitnessOK /\ NoLostLink

LEMMA LostInvariance == Spec => []LInv
<1>1. Init => LInv
  <2> SUFFICES ASSUME Init PROVE LInv
    OBVIOUS
  <2>1. DInv
    BY InitDeliveries, InboundAssumption
  <2>2. witnessed = {}
    BY DEF Init
  <2> QED
    BY <2>1, <2>2 DEF LInv, WitnessOK, NoLostLink
<1>2. LInv /\ [Next]_vars => LInv'
  <2> SUFFICES ASSUME LInv, [Next]_vars PROVE LInv'
    OBVIOUS
  <2>1. DInv /\ DInv'
    BY DeliveriesNext, InboundAssumption DEF LInv
  <2>2. CASE UNCHANGED vars
    BY <2>1, <2>2 DEF LInv, vars, WitnessOK, NoLostLink, Recorded, Quiet
  <2>3. ASSUME NEW d \in Deliveries,
               Arrive(d) \/ (\E n \in Runs : Listener(d, n) \/ Worker(d, n))
                 \/ Recorder(d) \/ Failure(d)
        PROVE  WitnessOK' /\ NoLostLink'
    <3>1. Kept(d)
      BY <2>1, <2>3, InboundAssumption, ArriveKeeps, ListenerKeeps, WorkerKeeps,
         RecorderKeeps, RecorderFailsKeeps, WorkerFailsKeeps, WorkerDiesKeeps
      DEF Failure
    <3>2. LeavesOpen(d)
      BY <2>1, <2>3, InboundAssumption, ArriveLeavesOpen, ListenerLeavesOpen,
         WorkerLeavesOpen, RecorderLeavesOpen, FailureLeavesOpen
    <3> QED
      BY <2>1, <3>1, <3>2, InboundAssumption, OpenStays DEF LInv
  <2>4. CASE Next
    BY <2>1, <2>3, <2>4, InboundAssumption, DeletionLosesNothing DEF LInv, Next
  <2> QED
    BY <2>1, <2>2, <2>4 DEF LInv
<1> QED
  BY <1>1, <1>2, PTL DEF Spec

\* Neither order of recorder and worker, and no retry, loses a reception or a
\* link of a delivery whose bookkeeping did not fail, or invents a reception.
THEOREM NothingStaysLost == Spec => []NothingIsLost
<1>1. LInv => NothingIsLost
  BY ReceptionIsKept DEF LInv, NothingIsLost
<1> QED
  BY <1>1, LostInvariance, PTL

-----------------------------------------------------------------------------
(* What the delivery whose listener stored the activity carried.            *)

\* The message of d was handed out once.
Once(d) == \A n \in Runs \ {1} : run[d][n].at = "none"

\* Where a worker has left the object its listener fetched.
ObjectLeft == {"recordObject", "link", "done"}

\* Where the recorder has yet to write the row of d or to look for what the worker left.
Unshown(d) ==
  BeforeRow \union
  IF d \in Queued THEN {"lookReceived", "receive", "lookFetched", "fetched"} ELSE {}

\* How the mark l and the row w follow the request q and the run r of d: the mark
\* is what the listener fetched once the worker left it, the row shows it once worker
\* and recorder are past it, and it shows the payload.
Carried(d, q, r, w, l) ==
  /\ l = IF d \in Queued /\ r.at \in ObjectLeft THEN r.fetched ELSE None
  /\ q.at = "fetched" =>
       d \in Queued /\ r.at \in ObjectLeft /\ q.found = r.fetched /\ q.found # None
  /\ r.at \in {"link", "done"} /\ r.fetched # None /\ q.at \notin Unshown(d) =>
       w.fetchedObject = Stored(r.fetched)
  /\ d \notin Queued /\ r.at = "done" => q.fetched = r.fetched
  /\ q.at \notin BeforeRow => w.payload = Stored(q.payload)

CarriedOK(d) ==
  Once(d) /\ d \notin faulty => Carried(d, request[d], run[d][1], row[d], left[d])

\* The marks of a linked row are what its row and the typed rows decide, until a
\* deletion, which leaves them as they are.
MarksOK(d) ==
  row[d].linked =>
    /\ row[d].carriedSnapshot <=> CarriesActivity(row[d])
    /\ row[d].carriedObjectSnapshot <=> CarriesObject(row[d])

\* What the typed object has of the run that stored it.
StoredBy(r) ==
  /\ r.handled
  /\ object.carrier =>
       /\ object.document = IF r.fetched = None THEN activity ELSE r.fetched
       /\ object.fetched <=> r.fetched # None

StorerOK ==
  /\ revision.activity = activity
  /\ storer = None => activity = None /\ ~object.carrier
  /\ storer # None =>
       /\ storer \in witnessed
       /\ request[storer].at # "expected"
       /\ activity = request[storer].payload /\ activity # None
       /\ object.document # None
       /\ Once(storer) => StoredBy(run[storer][1])

CInv ==
  /\ \A d \in Deliveries : CarriedOK(d)
  /\ deletions = 0 => StorerOK /\ \A d \in Deliveries : MarksOK(d)

\* What every step of d keeps: a payload once it is there, and what a handled run fetched.
Carries(d) ==
  /\ CarriedOK(d)'
  /\ Once(d)' => Once(d)
  /\ Once(d)' /\ run[d][1].handled =>
       run'[d][1].handled /\ run'[d][1].fetched = run[d][1].fetched
  /\ request[d].at # "expected" =>
       request'[d].at # "expected" /\ request'[d].payload = request[d].payload
  /\ \A e \in Deliveries \ {d} : left'[e] = left[e]
  /\ witnessed \subseteq witnessed'

LEMMA OneIsRun == ASSUME InboundAssumption PROVE 1 \in Runs
BY DEF InboundAssumption, Runs

\* A message that was handed out once has the one run, which does not forget.
LEMMA OnceIs ==
  ASSUME InboundAssumption, NEW d \in Deliveries, NEW n \in Runs, NEW new,
         NEW again \in BOOLEAN, RunGoes(d, n, new, again),
         run[d][n].at # "none", new.at # "none",
         run[d][n].handled => new.handled /\ new.fetched = run[d][n].fetched
  PROVE  /\ Once(d)' => n = 1 /\ Once(d) /\ run'[d][1] = new
         /\ Once(d)' /\ run[d][1].handled =>
              run'[d][1].handled /\ run'[d][1].fetched = run[d][1].fetched
<1>1. run'[d][n] = new
  BY DEF RunGoes
<1>2. ASSUME Once(d)' PROVE n = 1 /\ Once(d)
  <2>1. n = 1
    BY <1>1, <1>2 DEF Once
  <2>2. ASSUME NEW m \in Runs \ {1} PROVE run[d][m].at = "none"
    <3>1. run'[d][m] = Retried \/ run'[d][m] = run[d][m]
      BY <2>1 DEF RunGoes
    <3>2. run'[d][m].at = "none"
      BY <1>2 DEF Once
    <3> QED
      BY <3>1, <3>2, RetriedIs
  <2> QED
    BY <2>1, <2>2 DEF Once
<1> QED
  BY <1>1, <1>2

\* A step that leaves the runs of d alone.
LEMMA RunsStay ==
  ASSUME NEW d, run'[d] = run[d]
  PROVE  /\ Once(d)' <=> Once(d)
         /\ Once(d)' /\ run[d][1].handled =>
              run'[d][1].handled /\ run'[d][1].fetched = run[d][1].fetched
BY DEF Once

LEMMA WitnessGrows ==
  ASSUME NEW d, Witness(d) \/ UNCHANGED witnessed
  PROVE  witnessed \subseteq witnessed'
BY DEF Witness

LEMMA ArriveCarries ==
  ASSUME InboundAssumption, DInv, NEW d \in Deliveries, CarriedOK(d), Arrive(d)
  PROVE  Carries(d)
<1> PICK payload \in Payloads, verified \in BOOLEAN :
      \/ Refuse(d, payload, verified)
      \/ AcknowledgeDuplicate(d, payload, verified)
      \/ Accept(d, payload, verified)
  BY DEF Arrive
<1>1. request[d].at = "expected" /\ UNCHANGED <<left, faulty>>
  BY DEF Refuse, AcknowledgeDuplicate, Accept, marks, history
<1>2. \A n \in Runs : run[d][n].at = "none" /\ ~run[d][n].handled
  BY <1>1, ExpectedHasNoRun
<1>3. witnessed \subseteq witnessed'
  BY WitnessGrows DEF Refuse, AcknowledgeDuplicate, Accept, history
<1>4. 1 \in Runs /\ Once(d)
  BY <1>2, OneIsRun DEF Once
<1>5. request'[d].at \in {"record", "answering"}
  <2>1. ASSUME NEW accepted \in BOOLEAN, Answered(d, payload, verified, accepted)
        PROVE  request'[d].at = "record"
    <3>1. \E q : RequestGoes(d, q) /\ AnswerIs(q, "record", payload, accepted)
      BY <2>1, AnsweredRequest DEF DInv
    <3> QED
      BY <3>1 DEF RequestGoes, AnswerIs
  <2>2. CASE Accept(d, payload, verified) /\ d \notin Queued
    <3> DEFINE q == [Expected EXCEPT !.at = "answering", !.payload = payload,
                                     !.verified = verified]
    <3>1. q.at = "answering"
      BY ExpectedIs DEF Request
    <3>2. request' = [request EXCEPT ![d] = q]
      BY <2>2, Zenon DEF Accept
    <3> HIDE DEF q
    <3>3. request'[d] = q
      BY <3>2, TypeIs DEF DInv
    <3> QED
      BY <3>1, <3>3
  <2> QED
    BY <2>1, <2>2 DEF Refuse, AcknowledgeDuplicate, Accept
<1>6. run'[d][1].at \in {"none", "queued", "load"}
  <2>1. CASE UNCHANGED run
    BY <1>2, <1>4, <2>1
  <2>2. CASE Accept(d, payload, verified)
    <3> DEFINE first == IF d \in Queued THEN "queued" ELSE "load"
    <3>1. run' = [run EXCEPT ![d][1].at = first] /\ first \in RunPoints
      BY <2>2 DEF Accept, RunPoints
    <3> HIDE DEF first
    <3>2. run'[d][1].at = first
      BY <1>4, <3>1, RunIsAt DEF DInv
    <3> QED
      BY <3>2 DEF first
  <2> QED
    BY <2>1, <2>2 DEF Refuse, AcknowledgeDuplicate
<1>7. d \notin faulty => left[d] = None
  BY <1>2, <1>4 DEF CarriedOK, Carried, ObjectLeft
<1>8. CarriedOK(d)'
  BY <1>1, <1>5, <1>6, <1>7 DEF CarriedOK, Carried, ObjectLeft, BeforeRow, Unshown
<1> QED
  BY <1>1, <1>2, <1>3, <1>4, <1>8 DEF Carries

\* A handler that returns, with what it fetched noted in its run and, without a
\* queue, in the request.
LEMMA ReturnCarries ==
  ASSUME InboundAssumption, DInv, NEW d \in Deliveries, NEW n \in Runs, CarriedOK(d),
         NEW handled \in BOOLEAN, NEW threw \in BOOLEAN, Return(d, n, handled, threw),
         run[d][n].at \in {"queued", "load", "store"},
         UNCHANGED <<row, left, faulty>>, witnessed \subseteq witnessed'
  PROVE  /\ Carries(d)
         /\ Once(d)' => /\ n = 1 /\ (run'[d][1].handled <=> handled)
                        /\ run'[d][1].fetched = run[d][1].fetched
<1>1. PICK new \in Run, again \in BOOLEAN, q \in Request :
        /\ RunGoes(d, n, new, again) /\ RequestGoes(d, q)
        /\ new.handled <=> handled
        /\ new.fetched = run[d][n].fetched
        /\ IF d \in Queued
           THEN q = request[d] /\ new.at = Report(handled, run[d][n].fetched)
           ELSE /\ new.at = "done" /\ q.at = "record" /\ q.payload = request[d].payload
                /\ q.fetched = run[d][n].fetched
  <2> HIDE DEF Report
  <2> QED
    BY ReturnGoes DEF DInv
<1>2. RunOK(d, n) /\ ~run[d][n].handled /\ request[d].at # "expected"
  BY DEF DInv, DeliveryOK, RunOK, Listening
<1>3. new.at # "none" /\ (d \in Queued => new.at \in {"mark", "leave", "link"})
      /\ (new.at = "link" => d \in Queued /\ new.fetched = None)
  BY <1>1 DEF Report
<1>4. /\ Once(d)' => n = 1 /\ Once(d) /\ run'[d][1] = new
      /\ Once(d)' /\ run[d][1].handled =>
           run'[d][1].handled /\ run'[d][1].fetched = run[d][1].fetched
  BY <1>1, <1>2, <1>3, OnceIs
<1>5. request'[d] = q /\ row'[d] = row[d] /\ left' = left /\ faulty' = faulty
  BY <1>1 DEF RequestGoes
<1>6. CarriedOK(d)'
  <2> SUFFICES ASSUME Once(d)', d \notin faulty
               PROVE  Carried(d, q, new, row[d], left[d])
    BY <1>4, <1>5 DEF CarriedOK
  <2>1. n = 1 /\ Carried(d, request[d], run[d][1], row[d], left[d])
    BY <1>4 DEF CarriedOK
  <2>2. left[d] = None /\ request[d].at # "fetched"
    BY <2>1 DEF Carried, ObjectLeft
  <2>3. CASE d \in Queued
    BY <1>1, <1>3, <2>1, <2>2, <2>3 DEF Carried, ObjectLeft
  <2>4. CASE d \notin Queued
    BY <1>1, <2>2, <2>4 DEF Carried, Unshown, BeforeRow
  <2> QED
    BY <2>3, <2>4
<1>7. request'[d].at # "expected" /\ request'[d].payload = request[d].payload
  BY <1>1, <1>2, <1>5
<1> QED
  BY <1>1, <1>4, <1>5, <1>6, <1>7 DEF Carries

LEMMA ListenerCarries ==
  ASSUME InboundAssumption, DInv, NEW d \in Deliveries, NEW n \in Runs, CarriedOK(d),
         Listener(d, n)
  PROVE  Carries(d)
<1> USE DEF DInv
<1>1. run[d][n] \in Run /\ ~(run[d][n].at \in Listening /\ run[d][n].handled)
  BY TypeIs DEF DeliveryOK, RunOK
<1>2. UNCHANGED <<row, left, faulty>> /\ witnessed \subseteq witnessed'
  BY WitnessGrows DEF Listener, StartRun, SkipDuplicate, LoadObject, RefuseCreate,
     StoreCreate, ThrowInListener, marks, history
<1>3. ASSUME NEW new \in Run, RunGoes(d, n, new, FALSE), UNCHANGED request,
             run[d][n].at \in {"queued", "load"}, new.at \in {"load", "store"}
      PROVE  Carries(d)
  <2>1. ~run[d][n].handled
    BY <1>1, <1>3 DEF Listening
  <2>2. /\ Once(d)' => n = 1 /\ Once(d) /\ run'[d][1] = new
        /\ Once(d)' /\ run[d][1].handled =>
             run'[d][1].handled /\ run'[d][1].fetched = run[d][1].fetched
    BY <1>3, <2>1, OnceIs
  <2>3. CarriedOK(d)'
    BY <1>2, <1>3, <2>2 DEF CarriedOK, Carried, ObjectLeft
  <2> QED
    BY <1>2, <1>3, <2>2, <2>3 DEF Carries
<1>4. CASE StartRun(d, n)
  <2> DEFINE new == [at |-> "load", handled |-> run[d][n].handled,
                     fetched |-> run[d][n].fetched]
  <2>1. RunGoes(d, n, new, FALSE)
    BY <1>4, RunMoves DEF StartRun, RunPoints
  <2>2. new \in Run /\ new.at = "load"
    BY <1>1 DEF Run, RunPoints
  <2> HIDE DEF new
  <2> QED
    BY <1>3, <1>4, <2>1, <2>2 DEF StartRun
<1>5. CASE LoadObject(d, n)
  <2>1. run[d][n].at = "load" /\ UNCHANGED request
    BY <1>5 DEF LoadObject
  <2>2. CASE request[d].payload \in Embedding
    <3> DEFINE new == [at |-> "store", handled |-> run[d][n].handled,
                       fetched |-> run[d][n].fetched]
    <3>1. RunGoes(d, n, new, FALSE)
      BY <1>5, <2>2, RunMoves DEF LoadObject, RunPoints
    <3>2. new \in Run /\ new.at = "store"
      BY <1>1 DEF Run, RunPoints
    <3> HIDE DEF new
    <3> QED
      BY <1>3, <2>1, <3>1, <3>2
  <2>3. CASE request[d].payload \notin Embedding
    <3> PICK doc \in ObjectDocs :
          run' = [run EXCEPT ![d][n] = [@ EXCEPT !.at = "store", !.fetched = doc]]
      BY <1>5, <2>3 DEF LoadObject
    <3> DEFINE new == [run[d][n] EXCEPT !.at = "store", !.fetched = doc]
    <3>1. run' = [run EXCEPT ![d][n] = new]
      OBVIOUS
    <3>2. new \in Run /\ new.at = "store"
      BY <1>1 DEF Run, RunPoints, ObjectOrNone
    <3> HIDE DEF new
    <3>3. RunGoes(d, n, new, FALSE)
      BY <3>1, <3>2, RunChanged
    <3> QED
      BY <1>3, <2>1, <3>2, <3>3
  <2> QED
    BY <2>2, <2>3
<1>6. CASE SkipDuplicate(d, n)
  BY <1>2, <1>6, ReturnCarries DEF SkipDuplicate
<1>7. CASE RefuseCreate(d, n)
  BY <1>2, <1>7, ReturnCarries DEF RefuseCreate
<1>8. CASE StoreCreate(d, n)
  BY <1>2, <1>8, ReturnCarries DEF StoreCreate
<1>9. CASE ThrowInListener(d, n)
  BY <1>2, <1>9, ReturnCarries DEF ThrowInListener
<1> QED
  BY <1>4, <1>5, <1>6, <1>7, <1>8, <1>9 DEF Listener

\* A decision changes nothing of what the row holds, and leaves it marked accordingly.
LEMMA DecideMarks ==
  ASSUME TypeOK, NEW d \in Deliveries, NEW r \in Row, DecideCarried(d, r)
  PROVE  /\ row'[d].payload = r.payload /\ row'[d].fetchedObject = r.fetchedObject
         /\ UNCHANGED <<activity, object>> => MarksOK(d)'
<1>1. row \in [Deliveries -> Row]
  BY TypeIs
<1>2. CASE r.linked
  <2> DEFINE decided == [r EXCEPT !.carriedSnapshot = CarriesActivity(r),
                                  !.carriedObjectSnapshot = CarriesObject(r)]
  <2>1. CarriesActivity(r) \in BOOLEAN /\ CarriesObject(r) \in BOOLEAN
    BY DEF CarriesActivity, CarriesObject
  <2>2. /\ decided.payload = r.payload /\ decided.fetchedObject = r.fetchedObject
        /\ decided.carriedSnapshot <=> CarriesActivity(r)
        /\ decided.carriedObjectSnapshot <=> CarriesObject(r)
    BY <2>1 DEF Row
  <2>3. row' = [row EXCEPT ![d] = decided]
    BY <1>2 DEF DecideCarried
  <2> HIDE DEF decided
  <2>4. row'[d] = decided
    BY <1>1, <2>3
  <2> QED
    BY <2>2, <2>4 DEF MarksOK, CarriesActivity, CarriesObject
<1>3. CASE ~r.linked
  <2>1. row'[d] = r
    BY <1>1, <1>3 DEF DecideCarried
  <2> QED
    BY <1>3, <2>1 DEF MarksOK
<1> QED
  BY <1>2, <1>3

\* Only the fetched object's own transaction changes it, and none changes the payload.
LEMMA WritesHold ==
  ASSUME InboundAssumption, TypeOK, NEW d \in Deliveries
  PROVE  /\ UNCHANGED row \/ ReceiveInbound(d) \/ LinkInboundActivity(d) =>
              row'[d].payload = row[d].payload /\ row'[d].fetchedObject = row[d].fetchedObject
         /\ \A document \in ObjectOrNone : RecordFetchedObject(d, document) =>
              /\ row'[d].payload = row[d].payload
              /\ row[d].status # "unrecorded" => row'[d].fetchedObject = Stored(document)
<1>1. row \in [Deliveries -> Row] /\ row[d] \in Row
  BY TypeIs
<1>2. ASSUME UNCHANGED row
      PROVE  row'[d].payload = row[d].payload /\ row'[d].fetchedObject = row[d].fetchedObject
  BY <1>2
<1>6. ASSUME ReceiveInbound(d)
      PROVE  row'[d].payload = row[d].payload /\ row'[d].fetchedObject = row[d].fetchedObject
  <2>1. CASE row[d].status = "acknowledged"
    <3> DEFINE r == [row[d] EXCEPT !.status = "received"]
    <3>1. r.payload = row[d].payload /\ r.fetchedObject = row[d].fetchedObject
      BY <1>1 DEF Row
    <3>2. row' = [row EXCEPT ![d] = r]
      BY <1>6, <2>1 DEF ReceiveInbound
    <3> HIDE DEF r
    <3> QED
      BY <1>1, <3>1, <3>2
  <2>2. CASE row[d].status # "acknowledged"
    BY <1>6, <2>2 DEF ReceiveInbound
  <2> QED
    BY <2>1, <2>2
<1>3. ASSUME LinkInboundActivity(d), Linkable(d)
      PROVE  row'[d].payload = row[d].payload /\ row'[d].fetchedObject = row[d].fetchedObject
  <2> DEFINE r == [row[d] EXCEPT !.linked = TRUE]
  <2>1. /\ r \in Row /\ DecideCarried(d, r) /\ r.payload = row[d].payload
        /\ r.fetchedObject = row[d].fetchedObject
    BY <1>1, <1>3 DEF LinkInboundActivity, Row
  <2> HIDE DEF r
  <2> QED
    BY <2>1, DecideMarks
<1>4. ASSUME LinkInboundActivity(d), ~Linkable(d) PROVE UNCHANGED row
  BY <1>4 DEF LinkInboundActivity
<1>5. ASSUME NEW document \in ObjectOrNone, RecordFetchedObject(d, document)
      PROVE  /\ row'[d].payload = row[d].payload
             /\ row[d].status # "unrecorded" => row'[d].fetchedObject = Stored(document)
  <2> DEFINE r == [row[d] EXCEPT !.fetchedObject = Stored(document)]
  <2>1. CASE row[d].status # "unrecorded"
    <3>1. /\ r \in Row /\ DecideCarried(d, r) /\ r.payload = row[d].payload
          /\ r.fetchedObject = Stored(document)
      BY <1>1, <1>5, <2>1, StoredType DEF RecordFetchedObject, Row
    <3> HIDE DEF r
    <3> QED
      BY <3>1, DecideMarks
  <2>2. CASE row[d].status = "unrecorded"
    BY <1>5, <2>2 DEF RecordFetchedObject
  <2> QED
    BY <2>1, <2>2
<1> QED
  BY <1>2, <1>3, <1>4, <1>5, <1>6

\* A row whose recorder is past its write is there.
LEMMA RowIsThere ==
  ASSUME DInv, NEW d \in Deliveries, d \notin faulty, request[d].at \notin BeforeRow
  PROVE  row[d].status # "unrecorded"
BY DEF DInv, DeliveryOK, ReceptionOK, Classified, ClassifyInbound

LEMMA WorkerCarries ==
  ASSUME InboundAssumption, DInv, NEW d \in Deliveries, NEW n \in Runs, CarriedOK(d),
         Worker(d, n)
  PROVE  Carries(d)
<1> USE DEF DInv
<1>1. /\ UNCHANGED <<request, faulty, witnessed>>
      /\ run[d][n].at \in AfterHandler
      /\ \A e \in Deliveries \ {d} : left'[e] = left[e]
  BY TypeIs DEF Worker, WorkerMarks, WorkerReceives, WorkerLeavesObject, WorkerRecordsObject,
     WorkerLinks, RunTo, history, marks, AfterHandler, Reported
<1>2. d \in Queued /\ run[d][n].fetched \in ObjectOrNone
  BY <1>1, TypeIs, WorkerIsQueued DEF Run
<1>3. ASSUME NEW to \in {"receive", "leave", "recordObject", "link", "done"},
             run' = [run EXCEPT ![d][n].at = to],
             Once(d) /\ d \notin faulty /\ n = 1 =>
               \A r : r.at = to /\ r.fetched = run[d][1].fetched =>
                 Carried(d, request[d], r, row'[d], left'[d])
      PROVE  Carries(d)
  <2> DEFINE new == [at |-> to, handled |-> run[d][n].handled,
                     fetched |-> run[d][n].fetched]
  <2>1. to \in RunPoints
    BY DEF RunPoints
  <2>2. RunGoes(d, n, new, FALSE)
    BY <1>3, <2>1, RunMoves
  <2>3. /\ new.at = to /\ (new.handled <=> run[d][n].handled)
        /\ new.fetched = run[d][n].fetched
    OBVIOUS
  <2> HIDE DEF new
  <2>4. /\ Once(d)' => n = 1 /\ Once(d) /\ run'[d][1] = new
        /\ Once(d)' /\ run[d][1].handled =>
             run'[d][1].handled /\ run'[d][1].fetched = run[d][1].fetched
    BY <1>1, <2>2, <2>3, OnceIs DEF AfterHandler, Reported
  <2>5. CarriedOK(d)'
    BY <1>1, <1>3, <2>3, <2>4 DEF CarriedOK
  <2> QED
    BY <1>1, <2>4, <2>5 DEF Carries
<1>4. Once(d) /\ d \notin faulty => Carried(d, request[d], run[d][1], row[d], left[d])
  BY DEF CarriedOK
<1>5. CASE WorkerMarks(d, n)
  <2>1. /\ run[d][n].at = "mark" /\ run' = [run EXCEPT ![d][n].at = "receive"]
        /\ UNCHANGED <<row, left>>
    BY <1>5 DEF WorkerMarks, RunTo
  <2> QED
    BY <1>3, <1>4, <2>1 DEF Carried, ObjectLeft
<1>6. CASE WorkerReceives(d, n)
  <2>1. /\ run[d][n].at = "receive" /\ run' = [run EXCEPT ![d][n].at = AfterReceive(d, n)]
        /\ ReceiveInbound(d) /\ UNCHANGED left
    BY <1>6 DEF WorkerReceives, RunTo, marks
  <2>2. row'[d].payload = row[d].payload /\ row'[d].fetchedObject = row[d].fetchedObject
    BY <2>1, WritesHold
  <2>3. CASE run[d][n].fetched # None
    BY <1>3, <1>4, <2>1, <2>2, <2>3 DEF Carried, ObjectLeft, AfterReceive
  <2>4. CASE run[d][n].fetched = None
    BY <1>3, <1>4, <2>1, <2>2, <2>4 DEF Carried, ObjectLeft, AfterReceive
  <2> QED
    BY <2>3, <2>4
<1>7. CASE WorkerLeavesObject(d, n)
  <2>1. /\ run[d][n].at = "leave" /\ run' = [run EXCEPT ![d][n].at = "recordObject"]
        /\ left' = [left EXCEPT ![d] = run[d][n].fetched] /\ UNCHANGED row
    BY <1>7 DEF WorkerLeavesObject, RunTo
  <2>2. left'[d] = run[d][n].fetched
    BY <2>1, TypeIs
  <2> QED
    BY <1>2, <1>3, <1>4, <2>1, <2>2 DEF Carried, ObjectLeft
<1>8. CASE WorkerRecordsObject(d, n)
  <2>1. /\ run[d][n].at = "recordObject" /\ run' = [run EXCEPT ![d][n].at = "link"]
        /\ RecordFetchedObject(d, run[d][n].fetched) /\ UNCHANGED left
    BY <1>8 DEF WorkerRecordsObject, RunTo, marks
  <2>2. /\ row'[d].payload = row[d].payload
        /\ row[d].status # "unrecorded" => row'[d].fetchedObject = Stored(run[d][n].fetched)
    BY <1>2, <2>1, WritesHold
  <2>3. d \notin faulty /\ request[d].at \notin BeforeRow => row[d].status # "unrecorded"
    BY RowIsThere
  <2> QED
    BY <1>2, <1>3, <1>4, <2>1, <2>2, <2>3 DEF Carried, ObjectLeft, Unshown
<1>9. CASE WorkerLinks(d, n)
  <2>1. /\ run[d][n].at = "link" /\ run' = [run EXCEPT ![d][n].at = "done"]
        /\ LinkInboundActivity(d) /\ UNCHANGED left
    BY <1>9 DEF WorkerLinks, RunTo, marks
  <2>2. row'[d].payload = row[d].payload /\ row'[d].fetchedObject = row[d].fetchedObject
    BY <2>1, WritesHold
  <2> QED
    BY <1>2, <1>3, <1>4, <2>1, <2>2 DEF Carried, ObjectLeft
<1> QED
  BY <1>5, <1>6, <1>7, <1>8, <1>9 DEF Worker

LEMMA RequestMoves ==
  ASSUME TypeOK, NEW d \in Deliveries, NEW to \in RequestPoints,
         request' = [request EXCEPT ![d].at = to]
  PROVE  \E q \in Request :
           /\ RequestGoes(d, q) /\ q.at = to /\ q.payload = request[d].payload
           /\ q.fetched = request[d].fetched /\ q.found = request[d].found
<1> DEFINE q == [request[d] EXCEPT !.at = to]
<1>1. request[d] \in Request
  BY TypeIs
<1>2. /\ q \in Request /\ q.at = to /\ q.payload = request[d].payload
      /\ q.fetched = request[d].fetched /\ q.found = request[d].found
  BY <1>1 DEF Request
<1>3. request' = [request EXCEPT ![d] = q]
  OBVIOUS
<1> HIDE DEF q
<1> QED
  BY <1>2, <1>3, RequestChanged

\* What a recorder's row holds of the request when it is written.
LEMMA RowHolds ==
  ASSUME InboundAssumption, DInv, NEW d \in Deliveries, RecordInbound(d)
  PROVE  /\ row'[d].payload = Stored(request[d].payload)
         /\ row'[d].fetchedObject = Stored(request[d].fetched)
<1> DEFINE q == request[d]
           r == [Unrecorded EXCEPT !.status = ClassifyInbound(q),
                                   !.verified = q.verified,
                                   !.payload = Stored(q.payload),
                                   !.fetchedObject = Stored(q.fetched)]
<1>1. row' = [row EXCEPT ![d] = r] /\ row \in [Deliveries -> Row]
  BY TypeIs DEF RecordInbound, DInv
<1>2. r.payload = Stored(q.payload) /\ r.fetchedObject = Stored(q.fetched)
  BY DEF Unrecorded
<1> HIDE DEF r
<1> QED
  BY <1>1, <1>2

LEMMA RecorderCarries ==
  ASSUME InboundAssumption, DInv, NEW d \in Deliveries, CarriedOK(d), Recorder(d)
  PROVE  Carries(d)
<1> USE DEF DInv
<1>1. /\ UNCHANGED <<run, left, faulty, witnessed>> /\ request[d].at \in RecordPoints
      /\ request[d] \in Request
  BY TypeIs DEF Recorder, RecordInbound, LookReceived, ReceiveMeanwhile, LookFetched,
     FetchedMeanwhile, RequestLinks, RequestTo, history, marks, RecordPoints, RequestPoints
<1>2. ASSUME NEW q, RequestGoes(d, q), q.at # "expected", q.payload = request[d].payload,
             Once(d) /\ d \notin faulty =>
               Carried(d, q, run[d][1], row'[d], left[d])
      PROVE  Carries(d)
  <2>1. /\ Once(d)' => Once(d)
        /\ Once(d)' /\ run[d][1].handled =>
             run'[d][1].handled /\ run'[d][1].fetched = run[d][1].fetched
    BY <1>1, RunsStay
  <2>2. CarriedOK(d)'
    BY <1>1, <1>2, <2>1 DEF CarriedOK, RequestGoes
  <2> QED
    BY <1>1, <1>2, <2>1, <2>2 DEF Carries, RequestGoes
<1>3. Once(d) /\ d \notin faulty => Carried(d, request[d], run[d][1], row[d], left[d])
  BY DEF CarriedOK
<1>4. CASE RecordInbound(d)
  <2> DEFINE to == IF ClassifyInbound(request[d]) = "acknowledged"
                   THEN "lookReceived" ELSE "link"
  <2>1. request[d].at = "record" /\ request' = [request EXCEPT ![d].at = to]
    BY <1>4 DEF RecordInbound, RequestTo
  <2>2. /\ row'[d].payload = Stored(request[d].payload)
        /\ row'[d].fetchedObject = Stored(request[d].fetched)
    BY <1>4, RowHolds
  <2>3. run[d][1].at # "none" /\ d \in Queued => to = "lookReceived"
    BY OneIsRun DEF DeliveryOK, RunOK, RequestOK, ClassifyInbound
  <2>4. to \in RequestPoints /\ to \in {"lookReceived", "link"}
    BY DEF RequestPoints
  <2> HIDE DEF to
  <2>5. PICK q \in Request :
          /\ RequestGoes(d, q) /\ q.at = to /\ q.payload = request[d].payload
          /\ q.fetched = request[d].fetched /\ q.found = request[d].found
    BY <2>1, <2>4, RequestMoves
  <2>6. Once(d) /\ d \notin faulty => Carried(d, q, run[d][1], row'[d], left[d])
    <3>1. CASE d \in Queued
      BY <1>3, <2>2, <2>3, <2>4, <2>5, <3>1 DEF Carried, Unshown
    <3>2. CASE d \notin Queued
      <4>1. run[d][1].at # "link"
        BY <3>2, OneIsRun DEF DeliveryOK, RunOK
      <4> QED
        BY <1>3, <2>2, <2>4, <2>5, <3>2, <4>1 DEF Carried
    <3> QED
      BY <3>1, <3>2
  <2> QED
    BY <1>2, <2>4, <2>5, <2>6
<1>5. ASSUME NEW to \in RequestPoints \ (BeforeRow \union {"fetched"}),
             request' = [request EXCEPT ![d].at = to],
             row'[d].payload = row[d].payload, request[d].at \notin BeforeRow,
             Once(d) /\ d \notin faulty /\ run[d][1].at \in {"link", "done"}
               /\ run[d][1].fetched # None /\ to \notin Unshown(d) =>
                 row'[d].fetchedObject = Stored(run[d][1].fetched)
      PROVE  Carries(d)
  <2>1. PICK q \in Request :
          /\ RequestGoes(d, q) /\ q.at = to /\ q.payload = request[d].payload
          /\ q.fetched = request[d].fetched /\ q.found = request[d].found
    BY <1>5, RequestMoves
  <2>2. Once(d) /\ d \notin faulty => Carried(d, q, run[d][1], row'[d], left[d])
    BY <1>3, <1>5, <2>1 DEF Carried
  <2>3. q.at # "expected"
    BY <2>1 DEF BeforeRow
  <2> QED
    BY <1>2, <2>1, <2>2, <2>3
<1>6. CASE LookReceived(d)
  <2> DEFINE to == IF d \in received THEN "receive" ELSE "lookFetched"
  <2>1. /\ request[d].at = "lookReceived" /\ request' = [request EXCEPT ![d].at = to]
        /\ UNCHANGED row
    BY <1>6 DEF LookReceived, RequestTo
  <2>2. to \in RequestPoints \ (BeforeRow \union {"fetched"}) /\ to \in {"receive", "lookFetched"}
    BY DEF RequestPoints, BeforeRow
  <2> HIDE DEF to
  <2> QED
    BY <1>3, <1>5, <2>1, <2>2 DEF Carried, Unshown, BeforeRow
<1>7. CASE ReceiveMeanwhile(d)
  <2>1. /\ request[d].at = "receive" /\ request' = [request EXCEPT ![d].at = "lookFetched"]
        /\ ReceiveInbound(d)
    BY <1>7 DEF ReceiveMeanwhile, RequestTo
  <2>2. row'[d].payload = row[d].payload /\ row'[d].fetchedObject = row[d].fetchedObject
    BY <2>1, WritesHold
  <2> QED
    BY <1>3, <1>5, <2>1, <2>2 DEF Carried, Unshown, BeforeRow, RequestPoints
<1>8. CASE LookFetched(d)
  <2> DEFINE to == IF left[d] # None THEN "fetched" ELSE "link"
             q == [request[d] EXCEPT !.at = to, !.found = left[d]]
  <2>1. /\ request[d].at = "lookFetched" /\ request' = [request EXCEPT ![d] = q]
        /\ UNCHANGED row
    BY <1>8 DEF LookFetched
  <2>2. left[d] \in ObjectOrNone /\ to \in RequestPoints /\ to # "expected"
    BY TypeIs DEF RequestPoints
  <2>3. /\ q \in Request /\ q.at = to /\ q.payload = request[d].payload
        /\ q.fetched = request[d].fetched /\ q.found = left[d]
    BY <1>1, <2>2 DEF Request
  <2> HIDE DEF q
  <2>4. RequestGoes(d, q)
    BY <2>1, <2>3, RequestChanged
  <2>5. Once(d) /\ d \notin faulty => Carried(d, q, run[d][1], row'[d], left[d])
    BY <1>3, <2>1, <2>3 DEF Carried, Unshown, BeforeRow, ObjectLeft
  <2> QED
    BY <1>2, <2>2, <2>3, <2>4, <2>5
<1>9. CASE FetchedMeanwhile(d)
  <2>1. /\ request[d].at = "fetched" /\ request' = [request EXCEPT ![d].at = "link"]
        /\ RecordFetchedObject(d, request[d].found)
    BY <1>9 DEF FetchedMeanwhile, RequestTo
  <2>2. request[d].found \in ObjectOrNone
    BY <1>1 DEF Request
  <2>3. /\ row'[d].payload = row[d].payload
        /\ row[d].status # "unrecorded" =>
             row'[d].fetchedObject = Stored(request[d].found)
    BY <2>1, <2>2, WritesHold
  <2>4. d \notin faulty => row[d].status # "unrecorded"
    BY <2>1, RowIsThere DEF BeforeRow
  <2> QED
    BY <1>3, <1>5, <2>1, <2>3, <2>4 DEF Carried, BeforeRow, RequestPoints
<1>10. CASE RequestLinks(d)
  <2>1. /\ request[d].at = "link" /\ request' = [request EXCEPT ![d].at = "done"]
        /\ LinkInboundActivity(d)
    BY <1>10 DEF RequestLinks, RequestTo
  <2>2. row'[d].payload = row[d].payload /\ row'[d].fetchedObject = row[d].fetchedObject
    BY <2>1, WritesHold
  <2> QED
    BY <1>3, <1>5, <2>1, <2>2 DEF Carried, Unshown, BeforeRow, RequestPoints
<1> QED
  BY <1>4, <1>6, <1>7, <1>8, <1>9, <1>10 DEF Recorder

LEMMA FailureCarries ==
  ASSUME InboundAssumption, DInv, NEW d \in Deliveries, Failure(d)
  PROVE  Carries(d)
<1> USE DEF DInv
<1>1. /\ faulty' = faulty \union {d} /\ UNCHANGED <<left, witnessed>>
      /\ request[d] \in Request
  BY TypeIs DEF Failure, RecorderFails, WorkerFails, WorkerDies, marks
<1>2. CarriedOK(d)'
  BY <1>1 DEF CarriedOK
<1>3. CASE RecorderFails(d)
  <2>1. /\ request[d].at # "expected" /\ request' = [request EXCEPT ![d].at = "done"]
        /\ UNCHANGED run
    BY <1>3 DEF RecorderFails
  <2>2. PICK q \in Request :
          /\ RequestGoes(d, q) /\ q.at = "done" /\ q.payload = request[d].payload
    <3>1. "done" \in RequestPoints
      BY DEF RequestPoints
    <3> QED
      BY <2>1, <3>1, RequestMoves
  <2>3. request'[d].at # "expected"
    BY <2>2 DEF RequestGoes
  <2> QED
    BY <1>1, <1>2, <2>1, <2>2, <2>3, RunsStay DEF Carries, RequestGoes
<1>4. ASSUME NEW n \in Runs, NEW new, NEW again \in BOOLEAN, RunGoes(d, n, new, again),
             UNCHANGED request, run[d][n].at # "none", new.at # "none",
             new.handled <=> run[d][n].handled, new.fetched = run[d][n].fetched
      PROVE  Carries(d)
  <2>1. /\ Once(d)' => Once(d)
        /\ Once(d)' /\ run[d][1].handled =>
             run'[d][1].handled /\ run'[d][1].fetched = run[d][1].fetched
    BY <1>4, OnceIs
  <2> QED
    BY <1>1, <1>2, <1>4, <2>1 DEF Carries
<1>5. ASSUME NEW n \in Runs, WorkerFails(d, n) PROVE Carries(d)
  <2>1. PICK to \in {"leave", "link", "done"} :
          run' = [run EXCEPT ![d][n].at = to] /\ run[d][n].at # "none"
    BY <1>5 DEF WorkerFails, AfterReceive
  <2> DEFINE new == [at |-> to, handled |-> run[d][n].handled,
                     fetched |-> run[d][n].fetched]
  <2>2. RunGoes(d, n, new, FALSE)
    BY <2>1, RunMoves DEF RunPoints
  <2>3. /\ new.at # "none" /\ (new.handled <=> run[d][n].handled)
        /\ new.fetched = run[d][n].fetched
    BY <2>1
  <2> HIDE DEF new
  <2>4. UNCHANGED request
    BY <1>5 DEF WorkerFails
  <2> QED
    BY <1>4, <2>1, <2>2, <2>3, <2>4
<1>6. ASSUME NEW n \in Runs, WorkerDies(d, n) PROVE Carries(d)
  <2> DEFINE new == [run[d][n] EXCEPT !.at = "done"]
             again == n + 1 \in Runs /\ run[d][n + 1].at = "none"
             runs == [m \in Runs |->
                        CASE m = n -> [run[d][m] EXCEPT !.at = "done"]
                          [] m = n + 1 /\ run[d][m].at = "none" ->
                               [NoRun EXCEPT !.at = "queued"]
                          [] OTHER -> run[d][m]]
  <2>1. /\ run[d][n].at # "none" /\ run' = [run EXCEPT ![d] = runs] /\ UNCHANGED request
    BY <1>6 DEF WorkerDies
  <2>2. run[d][n] \in Run
    BY TypeIs
  <2>3. /\ new \in Run /\ new.at = "done" /\ (new.handled <=> run[d][n].handled)
        /\ new.fetched = run[d][n].fetched
    BY <2>2 DEF Run, RunPoints
  <2>4. runs = [m \in Runs |-> IF m = n THEN new
                               ELSE IF m = n + 1 /\ again THEN Retried
                               ELSE run[d][m]]
    <3>1. n # n + 1
      BY DEF Runs
    <3> QED
      BY <3>1 DEF Retried
  <2> HIDE DEF new, runs
  <2>5. again \in BOOLEAN
    OBVIOUS
  <2> HIDE DEF again
  <2>6. RunGoes(d, n, new, again)
    BY <2>1, <2>3, <2>4, <2>5, RunsReplaced
  <2> QED
    BY <1>4, <2>1, <2>3, <2>5, <2>6
<1> QED
  BY <1>3, <1>5, <1>6 DEF Failure

\* The other deliveries are as they were.
LEMMA OthersCarry ==
  ASSUME NEW d \in Deliveries, Kept(d), Carries(d), NEW e \in Deliveries \ {d},
         CarriedOK(e)
  PROVE  CarriedOK(e)'
<1>1. /\ request'[e] = request[e] /\ run'[e] = run[e] /\ row'[e] = row[e]
      /\ left'[e] = left[e] /\ (e \in faulty' <=> e \in faulty)
  BY DEF Kept, OthersKept, Carries
<1>2. Once(e)' <=> Once(e)
  BY <1>1, RunsStay
<1> QED
  BY <1>1, <1>2 DEF CarriedOK

\* Every transaction that touches a linked row decides its marks.
LEMMA WritesMark ==
  ASSUME InboundAssumption, DInv, NEW d \in Deliveries, WritesOf(d),
         \A e \in Deliveries : MarksOK(e)
  PROVE  \A e \in Deliveries : MarksOK(e)'
<1> USE DEF DInv
<1>1. row \in [Deliveries -> Row] /\ row[d] \in Row /\ UNCHANGED <<activity, object>>
  BY TypeIs DEF WritesOf
<1>2. ASSUME NEW e \in Deliveries, row'[e] = row[e] PROVE MarksOK(e)'
  BY <1>1, <1>2 DEF MarksOK, CarriesActivity, CarriesObject
<1>3. ASSUME NEW r \in Row, DecideCarried(d, r)
      PROVE  \A e \in Deliveries : MarksOK(e)'
  <2>1. MarksOK(d)'
    BY <1>1, <1>3, DecideMarks
  <2>2. Written(d, r.status, r.linked)
    BY <1>3, DecideWrites
  <2> QED
    BY <1>2, <2>1, <2>2 DEF Written
<1>4. CASE UNCHANGED <<row, receipts>>
  BY <1>2, <1>4
<1>5. CASE Records(d)
  <2>1. PICK status \in Statuses \ {"unrecorded"}, verified \in BOOLEAN,
             payload \in PayloadOrNone, fetched \in ObjectOrNone :
          row' = [row EXCEPT ![d] =
                   [Unrecorded EXCEPT !.status = status, !.verified = verified,
                                      !.payload = payload, !.fetchedObject = fetched]]
    BY <1>5 DEF Records
  <2>2. Written(d, status, FALSE)
    BY <1>5, <2>1, NewRowWrites DEF Records
  <2> QED
    BY <1>2, <2>2 DEF Written, MarksOK
<1>6. CASE ReceiveInbound(d)
  <2>1. CASE row[d].status = "acknowledged"
    <3> DEFINE r == [row[d] EXCEPT !.status = "received"]
    <3>1. /\ r.payload = row[d].payload /\ r.fetchedObject = row[d].fetchedObject
          /\ r.linked = row[d].linked /\ r.carriedSnapshot = row[d].carriedSnapshot
          /\ r.carriedObjectSnapshot = row[d].carriedObjectSnapshot
      BY <1>1 DEF Row
    <3>2. row' = [row EXCEPT ![d] = r]
      BY <1>6, <2>1 DEF ReceiveInbound
    <3> HIDE DEF r
    <3>3. MarksOK(d)'
      BY <1>1, <3>1, <3>2 DEF MarksOK, CarriesActivity, CarriesObject
    <3> QED
      BY <1>1, <1>2, <3>2, <3>3
  <2>2. CASE row[d].status # "acknowledged"
    <3>1. row' = row
      BY <1>6, <2>2 DEF ReceiveInbound
    <3> QED
      BY <1>2, <3>1
  <2> QED
    BY <2>1, <2>2
<1>7. CASE LinkInboundActivity(d)
  <2>1. CASE Linkable(d)
    <3> DEFINE r == [row[d] EXCEPT !.linked = TRUE]
    <3>1. r \in Row /\ DecideCarried(d, r)
      BY <1>1, <1>7, <2>1 DEF LinkInboundActivity, Row
    <3> HIDE DEF r
    <3> QED
      BY <1>3, <3>1
  <2>2. CASE ~Linkable(d)
    BY <1>2, <1>7, <2>2 DEF LinkInboundActivity
  <2> QED
    BY <2>1, <2>2
<1>8. ASSUME NEW document \in ObjectOrNone, RecordFetchedObject(d, document)
      PROVE  \A e \in Deliveries : MarksOK(e)'
  <2>1. CASE row[d].status # "unrecorded"
    <3> DEFINE r == [row[d] EXCEPT !.fetchedObject = Stored(document)]
    <3>1. r \in Row /\ DecideCarried(d, r)
      BY <1>1, <1>8, <2>1, StoredType DEF RecordFetchedObject, Row
    <3> HIDE DEF r
    <3> QED
      BY <1>3, <3>1
  <2>2. CASE row[d].status = "unrecorded"
    BY <1>2, <1>8, <2>2 DEF RecordFetchedObject
  <2> QED
    BY <2>1, <2>2
<1> QED
  BY <1>4, <1>5, <1>6, <1>7, <1>8 DEF WritesOf, Writes

LEMMA StepCarries ==
  ASSUME InboundAssumption, DInv, NEW d \in Deliveries, CarriedOK(d), StepOf(d)
  PROVE  Kept(d) /\ Carries(d)
<1>1. Kept(d)
  BY ArriveKeeps, ListenerKeeps, WorkerKeeps, RecorderKeeps, RecorderFailsKeeps,
     WorkerFailsKeeps, WorkerDiesKeeps
  DEF StepOf, Failure
<1>2. Carries(d)
  BY ArriveCarries, ListenerCarries, WorkerCarries, RecorderCarries, FailureCarries
  DEF StepOf
<1> QED
  BY <1>1, <1>2

\* Nothing but the listener that stored the activity says what was stored.
LEMMA StorerStays ==
  ASSUME StorerOK, NEW d \in Deliveries, Kept(d), Carries(d),
         storer \in Deliveries \union {None},
         UNCHANGED <<activity, object, revision, storer>>
  PROVE  StorerOK'
<1> SUFFICES ASSUME storer # None
             PROVE  /\ storer \in witnessed'
                    /\ request'[storer].at # "expected"
                    /\ activity = request'[storer].payload /\ activity # None
                    /\ object.document # None
                    /\ Once(storer)' => StoredBy(run[storer][1])'
  BY DEF StorerOK
<1>1. /\ storer \in witnessed' /\ request[storer].at # "expected" /\ activity # None
      /\ activity = request[storer].payload /\ object.document # None
      /\ Once(storer) => StoredBy(run[storer][1])
  BY DEF StorerOK, Carries
<1>2. CASE storer = d
  BY <1>1, <1>2 DEF Carries, StoredBy
<1>3. CASE storer # d
  <2>1. request'[storer] = request[storer] /\ run'[storer] = run[storer]
    BY <1>3 DEF Kept, OthersKept
  <2>2. Once(storer)' <=> Once(storer)
    BY <2>1, RunsStay
  <2> QED
    BY <1>1, <2>1, <2>2 DEF StoredBy
<1> QED
  BY <1>2, <1>3

\* The listener that stores the activity finds neither stored yet by any other.
LEMMA StoringIsKnown ==
  ASSUME InboundAssumption, DInv, StoreOK, StorerOK, NEW d \in Deliveries, CarriedOK(d),
         NEW n \in Runs, StoreCreate(d, n)
  PROVE  StorerOK' /\ \A e \in Deliveries : MarksOK(e)'
<1> USE DEF DInv
<1>1. /\ activity = None /\ storer = None /\ ~object.carrier
  BY DEF StorerOK, StoreCreate
<1>2. \A e \in Deliveries : MarksOK(e)'
  BY <1>1 DEF StoreOK, StoreCreate, MarksOK
<1>3. /\ storer' = d /\ activity' = request[d].payload /\ activity' # None
      /\ revision'.activity = activity' /\ activity' \in Payloads
  BY StoreCreateTypes DEF StoreCreate, InboundAssumption
<1>4. storer' # None /\ request[d].at # "expected" /\ run[d][n].at = "store"
  BY <1>3 DEF StoreCreate, DeliveryOK, RunOK, InboundAssumption
<1>5. d \in witnessed' /\ witnessed \subseteq witnessed'
  BY <1>3 DEF StoreCreate, Witness
<1>6. /\ Carries(d)
      /\ Once(d)' => /\ n = 1 /\ run'[d][1].handled
                     /\ run'[d][1].fetched = run[d][1].fetched
  <2>1. Return(d, n, TRUE, FALSE) /\ UNCHANGED <<row, left, faulty>>
    BY DEF StoreCreate, marks
  <2> QED
    BY <1>4, <1>5, <2>1, ReturnCarries
<1>7. request'[d].at # "expected" /\ request'[d].payload = activity'
  BY <1>3, <1>4, <1>6 DEF Carries
<1> DEFINE created == [document |-> IF run[d][n].fetched = None THEN request[d].payload
                                    ELSE run[d][n].fetched,
                       fetched |-> run[d][n].fetched # None, carrier |-> TRUE]
<1>8. /\ object' = IF revision.object = None THEN created ELSE object
      /\ revision.object # None => object.document # None
  BY DEF StoreCreate
<1>9. /\ created.document = IF run[d][n].fetched = None THEN activity'
                            ELSE run[d][n].fetched
      /\ created.fetched <=> run[d][n].fetched # None
      /\ created.document # None
  BY <1>3
<1> HIDE DEF created
<1>10. object'.document # None
  BY <1>8, <1>9
<1>11. ASSUME Once(d)' PROVE StoredBy(run[d][1])'
  BY <1>1, <1>6, <1>8, <1>9, <1>11 DEF StoredBy
<1>12. StorerOK'
  BY <1>3, <1>4, <1>5, <1>7, <1>10, <1>11 DEF StorerOK
<1> QED
  BY <1>2, <1>12

\* A deletion leaves what the rows hold; an activity is stored again only after one.
LEMMA DeletionCarries ==
  ASSUME InboundAssumption, DInv, CInv, Deletion
  PROVE  CInv'
<1> USE DEF DInv
<1>1. /\ UNCHANGED <<request, run, left, faulty>>
      /\ \A d \in Deliveries : /\ row'[d].payload = row[d].payload
                               /\ row'[d].fetchedObject = row[d].fetchedObject
  <2>1. UNCHANGED <<request, run, left, faulty>>
    BY DEF Deletion, DeleteActivity, RestoreActivity, DeleteObject, marks, history
  <2>2. CASE DeleteActivity
    <3>1. \A d \in Deliveries : row[d] \in Row
      BY TypeIs
    <3>2. \A d \in Deliveries : row'[d] = [row[d] EXCEPT !.linked = FALSE]
      BY <2>2 DEF DeleteActivity
    <3> QED
      BY <2>1, <3>1, <3>2 DEF Row
  <2>3. CASE DeleteObject \/ \E payload \in Payloads : RestoreActivity(payload)
    BY <2>1, <2>3 DEF DeleteObject, RestoreActivity
  <2> QED
    BY <2>2, <2>3 DEF Deletion
<1>2. ASSUME NEW d \in Deliveries PROVE CarriedOK(d)'
  BY <1>1 DEF CInv, CarriedOK, Carried, Once
<1>3. deletions' # 0
  <2>1. deletions \in Nat
    BY TypeIs DEF InboundAssumption
  <2>2. CASE DeleteActivity \/ DeleteObject
    BY <2>1, <2>2 DEF DeleteActivity, DeleteObject
  <2>3. ASSUME NEW payload \in Payloads, RestoreActivity(payload) PROVE deletions' # 0
    BY <2>3 DEF RestoreActivity, CInv, StorerOK
  <2> QED
    BY <2>2, <2>3 DEF Deletion
<1> QED
  BY <1>2, <1>3 DEF CInv

LEMMA InitCarries == ASSUME InboundAssumption, Init PROVE CInv
<1>1. ASSUME NEW d \in Deliveries PROVE CarriedOK(d) /\ MarksOK(d)
  <2>1. /\ request[d].at = "expected" /\ run[d][1].at = "none" /\ left[d] = None
        /\ ~row[d].linked
    BY OneIsRun DEF Init, Expected, NoRun, Unrecorded
  <2> QED
    BY <2>1 DEF CarriedOK, Carried, ObjectLeft, BeforeRow, MarksOK
<1>2. StorerOK
  BY DEF Init, StorerOK, NoObject
<1> QED
  BY <1>1, <1>2 DEF CInv

LEMMA CarriedNext ==
  ASSUME InboundAssumption, DInv, StoreOK, CInv, [Next]_vars
  PROVE  CInv'
<1>1. CASE UNCHANGED vars
  BY <1>1 DEF vars, CInv, CarriedOK, Carried, Once, MarksOK, CarriesActivity,
     CarriesObject, StorerOK, StoredBy
<1>2. ASSUME NEW d \in Deliveries, StepOf(d) PROVE CInv'
  <2>1. Kept(d) /\ Carries(d)
    BY <1>2, StepCarries DEF CInv
  <2>2. \A e \in Deliveries : CarriedOK(e)'
    BY <2>1, OthersCarry DEF CInv, Carries
  <2>3. CASE WritesOf(d) /\ UNCHANGED storer
    <3>1. UNCHANGED <<activity, object, revision, deletions, storer>>
      BY <2>3 DEF WritesOf
    <3>2. deletions = 0 => \A e \in Deliveries : MarksOK(e)'
      BY <2>3, WritesMark DEF CInv
    <3>3. storer \in Deliveries \union {None}
      BY TypeIs DEF DInv
    <3>4. deletions = 0 => StorerOK'
      BY <2>1, <3>1, <3>3, StorerStays DEF CInv
    <3> QED
      BY <2>2, <3>1, <3>2, <3>4 DEF CInv
  <2>4. ASSUME NEW n \in Runs, StoreCreate(d, n) PROVE CInv'
    <3>1. UNCHANGED deletions
      BY <2>4 DEF StoreCreate
    <3>2. deletions = 0 => StorerOK' /\ \A e \in Deliveries : MarksOK(e)'
      BY <2>4, StoringIsKnown DEF CInv
    <3> QED
      BY <2>2, <3>1, <3>2 DEF CInv
  <2> QED
    BY <1>2, <2>3, <2>4, DeliveryWrites
<1>3. CASE Deletion
  BY <1>3, DeletionCarries
<1> QED
  BY <1>1, <1>2, <1>3 DEF Next, StepOf

LEMMA CarriedInvariance == Spec => []CInv
<1>1. Init => CInv
  BY InitCarries, InboundAssumption
<1>2. JInv /\ CInv /\ [Next]_vars => CInv'
  BY CarriedNext, InboundAssumption DEF JInv
<1> QED
  BY <1>1, <1>2, JustifiedInvariance, PTL DEF Spec

\* StorerCarriedBoth for one delivery.
CarriedBoth(d) ==
  /\ Recorded(d)
  /\ d = storer
  /\ row[d].verified
  /\ deletions = 0
  /\ request[d].payload \notin Unstorable
  => /\ row[d].carriedSnapshot
     /\ object.carrier /\ object.document \notin Unstorable
          => row[d].carriedObjectSnapshot

LEMMA OnceCarriedBoth ==
  ASSUME InboundAssumption, DInv, NoLostLink, CInv, NEW d \in Deliveries, Once(d)
  PROVE  CarriedBoth(d)
<1> USE DEF DInv
<1> SUFFICES ASSUME Recorded(d), d = storer, row[d].verified, deletions = 0,
                    request[d].payload \notin Unstorable
             PROVE  /\ row[d].carriedSnapshot
                    /\ object.carrier /\ object.document \notin Unstorable
                         => row[d].carriedObjectSnapshot
  BY DEF CarriedBoth
<1>1. request[d].at = "done" /\ d \notin faulty /\ run[d][1].at \in {"none", "done"}
  BY OneIsRun DEF Recorded, Quiet
<1>2. /\ d \in witnessed /\ activity = request[d].payload /\ activity # None
      /\ object.document # None /\ StoredBy(run[d][1]) /\ MarksOK(d)
  BY DEF CInv, StorerOK, InboundAssumption
<1>3. run[d][1].handled /\ run[d][1].at = "done"
  BY <1>1, <1>2, OneIsRun DEF StoredBy, DeliveryOK, RunOK, Listening
<1>4. row[d].status = "received"
  BY <1>3, OneIsRun, ReceptionIsKept DEF NoLostReception
<1>5. row[d].linked
  BY <1>2, <1>4 DEF NoLostLink
<1>6. Carried(d, request[d], run[d][1], row[d], left[d])
  BY <1>1 DEF CInv, CarriedOK
<1>7. CarriesActivity(row[d])
  BY <1>1, <1>2, <1>6 DEF Carried, BeforeRow, Stored, CarriesActivity
<1>8. ASSUME object.carrier, object.document \notin Unstorable PROVE CarriesObject(row[d])
  <2>1. ASSUME object.fetched
        PROVE  row[d].fetchedObject # None /\ row[d].fetchedObject = object.document
    <3>1. run[d][1].fetched # None /\ object.document = run[d][1].fetched
      BY <1>2, <1>8, <2>1 DEF StoredBy
    <3>2. request[d].at \notin Unshown(d)
      BY <1>1 DEF Unshown, BeforeRow
    <3> QED
      BY <1>2, <1>3, <1>6, <1>8, <3>1, <3>2 DEF Carried, Stored
  <2> QED
    BY <1>2, <1>7, <1>8, <2>1 DEF CarriesObject
<1> QED
  BY <1>2, <1>5, <1>7, <1>8 DEF MarksOK

\* Whichever of worker and recorder comes last, a delivery whose message was
\* handed out once and whose listener stored the activity ends marked as having
\* carried it and the object (decideCarried(), fetchObject(), fetchedMeanwhile()).
THEOREM OnceHandedOutCarriesBoth ==
  Spec => [](\A d \in Deliveries : Once(d) => CarriedBoth(d))
<1>1. LInv /\ CInv => \A d \in Deliveries : Once(d) => CarriedBoth(d)
  BY OnceCarriedBoth, InboundAssumption DEF LInv
<1> QED
  BY <1>1, LostInvariance, CarriedInvariance, PTL

\* Where no message is retried, every delivery whose listener stored the activity
\* ends marked as having carried both.  (With retries fetchedMeanwhile() may write
\* the object that an earlier run left over the one that was stored.)
THEOREM StorerCarriesBoth ==
  ASSUME MaxRuns = 1
  PROVE  Spec => []StorerCarriedBoth
<1>1. \A d : Once(d)
  BY DEF Once, Runs
<1>2. LInv /\ CInv => StorerCarriedBoth
  BY <1>1, OnceCarriedBoth, InboundAssumption DEF LInv, StorerCarriedBoth, CarriedBoth
<1> QED
  BY <1>2, LostInvariance, CarriedInvariance, PTL

=============================================================================
