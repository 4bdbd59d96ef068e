--------------------------- MODULE OutboundDelivery ---------------------------
(***************************************************************************)
(* The life of an outbound delivery observation, from deliverActivity() to  *)
(* its last settlement (federation activity-delivery/outbound.ts, queue.ts  *)
(* and models activity-delivery.ts).  Several calls deliver the same        *)
(* activity to the same inbox; each writes a row of its own and then sends: *)
(* itself, or, with an outbox queue, through a message that names the row.  *)
(* Workers handle the messages; Fedify enqueues the retry of a failed one   *)
(* while it is being handled, so the retry may run on another worker before *)
(* the wrapper around the first has settled it.                             *)
(*                                                                         *)
(* Fedify's outbox worker and the message queue are external: they are      *)
(* modelled by what queue.ts handles of them.  One transaction is one step. *)
(***************************************************************************)
EXTENDS Integers, Sequences, FiniteSets

CONSTANTS
  Sends,           \* calls delivering the activity, numbered by row creation
  MaxRuns,         \* bound on the runs of one message: the first and retries
  Workers,         \* messages handled at the same time
  Fallible,        \* sends whose bookkeeping may fail
  MaxRedeliveries, \* bound on messages handled again after a worker died
  None             \* no delivery named

ASSUME OutboundAssumption ==
  /\ Sends \subseteq Nat
  /\ MaxRuns \in Nat \ {0}
  /\ Workers \in Nat \ {0}
  /\ Fallible \subseteq Sends
  /\ MaxRedeliveries \in Nat
  /\ None \notin Sends

VARIABLES
  synchronous,  \* whether the federation has no outbox queue
  caller,       \* each deliverActivity() call
  rows,         \* activity_deliveries with activity_delivery_attempts
  task,         \* the runs of each call's message
  redeliveries, \* how many messages were handled again
  faulty,       \* history: sends whose bookkeeping failed once
  ended,        \* history: attempts that ended
  verdict       \* history: the last settlement the send called for

vars == <<synchronous, caller, rows, task, redeliveries, faulty, ended, verdict>>

Runs == 1 .. MaxRuns
Pending == {"queued", "failed"}
Terminal == {"sent", "permanently_failed", "abandoned"}

\* An ended attempt: its call and run, 0 for the call's own, and its result.
Attempt == [send : Sends, run : 0 .. MaxRuns, succeeded : BOOLEAN]

\* The settlements, by what they write.
Sent == [status |-> "sent", attempted |-> TRUE]
Failed == [status |-> "failed", attempted |-> TRUE]
Abandoned == [status |-> "abandoned", attempted |-> TRUE]
GivenUp == [status |-> "permanently_failed", attempted |-> FALSE]
Settlements == {Sent, Failed, Abandoned, GivenUp}

CallerPoints == {"record", "send", "settle", "done"}
TaskPoints == {"none", "waiting", "running", "settling", "done"}

NoTask == [at |-> "none", id |-> None, todo |-> <<>>]

Init ==
  /\ synchronous \in BOOLEAN
  /\ caller = [s \in Sends |-> [at |-> "record", todo |-> <<>>]]
  /\ rows = [s \in Sends |-> [status |-> "unrecorded", attempts |-> <<>>]]
  /\ task = [s \in Sends |-> [n \in Runs |-> NoTask]]
  /\ redeliveries = 0
  /\ faulty = {}
  /\ ended = {}
  /\ verdict = [s \in Sends |-> "none"]

-----------------------------------------------------------------------------
(* settleOutbound()                                                        *)

\* Mutant: a failed row is not pending.
CandidatesQueued(id) ==
  {r \in Sends : rows[r].status = "queued" /\ (id = None \/ r = id)}

\* The rows it may settle: pending ones, or only the one it names.
Candidates(id) ==
  {r \in Sends : rows[r].status \in Pending /\ (id = None \/ r = id)}

\* Mutant: a retry rewrites the attempt before it.
SettleRowRewriting(r, settlement, attempt) ==
  rows' = [rows EXCEPT ![r] =
             [status |-> settlement.status,
              attempts |-> IF settlement.attempted
                           THEN <<attempt>> ELSE @.attempts]]

SettleRow(r, settlement, attempt) ==
  rows' = [rows EXCEPT ![r] =
             [status |-> settlement.status,
              attempts |-> IF settlement.attempted
                           THEN Append(@.attempts, attempt) ELSE @.attempts]]

\* The most recent candidate is settled, or nothing is.
SettleOutbound(id, settlement, attempt) ==
  \/ /\ Candidates(id) = {}
     /\ UNCHANGED rows
  \/ \E r \in Candidates(id) :
       /\ \A other \in Candidates(id) : other <= r
       /\ SettleRow(r, settlement, attempt)

AttemptOf(s, n, settlement) ==
  [send |-> s, run |-> n, succeeded |-> settlement = Sent]

-----------------------------------------------------------------------------
(* deliverActivity()                                                       *)

Recorded(s) == rows[s].status # "unrecorded"

\* A call without a row settles nothing.
CallerGoes(s, todo) ==
  caller' = [caller EXCEPT ![s] =
               IF Recorded(s) /\ todo # <<>>
               THEN [at |-> "settle", todo |-> todo]
               ELSE [at |-> "done", todo |-> <<>>]]

Ends(s, n, todo) ==
  /\ ended' = ended \union {AttemptOf(s, n, todo[i]) :
                              i \in {j \in DOMAIN todo : todo[j].attempted}}
  /\ verdict' = IF todo = <<>> THEN verdict
                ELSE [verdict EXCEPT ![s] = todo[Len(todo)].status]

RecordOutbound(s) ==
  /\ caller[s].at = "record"
  /\ rows' = [rows EXCEPT ![s].status = "queued"]
  /\ caller' = [caller EXCEPT ![s].at = "send"]
  /\ UNCHANGED <<synchronous, task, redeliveries, faulty, ended, verdict>>

\* The failure is logged; the activity is sent all the same.
RecordFails(s) ==
  /\ caller[s].at = "record"
  /\ s \in Fallible
  /\ caller' = [caller EXCEPT ![s].at = "send"]
  /\ faulty' = faulty \union {s}
  /\ UNCHANGED <<synchronous, rows, task, redeliveries, ended, verdict>>

SendSynchronously(s) ==
  /\ caller[s].at = "send"
  /\ synchronous
  /\ CallerGoes(s, <<Sent>>)
  /\ Ends(s, 0, <<Sent>>)
  /\ UNCHANGED <<synchronous, rows, task, redeliveries, faulty>>

\* The inbox refused, the send could not be prepared, or the queue took no
\* message.
SendThrows(s) ==
  /\ caller[s].at = "send"
  /\ CallerGoes(s, <<Failed>>)
  /\ Ends(s, 0, <<Failed>>)
  /\ UNCHANGED <<synchronous, rows, task, redeliveries, faulty>>

\* Mutant: a call Fedify returned from is taken for made.
SendLeavesQueued(s) ==
  /\ caller[s].at = "send"
  /\ CallerGoes(s, <<>>)
  /\ UNCHANGED <<synchronous, rows, task, redeliveries, faulty, ended, verdict>>

\* Fedify returns without sending, or without enqueuing, to a recipient it
\* leaves out.
SendLeavesOut(s) ==
  /\ caller[s].at = "send"
  /\ CallerGoes(s, <<GivenUp>>)
  /\ Ends(s, 0, <<GivenUp>>)
  /\ UNCHANGED <<synchronous, rows, task, redeliveries, faulty>>

Enqueued(s, n, id) == [task EXCEPT ![s][n] =
                         [at |-> "waiting", id |-> id, todo |-> <<>>]]

\* The message names the row, if there is one.
Enqueue(s) ==
  /\ caller[s].at = "send"
  /\ ~synchronous
  /\ task' = Enqueued(s, 1, IF Recorded(s) THEN s ELSE None)
  /\ CallerGoes(s, <<>>)
  /\ UNCHANGED <<synchronous, rows, redeliveries, faulty, ended, verdict>>

CallerSettles(s) ==
  /\ caller[s].at = "settle"
  /\ LET settlement == Head(caller[s].todo)
     IN SettleOutbound(s, settlement, AttemptOf(s, 0, settlement))
  /\ caller' = [caller EXCEPT ![s] = [at |-> "done", todo |-> <<>>]]
  /\ UNCHANGED <<synchronous, task, redeliveries, faulty, ended, verdict>>

CallerCannotSettle(s) ==
  /\ caller[s].at = "settle"
  /\ s \in Fallible
  /\ caller' = [caller EXCEPT ![s] = [at |-> "done", todo |-> <<>>]]
  /\ faulty' = faulty \union {s}
  /\ UNCHANGED <<synchronous, rows, task, redeliveries, ended, verdict>>

-----------------------------------------------------------------------------
(* The outbox worker, wrapped by handle().                                 *)

Busy == {w \in Sends \X Runs : task[w[1]][w[2]].at \in {"running", "settling"}}

Moved(tasks, s, n, at, todo) ==
  [tasks EXCEPT ![s][n] = [at |-> at, id |-> @.id, todo |-> todo]]

StartRun(s, n) ==
  /\ task[s][n].at = "waiting"
  /\ Cardinality(Busy) < Workers
  /\ task' = Moved(task, s, n, "running", <<>>)
  /\ UNCHANGED <<synchronous, caller, rows, redeliveries, faulty, ended, verdict>>

\* What Fedify reports of a run, as queuedSettlements() tells runs apart.
Report(sent, failure, permanent, abandoned) ==
  [sent |-> sent, failure |-> failure, permanent |-> permanent,
   abandoned |-> abandoned]

QueuedSettlements(report) ==
  IF report.sent THEN <<Sent>>
  ELSE (IF ~report.failure THEN <<>>
        ELSE IF report.abandoned /\ ~report.permanent THEN <<Abandoned>>
        ELSE <<Failed>>)
       \o (IF report.permanent THEN <<GivenUp>> ELSE <<>>)

RunEnds(s, n, report) ==
  LET todo == QueuedSettlements(report)
  IN /\ task[s][n].at = "running"
     /\ Ends(s, n, todo)
     /\ UNCHANGED <<synchronous, caller, rows, redeliveries, faulty>>

Settling(tasks, s, n, report) ==
  LET todo == QueuedSettlements(report)
  IN Moved(tasks, s, n, IF todo = <<>> THEN "done" ELSE "settling", todo)

\* The inbox accepted; Fedify gave up after its retries; the inbox refused for
\* good; the circuit breaker held the message too long, before or after a try.
RunIsLast(s, n) ==
  \E report \in {Report(TRUE, FALSE, FALSE, FALSE),
                 Report(FALSE, TRUE, FALSE, TRUE),
                 Report(FALSE, TRUE, TRUE, FALSE),
                 Report(FALSE, TRUE, TRUE, TRUE),
                 Report(FALSE, FALSE, TRUE, TRUE)} :
    /\ RunEnds(s, n, report)
    /\ task' = Settling(task, s, n, report)

\* Mutant: only the delivering call tags its message, not its retries.
RetryIdForgotten(s, n) == None

\* deliveryOf(): the retry a run enqueues names the delivery of its message.
RetryId(s, n) == task[s][n].id

\* The run failed or was held back; Fedify enqueues the message again.  The
\* slot of the next run is taken only while an earlier one of it is handled.
RunIsRetried(s, n) ==
  /\ n < MaxRuns
  /\ task[s][n + 1].at \in {"none", "done"}
  /\ \E failure \in BOOLEAN :
       LET report == Report(FALSE, failure, FALSE, FALSE)
       IN /\ RunEnds(s, n, report)
          /\ task' = Settling(Enqueued(s, n + 1, RetryId(s, n)), s, n, report)

\* The handler itself throws, which settles as a failure.
RunThrows(s, n) ==
  LET report == Report(FALSE, TRUE, FALSE, FALSE)
  IN /\ RunEnds(s, n, report)
     /\ task' = Settling(task, s, n, report)

\* settleQueued(): one transaction per settlement, in order.
WorkerSettles(s, n) ==
  /\ task[s][n].at = "settling"
  /\ LET settlement == Head(task[s][n].todo)
         rest == Tail(task[s][n].todo)
     IN /\ SettleOutbound(task[s][n].id, settlement, AttemptOf(s, n, settlement))
        /\ task' = Moved(task, s, n,
                         IF rest = <<>> THEN "done" ELSE "settling", rest)
  /\ UNCHANGED <<synchronous, caller, redeliveries, faulty, ended, verdict>>

\* A settlement that fails is logged, and the ones after it are not tried.
WorkerCannotSettle(s, n) ==
  /\ task[s][n].at = "settling"
  /\ s \in Fallible
  /\ task' = Moved(task, s, n, "done", <<>>)
  /\ faulty' = faulty \union {s}
  /\ UNCHANGED <<synchronous, caller, rows, redeliveries, ended, verdict>>

\* A message is handled again: its worker died, its handler threw, or what
\* acknowledged it never reached the queue.
Redeliver(s, n) ==
  /\ task[s][n].at \in {"running", "settling", "done"}
  /\ s \in Fallible
  /\ redeliveries < MaxRedeliveries
  /\ task' = Enqueued(s, n, task[s][n].id)
  /\ redeliveries' = redeliveries + 1
  /\ faulty' = faulty \union {s}
  /\ UNCHANGED <<synchronous, caller, rows, ended, verdict>>

-----------------------------------------------------------------------------
CallerStep(s) ==
  \/ RecordOutbound(s)
  \/ SendSynchronously(s)
  \/ SendThrows(s)
  \/ SendLeavesOut(s)
  \/ Enqueue(s)
  \/ CallerSettles(s)

TaskStep(s, n) ==
  \/ StartRun(s, n)
  \/ RunIsLast(s, n)
  \/ RunIsRetried(s, n)
  \/ RunThrows(s, n)
  \/ WorkerSettles(s, n)

Fault(s) ==
  \/ RecordFails(s)
  \/ CallerCannotSettle(s)
  \/ \E n \in Runs : WorkerCannotSettle(s, n) \/ Redeliver(s, n)

Progress == \E s \in Sends : CallerStep(s) \/ \E n \in Runs : TaskStep(s, n)

Next == Progress \/ \E s \in Sends : Fault(s)

Spec == Init /\ [][Next]_vars

\* Calls and workers do not all stop: as long as one of them can go on, one
\* does.  Every call and message ends, so that is all the progress needs.
FairSpec == Spec /\ WF_vars(Progress)

-----------------------------------------------------------------------------
(* Properties.                                                             *)

\* Every variable keeps its type.
OutboundTypeOK ==
  /\ synchronous \in BOOLEAN
  /\ caller \in [Sends -> [at : CallerPoints, todo : Seq(Settlements)]]
  /\ rows \in [Sends -> [status : {"unrecorded"} \union Pending \union Terminal,
                         attempts : Seq(Attempt)]]
  /\ task \in [Sends -> [Runs -> [at : TaskPoints, id : Sends \union {None},
                                  todo : Seq(Settlements)]]]
  /\ redeliveries \in 0 .. MaxRedeliveries
  /\ faulty \subseteq Fallible
  /\ ended \subseteq Attempt
  /\ verdict \in [Sends -> {"none", "sent", "failed", "permanently_failed",
                            "abandoned"}]

Unrecorded == {s \in Sends : caller[s].at # "record" /\ ~Recorded(s)}

Quiet(s) ==
  /\ caller[s].at = "done"
  /\ \A n \in Runs : task[s][n].at \in {"none", "done"}

\* The status of a row and its attempts tell one story: nothing was tried for
\* a queued one, a sent one ends with its only success, and one failed or
\* abandoned was tried without success (settleOutbound() writes both tables,
\* from callers and workers in any order).
StatusShowsAttempts ==
  \A s \in Sends :
    LET attempts == rows[s].attempts
    IN /\ rows[s].status \in {"unrecorded", "queued"} => attempts = <<>>
       /\ rows[s].status \in {"sent", "failed", "abandoned"} => attempts # <<>>
       /\ \A i \in DOMAIN attempts :
            attempts[i].succeeded <=> rows[s].status = "sent" /\ i = Len(attempts)

\* Every attempt a row keeps did end that way, and was made for the row: by
\* its own call or message, or for a call that could not record a row, whose
\* message names none (deliveryOf(), settleOutbound()).
AttemptsAreOwn ==
  \A s \in Sends : \A i \in DOMAIN rows[s].attempts :
    LET attempt == rows[s].attempts[i]
    IN attempt \in ended /\ (attempt.send = s \/ attempt.send \in Unrecorded)

\* Whatever the order in which callers, workers and retries settle, the row of
\* a send whose bookkeeping did not fail ends as the last thing done for it
\* ended: a late settlement of an earlier run never hides the outcome.
OutcomeIsKept ==
  \A s \in Sends :
    Quiet(s) /\ s \notin faulty /\ Unrecorded = {} =>
      rows[s].status = verdict[s]

\* Nothing stays queued: a recorded delivery is settled, by its call or by a
\* worker, unless the bookkeeping fails.
QueuedIsSettled ==
  \A s \in Sends :
    rows[s].status = "queued" ~> (rows[s].status # "queued" \/ s \in faulty)

\* The rows follow the life cycle of a log of deliveries: an attempt stays as
\* written, and a delivery that ended never changes.
Lifecycle == INSTANCE OutboundLifecycle
               WITH Attempts <- Attempt,
                    status <- [s \in Sends |-> rows[s].status],
                    log <- [s \in Sends |-> rows[s].attempts]
ImplementsOutbound == Lifecycle!Spec

\* docs/internals/activity-deliveries.md: "Each attempt that ends is kept in
\* activity_delivery_attempts".
EndedAttemptsAreKept ==
  \A attempt \in ended :
    LET s == attempt.send
    IN Quiet(s) => \E i \in DOMAIN rows[s].attempts :
                     rows[s].attempts[i] = attempt
=============================================================================
