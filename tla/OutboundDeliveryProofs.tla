------------------------ MODULE OutboundDeliveryProofs ------------------------
(***************************************************************************)
(* Proofs about OutboundDelivery, for any sends, runs and workers.  What    *)
(* the log shows follows from the only two ways a row changes, RowStep:     *)
(* it is recorded, or a transaction settles a pending one.  That attempts   *)
(* are a row's own needs more: who a settlement still to come belongs to,   *)
(* OwnersOK; and what a send ends with rests on its message being a chain   *)
(* of runs of which only the last may still succeed, OutcomesOK.            *)
(***************************************************************************)
EXTENDS OutboundDelivery, SequenceTheorems, TLAPS

RowRecorded(s) ==
  /\ rows[s].status = "unrecorded"
  /\ rows' = [rows EXCEPT ![s].status = "queued"]

RowSettled(r, settlement, attempt) ==
  /\ rows[r].status \in Pending
  /\ attempt.succeeded <=> settlement = Sent
  /\ SettleRow(r, settlement, attempt)

RowStep(s) ==
  \/ UNCHANGED rows
  \/ RowRecorded(s)
  \/ \E r \in Sends, settlement \in Settlements, attempt \in Attempt :
       RowSettled(r, settlement, attempt)

\* Before it recorded its row, or failed to, a call has done nothing else.
CallersOK ==
  \A s \in Sends :
    caller[s].at = "record" =>
      /\ rows[s].status = "unrecorded"
      /\ \A n \in Runs : task[s][n].at = "none"

\* Whoever is about to settle names its own row, or has none, and what it is
\* about to write did end that way.
OwnsTodo(s, n, todo, results) ==
  \A i \in DOMAIN todo : todo[i].attempted => AttemptOf(s, n, todo[i]) \in results

OwnsTask(s, n, t, results, recorded) ==
  /\ t.at # "none" => t.id = s \/ (t.id = None /\ ~recorded)
  /\ OwnsTodo(s, n, t.todo, results)

OwnersOK ==
  \A s \in Sends :
    /\ OwnsTodo(s, 0, caller[s].todo, ended)
    /\ \A n \in Runs : OwnsTask(s, n, task[s][n], ended, Recorded(s))

\* A call with settlements to make has not ended, nor has a run.
TodoOK ==
  \A s \in Sends :
    /\ caller[s].at = "settle" => caller[s].todo # <<>>
    /\ \A n \in Runs : task[s][n].at = "settling" => task[s][n].todo # <<>>

OInv == OutboundTypeOK /\ TodoOK /\ CallersOK /\ StatusShowsAttempts

\* A step of one call or of its message, once the call tried to record.
StepOf(s) ==
  /\ \A other \in Sends \ {s} : /\ caller'[other] = caller[other]
                                /\ task'[other] = task[other]
  /\ caller'[s].at # "record"

TypedStep(s) == OutboundTypeOK' /\ TodoOK' /\ RowStep(s)

-----------------------------------------------------------------------------
(* Type correctness.                                                       *)

Verdicts == {"none", "sent", "failed", "permanently_failed", "abandoned"}
Statuses == {"unrecorded"} \union Pending \union Terminal
Row == [status : Statuses, attempts : Seq(Attempt)]
Call == [at : CallerPoints, todo : Seq(Settlements)]
Task == [at : TaskPoints, id : Sends \union {None}, todo : Seq(Settlements)]

LEMMA SettlementFacts ==
  /\ \A st \in Settlements : /\ st.status \in Statuses \ {"unrecorded", "queued"}
                             /\ st.status \in Verdicts
                             /\ st.attempted \in BOOLEAN
                             /\ st.attempted <=> st.status # "permanently_failed"
                             /\ st = Sent <=> st.status = "sent"
  /\ {Sent, Failed, Abandoned, GivenUp} \subseteq Settlements
  BY DEF Settlements, Sent, Failed, Abandoned, GivenUp, Statuses, Verdicts,
         Pending, Terminal

LEMMA AttemptOfType ==
  ASSUME NEW s \in Sends, NEW n \in 0 .. MaxRuns, NEW settlement
  PROVE  AttemptOf(s, n, settlement) \in Attempt
  BY DEF AttemptOf, Attempt

LEMMA TypeIs ==
  OutboundTypeOK <=>
    /\ synchronous \in BOOLEAN
    /\ caller \in [Sends -> Call]
    /\ rows \in [Sends -> Row]
    /\ task \in [Sends -> [Runs -> Task]]
    /\ redeliveries \in 0 .. MaxRedeliveries
    /\ faulty \subseteq Fallible
    /\ ended \subseteq Attempt
    /\ verdict \in [Sends -> Verdicts]
  BY DEF OutboundTypeOK, Call, Row, Task, Verdicts, Statuses

LEMMA InitType == ASSUME OutboundAssumption, Init PROVE OInv
  <1>1. <<>> \in Seq(Settlements) /\ <<>> \in Seq(Attempt)
    OBVIOUS
  <1>2. OutboundTypeOK
    BY <1>1 DEF OutboundAssumption, Init, OutboundTypeOK, NoTask, CallerPoints,
                TaskPoints, Pending, Terminal
  <1>3. TodoOK /\ CallersOK /\ StatusShowsAttempts
    BY DEF Init, TodoOK, CallersOK, StatusShowsAttempts, NoTask
  <1> QED
    BY <1>2, <1>3 DEF OInv

LEMMA QueuedSettlementsType ==
  ASSUME NEW report
  PROVE  /\ QueuedSettlements(report) \in Seq(Settlements)
         /\ QueuedSettlements(report) # <<>> =>
              Len(QueuedSettlements(report)) \in 1 .. 2
  <1>1. <<>> \in Seq(Settlements) /\ <<Sent>> \in Seq(Settlements)
    BY SettlementFacts
  <1>2. <<Failed>> \in Seq(Settlements) /\ <<Abandoned>> \in Seq(Settlements)
    BY SettlementFacts
  <1>3. <<GivenUp>> \in Seq(Settlements)
    BY SettlementFacts
  <1> DEFINE tried == IF ~report.failure THEN <<>>
                      ELSE IF report.abandoned /\ ~report.permanent
                           THEN <<Abandoned>> ELSE <<Failed>>
             last == IF report.permanent THEN <<GivenUp>> ELSE <<>>
  <1>4. tried \in Seq(Settlements) /\ Len(tried) \in 0 .. 1
    BY <1>1, <1>2
  <1>5. last \in Seq(Settlements) /\ Len(last) \in 0 .. 1
    BY <1>1, <1>3
  <1>6. CASE report.sent
    BY <1>1, <1>6 DEF QueuedSettlements
  <1>7. CASE ~report.sent
    <2>1. QueuedSettlements(report) = tried \o last
      BY <1>7 DEF QueuedSettlements
    <2> HIDE DEF tried, last
    <2>2. /\ tried \o last \in Seq(Settlements)
          /\ Len(tried \o last) = Len(tried) + Len(last)
      BY <1>4, <1>5
    <2>3. tried \o last # <<>> => Len(tried \o last) # 0
      BY <2>2
    <2> QED
      BY <1>4, <1>5, <2>1, <2>2, <2>3
  <1> QED
    BY <1>6, <1>7

LEMMA SettleRowType ==
  ASSUME OutboundTypeOK, NEW r \in Sends, NEW settlement \in Settlements,
         NEW attempt \in Attempt, SettleRow(r, settlement, attempt)
  PROVE  rows' \in [Sends -> Row]
  <1>1. rows \in [Sends -> Row]
    BY TypeIs
  <1>2. rows[r].attempts \in Seq(Attempt)
    BY <1>1 DEF Row
  <1>3. Append(rows[r].attempts, attempt) \in Seq(Attempt)
    BY <1>2
  <1>4. settlement.status \in Statuses
    BY SettlementFacts
  <1>5. [status |-> settlement.status,
         attempts |-> IF settlement.attempted
                      THEN Append(rows[r].attempts, attempt)
                      ELSE rows[r].attempts] \in Row
    BY <1>2, <1>3, <1>4 DEF Row
  <1> QED
    BY <1>1, <1>5 DEF SettleRow

LEMMA SettleStep ==
  ASSUME OutboundTypeOK, NEW s \in Sends, NEW id, NEW settlement \in Settlements,
         NEW attempt \in Attempt, attempt.succeeded <=> settlement = Sent,
         SettleOutbound(id, settlement, attempt)
  PROVE  RowStep(s) /\ rows' \in [Sends -> Row]
  <1>1. CASE UNCHANGED rows
    BY <1>1, TypeIs DEF RowStep
  <1>2. ASSUME NEW r \in Candidates(id), SettleRow(r, settlement, attempt)
        PROVE  RowStep(s) /\ rows' \in [Sends -> Row]
    <2>1. r \in Sends /\ rows[r].status \in Pending
      BY <1>2 DEF Candidates
    <2>2. RowSettled(r, settlement, attempt)
      BY <1>2, <2>1 DEF RowSettled
    <2> QED
      BY <1>2, <2>1, <2>2, SettleRowType DEF RowStep
  <1> QED
    BY <1>1, <1>2 DEF SettleOutbound

LEMMA CallerGoesType ==
  ASSUME OutboundTypeOK, TodoOK, NEW s \in Sends,
         NEW todo \in Seq(Settlements), CallerGoes(s, todo)
  PROVE  /\ caller' \in [Sends -> Call]
         /\ \A c \in Sends : caller'[c].at = "settle" => caller'[c].todo # <<>>
  <1> DEFINE next == IF Recorded(s) /\ todo # <<>>
                     THEN [at |-> "settle", todo |-> todo]
                     ELSE [at |-> "done", todo |-> <<>>]
  <1>1. <<>> \in Seq(Settlements)
    OBVIOUS
  <1>2. next \in Call /\ (next.at = "settle" => next.todo # <<>>)
    BY <1>1 DEF Call, CallerPoints
  <1>3. caller \in [Sends -> Call] /\ caller' = [caller EXCEPT ![s] = next]
    BY TypeIs DEF CallerGoes
  <1> HIDE DEF next
  <1> QED
    BY <1>2, <1>3 DEF TodoOK

LEMMA EndsType ==
  ASSUME OutboundTypeOK, NEW s \in Sends, NEW n \in 0 .. MaxRuns,
         NEW todo \in Seq(Settlements), Ends(s, n, todo)
  PROVE  ended' \subseteq Attempt /\ verdict' \in [Sends -> Verdicts]
  <1>1. ended \subseteq Attempt /\ verdict \in [Sends -> Verdicts]
    BY TypeIs
  <1>2. ended' \subseteq Attempt
    BY <1>1, AttemptOfType DEF Ends
  <1>3. CASE todo = <<>>
    BY <1>1, <1>3 DEF Ends
  <1>4. CASE todo # <<>>
    <2>1. todo[Len(todo)] \in Settlements
      BY <1>4
    <2>2. todo[Len(todo)].status \in Verdicts
      BY <2>1, SettlementFacts
    <2>3. verdict' \in [Sends -> Verdicts]
      BY <1>1, <1>4, <2>2 DEF Ends
    <2> QED
      BY <1>2, <2>3
  <1> QED
    BY <1>2, <1>3, <1>4 DEF Ends

\* The tasks of every call, and that one which is settling has something to.
Tasks == [Sends -> [Runs -> Task]]
SettlingHasTodo(tasks) ==
  \A s \in Sends, n \in Runs :
    tasks[s][n].at = "settling" => tasks[s][n].todo # <<>>

LEMMA TodoIs ==
  TodoOK <=> /\ \A s \in Sends : caller[s].at = "settle" => caller[s].todo # <<>>
             /\ SettlingHasTodo(task)
  BY DEF TodoOK, SettlingHasTodo

LEMMA ChangedTask ==
  ASSUME NEW tasks \in Tasks, NEW s \in Sends, NEW n \in Runs, NEW new \in Task,
         SettlingHasTodo(tasks), new.at = "settling" => new.todo # <<>>
  PROVE  /\ [tasks EXCEPT ![s][n] = new] \in Tasks
         /\ SettlingHasTodo([tasks EXCEPT ![s][n] = new])
  <1>1. [tasks[s] EXCEPT ![n] = new] \in [Runs -> Task]
    BY DEF Tasks
  <1>2. [tasks EXCEPT ![s][n] = new] = [tasks EXCEPT ![s] = [tasks[s] EXCEPT ![n] = new]]
    BY DEF Tasks
  <1> QED
    BY <1>1, <1>2 DEF Tasks, SettlingHasTodo

LEMMA MovedType ==
  ASSUME NEW tasks \in Tasks, NEW s \in Sends, NEW n \in Runs,
         NEW at \in TaskPoints, NEW todo \in Seq(Settlements),
         SettlingHasTodo(tasks), at = "settling" => todo # <<>>
  PROVE  /\ Moved(tasks, s, n, at, todo) \in Tasks
         /\ SettlingHasTodo(Moved(tasks, s, n, at, todo))
  <1> DEFINE new == [at |-> at, id |-> tasks[s][n].id, todo |-> todo]
  <1>1. new \in Task /\ (new.at = "settling" => new.todo # <<>>)
    BY DEF Tasks, Task
  <1>2. Moved(tasks, s, n, at, todo) = [tasks EXCEPT ![s][n] = new]
    BY DEF Moved
  <1> HIDE DEF new
  <1>3. /\ [tasks EXCEPT ![s][n] = new] \in Tasks
        /\ SettlingHasTodo([tasks EXCEPT ![s][n] = new])
    BY <1>1, ChangedTask
  <1> QED
    BY <1>2, <1>3

LEMMA SettlingType ==
  ASSUME NEW tasks \in Tasks, NEW s \in Sends, NEW n \in Runs, NEW report,
         SettlingHasTodo(tasks)
  PROVE  /\ Settling(tasks, s, n, report) \in Tasks
         /\ SettlingHasTodo(Settling(tasks, s, n, report))
  <1> DEFINE todo == QueuedSettlements(report)
             at == IF todo = <<>> THEN "done" ELSE "settling"
  <1>1. todo \in Seq(Settlements)
    BY QueuedSettlementsType
  <1>2. Settling(tasks, s, n, report) = Moved(tasks, s, n, at, todo)
    BY DEF Settling
  <1> HIDE DEF todo
  <1>3. at \in TaskPoints /\ (at = "settling" => todo # <<>>)
    BY DEF TaskPoints
  <1> HIDE DEF at
  <1> QED
    BY <1>1, <1>2, <1>3, MovedType

LEMMA EnqueuedType ==
  ASSUME OutboundTypeOK, TodoOK, NEW s \in Sends, NEW n \in Runs,
         NEW id \in Sends \union {None}
  PROVE  Enqueued(s, n, id) \in Tasks /\ SettlingHasTodo(Enqueued(s, n, id))
  <1> DEFINE new == [at |-> "waiting", id |-> id, todo |-> <<>>]
  <1>1. <<>> \in Seq(Settlements)
    OBVIOUS
  <1>2. new \in Task /\ new.at # "settling"
    BY <1>1 DEF Task, TaskPoints
  <1>3. task \in Tasks /\ SettlingHasTodo(task)
    BY TypeIs, TodoIs DEF Tasks
  <1> HIDE DEF new
  <1>4. [task EXCEPT ![s][n] = new] \in Tasks
        /\ SettlingHasTodo([task EXCEPT ![s][n] = new])
    BY <1>2, <1>3, ChangedTask
  <1> QED
    BY <1>4 DEF Enqueued, new

-----------------------------------------------------------------------------
(* The steps.                                                              *)

LEMMA TypeNext ==
  ASSUME OutboundTypeOK, synchronous' = synchronous,
         caller' \in [Sends -> Call], rows' \in [Sends -> Row], task' \in Tasks,
         redeliveries' \in 0 .. MaxRedeliveries, faulty' \subseteq Fallible,
         ended' \subseteq Attempt, verdict' \in [Sends -> Verdicts]
  PROVE  OutboundTypeOK'
  BY TypeIs DEF OutboundTypeOK, Call, Row, Tasks, Task, Verdicts, Statuses

LEMMA TodoNext ==
  ASSUME \A s \in Sends : caller'[s].at = "settle" => caller'[s].todo # <<>>,
         SettlingHasTodo(task')
  PROVE  TodoOK'
  BY DEF TodoOK, SettlingHasTodo

LEMMA CallerTodo ==
  ASSUME OutboundTypeOK, TodoOK, NEW s \in Sends, caller[s].at = "settle"
  PROVE  Head(caller[s].todo) \in Settlements
  <1>1. caller[s].todo \in Seq(Settlements) /\ caller[s].todo # <<>>
    BY TypeIs, TodoIs DEF Call
  <1> QED
    BY <1>1

LEMMA TaskTodo ==
  ASSUME OutboundTypeOK, TodoOK, NEW s \in Sends, NEW n \in Runs,
         task[s][n].at = "settling"
  PROVE  /\ Head(task[s][n].todo) \in Settlements
         /\ Tail(task[s][n].todo) \in Seq(Settlements)
  <1>1. task[s][n].todo \in Seq(Settlements) /\ task[s][n].todo # <<>>
    BY TypeIs, TodoIs DEF Task, SettlingHasTodo
  <1> QED
    BY <1>1

LEMMA CallerEndsStep ==
  ASSUME OutboundAssumption, OInv, NEW s \in Sends, NEW st \in Settlements,
         CallerGoes(s, <<st>>), Ends(s, 0, <<st>>),
         UNCHANGED <<synchronous, rows, task, redeliveries, faulty>>
  PROVE  TypedStep(s) /\ StepOf(s)
  <1>1. <<st>> \in Seq(Settlements) /\ 0 \in 0 .. MaxRuns
    BY DEF OutboundAssumption
  <1>2. /\ caller' \in [Sends -> Call]
        /\ \A c \in Sends : caller'[c].at = "settle" => caller'[c].todo # <<>>
    BY <1>1, CallerGoesType DEF OInv
  <1>3. ended' \subseteq Attempt /\ verdict' \in [Sends -> Verdicts]
    BY <1>1, EndsType DEF OInv
  <1>4. OutboundTypeOK'
    BY <1>2, <1>3, TypeIs, TypeNext DEF OInv, Tasks
  <1>5. TodoOK'
    BY <1>2, TodoIs, TodoNext DEF OInv
  <1>6. StepOf(s)
    BY TypeIs DEF OInv, StepOf, CallerGoes, Call
  <1> QED
    BY <1>4, <1>5, <1>6 DEF TypedStep, RowStep

LEMMA RecordStep ==
  ASSUME OutboundAssumption, OInv, NEW s \in Sends,
         RecordOutbound(s) \/ RecordFails(s)
  PROVE  TypedStep(s) /\ StepOf(s)
  <1>1. /\ caller \in [Sends -> Call]
        /\ caller' = [caller EXCEPT ![s].at = "send"]
    BY TypeIs DEF OInv, RecordOutbound, RecordFails
  <1>2. /\ caller' \in [Sends -> Call]
        /\ \A c \in Sends : caller'[c].at = "settle" => caller'[c].todo # <<>>
    BY <1>1, TodoIs DEF OInv, Call, CallerPoints
  <1>3. TodoOK'
    BY <1>2, TodoIs, TodoNext DEF OInv, RecordOutbound, RecordFails
  <1>4. StepOf(s)
    BY <1>1 DEF Call, StepOf, RecordOutbound, RecordFails
  <1>5. CASE RecordOutbound(s)
    <2>1. RowRecorded(s)
      BY <1>5 DEF OInv, CallersOK, RecordOutbound, RowRecorded
    <2>2. rows' \in [Sends -> Row]
      BY <1>5, TypeIs DEF OInv, RecordOutbound, Row, Statuses, Pending
    <2>3. OutboundTypeOK'
      BY <1>2, <1>5, <2>2, TypeIs, TypeNext DEF OInv, RecordOutbound, Tasks
    <2> QED
      BY <1>3, <1>4, <2>1, <2>3 DEF TypedStep, RowStep
  <1>6. CASE RecordFails(s)
    <2>1. OutboundTypeOK'
      BY <1>2, <1>6, TypeIs, TypeNext DEF OInv, RecordFails, Tasks
    <2> QED
      BY <1>3, <1>4, <1>6, <2>1 DEF TypedStep, RowStep, RecordFails
  <1> QED
    BY <1>5, <1>6

LEMMA EnqueueStep ==
  ASSUME OutboundAssumption, OInv, NEW s \in Sends, Enqueue(s)
  PROVE  TypedStep(s) /\ StepOf(s)
  <1>1. <<>> \in Seq(Settlements) /\ 1 \in Runs
    BY DEF OutboundAssumption, Runs
  <1>2. /\ caller' \in [Sends -> Call]
        /\ \A c \in Sends : caller'[c].at = "settle" => caller'[c].todo # <<>>
    BY <1>1, CallerGoesType DEF OInv, Enqueue
  <1>3. task' \in Tasks /\ SettlingHasTodo(task')
    BY <1>1, EnqueuedType DEF OInv, Enqueue
  <1>4. OutboundTypeOK'
    BY <1>2, <1>3, TypeIs, TypeNext DEF OInv, Enqueue
  <1>5. TodoOK'
    BY <1>2, <1>3, TodoNext
  <1>6. StepOf(s)
    BY TypeIs DEF OInv, StepOf, CallerGoes, Call, Enqueue, Enqueued
  <1> QED
    BY <1>4, <1>5, <1>6 DEF TypedStep, RowStep, Enqueue

LEMMA CallerSettleStep ==
  ASSUME OutboundAssumption, OInv, NEW s \in Sends,
         CallerSettles(s) \/ CallerCannotSettle(s)
  PROVE  TypedStep(s) /\ StepOf(s)
  <1> DEFINE st == Head(caller[s].todo)
  <1>1. /\ caller \in [Sends -> Call]
        /\ caller[s].at = "settle"
        /\ caller' = [caller EXCEPT ![s] = [at |-> "done", todo |-> <<>>]]
    BY TypeIs DEF OInv, CallerSettles, CallerCannotSettle
  <1>2. <<>> \in Seq(Settlements)
    OBVIOUS
  <1>3. /\ caller' \in [Sends -> Call]
        /\ \A c \in Sends : caller'[c].at = "settle" => caller'[c].todo # <<>>
    BY <1>1, <1>2, TodoIs DEF OInv, Call, CallerPoints
  <1>4. TodoOK'
    BY <1>3, TodoIs, TodoNext DEF OInv, CallerSettles, CallerCannotSettle
  <1>5. StepOf(s)
    BY <1>1 DEF StepOf, CallerSettles, CallerCannotSettle
  <1>6. CASE CallerSettles(s)
    <2>1. st \in Settlements
      BY <1>1, CallerTodo DEF OInv
    <2>2. AttemptOf(s, 0, st) \in Attempt
      BY AttemptOfType DEF OutboundAssumption
    <2>3. AttemptOf(s, 0, st).succeeded <=> st = Sent
      BY DEF AttemptOf
    <2>4. SettleOutbound(s, st, AttemptOf(s, 0, st))
      BY <1>6 DEF CallerSettles
    <2> HIDE DEF st
    <2>5. RowStep(s) /\ rows' \in [Sends -> Row]
      BY <2>1, <2>2, <2>3, <2>4, SettleStep DEF OInv
    <2>6. OutboundTypeOK'
      BY <1>3, <1>6, <2>5, TypeIs, TypeNext DEF OInv, CallerSettles, Tasks
    <2> QED
      BY <1>4, <1>5, <2>5, <2>6 DEF TypedStep
  <1>7. CASE CallerCannotSettle(s)
    <2>1. OutboundTypeOK'
      BY <1>3, <1>7, TypeIs, TypeNext DEF OInv, CallerCannotSettle, Tasks
    <2> QED
      BY <1>4, <1>5, <1>7, <2>1 DEF TypedStep, RowStep, CallerCannotSettle
  <1> QED
    BY <1>6, <1>7

LEMMA TaskStepOf ==
  ASSUME OInv, NEW s \in Sends, NEW n \in Runs, task[s][n].at # "none",
         UNCHANGED caller, \A other \in Sends \ {s} : task'[other] = task[other]
  PROVE  StepOf(s)
  BY DEF OInv, CallersOK, StepOf

\* A task that moves changes no other call's tasks.
LEMMA MovedElsewhere ==
  ASSUME NEW tasks \in Tasks, NEW s \in Sends, NEW n \in Runs, NEW at, NEW todo
  PROVE  \A other \in Sends \ {s} : Moved(tasks, s, n, at, todo)[other] = tasks[other]
  BY DEF Tasks, Moved

LEMMA StartStep ==
  ASSUME OutboundAssumption, OInv, NEW s \in Sends, NEW n \in Runs, StartRun(s, n)
  PROVE  TypedStep(s) /\ StepOf(s)
  <1>1. task \in Tasks /\ SettlingHasTodo(task)
    BY TypeIs, TodoIs DEF OInv, Tasks
  <1>2. <<>> \in Seq(Settlements) /\ "running" \in TaskPoints
    BY DEF TaskPoints
  <1>3. task' \in Tasks /\ SettlingHasTodo(task')
    BY <1>1, <1>2, MovedType DEF StartRun
  <1>4. OutboundTypeOK'
    BY <1>3, TypeIs, TypeNext DEF OInv, StartRun
  <1>5. TodoOK'
    BY <1>3, TodoIs, TodoNext DEF OInv, StartRun
  <1>6. StepOf(s)
    BY <1>1, MovedElsewhere, TaskStepOf DEF StartRun
  <1> QED
    BY <1>4, <1>5, <1>6 DEF TypedStep, RowStep, StartRun

LEMMA RunEndStep ==
  ASSUME OutboundAssumption, OInv, NEW s \in Sends, NEW n \in Runs, NEW report,
         NEW tasks \in Tasks, SettlingHasTodo(tasks),
         \A other \in Sends \ {s} : tasks[other] = task[other],
         RunEnds(s, n, report), task' = Settling(tasks, s, n, report)
  PROVE  TypedStep(s) /\ StepOf(s)
  <1>1. task' \in Tasks /\ SettlingHasTodo(task')
    BY SettlingType
  <1>2. n \in 0 .. MaxRuns
    BY DEF OutboundAssumption, Runs
  <1>3. ended' \subseteq Attempt /\ verdict' \in [Sends -> Verdicts]
    BY <1>2, QueuedSettlementsType, EndsType DEF OInv, RunEnds
  <1>4. OutboundTypeOK'
    BY <1>1, <1>3, TypeIs, TypeNext DEF OInv, RunEnds
  <1>5. TodoOK'
    BY <1>1, TodoIs, TodoNext DEF OInv, RunEnds
  <1>6. \A other \in Sends \ {s} : task'[other] = task[other]
    <2> DEFINE todo == QueuedSettlements(report)
               at == IF todo = <<>> THEN "done" ELSE "settling"
    <2>1. task' = Moved(tasks, s, n, at, todo)
      BY DEF Settling
    <2> HIDE DEF todo, at
    <2>2. \A other \in Sends \ {s} :
            Moved(tasks, s, n, at, todo)[other] = tasks[other]
      BY MovedElsewhere
    <2>3. \A other \in Sends \ {s} : tasks[other] = task[other]
      OBVIOUS
    <2> QED
      BY <2>1, <2>2, <2>3
  <1>7. StepOf(s)
    BY <1>6, TaskStepOf DEF RunEnds
  <1> QED
    BY <1>4, <1>5, <1>7 DEF TypedStep, RowStep, RunEnds

LEMMA RunStep ==
  ASSUME OutboundAssumption, OInv, NEW s \in Sends, NEW n \in Runs,
         RunIsLast(s, n) \/ RunIsRetried(s, n) \/ RunThrows(s, n)
  PROVE  TypedStep(s) /\ StepOf(s)
  <1>1. task \in Tasks /\ SettlingHasTodo(task)
    BY TypeIs, TodoIs DEF OInv, Tasks
  <1>2. CASE RunIsLast(s, n)
    BY <1>1, <1>2, RunEndStep DEF RunIsLast
  <1>3. CASE RunThrows(s, n)
    BY <1>1, <1>3, RunEndStep DEF RunThrows
  <1>4. CASE RunIsRetried(s, n)
    <2> DEFINE id == RetryId(s, n)
               tasks == Enqueued(s, n + 1, id)
    <2>1. id \in Sends \union {None}
      BY TypeIs DEF OInv, RetryId, Task
    <2>2. n + 1 \in Runs
      BY <1>4 DEF RunIsRetried, Runs, OutboundAssumption
    <2> HIDE DEF id
    <2>3. tasks \in Tasks /\ SettlingHasTodo(tasks)
      BY <2>1, <2>2, EnqueuedType DEF OInv
    <2>4. \A other \in Sends \ {s} : tasks[other] = task[other]
      BY <1>1 DEF Enqueued, Tasks
    <2>5. PICK report : RunEnds(s, n, report) /\ task' = Settling(tasks, s, n, report)
      BY <1>4 DEF RunIsRetried, id
    <2> HIDE DEF tasks
    <2> QED
      BY <2>3, <2>4, <2>5, RunEndStep
  <1> QED
    BY <1>2, <1>3, <1>4

LEMMA WorkerStep ==
  ASSUME OutboundAssumption, OInv, NEW s \in Sends, NEW n \in Runs,
         WorkerSettles(s, n) \/ WorkerCannotSettle(s, n)
  PROVE  TypedStep(s) /\ StepOf(s)
  <1> DEFINE st == Head(task[s][n].todo)
             rest == Tail(task[s][n].todo)
             at == IF rest = <<>> THEN "done" ELSE "settling"
  <1>1. /\ task \in Tasks
        /\ SettlingHasTodo(task)
        /\ task[s][n].at = "settling"
    BY TypeIs, TodoIs DEF OInv, Tasks, WorkerSettles, WorkerCannotSettle
  <1>2. st \in Settlements /\ rest \in Seq(Settlements)
    BY <1>1, TaskTodo DEF OInv
  <1>3. CASE WorkerSettles(s, n)
    <2>1. task' = Moved(task, s, n, at, rest)
      BY <1>3 DEF WorkerSettles
    <2>2. SettleOutbound(task[s][n].id, st, AttemptOf(s, n, st))
      BY <1>3 DEF WorkerSettles
    <2> HIDE DEF st, rest
    <2>3. AttemptOf(s, n, st) \in Attempt
      BY AttemptOfType DEF OutboundAssumption, Runs
    <2>4. AttemptOf(s, n, st).succeeded <=> st = Sent
      BY DEF AttemptOf
    <2>5. RowStep(s) /\ rows' \in [Sends -> Row]
      BY <1>2, <2>2, <2>3, <2>4, SettleStep DEF OInv
    <2>6. at \in TaskPoints /\ (at = "settling" => rest # <<>>)
      BY DEF TaskPoints
    <2> HIDE DEF at
    <2>7. task' \in Tasks /\ SettlingHasTodo(task')
      BY <1>1, <1>2, <2>1, <2>6, MovedType
    <2>8. OutboundTypeOK'
      BY <1>3, <2>5, <2>7, TypeIs, TypeNext DEF OInv, WorkerSettles
    <2>9. TodoOK'
      BY <1>3, <2>7, TodoIs, TodoNext DEF OInv, WorkerSettles
    <2>10. \A other \in Sends \ {s} : task'[other] = task[other]
      BY <1>1, <2>1, MovedElsewhere
    <2>11. UNCHANGED caller
      BY <1>3 DEF WorkerSettles
    <2>12. StepOf(s)
      BY <1>1, <2>10, <2>11, TaskStepOf
    <2> QED
      BY <2>5, <2>8, <2>9, <2>12 DEF TypedStep
  <1>4. CASE WorkerCannotSettle(s, n)
    <2>1. <<>> \in Seq(Settlements) /\ "done" \in TaskPoints
      BY DEF TaskPoints
    <2>2. task' \in Tasks /\ SettlingHasTodo(task')
      BY <1>1, <1>4, <2>1, MovedType DEF WorkerCannotSettle
    <2>3. OutboundTypeOK'
      BY <1>4, <2>2, TypeIs, TypeNext DEF OInv, WorkerCannotSettle
    <2>4. TodoOK'
      BY <1>4, <2>2, TodoIs, TodoNext DEF OInv, WorkerCannotSettle
    <2>5. StepOf(s)
      BY <1>1, <1>4, MovedElsewhere, TaskStepOf DEF WorkerCannotSettle
    <2> QED
      BY <1>4, <2>3, <2>4, <2>5 DEF TypedStep, RowStep, WorkerCannotSettle
  <1> QED
    BY <1>3, <1>4

LEMMA RedeliverStep ==
  ASSUME OutboundAssumption, OInv, NEW s \in Sends, NEW n \in Runs, Redeliver(s, n)
  PROVE  TypedStep(s) /\ StepOf(s)
  <1>1. task \in Tasks /\ task[s][n].id \in Sends \union {None}
    BY TypeIs DEF OInv, Tasks, Task
  <1>2. task' \in Tasks /\ SettlingHasTodo(task')
    BY <1>1, EnqueuedType DEF OInv, Redeliver
  <1>3. redeliveries' \in 0 .. MaxRedeliveries
    BY TypeIs DEF OInv, OutboundAssumption, Redeliver
  <1>4. OutboundTypeOK'
    BY <1>2, <1>3, TypeIs, TypeNext DEF OInv, Redeliver
  <1>5. TodoOK'
    BY <1>2, TodoIs, TodoNext DEF OInv, Redeliver
  <1>6. \A other \in Sends \ {s} : task'[other] = task[other]
    BY <1>1 DEF Tasks, Redeliver, Enqueued
  <1>7. StepOf(s)
    BY <1>6, TaskStepOf DEF Redeliver
  <1> QED
    BY <1>4, <1>5, <1>7 DEF TypedStep, RowStep, Redeliver

LEMMA StepTyped ==
  ASSUME OutboundAssumption, OInv, Next
  PROVE  \E s \in Sends : TypedStep(s) /\ StepOf(s)
  <1>1. ASSUME NEW s \in Sends, CallerStep(s)
        PROVE  TypedStep(s) /\ StepOf(s)
    BY <1>1, RecordStep, EnqueueStep, CallerSettleStep, CallerEndsStep, SettlementFacts
    DEF CallerStep, SendSynchronously, SendThrows, SendLeavesOut
  <1>2. ASSUME NEW s \in Sends, NEW n \in Runs, TaskStep(s, n)
        PROVE  TypedStep(s) /\ StepOf(s)
    BY <1>2, StartStep, RunStep, WorkerStep DEF TaskStep
  <1>3. ASSUME NEW s \in Sends, Fault(s)
        PROVE  TypedStep(s) /\ StepOf(s)
    BY <1>3, RecordStep, CallerSettleStep, WorkerStep, RedeliverStep DEF Fault
  <1> QED
    BY <1>1, <1>2, <1>3 DEF Next, Progress

-----------------------------------------------------------------------------
(* What the log shows.                                                     *)

Shows(row) ==
  /\ row.status \in {"unrecorded", "queued"} => row.attempts = <<>>
  /\ row.status \in {"sent", "failed", "abandoned"} => row.attempts # <<>>
  /\ \A i \in DOMAIN row.attempts :
       row.attempts[i].succeeded <=> row.status = "sent" /\ i = Len(row.attempts)

LEMMA ShowsIs == StatusShowsAttempts <=> \A s \in Sends : Shows(rows[s])
  BY DEF StatusShowsAttempts, Shows

LEMMA ShowsNext ==
  ASSUME OInv, NEW s \in Sends, Shows(rows'[s]),
         \A other \in Sends \ {s} : rows'[other] = rows[other]
  PROVE  StatusShowsAttempts'
  <1>1. \A other \in Sends : Shows(rows'[other])
    BY ShowsIs DEF OInv
  <1> QED
    BY <1>1 DEF StatusShowsAttempts, Shows

LEMMA SettledShows ==
  ASSUME OInv, NEW r \in Sends, NEW settlement \in Settlements,
         NEW attempt \in Attempt, RowSettled(r, settlement, attempt)
  PROVE  StatusShowsAttempts'
  <1> DEFINE before == rows[r].attempts
             after == rows'[r].attempts
  <1>1. /\ rows \in [Sends -> Row]
        /\ before \in Seq(Attempt)
    BY TypeIs DEF OInv, Row
  <1>2. \A i \in DOMAIN before : ~before[i].succeeded
    BY DEF OInv, StatusShowsAttempts, RowSettled, Pending
  <1>3. /\ rows'[r].status = settlement.status
        /\ after = IF settlement.attempted THEN Append(before, attempt) ELSE before
        /\ \A s \in Sends \ {r} : rows'[s] = rows[s]
    BY <1>1 DEF RowSettled, SettleRow
  <1>4. /\ settlement.status \notin {"unrecorded", "queued"}
        /\ settlement.attempted \in BOOLEAN
        /\ settlement.status \in {"sent", "failed", "abandoned"} =>
             settlement.attempted
        /\ settlement = Sent <=> settlement.status = "sent"
        /\ settlement.status = "sent" => settlement.attempted
    BY SettlementFacts
  <1> HIDE DEF before, after
  <1>5. rows'[r].status \in {"sent", "failed", "abandoned"} => after # <<>>
    <2>1. Append(before, attempt) # <<>>
      BY <1>1
    <2> QED
      BY <1>3, <1>4, <2>1
  <1>6. ASSUME NEW i \in DOMAIN after
        PROVE  after[i].succeeded <=> rows'[r].status = "sent" /\ i = Len(after)
    <2>1. CASE ~settlement.attempted
      BY <1>2, <1>3, <1>4, <1>6, <2>1
    <2>2. CASE settlement.attempted
      <3>1. /\ Len(after) = Len(before) + 1
            /\ after[Len(after)] = attempt
            /\ i \in DOMAIN before \/ i = Len(after)
            /\ i \in DOMAIN before => after[i] = before[i] /\ i # Len(after)
        BY <1>1, <1>3, <1>6, <2>2
      <3>2. attempt.succeeded <=> settlement = Sent
        BY DEF RowSettled
      <3> QED
        BY <1>2, <1>3, <1>4, <3>1, <3>2
    <2> QED
      BY <1>4, <2>1, <2>2
  <1> QED
    BY <1>3, <1>4, <1>5, <1>6, ShowsNext DEF Shows, after

LEMMA RecordedShows ==
  ASSUME OInv, NEW s \in Sends, RowRecorded(s)
  PROVE  StatusShowsAttempts'
  <1>1. rows \in [Sends -> Row]
    BY TypeIs DEF OInv
  <1>2. rows[s].attempts = <<>>
    BY DEF OInv, StatusShowsAttempts, RowRecorded
  <1>3. /\ rows'[s].status = "queued"
        /\ rows'[s].attempts = <<>>
        /\ \A other \in Sends \ {s} : rows'[other] = rows[other]
    BY <1>1, <1>2 DEF RowRecorded, Row
  <1> QED
    BY <1>3, ShowsNext DEF Shows

\* A step changes nothing of another call that has not tried to record.
LEMMA CallersStep ==
  ASSUME OInv, NEW s \in Sends, TypedStep(s), StepOf(s)
  PROVE  CallersOK'
  <1> SUFFICES ASSUME NEW r \in Sends, caller'[r].at = "record"
               PROVE  /\ rows'[r].status = "unrecorded"
                      /\ \A n \in Runs : task'[r][n].at = "none"
    BY DEF CallersOK
  <1>1. r # s /\ caller[r].at = "record" /\ task'[r] = task[r]
    BY DEF StepOf
  <1>2. rows[r].status = "unrecorded" /\ rows \in [Sends -> Row]
    BY <1>1, TypeIs DEF OInv, CallersOK
  <1>3. rows'[r] = rows[r]
    BY <1>1, <1>2
    DEF TypedStep, RowStep, RowRecorded, RowSettled, SettleRow, Pending
  <1> QED
    BY <1>1, <1>2, <1>3 DEF OInv, CallersOK

LEMMA NextInv ==
  ASSUME OutboundAssumption, OInv, [Next]_vars
  PROVE  OInv'
  <1>1. CASE UNCHANGED vars
    BY <1>1 DEF vars, OInv, OutboundTypeOK, TodoOK, CallersOK, StatusShowsAttempts
  <1>2. CASE Next
    <2>1. PICK s \in Sends : TypedStep(s) /\ StepOf(s)
      BY <1>2, StepTyped
    <2>2. CallersOK'
      BY <2>1, CallersStep
    <2>3. StatusShowsAttempts'
      <3>1. CASE UNCHANGED rows
        BY <3>1 DEF OInv, StatusShowsAttempts
      <3>2. CASE RowRecorded(s)
        BY <3>2, RecordedShows
      <3>3. ASSUME NEW r \in Sends, NEW settlement \in Settlements,
                   NEW attempt \in Attempt, RowSettled(r, settlement, attempt)
            PROVE  StatusShowsAttempts'
        BY <3>3, SettledShows
      <3> QED
        BY <2>1, <3>1, <3>2, <3>3 DEF TypedStep, RowStep
    <2> QED
      BY <2>1, <2>2, <2>3 DEF OInv, TypedStep
  <1> QED
    BY <1>1, <1>2

LEMMA Invariance == Spec => []OInv
  <1>1. Init => OInv
    BY OutboundAssumption, InitType
  <1>2. OInv /\ [Next]_vars => OInv'
    BY OutboundAssumption, NextInv
  <1> QED
    BY <1>1, <1>2, PTL DEF Spec

\* Whatever fails, however often a message is handled again, the state keeps
\* its type.
THEOREM OutboundTypeCorrectness == Spec => []OutboundTypeOK
  BY Invariance, PTL DEF OInv

\* For any number of calls, workers and redeliveries, the status of a row is
\* what the attempts kept with it show.
THEOREM StatusesShowAttempts == Spec => []StatusShowsAttempts
  BY Invariance, PTL DEF OInv

-----------------------------------------------------------------------------
(* The life cycle of the log.                                              *)

LEMMA LifecycleStep ==
  ASSUME OutboundAssumption, OInv, [Next]_vars
  PROVE  [Lifecycle!Next]_(Lifecycle!vars)
  <1> DEFINE status == [s \in Sends |-> rows[s].status]
             log == [s \in Sends |-> rows[s].attempts]
  <1> SUFFICES [Lifecycle!Next]_<<status, log>>
    BY DEF Lifecycle!vars
  <1>1. CASE UNCHANGED rows
    BY <1>1
  <1>2. ASSUME NEW s \in Sends, RowRecorded(s)
        PROVE  Lifecycle!Record(s)
    <2>1. rows \in [Sends -> Row]
      BY TypeIs DEF OInv
    <2>2. status' = [status EXCEPT ![s] = "queued"]
      BY <1>2, <2>1 DEF RowRecorded, Row
    <2>3. log' = log
      BY <1>2, <2>1 DEF RowRecorded, Row
    <2> QED
      BY <1>2, <2>2, <2>3 DEF RowRecorded, Lifecycle!Record
  <1>3. ASSUME NEW r \in Sends, NEW settlement \in Settlements,
               NEW attempt \in Attempt, RowSettled(r, settlement, attempt)
        PROVE  Lifecycle!Attempt(r, attempt) \/ Lifecycle!GiveUp(r)
    <2>1. rows \in [Sends -> Row]
      BY TypeIs DEF OInv
    <2>2. status' = [status EXCEPT ![r] = settlement.status]
      BY <1>3, <2>1 DEF RowSettled, SettleRow, Row
    <2>3. log' = [log EXCEPT ![r] = IF settlement.attempted
                                    THEN Append(@, attempt) ELSE @]
      BY <1>3, <2>1 DEF RowSettled, SettleRow, Row
    <2>4. status[r] \in {"queued", "failed"}
      BY <1>3 DEF RowSettled, Pending
    <2>5. CASE settlement = GivenUp
      <3>1. ~settlement.attempted /\ settlement.status = "permanently_failed"
        BY <2>5 DEF GivenUp
      <3>2. log' = log
        BY <2>3, <3>1
      <3> QED
        BY <2>2, <2>4, <3>1, <3>2 DEF Lifecycle!GiveUp
    <2>6. CASE settlement # GivenUp
      <3>1. /\ settlement.attempted
            /\ \/ settlement = Sent /\ settlement.status = "sent"
               \/ settlement # Sent /\ settlement.status \in {"failed", "abandoned"}
        BY <2>6 DEF Settlements, Sent, Failed, Abandoned, GivenUp
      <3>2. attempt.succeeded <=> settlement = Sent
        BY <1>3 DEF RowSettled
      <3>3. log' = [log EXCEPT ![r] = Append(@, attempt)]
        BY <2>3, <3>1
      <3> HIDE DEF status, log
      <3> QED
        BY <2>2, <2>4, <3>1, <3>2, <3>3 DEF Lifecycle!Attempt, status, log
    <2> QED
      BY <2>5, <2>6
  <1>4. CASE UNCHANGED vars
    BY <1>1, <1>4 DEF vars
  <1>5. CASE Next
    <2>1. PICK s \in Sends : RowStep(s)
      BY <1>5, StepTyped DEF TypedStep
    <2> QED
      BY <1>1, <1>2, <1>3, <2>1 DEF RowStep, Lifecycle!Next
  <1> QED
    BY <1>4, <1>5

\* The rows implement the log of OutboundLifecycle: an attempt stays as it was
\* written and a delivery that ended never changes.
THEOREM DeliveriesImplement == Spec => ImplementsOutbound
  <1>1. Init => Lifecycle!Init
    BY DEF Init, Lifecycle!Init
  <1>2. OInv /\ [Next]_vars => [Lifecycle!Next]_(Lifecycle!vars)
    BY OutboundAssumption, LifecycleStep
  <1> QED
    BY <1>1, <1>2, Invariance, PTL DEF Spec, ImplementsOutbound, Lifecycle!Spec

-----------------------------------------------------------------------------
(* Whose attempts a row keeps.                                             *)

OwnsAfter(s) ==
  /\ OwnsTodo(s, 0, caller'[s].todo, ended')
  /\ \A n \in Runs : OwnsTask(s, n, task'[s][n], ended', Recorded(s)')

LEMMA EndsKeeps ==
  ASSUME NEW s \in Sends, NEW n, NEW todo, Ends(s, n, todo)
  PROVE  ended \subseteq ended' /\ OwnsTodo(s, n, todo, ended')
  BY DEF Ends, OwnsTodo

LEMMA EndedGrows == ASSUME Next PROVE ended \subseteq ended'
  <1>1. ASSUME NEW s \in Sends, CallerStep(s) PROVE ended \subseteq ended'
    BY <1>1, EndsKeeps
    DEF CallerStep, RecordOutbound, SendSynchronously, SendThrows, SendLeavesOut,
        Enqueue, CallerSettles
  <1>2. ASSUME NEW s \in Sends, NEW n \in Runs, TaskStep(s, n)
        PROVE  ended \subseteq ended'
    BY <1>2, EndsKeeps
    DEF TaskStep, StartRun, RunIsLast, RunIsRetried, RunThrows, RunEnds,
        WorkerSettles
  <1>3. ASSUME NEW s \in Sends, Fault(s) PROVE ended \subseteq ended'
    BY <1>3
    DEF Fault, RecordFails, CallerCannotSettle, WorkerCannotSettle, Redeliver
  <1> QED
    BY <1>1, <1>2, <1>3 DEF Next, Progress

LEMMA OwnsTodoGrows ==
  ASSUME NEW s, NEW n, NEW todo, NEW few, NEW more, few \subseteq more,
         OwnsTodo(s, n, todo, few)
  PROVE  OwnsTodo(s, n, todo, more)
  BY DEF OwnsTodo

LEMMA OwnsNothing ==
  ASSUME NEW s, NEW n, NEW results
  PROVE  OwnsTodo(s, n, <<>>, results)
  BY DEF OwnsTodo

\* A settlement leaves recorded rows recorded; only RowRecorded() adds one.
LEMMA RecordedStays ==
  ASSUME OInv, NEW s \in Sends, TypedStep(s)
  PROVE  \A r \in Sends : /\ Recorded(r) => Recorded(r)'
                          /\ Recorded(r)' => Recorded(r) \/ (RowRecorded(s) /\ r = s)
  <1>1. rows \in [Sends -> Row]
    BY TypeIs DEF OInv
  <1>2. CASE UNCHANGED rows
    BY <1>2 DEF Recorded
  <1>3. CASE RowRecorded(s)
    BY <1>1, <1>3 DEF Recorded, RowRecorded, Row
  <1>4. ASSUME NEW r \in Sends, NEW settlement \in Settlements,
               NEW attempt \in Attempt, RowSettled(r, settlement, attempt)
        PROVE  \A t \in Sends : Recorded(t)' <=> Recorded(t)
    <2>1. settlement.status # "unrecorded" /\ rows[r].status # "unrecorded"
      BY <1>4, SettlementFacts DEF RowSettled, Pending
    <2> QED
      BY <1>1, <1>4, <2>1 DEF RowSettled, SettleRow, Recorded
  <1> QED
    BY <1>2, <1>3, <1>4 DEF TypedStep, RowStep

\* A settlement records no row.
LEMMA SettledIsNotRecorded ==
  ASSUME OInv, NEW s \in Sends, RowRecorded(s), NEW id, NEW settlement, NEW attempt,
         settlement.status # "queued", SettleOutbound(id, settlement, attempt)
  PROVE  FALSE
  <1>1. rows \in [Sends -> Row] /\ rows'[s].status = "queued"
    BY TypeIs DEF OInv, RowRecorded, Row
  <1>2. rows[s].status = "unrecorded"
    BY DEF RowRecorded
  <1>3. CASE UNCHANGED rows
    BY <1>1, <1>2, <1>3
  <1>4. ASSUME NEW r \in Candidates(id), SettleRow(r, settlement, attempt)
        PROVE  FALSE
    <2>1. r \in Sends /\ r # s
      BY <1>2, <1>4 DEF Candidates, Pending
    <2>2. rows'[s] = rows[s]
      BY <1>1, <1>4, <2>1 DEF SettleRow
    <2> QED
      BY <1>1, <1>2, <2>2
  <1> QED
    BY <1>3, <1>4 DEF SettleOutbound

\* What the call itself is left with.
LEMMA CallerOwns ==
  ASSUME OutboundAssumption, OInv, OwnersOK, NEW s \in Sends, TypedStep(s),
         CallerStep(s) \/ RecordFails(s) \/ CallerCannotSettle(s)
  PROVE  OwnsAfter(s)
  <1>1. /\ caller \in [Sends -> Call] /\ task \in Tasks
        /\ OwnsTodo(s, 0, caller[s].todo, ended)
        /\ \A n \in Runs : OwnsTask(s, n, task[s][n], ended, Recorded(s))
    BY TypeIs DEF OInv, OwnersOK, Tasks
  <1>2. Recorded(s) => Recorded(s)'
    BY RecordedStays
  <1>3. CASE RecordOutbound(s) \/ RecordFails(s)
    <2>1. /\ caller[s].at = "record"
          /\ caller'[s].todo = caller[s].todo
          /\ UNCHANGED <<task, ended>>
      BY <1>1, <1>3 DEF RecordOutbound, RecordFails, Call
    <2>2. \A n \in Runs : task[s][n].at = "none"
      BY <2>1 DEF OInv, CallersOK
    <2> QED
      BY <1>1, <2>1, <2>2 DEF OwnsAfter, OwnsTask
  <1>4. ASSUME NEW st \in Settlements, CallerGoes(s, <<st>>), Ends(s, 0, <<st>>),
               UNCHANGED <<rows, task>>
        PROVE  OwnsAfter(s)
    <2>1. ended \subseteq ended' /\ OwnsTodo(s, 0, <<st>>, ended')
      BY <1>4, EndsKeeps
    <2>2. caller'[s].todo \in {<<st>>, <<>>}
      BY <1>1, <1>4 DEF CallerGoes
    <2>3. OwnsTodo(s, 0, caller'[s].todo, ended')
      BY <2>1, <2>2, OwnsNothing
    <2> QED
      BY <1>1, <1>4, <2>1, <2>3, OwnsTodoGrows DEF OwnsAfter, OwnsTask, Recorded
  <1>5. CASE Enqueue(s)
    <2>1. /\ caller'[s].todo = <<>>
          /\ UNCHANGED <<rows, ended>>
      BY <1>1, <1>5 DEF Enqueue, CallerGoes
    <2>2. \A n \in Runs :
            \/ task'[s][n] = task[s][n]
            \/ /\ task'[s][n].todo = <<>>
               /\ task'[s][n].id = IF Recorded(s) THEN s ELSE None
      BY <1>1, <1>5 DEF Enqueue, Enqueued, Tasks
    <2> QED
      BY <1>1, <2>1, <2>2, OwnsNothing DEF OwnsAfter, OwnsTask, Recorded
  <1>6. CASE CallerSettles(s) \/ CallerCannotSettle(s)
    <2>1. /\ caller[s].at = "settle"
          /\ caller'[s].todo = <<>>
          /\ UNCHANGED <<task, ended>>
      BY <1>1, <1>6 DEF CallerSettles, CallerCannotSettle
    <2>2. Recorded(s)' => Recorded(s)
      <3>1. CASE CallerSettles(s)
        <4>1. Head(caller[s].todo).status # "queued"
          BY <2>1, CallerTodo, SettlementFacts DEF OInv
        <4>2. ~RowRecorded(s)
          BY <3>1, <4>1, SettledIsNotRecorded DEF CallerSettles
        <4> QED
          BY <4>2, RecordedStays
      <3>2. CASE CallerCannotSettle(s)
        BY <3>2 DEF CallerCannotSettle, Recorded
      <3> QED
        BY <1>6, <3>1, <3>2
    <2> QED
      BY <1>1, <2>1, <2>2, OwnsNothing DEF OwnsAfter, OwnsTask
  <1> QED
    BY <1>3, <1>4, <1>5, <1>6, SettlementFacts
    DEF CallerStep, SendSynchronously, SendThrows, SendLeavesOut

OwnsTasks(s, tasks, results, recorded) ==
  \A n \in Runs : OwnsTask(s, n, tasks[s][n], results, recorded)

LEMMA MovedOwns ==
  ASSUME NEW tasks \in Tasks, NEW s \in Sends, NEW n \in Runs, NEW at, NEW todo,
         NEW results, NEW recorded, OwnsTasks(s, tasks, results, recorded),
         tasks[s][n].at # "none", OwnsTodo(s, n, todo, results)
  PROVE  OwnsTasks(s, Moved(tasks, s, n, at, todo), results, recorded)
  <1> DEFINE new == [at |-> at, id |-> tasks[s][n].id, todo |-> todo]
             after == Moved(tasks, s, n, at, todo)
  <1>1. /\ after[s][n] = new
        /\ \A m \in Runs \ {n} : after[s][m] = tasks[s][m]
    BY DEF Moved, Tasks
  <1>2. OwnsTask(s, n, new, results, recorded)
    BY DEF OwnsTasks, OwnsTask
  <1> HIDE DEF new, after
  <1>3. OwnsTasks(s, after, results, recorded)
    BY <1>1, <1>2 DEF OwnsTasks
  <1> QED
    BY <1>3 DEF after

LEMMA EnqueuedOwns ==
  ASSUME OInv, NEW s \in Sends, NEW n \in Runs, NEW m \in Runs, NEW results,
         NEW recorded, OwnsTasks(s, task, results, recorded), task[s][m].at # "none"
  PROVE  OwnsTasks(s, Enqueued(s, n, task[s][m].id), results, recorded)
  <1> DEFINE new == [at |-> "waiting", id |-> task[s][m].id, todo |-> <<>>]
             after == Enqueued(s, n, task[s][m].id)
  <1>1. task \in Tasks
    BY TypeIs DEF OInv, Tasks
  <1>2. /\ after[s][n] = new
        /\ \A other \in Runs \ {n} : after[s][other] = task[s][other]
    BY <1>1 DEF Enqueued, Tasks
  <1>3. OwnsTask(s, n, new, results, recorded)
    BY OwnsNothing DEF OwnsTasks, OwnsTask
  <1> HIDE DEF new, after
  <1>4. OwnsTasks(s, after, results, recorded)
    BY <1>2, <1>3 DEF OwnsTasks
  <1> QED
    BY <1>4 DEF after

LEMMA OwnsTasksGrow ==
  ASSUME NEW s, NEW tasks, NEW few, NEW more, few \subseteq more, NEW recorded,
         OwnsTasks(s, tasks, few, recorded)
  PROVE  OwnsTasks(s, tasks, more, recorded)
  BY OwnsTodoGrows DEF OwnsTasks, OwnsTask

LEMMA RunEndOwns ==
  ASSUME OInv, NEW s \in Sends, NEW n \in Runs, NEW report, NEW tasks \in Tasks,
         OwnsTodo(s, 0, caller[s].todo, ended),
         OwnsTasks(s, tasks, ended, Recorded(s)), tasks[s][n].at # "none",
         RunEnds(s, n, report), task' = Settling(tasks, s, n, report)
  PROVE  OwnsAfter(s)
  <1> DEFINE todo == QueuedSettlements(report)
             at == IF todo = <<>> THEN "done" ELSE "settling"
  <1>1. ended \subseteq ended' /\ OwnsTodo(s, n, todo, ended')
    BY EndsKeeps DEF RunEnds
  <1>2. UNCHANGED <<caller, rows>> /\ (Recorded(s)' <=> Recorded(s))
    BY DEF RunEnds, Recorded
  <1>3. task' = Moved(tasks, s, n, at, todo)
    BY DEF Settling
  <1> HIDE DEF todo, at
  <1>4. OwnsTasks(s, tasks, ended', Recorded(s))
    BY <1>1, OwnsTasksGrow
  <1>5. OwnsTasks(s, task', ended', Recorded(s))
    BY <1>1, <1>3, <1>4, MovedOwns
  <1>6. OwnsTodo(s, 0, caller'[s].todo, ended')
    BY <1>1, <1>2, OwnsTodoGrows
  <1> QED
    BY <1>2, <1>5, <1>6 DEF OwnsAfter, OwnsTasks, OwnsTask

LEMMA TaskOwns ==
  ASSUME OutboundAssumption, OInv, OwnersOK, NEW s \in Sends, NEW n \in Runs,
         TypedStep(s),
         TaskStep(s, n) \/ WorkerCannotSettle(s, n) \/ Redeliver(s, n)
  PROVE  OwnsAfter(s)
  <1>1. /\ task \in Tasks
        /\ OwnsTodo(s, 0, caller[s].todo, ended)
        /\ OwnsTasks(s, task, ended, Recorded(s))
    BY TypeIs DEF OInv, OwnersOK, OwnsTasks, Tasks
  <1>2. CASE RunIsLast(s, n)
    BY <1>1, <1>2, RunEndOwns DEF RunIsLast, RunEnds
  <1>3. CASE RunThrows(s, n)
    BY <1>1, <1>3, RunEndOwns DEF RunThrows, RunEnds
  <1>4. CASE RunIsRetried(s, n)
    <2> DEFINE tasks == Enqueued(s, n + 1, RetryId(s, n))
    <2>1. n + 1 \in Runs /\ task[s][n].at = "running"
      BY <1>4 DEF RunIsRetried, RunEnds, Runs, OutboundAssumption
    <2>2. OwnsTasks(s, tasks, ended, Recorded(s))
      BY <1>1, <2>1, EnqueuedOwns DEF RetryId
    <2>3. RetryId(s, n) \in Sends \union {None}
      BY TypeIs DEF OInv, RetryId, Task
    <2>4. tasks \in Tasks
      BY <2>1, <2>3, EnqueuedType DEF OInv
    <2>5. tasks[s][n].at # "none"
      BY <1>1, <2>1 DEF Enqueued, Tasks, Runs
    <2>6. PICK report : RunEnds(s, n, report) /\ task' = Settling(tasks, s, n, report)
      BY <1>4 DEF RunIsRetried
    <2> HIDE DEF tasks
    <2> QED
      BY <1>1, <2>2, <2>4, <2>5, <2>6, RunEndOwns
  <1>5. CASE StartRun(s, n) \/ WorkerCannotSettle(s, n) \/ Redeliver(s, n)
    <2>1. OwnsTasks(s, task', ended, Recorded(s))
      <3>1. CASE task' = Moved(task, s, n, "running", <<>>)
                 \/ task' = Moved(task, s, n, "done", <<>>)
        <4>1. task[s][n].at # "none"
          BY <1>5 DEF StartRun, WorkerCannotSettle, Redeliver
        <4> QED
          BY <1>1, <3>1, <4>1, MovedOwns, OwnsNothing
      <3>2. CASE Redeliver(s, n)
        <4>1. task[s][n].at # "none" /\ task' = Enqueued(s, n, task[s][n].id)
          BY <3>2 DEF Redeliver
        <4> QED
          BY <1>1, <4>1, EnqueuedOwns
      <3> QED
        BY <1>5, <3>1, <3>2 DEF StartRun, WorkerCannotSettle
    <2>2. UNCHANGED <<caller, rows, ended>>
      BY <1>5 DEF StartRun, WorkerCannotSettle, Redeliver
    <2>3. Recorded(s)' <=> Recorded(s)
      BY <2>2 DEF Recorded
    <2> QED
      BY <1>1, <2>1, <2>2, <2>3 DEF OwnsAfter, OwnsTasks, OwnsTask
  <1>6. CASE WorkerSettles(s, n)
    <2> DEFINE rest == Tail(task[s][n].todo)
               st == Head(task[s][n].todo)
               at == IF rest = <<>> THEN "done" ELSE "settling"
    <2>1. /\ task[s][n].at = "settling"
          /\ UNCHANGED <<caller, ended>>
          /\ SettleOutbound(task[s][n].id, st, AttemptOf(s, n, st))
          /\ task' = Moved(task, s, n, at, rest)
      BY <1>6 DEF WorkerSettles
    <2>2. task[s][n].todo \in Seq(Settlements) /\ task[s][n].todo # <<>>
      BY <2>1, TypeIs, TodoIs DEF OInv, Task, SettlingHasTodo
    <2>3. \A i \in DOMAIN rest : /\ i + 1 \in DOMAIN task[s][n].todo
                                 /\ rest[i] = task[s][n].todo[i + 1]
      BY <2>2
    <2>4. OwnsTodo(s, n, task[s][n].todo, ended)
      BY <1>1 DEF OwnsTasks, OwnsTask
    <2>5. OwnsTodo(s, n, rest, ended)
      BY <2>3, <2>4 DEF OwnsTodo
    <2>6. st.status # "queued"
      BY <2>1, TaskTodo, SettlementFacts DEF OInv
    <2> HIDE DEF rest, st, at
    <2>7. OwnsTasks(s, task', ended, Recorded(s))
      BY <1>1, <2>1, <2>5, MovedOwns
    <2>8. ~RowRecorded(s)
      BY <2>1, <2>6, SettledIsNotRecorded
    <2>9. Recorded(s)' <=> Recorded(s)
      BY <2>8, RecordedStays
    <2> QED
      BY <1>1, <2>1, <2>7, <2>9 DEF OwnsAfter, OwnsTasks, OwnsTask
  <1> QED
    BY <1>2, <1>3, <1>4, <1>5, <1>6 DEF TaskStep

\* An attempt written with a settlement of s is one of s, which ended.
OwnRow(s) ==
  \/ UNCHANGED rows
  \/ RowRecorded(s)
  \/ \E r \in Sends, settlement \in Settlements, n \in 0 .. MaxRuns :
       /\ SettleRow(r, settlement, AttemptOf(s, n, settlement))
       /\ settlement.attempted => AttemptOf(s, n, settlement) \in ended
       /\ r = s \/ s \in Unrecorded

LEMMA SettleOwns ==
  ASSUME OInv, NEW s \in Sends, NEW n \in 0 .. MaxRuns, NEW id,
         NEW settlement \in Settlements, id = s \/ s \in Unrecorded,
         settlement.attempted => AttemptOf(s, n, settlement) \in ended,
         SettleOutbound(id, settlement, AttemptOf(s, n, settlement))
  PROVE  OwnRow(s)
  <1>1. CASE UNCHANGED rows
    BY <1>1 DEF OwnRow
  <1>2. ASSUME NEW r \in Candidates(id),
               SettleRow(r, settlement, AttemptOf(s, n, settlement))
        PROVE  OwnRow(s)
    <2>1. r \in Sends /\ (id = None \/ r = id)
      BY DEF Candidates
    <2>2. r = s \/ s \in Unrecorded
      BY <2>1, OutboundAssumption DEF OutboundAssumption
    <2> QED
      BY <1>2, <2>1, <2>2 DEF OwnRow
  <1> QED
    BY <1>1, <1>2 DEF SettleOutbound

LEMMA CallerOwnRow ==
  ASSUME OutboundAssumption, OInv, OwnersOK, NEW s \in Sends, CallerSettles(s)
  PROVE  OwnRow(s)
  <1> DEFINE st == Head(caller[s].todo)
  <1>1. caller[s].todo \in Seq(Settlements) /\ caller[s].todo # <<>>
    BY TypeIs, TodoIs DEF OInv, Call, CallerSettles
  <1>2. st \in Settlements /\ 1 \in DOMAIN caller[s].todo /\ st = caller[s].todo[1]
    BY <1>1
  <1>3. st.attempted => AttemptOf(s, 0, st) \in ended
    BY <1>2 DEF OwnersOK, OwnsTodo
  <1>4. SettleOutbound(s, st, AttemptOf(s, 0, st))
    BY DEF CallerSettles
  <1>5. 0 \in 0 .. MaxRuns
    BY DEF OutboundAssumption
  <1> HIDE DEF st
  <1> QED
    BY <1>2, <1>3, <1>4, <1>5, SettleOwns

LEMMA WorkerOwnRow ==
  ASSUME OutboundAssumption, OInv, OwnersOK, NEW s \in Sends, NEW n \in Runs,
         WorkerSettles(s, n)
  PROVE  OwnRow(s)
  <1> DEFINE st == Head(task[s][n].todo)
  <1>1. /\ task[s][n].at = "settling"
        /\ task[s][n].todo \in Seq(Settlements)
        /\ task[s][n].todo # <<>>
    BY TypeIs, TodoIs DEF OInv, Task, WorkerSettles, SettlingHasTodo
  <1>2. /\ st \in Settlements
        /\ 1 \in DOMAIN task[s][n].todo
        /\ st = task[s][n].todo[1]
    BY <1>1
  <1>3. OwnsTask(s, n, task[s][n], ended, Recorded(s))
    BY DEF OwnersOK
  <1>4. st.attempted => AttemptOf(s, n, st) \in ended
    BY <1>2, <1>3 DEF OwnsTask, OwnsTodo
  <1>5. task[s][n].id = s \/ s \in Unrecorded
    BY <1>1, <1>3 DEF OwnsTask, Unrecorded, OInv, CallersOK
  <1>6. SettleOutbound(task[s][n].id, st, AttemptOf(s, n, st))
    BY DEF WorkerSettles
  <1>7. n \in 0 .. MaxRuns
    BY DEF OutboundAssumption, Runs
  <1> HIDE DEF st
  <1> QED
    BY <1>2, <1>4, <1>5, <1>6, <1>7, SettleOwns

LEMMA StepOwns ==
  ASSUME OutboundAssumption, OInv, OwnersOK, Next
  PROVE  \E s \in Sends : /\ TypedStep(s) /\ StepOf(s)
                          /\ OwnsAfter(s) /\ OwnRow(s)
  <1>1. ASSUME NEW s \in Sends, CallerStep(s)
        PROVE  TypedStep(s) /\ StepOf(s)
    BY <1>1, RecordStep, EnqueueStep, CallerSettleStep, CallerEndsStep, SettlementFacts
    DEF CallerStep, SendSynchronously, SendThrows, SendLeavesOut
  <1>2. ASSUME NEW s \in Sends, NEW n \in Runs, TaskStep(s, n)
        PROVE  TypedStep(s) /\ StepOf(s)
    BY <1>2, StartStep, RunStep, WorkerStep DEF TaskStep
  <1>3. ASSUME NEW s \in Sends, CallerStep(s)
        PROVE  OwnRow(s)
    <2>1. CASE RecordOutbound(s)
      BY <2>1 DEF RecordOutbound, OInv, CallersOK, RowRecorded, OwnRow
    <2>2. CASE CallerSettles(s)
      BY <2>2, CallerOwnRow
    <2> QED
      BY <1>3, <2>1, <2>2
      DEF CallerStep, SendSynchronously, SendThrows, SendLeavesOut, Enqueue, OwnRow
  <1>4. ASSUME NEW s \in Sends, NEW n \in Runs, TaskStep(s, n)
        PROVE  OwnRow(s)
    BY <1>4, WorkerOwnRow
    DEF TaskStep, StartRun, RunIsLast, RunIsRetried, RunThrows, RunEnds, OwnRow
  <1>5. CASE \E s \in Sends : CallerStep(s)
    BY <1>1, <1>3, <1>5, CallerOwns
  <1>6. CASE \E s \in Sends, n \in Runs : TaskStep(s, n)
    BY <1>2, <1>4, <1>6, TaskOwns
  <1>7. ASSUME NEW s \in Sends, RecordFails(s) \/ CallerCannotSettle(s)
        PROVE  TypedStep(s) /\ StepOf(s) /\ OwnsAfter(s) /\ OwnRow(s)
    BY <1>7, RecordStep, CallerSettleStep, CallerOwns
    DEF RecordFails, CallerCannotSettle, OwnRow
  <1>8. ASSUME NEW s \in Sends, NEW n \in Runs,
               WorkerCannotSettle(s, n) \/ Redeliver(s, n)
        PROVE  TypedStep(s) /\ StepOf(s) /\ OwnsAfter(s) /\ OwnRow(s)
    BY <1>8, WorkerStep, RedeliverStep, TaskOwns
    DEF WorkerCannotSettle, Redeliver, OwnRow
  <1> QED
    BY <1>5, <1>6, <1>7, <1>8 DEF Next, Progress, Fault

\* A call that went on without a row never gets one.
LEMMA UnrecordedStays ==
  ASSUME OutboundAssumption, OInv, Next, NEW r \in Sends, caller[r].at # "record",
         ~Recorded(r)
  PROVE  ~Recorded(r)'
  <1> SUFFICES ASSUME Recorded(r)' PROVE FALSE
    OBVIOUS
  <1>1. rows \in [Sends -> Row] /\ rows[r].status = "unrecorded"
    BY TypeIs DEF OInv, Recorded
  <1>2. ASSUME NEW s \in Sends, RecordOutbound(s) PROVE FALSE
    BY <1>1, <1>2 DEF RecordOutbound, Recorded
  <1>3. ASSUME NEW id, NEW settlement, NEW attempt,
               SettleOutbound(id, settlement, attempt)
        PROVE  FALSE
    BY <1>1, <1>3 DEF SettleOutbound, SettleRow, Candidates, Pending, Recorded
  <1>4. ASSUME UNCHANGED rows PROVE FALSE
    BY <1>4 DEF Recorded
  <1>5. ASSUME NEW s \in Sends, CallerStep(s) PROVE FALSE
    BY <1>2, <1>3, <1>4, <1>5
    DEF CallerStep, SendSynchronously, SendThrows, SendLeavesOut, Enqueue,
        CallerSettles
  <1>6. ASSUME NEW s \in Sends, NEW n \in Runs, TaskStep(s, n) PROVE FALSE
    BY <1>3, <1>4, <1>6
    DEF TaskStep, StartRun, RunIsLast, RunIsRetried, RunThrows, RunEnds,
        WorkerSettles
  <1>7. ASSUME NEW s \in Sends, Fault(s) PROVE FALSE
    BY <1>4, <1>7
    DEF Fault, RecordFails, CallerCannotSettle, WorkerCannotSettle, Redeliver
  <1> QED
    BY <1>5, <1>6, <1>7 DEF Next, Progress

Own(s, row, results, without) ==
  \A i \in DOMAIN row.attempts :
    /\ row.attempts[i] \in results
    /\ row.attempts[i].send = s \/ row.attempts[i].send \in without

LEMMA OwnIs ==
  AttemptsAreOwn <=> \A s \in Sends : Own(s, rows[s], ended, Unrecorded)
  BY DEF AttemptsAreOwn, Own

LEMMA OwnNext ==
  ASSUME OutboundAssumption, OInv, OwnersOK, AttemptsAreOwn, [Next]_vars
  PROVE  OwnersOK' /\ AttemptsAreOwn'
  <1>1. CASE UNCHANGED vars
    BY <1>1 DEF vars, OwnersOK, AttemptsAreOwn, Recorded, Unrecorded
  <1>2. CASE Next
    <2>1. PICK s \in Sends : /\ TypedStep(s) /\ StepOf(s)
                            /\ OwnsAfter(s) /\ OwnRow(s)
      BY <1>2, StepOwns
    <2>2. ended \subseteq ended'
      BY <1>2, EndedGrows
    <2>3. \A r \in Sends : /\ Recorded(r) => Recorded(r)'
                           /\ r # s /\ Recorded(r)' => Recorded(r)
      BY <2>1, RecordedStays
    <2>4. OwnersOK'
      <3>1. ASSUME NEW r \in Sends \ {s} PROVE OwnsAfter(r)
        <4>1. caller'[r] = caller[r] /\ task'[r] = task[r]
          BY <2>1 DEF StepOf
        <4> QED
          BY <2>2, <2>3, <4>1, OwnsTodoGrows DEF OwnersOK, OwnsAfter, OwnsTask
      <3> QED
        BY <2>1, <3>1 DEF OwnersOK, OwnsAfter
    <2>5. Unrecorded \subseteq Unrecorded'
      <3>1. ASSUME NEW r \in Unrecorded PROVE r \in Unrecorded'
        <4>1. r \in Sends /\ caller[r].at # "record" /\ ~Recorded(r)
          BY DEF Unrecorded
        <4>2. caller'[r].at # "record"
          BY <2>1, <4>1 DEF StepOf
        <4>3. ~Recorded(r)'
          BY <1>2, <4>1, UnrecordedStays
        <4> QED
          BY <4>1, <4>2, <4>3 DEF Unrecorded
      <3> QED
        BY <3>1
    <2>6. \A r \in Sends : Own(r, rows[r], ended', Unrecorded')
      BY <2>2, <2>5, OwnIs DEF Own
    <2>7. AttemptsAreOwn'
      <3>1. rows \in [Sends -> Row]
        BY TypeIs DEF OInv
      <3>2. CASE UNCHANGED rows
        BY <2>6, <3>2, OwnIs DEF AttemptsAreOwn, Own
      <3>3. CASE RowRecorded(s)
        <4>1. \A r \in Sends : rows'[r].attempts = rows[r].attempts
          BY <3>1, <3>3 DEF RowRecorded, Row
        <4> QED
          BY <2>6, <4>1 DEF AttemptsAreOwn, Own
      <3>4. ASSUME NEW r \in Sends, NEW settlement \in Settlements,
                   NEW n \in 0 .. MaxRuns,
                   SettleRow(r, settlement, AttemptOf(s, n, settlement)),
                   settlement.attempted => AttemptOf(s, n, settlement) \in ended,
                   r = s \/ s \in Unrecorded
            PROVE  AttemptsAreOwn'
        <4> DEFINE attempt == AttemptOf(s, n, settlement)
        <4>1. /\ \A t \in Sends \ {r} : rows'[t] = rows[t]
              /\ rows'[r].attempts = IF settlement.attempted
                                     THEN Append(rows[r].attempts, attempt)
                                     ELSE rows[r].attempts
          BY <3>1, <3>4 DEF SettleRow
        <4>2. rows[r].attempts \in Seq(Attempt)
          BY <3>1 DEF Row
        <4>3. settlement.attempted =>
                attempt \in ended' /\ (attempt.send = r \/ attempt.send \in Unrecorded')
          BY <2>2, <2>5, <3>4 DEF AttemptOf
        <4> HIDE DEF attempt
        <4>4. Own(r, rows'[r], ended', Unrecorded')
          <5>1. CASE ~settlement.attempted
            BY <2>6, <4>1, <5>1 DEF Own
          <5>2. CASE settlement.attempted
            <6>1. \A i \in DOMAIN rows'[r].attempts :
                    \/ rows'[r].attempts[i] = attempt
                    \/ /\ i \in DOMAIN rows[r].attempts
                       /\ rows'[r].attempts[i] = rows[r].attempts[i]
              BY <4>1, <4>2, <5>2
            <6> QED
              BY <2>6, <4>3, <5>2, <6>1 DEF Own
          <5> QED
            BY <5>1, <5>2 DEF Settlements, Sent, Failed, Abandoned, GivenUp
        <4>5. \A t \in Sends : Own(t, rows'[t], ended', Unrecorded')
          BY <2>6, <4>1, <4>4
        <4> QED
          BY <4>5 DEF AttemptsAreOwn, Own
      <3> QED
        BY <2>1, <3>2, <3>3, <3>4 DEF OwnRow
    <2> QED
      BY <2>4, <2>7
  <1> QED
    BY <1>1, <1>2

\* However callers, workers and retries interleave and fail, every attempt a
\* row keeps ended that way, and was its own or that of a call without a row.
THEOREM AttemptsStayOwn == Spec => []AttemptsAreOwn
  <1>1. Init => OwnersOK /\ AttemptsAreOwn
    BY OwnsNothing
    DEF Init, OwnersOK, OwnsTask, OwnsTodo, NoTask, AttemptsAreOwn
  <1>2. OInv /\ OwnersOK /\ AttemptsAreOwn /\ [Next]_vars =>
          OwnersOK' /\ AttemptsAreOwn'
    BY OutboundAssumption, OwnNext
  <1> QED
    BY <1>1, <1>2, Invariance, PTL DEF Spec

-----------------------------------------------------------------------------
(* What a send ends with.  Without a fault, and with every call's row       *)
(* recorded, a message is a chain of runs: only the last of them may still  *)
(* end otherwise than in a failure, and it is the last to be queued.        *)

\* A run that is no longer the last of its message: it is done, or all it has
\* to write is that it failed.
Late(t) == t.at = "done" \/ (t.at = "settling" /\ t.todo = <<Failed>>)

\* What is left to write ends in the verdict, and until then leaves the row
\* pending.
Tells(todo, v) ==
  \/ \E st \in Settlements : todo = <<st>> /\ v = st.status
  \/ todo = <<Failed, GivenUp>> /\ v = GivenUp.status

\* The last run so far, f, of a message, with its row's status and its verdict.
LastRun(tasks, f, status, v) ==
  /\ \A n \in Runs : n > f => tasks[n].at = "none"
  /\ \A n \in Runs : n < f => Late(tasks[n])
  /\ \/ tasks[f].at \in {"waiting", "running"} /\ status \in Pending
     \/ tasks[f].at = "settling" /\ status \in Pending /\ Tells(tasks[f].todo, v)
     \/ tasks[f].at = "done" /\ status = v

\* A call that has not ended has sent no message; one that has is where its
\* last run is.
Outcome(c, tasks, status, v) ==
  \/ /\ \A n \in Runs : tasks[n].at = "none"
     /\ \/ c.at = "record" /\ status = "unrecorded"
        \/ c.at = "send" /\ status = "queued"
        \/ /\ c.at = "settle" /\ status = "queued"
           /\ \E st \in Settlements : c.todo = <<st>> /\ v = st.status
        \/ c.at = "done" /\ status = v
  \/ c.at = "done" /\ \E f \in Runs : LastRun(tasks, f, status, v)

OutcomesOK ==
  Unrecorded = {} =>
    \A s \in Sends \ faulty : Outcome(caller[s], task[s], rows[s].status, verdict[s])

LEMMA RunsAre == ASSUME OutboundAssumption PROVE Runs \subseteq Nat /\ 1 \in Runs
  BY DEF OutboundAssumption, Runs

LEMMA OutcomesInitially == ASSUME Init PROVE OutcomesOK
  BY DEF Init, OutcomesOK, Outcome, NoTask

\* What the runs report: the last is a verdict, and one before it a failure.
LEMMA ReportIsTold ==
  /\ \A st \in Settlements : Tells(<<st>>, st.status)
  /\ \A report : QueuedSettlements(report) # <<>> =>
       Tells(QueuedSettlements(report),
             QueuedSettlements(report)[Len(QueuedSettlements(report))].status)
  /\ QueuedSettlements(Report(FALSE, TRUE, FALSE, FALSE)) = <<Failed>>
  /\ QueuedSettlements(Report(FALSE, FALSE, FALSE, FALSE)) = <<>>
  <1>1. \A st \in Settlements : Tells(<<st>>, st.status)
    BY DEF Tells
  <1>2. /\ <<>> \o <<>> = <<>> /\ <<Failed>> \o <<>> = <<Failed>>
        /\ <<Abandoned>> \o <<>> = <<Abandoned>> /\ <<>> \o <<GivenUp>> = <<GivenUp>>
        /\ <<Failed>> \o <<GivenUp>> = <<Failed, GivenUp>>
    <2>1. <<>> \o <<>> = <<>>
      BY <<>> \in Seq(Settlements), EmptySeq, ConcatEmptySeq
    <2>2. ASSUME NEW a \in Settlements
          PROVE  <<a>> \o <<>> = <<a>> /\ <<>> \o <<a>> = <<a>>
      BY <<a>> \in Seq(Settlements), ConcatEmptySeq
    <2>3. ASSUME NEW a \in Settlements, NEW b \in Settlements
          PROVE  <<a>> \o <<b>> = <<a, b>>
      <3> DEFINE x == <<a>>
                 y == <<b>>
                 z == <<a, b>>
      <3>1. /\ x \in Seq(Settlements) /\ Len(x) = 1 /\ x[1] = a
            /\ y \in Seq(Settlements) /\ Len(y) = 1 /\ y[1] = b
            /\ z \in Seq(Settlements) /\ Len(z) = 2 /\ z[1] = a /\ z[2] = b
        OBVIOUS
      <3> HIDE DEF x, y, z
      <3>2. /\ x \o y \in Seq(Settlements) /\ Len(x \o y) = 2
            /\ (x \o y)[1] = a /\ (x \o y)[2] = b
        <4>1. /\ x \o y \in Seq(Settlements) /\ Len(x \o y) = 2
              /\ \A i \in 1 .. 2 : (x \o y)[i] = IF i <= 1 THEN x[i] ELSE y[i - 1]
          BY <3>1, ConcatProperties
        <4> QED
          BY <3>1, <4>1
      <3>3. x \o y = z
        <4>1. \A i \in 1 .. Len(x \o y) : (x \o y)[i] = z[i]
          BY <3>1, <3>2
        <4> QED
          BY <3>1, <3>2, <4>1, SeqEqual
      <3> QED
        BY <3>3 DEF x, y, z
    <2> QED
      BY <2>1, <2>2, <2>3, SettlementFacts
  <1>3. ASSUME NEW report PROVE QueuedSettlements(report) \in
          {<<>>, <<Sent>>, <<Failed>>, <<Abandoned>>, <<GivenUp>>, <<Failed, GivenUp>>}
    <2>1. CASE report.sent
      BY <2>1 DEF QueuedSettlements
    <2>2. CASE ~report.sent /\ report.permanent
      <3>1. ~(report.abandoned /\ ~report.permanent)
        BY <2>2
      <3> QED
        BY <1>2, <2>2, <3>1 DEF QueuedSettlements
    <2>3. CASE ~report.sent /\ ~report.permanent
      BY <1>2, <2>3 DEF QueuedSettlements
    <2> QED
      BY <2>1, <2>2, <2>3
  <1>4. ASSUME NEW report, QueuedSettlements(report) # <<>>
        PROVE  Tells(QueuedSettlements(report),
                     QueuedSettlements(report)[Len(QueuedSettlements(report))].status)
    <2> DEFINE todo == QueuedSettlements(report)
    <2>1. CASE todo = <<Failed, GivenUp>>
      <3>1. todo[Len(todo)] = GivenUp
        BY <2>1
      <3> QED
        BY <2>1, <3>1 DEF Tells
    <2>2. ASSUME NEW st \in Settlements, todo = <<st>>
          PROVE  Tells(todo, todo[Len(todo)].status)
      <3>1. todo[Len(todo)] = st
        BY <2>2
      <3> QED
        BY <2>2, <3>1 DEF Tells
    <2> QED
      BY <1>3, <1>4, <2>1, <2>2, SettlementFacts
  <1>5. /\ QueuedSettlements(Report(FALSE, TRUE, FALSE, FALSE)) = <<Failed>>
        /\ QueuedSettlements(Report(FALSE, FALSE, FALSE, FALSE)) = <<>>
    BY <1>2 DEF QueuedSettlements, Report
  <1> QED
    BY <1>1, <1>4, <1>5

\* A settlement for a recorded row that it names changes that row alone, and
\* only while it is pending.
LEMMA SettleNamed ==
  ASSUME OutboundAssumption, OutboundTypeOK, NEW s \in Sends,
         NEW st \in Settlements, NEW attempt, SettleOutbound(s, st, attempt)
  PROVE  /\ \A other \in Sends \ {s} : rows'[other] = rows[other]
         /\ rows[s].status \in Pending => rows'[s].status = st.status
         /\ rows[s].status \notin Pending => rows'[s] = rows[s]
  <1>1. rows \in [Sends -> Row] /\ s # None
    BY TypeIs DEF OutboundAssumption
  <1>2. Candidates(s) = {r \in Sends : rows[r].status \in Pending /\ r = s}
    BY <1>1 DEF Candidates
  <1>3. CASE Candidates(s) = {}
    BY <1>2, <1>3 DEF SettleOutbound
  <1>4. CASE Candidates(s) # {}
    <2>1. rows[s].status \in Pending /\ SettleRow(s, st, attempt)
      BY <1>2, <1>4 DEF SettleOutbound
    <2> QED
      BY <1>1, <2>1 DEF SettleRow
  <1> QED
    BY <1>3, <1>4

\* With every call's row recorded, a message names its own.
LEMMA NamesOwnRow ==
  ASSUME OInv, OwnersOK, Unrecorded = {}, NEW s \in Sends, NEW n \in Runs,
         task[s][n].at # "none"
  PROVE  task[s][n].id = s
  <1>1. caller[s].at # "record"
    BY DEF OInv, CallersOK
  <1>2. Recorded(s)
    BY <1>1 DEF Unrecorded
  <1> QED
    BY <1>2 DEF OwnersOK, OwnsTask

LEMMA UnrecordedKept ==
  ASSUME OutboundAssumption, OInv, Next, Unrecorded' = {}
  PROVE  Unrecorded = {}
  <1>1. ASSUME NEW r \in Unrecorded PROVE FALSE
    <2>1. r \in Sends /\ caller[r].at # "record" /\ ~Recorded(r)
      BY DEF Unrecorded
    <2>2. PICK c \in Sends : TypedStep(c) /\ StepOf(c)
      BY StepTyped
    <2>3. caller'[r].at # "record"
      BY <2>1, <2>2 DEF StepOf
    <2>4. ~Recorded(r)'
      BY <2>1, UnrecordedStays
    <2> QED
      BY <2>1, <2>3, <2>4 DEF Unrecorded
  <1> QED
    BY <1>1

OutcomeNext(s) == Outcome(caller'[s], task'[s], rows'[s].status, verdict'[s])

\* How a step of one call, or of its message, changes what the others show.
LEMMA OthersOutcome ==
  ASSUME OutboundAssumption, OInv, OwnersOK, Unrecorded = {}, NEW c \in Sends,
         CallerStep(c) \/ \E n \in Runs : TaskStep(c, n)
  PROVE  \A s \in Sends \ {c} :
           /\ rows'[s] = rows[s] /\ verdict'[s] = verdict[s]
  <1>1. rows \in [Sends -> Row] /\ verdict \in [Sends -> Verdicts]
    BY TypeIs DEF OInv
  <1>2. ASSUME NEW n, NEW todo, Ends(c, n, todo)
        PROVE  \A s \in Sends \ {c} : verdict'[s] = verdict[s]
    BY <1>1, <1>2 DEF Ends
  <1>3. CASE RecordOutbound(c)
    BY <1>1, <1>3 DEF RecordOutbound
  <1>4. CASE SendSynchronously(c) \/ SendThrows(c) \/ SendLeavesOut(c) \/ Enqueue(c)
    BY <1>2, <1>4 DEF SendSynchronously, SendThrows, SendLeavesOut, Enqueue
  <1>5. CASE CallerSettles(c)
    <2>1. Head(caller[c].todo) \in Settlements
      BY <1>5, CallerTodo DEF OInv, CallerSettles
    <2> QED
      BY <1>5, <2>1, SettleNamed DEF OInv, CallerSettles
  <1>6. ASSUME NEW n \in Runs, TaskStep(c, n)
        PROVE  \A s \in Sends \ {c} : rows'[s] = rows[s] /\ verdict'[s] = verdict[s]
    <2>1. CASE StartRun(c, n)
      BY <2>1 DEF StartRun
    <2>2. CASE RunIsLast(c, n) \/ RunIsRetried(c, n) \/ RunThrows(c, n)
      BY <1>2, <2>2 DEF RunIsLast, RunIsRetried, RunThrows, RunEnds
    <2>3. CASE WorkerSettles(c, n)
      <3>1. task[c][n].at = "settling" /\ task[c][n].id = c
        BY <2>3, NamesOwnRow DEF WorkerSettles
      <3>2. Head(task[c][n].todo) \in Settlements
        BY <3>1, TaskTodo DEF OInv
      <3> QED
        BY <2>3, <3>1, <3>2, SettleNamed DEF OInv, WorkerSettles
    <2> QED
      BY <1>6, <2>1, <2>2, <2>3 DEF TaskStep
  <1> QED
    BY <1>3, <1>4, <1>5, <1>6 DEF CallerStep

LEMMA CallerOutcome ==
  ASSUME OutboundAssumption, OInv, Unrecorded = {}, NEW s \in Sends,
         Outcome(caller[s], task[s], rows[s].status, verdict[s]), CallerStep(s)
  PROVE  OutcomeNext(s)
  <1>1. /\ caller \in [Sends -> Call] /\ rows \in [Sends -> Row]
        /\ task \in Tasks /\ verdict \in [Sends -> Verdicts]
    BY TypeIs DEF OInv, Tasks
  <1>2. CASE RecordOutbound(s)
    <2>1. /\ caller[s].at = "record"
          /\ caller'[s].at = "send" /\ rows'[s].status = "queued"
          /\ UNCHANGED <<task, verdict>>
      BY <1>1, <1>2 DEF RecordOutbound, Call, Row
    <2>2. \A n \in Runs : task[s][n].at = "none"
      BY <2>1 DEF OInv, CallersOK
    <2> QED
      BY <2>1, <2>2 DEF OutcomeNext, Outcome
  <1>3. ASSUME caller[s].at = "send"
        PROVE  /\ Recorded(s) /\ rows[s].status = "queued"
               /\ \A n \in Runs : task[s][n].at = "none"
    <2>1. Recorded(s)
      BY <1>3 DEF Unrecorded
    <2> QED
      BY <1>3, <2>1 DEF Outcome
  <1>4. ASSUME NEW st \in Settlements, caller[s].at = "send",
               CallerGoes(s, <<st>>), Ends(s, 0, <<st>>), UNCHANGED <<rows, task>>
        PROVE  OutcomeNext(s)
    <2>1. <<st>> # <<>> /\ <<st>>[Len(<<st>>)] = st
      OBVIOUS
    <2>2. caller'[s] = [at |-> "settle", todo |-> <<st>>]
      BY <1>1, <1>3, <1>4, <2>1 DEF CallerGoes
    <2>3. verdict'[s] = st.status
      BY <1>1, <1>4, <2>1 DEF Ends
    <2> QED
      BY <1>3, <1>4, <2>2, <2>3 DEF OutcomeNext, Outcome
  <1>5. CASE Enqueue(s)
    <2>1. caller[s].at = "send" /\ rows'[s] = rows[s]
      BY <1>5 DEF Enqueue
    <2>2. caller'[s].at = "done"
      BY <1>1, <1>5 DEF Enqueue, CallerGoes
    <2>3. 1 \in Runs /\ Runs \subseteq Nat /\ \A n \in Runs : ~(n < 1)
      BY RunsAre DEF Runs
    <2>4. /\ task'[s][1].at = "waiting"
          /\ \A n \in Runs \ {1} : task'[s][n] = task[s][n]
      BY <1>1, <1>5, <2>3 DEF Enqueue, Enqueued, Tasks
    <2>5. LastRun(task'[s], 1, rows'[s].status, verdict'[s])
      BY <1>3, <2>1, <2>3, <2>4 DEF LastRun, Pending
    <2> QED
      BY <2>2, <2>3, <2>5 DEF OutcomeNext, Outcome
  <1>6. CASE CallerSettles(s)
    <2>1. /\ caller[s].at = "settle" /\ caller'[s].at = "done"
          /\ UNCHANGED <<task, verdict>>
      BY <1>1, <1>6 DEF CallerSettles
    <2>2. /\ \A n \in Runs : task[s][n].at = "none"
          /\ rows[s].status = "queued"
      BY <2>1 DEF Outcome
    <2>3. PICK st \in Settlements : caller[s].todo = <<st>> /\ verdict[s] = st.status
      BY <2>1 DEF Outcome
    <2>4. SettleOutbound(s, st, AttemptOf(s, 0, st))
      BY <1>6, <2>3 DEF CallerSettles
    <2>5. rows'[s].status = st.status
      BY <2>2, <2>4, SettleNamed DEF OInv, Pending
    <2> QED
      BY <2>1, <2>2, <2>3, <2>5 DEF OutcomeNext, Outcome
  <1> QED
    BY <1>2, <1>4, <1>5, <1>6, SettlementFacts
    DEF CallerStep, SendSynchronously, SendThrows, SendLeavesOut

\* A call that has a run has sent its message.
LEMMA HasLastRun ==
  ASSUME NEW s \in Sends, NEW n \in Runs, task[s][n].at # "none",
         Outcome(caller[s], task[s], rows[s].status, verdict[s])
  PROVE  /\ caller[s].at = "done"
         /\ \E f \in Runs : LastRun(task[s], f, rows[s].status, verdict[s])
  BY DEF Outcome

LEMMA RunEndOutcome ==
  ASSUME OutboundAssumption, OInv, NEW s \in Sends, NEW n \in Runs, NEW report,
         Outcome(caller[s], task[s], rows[s].status, verdict[s]),
         QueuedSettlements(report) # <<>>,
         RunEnds(s, n, report), task' = Settling(task, s, n, report)
  PROVE  OutcomeNext(s)
  <1> DEFINE todo == QueuedSettlements(report)
  <1>1. task \in Tasks /\ verdict \in [Sends -> Verdicts] /\ Runs \subseteq Nat
    BY TypeIs, RunsAre DEF OInv, Tasks
  <1>2. task[s][n].at = "running" /\ UNCHANGED <<caller, rows>>
    BY DEF RunEnds
  <1>3. PICK f \in Runs : LastRun(task[s], f, rows[s].status, verdict[s])
    BY <1>2, HasLastRun
  <1>4. f = n /\ rows[s].status \in Pending
    BY <1>1, <1>2, <1>3 DEF LastRun, Late
  <1>5. verdict'[s] = todo[Len(todo)].status
    BY <1>1 DEF RunEnds, Ends
  <1>6. Tells(todo, verdict'[s])
    BY <1>5, ReportIsTold
  <1>7. task' = Moved(task, s, n, "settling", todo)
    BY DEF Settling
  <1> HIDE DEF todo
  <1>8. /\ task'[s][n].at = "settling" /\ task'[s][n].todo = todo
        /\ \A m \in Runs \ {n} : task'[s][m] = task[s][m]
    BY <1>1, <1>7 DEF Moved, Tasks
  <1>9. LastRun(task'[s], n, rows'[s].status, verdict'[s])
    BY <1>1, <1>2, <1>3, <1>4, <1>6, <1>8 DEF LastRun
  <1> QED
    BY <1>2, <1>9, HasLastRun DEF OutcomeNext, Outcome

LEMMA RetriedOutcome ==
  ASSUME OutboundAssumption, OInv, NEW s \in Sends, NEW n \in Runs,
         Outcome(caller[s], task[s], rows[s].status, verdict[s]), RunIsRetried(s, n)
  PROVE  OutcomeNext(s)
  <1>1. task \in Tasks /\ Runs \subseteq Nat /\ n + 1 \in Runs
    BY TypeIs, RunsAre DEF OInv, Tasks, RunIsRetried, Runs, OutboundAssumption
  <1>2. PICK report : /\ report \in {Report(FALSE, TRUE, FALSE, FALSE),
                                     Report(FALSE, FALSE, FALSE, FALSE)}
                      /\ RunEnds(s, n, report)
                      /\ task' = Settling(Enqueued(s, n + 1, RetryId(s, n)), s, n, report)
    BY DEF RunIsRetried
  <1>3. task[s][n].at = "running" /\ UNCHANGED <<caller, rows>>
    BY <1>2 DEF RunEnds
  <1>4. PICK f \in Runs : LastRun(task[s], f, rows[s].status, verdict[s])
    BY <1>3, HasLastRun
  <1>5. f = n /\ rows[s].status \in Pending
    BY <1>1, <1>3, <1>4 DEF LastRun, Late
  <1> DEFINE todo == QueuedSettlements(report)
             at == IF todo = <<>> THEN "done" ELSE "settling"
             queued == Enqueued(s, n + 1, RetryId(s, n))
  <1>6. todo \in {<<>>, <<Failed>>} /\ task' = Moved(queued, s, n, at, todo)
    BY <1>2, ReportIsTold DEF Settling
  <1>7. /\ queued[s][n + 1].at = "waiting"
        /\ \A m \in Runs \ {n + 1} : queued[s][m] = task[s][m]
    BY <1>1 DEF Enqueued, Tasks
  <1>8. RetryId(s, n) \in Sends \union {None}
    BY TypeIs DEF OInv, RetryId, Task
  <1>9. queued \in Tasks
    BY <1>1, <1>8, EnqueuedType DEF OInv
  <1> HIDE DEF queued, todo
  <1>10. /\ task'[s][n].at = at /\ task'[s][n].todo = todo
         /\ \A m \in Runs \ {n} : task'[s][m] = queued[s][m]
    BY <1>6, <1>9 DEF Moved, Tasks
  <1>11. Late(task'[s][n])
    BY <1>6, <1>10 DEF Late
  <1>12. n + 1 # n /\ \A m \in Runs : (m < n + 1 => m = n \/ m < n) /\ (m > n + 1 => m > n)
    BY <1>1
  <1>13. LastRun(task'[s], n + 1, rows'[s].status, verdict'[s])
    <2>1. task'[s][n + 1].at = "waiting" /\ rows'[s].status \in Pending
      BY <1>1, <1>3, <1>5, <1>7, <1>10, <1>12
    <2>2. \A m \in Runs : m > n + 1 => task'[s][m].at = "none"
      BY <1>1, <1>4, <1>5, <1>7, <1>10, <1>12 DEF LastRun
    <2>3. \A m \in Runs : m < n + 1 => Late(task'[s][m])
      BY <1>1, <1>4, <1>5, <1>7, <1>10, <1>11, <1>12 DEF LastRun
    <2> QED
      BY <2>1, <2>2, <2>3 DEF LastRun
  <1> QED
    BY <1>1, <1>3, <1>13, HasLastRun DEF OutcomeNext, Outcome

LEMMA WorkerOutcome ==
  ASSUME OutboundAssumption, OInv, OwnersOK, Unrecorded = {}, NEW s \in Sends,
         NEW n \in Runs, WorkerSettles(s, n),
         Outcome(caller[s], task[s], rows[s].status, verdict[s])
  PROVE  OutcomeNext(s)
  <1> DEFINE todo == task[s][n].todo
             st == Head(todo)
             rest == Tail(todo)
             at == IF rest = <<>> THEN "done" ELSE "settling"
  <1>1. task \in Tasks /\ verdict \in [Sends -> Verdicts] /\ Runs \subseteq Nat
    BY TypeIs, RunsAre DEF OInv, Tasks
  <1>2. /\ task[s][n].at = "settling" /\ task[s][n].id = s
        /\ task' = Moved(task, s, n, at, rest)
        /\ UNCHANGED <<caller, verdict>>
    BY NamesOwnRow DEF WorkerSettles
  <1>3. st \in Settlements /\ SettleOutbound(s, st, AttemptOf(s, n, st))
    BY <1>2, TaskTodo DEF OInv, WorkerSettles
  <1> HIDE DEF st, rest
  <1>4. /\ rows[s].status \in Pending => rows'[s].status = st.status
        /\ rows[s].status \notin Pending => rows'[s] = rows[s]
    BY <1>3, SettleNamed DEF OInv
  <1>5. /\ task'[s][n].at = at /\ task'[s][n].todo = rest
        /\ \A m \in Runs \ {n} : task'[s][m] = task[s][m]
    BY <1>1, <1>2 DEF Moved, Tasks
  <1>6. PICK f \in Runs : LastRun(task[s], f, rows[s].status, verdict[s])
    BY <1>2, HasLastRun
  <1>7. /\ todo = <<Failed>> => st = Failed /\ rest = <<>>
        /\ \A one : todo = <<one>> => st = one /\ rest = <<>>
        /\ todo = <<Failed, GivenUp>> => st = Failed /\ rest = <<GivenUp>>
    <2>1. ASSUME NEW one PROVE Head(<<one>>) = one /\ Tail(<<one>>) = <<>>
      OBVIOUS
    <2>2. ASSUME NEW one, NEW two
          PROVE  Head(<<one, two>>) = one /\ Tail(<<one, two>>) = <<two>>
      OBVIOUS
    <2> HIDE DEF todo
    <2> QED
      BY <2>1, <2>2 DEF st, rest
  <1>8. Failed.status = "failed" /\ "failed" \in Pending
    BY DEF Failed, Pending
  <1>9. LastRun(task'[s], f, rows'[s].status, verdict'[s])
    <2>1. CASE n = f
      <3>1. rows[s].status \in Pending /\ Tells(todo, verdict[s])
        BY <1>2, <1>6, <2>1 DEF LastRun
      <3>2. CASE todo = <<Failed, GivenUp>> /\ verdict[s] = GivenUp.status
        <4>1. at = "settling" /\ Tells(rest, verdict[s])
          BY <1>7, <3>2, SettlementFacts DEF Tells
        <4>2. rows'[s].status \in Pending
          BY <1>4, <1>7, <1>8, <3>1, <3>2
        <4> QED
          BY <1>1, <1>2, <1>5, <1>6, <2>1, <4>1, <4>2 DEF LastRun
      <3>3. ASSUME NEW one \in Settlements, todo = <<one>>, verdict[s] = one.status
            PROVE  LastRun(task'[s], f, rows'[s].status, verdict'[s])
        <4>1. at = "done" /\ rows'[s].status = verdict'[s]
          BY <1>2, <1>4, <1>7, <3>1, <3>3
        <4> QED
          BY <1>1, <1>5, <1>6, <2>1, <4>1 DEF LastRun
      <3> QED
        BY <3>1, <3>2, <3>3 DEF Tells
    <2>2. CASE n # f
      <3>1. n < f /\ todo = <<Failed>>
        BY <1>1, <1>2, <1>6, <2>2 DEF LastRun, Late
      <3>2. st = Failed /\ at = "done"
        BY <1>7, <3>1
      <3>3. Late(task'[s][n])
        BY <1>5, <3>2 DEF Late
      <3>4. /\ rows[s].status \in Pending => rows'[s].status = "failed"
            /\ rows[s].status \notin Pending => rows'[s].status = rows[s].status
        BY <1>4, <1>8, <3>2
      <3>5. verdict[s] \in Pending => verdict[s] = "failed"
        BY <1>1 DEF Pending, Verdicts
      <3>6. task'[s][f] = task[s][f]
        BY <1>5, <2>2
      <3>7. \/ task'[s][f].at \in {"waiting", "running"} /\ rows'[s].status \in Pending
            \/ /\ task'[s][f].at = "settling" /\ rows'[s].status \in Pending
               /\ Tells(task'[s][f].todo, verdict'[s])
            \/ task'[s][f].at = "done" /\ rows'[s].status = verdict'[s]
        BY <1>2, <1>6, <1>8, <3>4, <3>5, <3>6 DEF LastRun
      <3> QED
        BY <1>1, <1>5, <1>6, <3>1, <3>3, <3>7 DEF LastRun
    <2> QED
      BY <2>1, <2>2
  <1> QED
    BY <1>2, <1>9, HasLastRun DEF OutcomeNext, Outcome

LEMMA TaskOutcome ==
  ASSUME OutboundAssumption, OInv, OwnersOK, Unrecorded = {}, NEW s \in Sends,
         NEW n \in Runs, TaskStep(s, n),
         Outcome(caller[s], task[s], rows[s].status, verdict[s])
  PROVE  OutcomeNext(s)
  <1>1. CASE StartRun(s, n)
    <2>1. task \in Tasks /\ Runs \subseteq Nat
      BY TypeIs, RunsAre DEF OInv, Tasks
    <2>2. /\ task[s][n].at = "waiting"
          /\ UNCHANGED <<caller, rows, verdict>>
      BY <1>1 DEF StartRun
    <2>3. /\ task'[s][n].at = "running"
          /\ \A m \in Runs \ {n} : task'[s][m] = task[s][m]
      BY <1>1, <2>1 DEF StartRun, Moved, Tasks
    <2>4. PICK f \in Runs : LastRun(task[s], f, rows[s].status, verdict[s])
      BY <2>2, HasLastRun
    <2>5. f = n
      BY <2>1, <2>2, <2>4 DEF LastRun, Late
    <2>6. LastRun(task'[s], n, rows'[s].status, verdict'[s])
      BY <2>1, <2>2, <2>3, <2>4, <2>5 DEF LastRun
    <2> QED
      BY <2>2, <2>6, HasLastRun DEF OutcomeNext, Outcome
  <1>2. CASE RunIsLast(s, n)
    <2>1. PICK report :
            /\ report \in {Report(TRUE, FALSE, FALSE, FALSE),
                           Report(FALSE, TRUE, FALSE, TRUE),
                           Report(FALSE, TRUE, TRUE, FALSE),
                           Report(FALSE, TRUE, TRUE, TRUE),
                           Report(FALSE, FALSE, TRUE, TRUE)}
            /\ RunEnds(s, n, report) /\ task' = Settling(task, s, n, report)
      BY <1>2 DEF RunIsLast
    <2>2. QueuedSettlements(report) # <<>>
      <3>1. report.sent \/ report.failure \/ report.permanent
        BY <2>1 DEF Report
      <3>2. \A a, b : /\ <<a>> # <<>> /\ <<a>> \o <<>> # <<>>
                      /\ <<>> \o <<b>> # <<>> /\ <<a>> \o <<b>> # <<>>
        OBVIOUS
      <3> QED
        BY <3>1, <3>2 DEF QueuedSettlements
    <2> QED
      BY <2>1, <2>2, RunEndOutcome
  <1>3. CASE RunThrows(s, n)
    <2>1. QueuedSettlements(Report(FALSE, TRUE, FALSE, FALSE)) # <<>>
      <3>1. <<Failed>> # <<>>
        OBVIOUS
      <3> QED
        BY <3>1, ReportIsTold
    <2> QED
      BY <1>3, <2>1, RunEndOutcome DEF RunThrows
  <1> QED
    BY <1>1, <1>2, <1>3, RetriedOutcome, WorkerOutcome DEF TaskStep

LEMMA OutcomesNext ==
  ASSUME OutboundAssumption, OInv, OwnersOK, OwnersOK', OutcomesOK, [Next]_vars
  PROVE  OutcomesOK'
  <1>1. CASE UNCHANGED vars
    BY <1>1 DEF vars, OutcomesOK, Unrecorded, Recorded
  <1>2. ASSUME NEW c \in Sends, CallerStep(c) \/ \E n \in Runs : TaskStep(c, n),
               Unrecorded' = {}
        PROVE  OutcomesOK'
    <2>1. Next
      BY <1>2 DEF Next, Progress
    <2>2. Unrecorded = {}
      BY <1>2, <2>1, UnrecordedKept
    <2>3. StepOf(c) /\ UNCHANGED faulty
      <3>1. StepOf(c)
        BY <1>2, RecordStep, EnqueueStep, CallerSettleStep, CallerEndsStep,
           SettlementFacts, StartStep, RunStep, WorkerStep
        DEF CallerStep, SendSynchronously, SendThrows, SendLeavesOut, TaskStep
      <3>2. UNCHANGED faulty
        BY <1>2
        DEF CallerStep, RecordOutbound, SendSynchronously, SendThrows, SendLeavesOut,
            Enqueue, CallerSettles, TaskStep, StartRun, RunIsLast, RunIsRetried,
            RunThrows, RunEnds, WorkerSettles
      <3> QED
        BY <3>1, <3>2
    <2>4. ASSUME NEW s \in Sends \ faulty PROVE OutcomeNext(s)
      <3>1. Outcome(caller[s], task[s], rows[s].status, verdict[s])
        BY <2>2 DEF OutcomesOK
      <3>2. CASE s = c
        BY <1>2, <2>2, <3>1, <3>2, CallerOutcome, TaskOutcome
      <3>3. CASE s # c
        <4>1. caller'[s] = caller[s] /\ task'[s] = task[s]
          BY <2>3, <3>3 DEF StepOf
        <4>2. rows'[s] = rows[s] /\ verdict'[s] = verdict[s]
          BY <1>2, <2>2, <3>3, OthersOutcome
        <4> QED
          BY <3>1, <4>1, <4>2 DEF OutcomeNext
      <3> QED
        BY <3>2, <3>3
    <2> QED
      BY <2>3, <2>4 DEF OutcomesOK, OutcomeNext
  <1>3. ASSUME NEW c \in Sends, Fault(c), Unrecorded' = {}
        PROVE  OutcomesOK'
    <2>1. Next
      BY <1>3 DEF Next
    <2>2. Unrecorded = {} /\ c \in faulty' /\ faulty \subseteq faulty'
      BY <1>3, <2>1, UnrecordedKept
      DEF Fault, RecordFails, CallerCannotSettle, WorkerCannotSettle, Redeliver
    <2>3. StepOf(c) /\ UNCHANGED <<rows, verdict>>
      BY <1>3, RecordStep, CallerSettleStep, WorkerStep, RedeliverStep
      DEF Fault, RecordFails, CallerCannotSettle, WorkerCannotSettle, Redeliver
    <2>4. \A s \in Sends \ faulty' : caller'[s] = caller[s] /\ task'[s] = task[s]
      BY <2>2, <2>3 DEF StepOf
    <2> QED
      BY <2>2, <2>3, <2>4 DEF OutcomesOK
  <1> QED
    BY <1>1, <1>2, <1>3 DEF Next, Progress, OutcomesOK

\* Whatever the order in which calls, workers and retries settle, the row of a
\* send whose bookkeeping did not fail ends as the last thing done for it.
THEOREM OutcomesAreKept == Spec => []OutcomeIsKept
  <1>1. Init => OwnersOK /\ AttemptsAreOwn /\ OutcomesOK
    BY OwnsNothing, OutcomesInitially
    DEF Init, OwnersOK, OwnsTask, OwnsTodo, NoTask, AttemptsAreOwn
  <1>2. OInv /\ OwnersOK /\ AttemptsAreOwn /\ OutcomesOK /\ [Next]_vars =>
          OwnersOK' /\ AttemptsAreOwn' /\ OutcomesOK'
    BY OutboundAssumption, OwnNext, OutcomesNext
  <1>3. OutcomesOK => OutcomeIsKept
    <2> SUFFICES ASSUME OutcomesOK, NEW s \in Sends, Quiet(s), s \notin faulty,
                        Unrecorded = {}
                 PROVE  rows[s].status = verdict[s]
      BY DEF OutcomeIsKept
    <2>1. Outcome(caller[s], task[s], rows[s].status, verdict[s])
      BY DEF OutcomesOK
    <2> QED
      BY <2>1 DEF Outcome, LastRun, Quiet
  <1> QED
    BY <1>1, <1>2, <1>3, Invariance, PTL DEF Spec
=============================================================================
