--------------------------- MODULE OutboundLifecycle ---------------------------
(***************************************************************************)
(* What the log of outbound deliveries promises, without the callers and    *)
(* workers that write it: a delivery is recorded queued; every attempt      *)
(* written to it ends it as sent, as abandoned, or leaves it failed for a   *)
(* retry; a delivery no attempt will be made for is given up.  An attempt,  *)
(* once written, stays, and a delivery that ended never changes.            *)
(***************************************************************************)
EXTENDS Sequences

CONSTANTS
  Sends,   \* outbound deliveries
  Attempts \* what an ended attempt may be; each says whether it succeeded

VARIABLES
  status, \* the status of each delivery, "unrecorded" before its row
  log     \* the attempts kept for each delivery, in the order of writing

vars == <<status, log>>

Init ==
  /\ status = [s \in Sends |-> "unrecorded"]
  /\ log = [s \in Sends |-> <<>>]

Record(s) ==
  /\ status[s] = "unrecorded"
  /\ status' = [status EXCEPT ![s] = "queued"]
  /\ UNCHANGED log

Attempt(s, attempt) ==
  /\ status[s] \in {"queued", "failed"}
  /\ log' = [log EXCEPT ![s] = Append(@, attempt)]
  /\ \/ /\ attempt.succeeded
        /\ status' = [status EXCEPT ![s] = "sent"]
     \/ /\ ~attempt.succeeded
        /\ \E ending \in {"failed", "abandoned"} :
             status' = [status EXCEPT ![s] = ending]

GiveUp(s) ==
  /\ status[s] \in {"queued", "failed"}
  /\ status' = [status EXCEPT ![s] = "permanently_failed"]
  /\ UNCHANGED log

Next ==
  \E s \in Sends :
    \/ Record(s)
    \/ \E attempt \in Attempts : Attempt(s, attempt)
    \/ GiveUp(s)

Spec == Init /\ [][Next]_vars
=============================================================================
