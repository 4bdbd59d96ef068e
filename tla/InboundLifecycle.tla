--------------------------- MODULE InboundLifecycle ---------------------------
(***************************************************************************)
(* What the log of inbound deliveries promises, without the two parties     *)
(* that write it: a delivery is recorded once, with the status the answer   *)
(* gave it; an acknowledged one may become received, and nothing else ever  *)
(* changes its status; its link to the stored activity comes once, only to  *)
(* a verified delivery answered with 2xx, and goes only with the activity.  *)
(***************************************************************************)
CONSTANTS
  Deliveries,  \* inbound deliveries
  Payloads,    \* documents a delivery or the stored activity may hold
  None         \* no document

VARIABLES
  status,    \* the status of each delivery, "unrecorded" before its row
  verified,  \* whether Fedify verified it
  payload,   \* the document it holds, None for one jsonb refuses
  linked,    \* the deliveries linked to the stored activity
  activity   \* the stored activity's document

vars == <<status, verified, payload, linked, activity>>

Init ==
  /\ status = [d \in Deliveries |-> "unrecorded"]
  /\ verified = [d \in Deliveries |-> FALSE]
  /\ payload = [d \in Deliveries |-> None]
  /\ linked = {}
  /\ activity = None

\* The answer decides: 2xx is received or acknowledged, anything else is
\* rejected if verified and unverified if not.
Record(d, s, v, p) ==
  /\ status[d] = "unrecorded"
  /\ s = "rejected" => v
  /\ s = "unverified" => ~v
  /\ status' = [status EXCEPT ![d] = s]
  /\ verified' = [verified EXCEPT ![d] = v]
  /\ payload' = [payload EXCEPT ![d] = p]
  /\ UNCHANGED <<linked, activity>>

Receive(d) ==
  /\ status[d] = "acknowledged"
  /\ status' = [status EXCEPT ![d] = "received"]
  /\ UNCHANGED <<verified, payload, linked, activity>>

Link(d) ==
  /\ activity # None
  /\ verified[d]
  /\ status[d] \in {"received", "acknowledged"}
  /\ d \notin linked
  /\ linked' = linked \union {d}
  /\ UNCHANGED <<status, verified, payload, activity>>

Store(document) ==
  /\ activity = None
  /\ activity' = document
  /\ UNCHANGED <<status, verified, payload, linked>>

Remove ==
  /\ activity # None
  /\ activity' = None
  /\ linked' = {}
  /\ UNCHANGED <<status, verified, payload>>

Next ==
  \/ \E d \in Deliveries :
       \/ \E s \in {"received", "acknowledged", "unverified", "rejected"},
             v \in BOOLEAN, p \in Payloads \union {None} : Record(d, s, v, p)
       \/ Receive(d)
       \/ Link(d)
  \/ \E document \in Payloads : Store(document)
  \/ Remove

Spec == Init /\ [][Next]_vars
=============================================================================
