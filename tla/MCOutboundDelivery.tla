-------------------------- MODULE MCOutboundDelivery --------------------------
(***************************************************************************)
(* Values for model-checking OutboundDelivery: one activity delivered twice *)
(* to one inbox, each message retried once, and two workers, so that a      *)
(* retry can overtake the settlement of the run that enqueued it.           *)
(***************************************************************************)
EXTENDS OutboundDelivery

OneSend == {1}
TwoSends == {1, 2}
NoSends == {}
=============================================================================
