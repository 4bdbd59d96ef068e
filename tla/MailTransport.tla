---------------------------- MODULE MailTransport ----------------------------
(***************************************************************************)
(* Sends of mail over HTTP and their end (drfed bounded-mail-runtime.ts,    *)
(* resend-runtime.ts, and createMailRuntime() of mail-runtime.ts): a send   *)
(* is bounded by a timer, may be cancelled by its caller, and is aborted    *)
(* when the server closes the transport, while the provider's answer may    *)
(* come late, get lost or never come, and what failed is tried again.       *)
(*                                                                         *)
(* Which transport the server opens, and how, MailConfiguration decides.    *)
(* The providers and their SDKs are external: an SDK submits, answers, and  *)
(* gives up at some time once its signal has aborted.  SMTP and LogTape are *)
(* not bounded and not modelled.                                            *)
(***************************************************************************)
EXTENDS MailConfiguration

CONSTANTS
  Mails,   \* calls of send()
  MaxTries \* how often one is submitted at most, 1 but for Resend

ASSUME MailsAssumption == MaxTries \in Nat \ {0}

VARIABLES
  sends,   \* where each call is, its abort signals and its answer
  wire,    \* the keys of the requests submitted for it
  taken,   \* the keys the provider has accepted: a repeated one does nothing
  runtime  \* close(): where it is, and the sends it awaits

transportVars == <<sends, wire, taken, runtime>>

NotSent == [at |-> "idle", tries |-> 0, result |-> "none", reason |-> "none",
            cancelled |-> FALSE, answer |-> "none"]

TransportInit ==
  /\ sends = [m \in Mails |-> NotSent]
  /\ wire = [m \in Mails |-> {}]
  /\ taken = [m \in Mails |-> {}]
  /\ runtime = [at |-> "open", awaits |-> {}]

-----------------------------------------------------------------------------
\* Sends that the sets controllers and pending hold.
Sending == {m \in Mails : sends[m].at \in {"trying", "waiting", "settled"}}
Aborted(m) == sends[m].reason # "none" \/ sends[m].cancelled

\* Timers and the network have their turn when no promise has one.
Quiet == /\ runtime.at \notin {"called", "disposing"}
         /\ \A m \in Mails : sends[m].at # "settled"

\* Mutant: sends are refused only once those under way were aborted and awaited.
ClosedWhenDrained == runtime.at \in {"sdk", "closed", "failed"}

\* closing is assigned before anything else happens.
TransportClosed == runtime.at \notin {"open", "called"}

SendMessage(m) ==
  /\ sends[m].at = "idle"
  /\ sends' = [sends EXCEPT ![m].at = IF TransportClosed THEN "answered" ELSE "trying",
                            ![m].answer = IF TransportClosed THEN "closed" ELSE "none"]
  /\ UNCHANGED <<wire, taken, runtime>>

\* The key is chosen once, before the first attempt.
SubmissionKey(m) == 0

Submit(m) ==
  /\ sends[m].at = "trying" /\ ~Aborted(m)
  /\ sends' = [sends EXCEPT ![m].at = "waiting", ![m].tries = @ + 1]
  /\ wire' = [wire EXCEPT ![m] = @ \union {SubmissionKey(m)}]
  /\ UNCHANGED <<taken, runtime>>

\* A request on the wire may arrive after whoever sent it has given up.
ProviderAccepts(m) ==
  /\ wire[m] \ taken[m] # {}
  /\ \E key \in wire[m] \ taken[m] : taken' = [taken EXCEPT ![m] = @ \union {key}]
  /\ UNCHANGED <<sends, wire, runtime>>

\* The backoff before the next attempt ends at once when the send is aborted.
TryAgain(m) ==
  /\ sends[m].at = "waiting" /\ sends[m].tries < MaxTries /\ ~Aborted(m) /\ Quiet
  /\ sends' = [sends EXCEPT ![m].at = "trying"]
  /\ UNCHANGED <<wire, taken, runtime>>

SdkSettles(m, result) ==
  /\ sends' = [sends EXCEPT ![m].at = "settled", ![m].result = result]
  /\ UNCHANGED <<wire, taken, runtime>>

\* The answer may come although the send was aborted.
SdkAnswers(m) ==
  /\ sends[m].at = "waiting" /\ Quiet
  /\ \/ SubmissionKey(m) \in taken[m] /\ SdkSettles(m, "receipt")
     \/ SdkSettles(m, "failed")

SdkGivesUp(m) ==
  /\ sends[m].at \in {"trying", "waiting"} /\ Aborted(m)
  /\ SdkSettles(m, "failed")

\* The caller's signal is looked at first, then the send's own; what a closed
\* transport throws names the close or is the SDK's error.
SendOutcome(m) ==
  IF sends[m].cancelled THEN "cancelled"
  ELSE IF sends[m].reason = "timeout" THEN "timeout"
  ELSE IF sends[m].reason = "closed" THEN "failed"
  ELSE sends[m].result

AnswerSend(m) ==
  /\ sends[m].at = "settled"
  /\ sends' = [sends EXCEPT ![m].at = "answered", ![m].answer = SendOutcome(m)]
  /\ UNCHANGED <<wire, taken, runtime>>

\* abort() keeps its first reason.
DeliveryTimesOut(m) ==
  /\ sends[m].at \in {"trying", "waiting"} /\ sends[m].reason = "none" /\ Quiet
  /\ sends' = [sends EXCEPT ![m].reason = "timeout"]
  /\ UNCHANGED <<wire, taken, runtime>>

CancelSend(m) ==
  /\ m \in Sending /\ ~sends[m].cancelled
  /\ sends' = [sends EXCEPT ![m].cancelled = TRUE]
  /\ UNCHANGED <<wire, taken, runtime>>

SendNext(m) ==
  \/ SendMessage(m) \/ Submit(m) \/ ProviderAccepts(m) \/ TryAgain(m)
  \/ SdkAnswers(m) \/ SdkGivesUp(m) \/ AnswerSend(m)
  \/ DeliveryTimesOut(m) \/ CancelSend(m)

-----------------------------------------------------------------------------
\* close() is memoized, and goes on in a promise of its own; so does the
\* transport's disposal, which is memoized before that.
CloseGoes(from, to) ==
  /\ runtime.at = from
  /\ runtime' = [runtime EXCEPT !.at = to]
  /\ UNCHANGED <<sends, wire, taken>>

CloseRuntime == CloseGoes("open", "called")
DisposeTransport == CloseGoes("called", "disposing")

\* Every send is aborted, and those pending at that moment are awaited.
AbortSends ==
  /\ runtime.at = "disposing"
  /\ runtime' = [at |-> "draining", awaits |-> Sending]
  /\ sends' = [m \in Mails |->
                 IF m \in Sending /\ sends[m].reason = "none"
                 THEN [sends[m] EXCEPT !.reason = "closed"] ELSE sends[m]]
  /\ UNCHANGED <<wire, taken>>

SendsEnded ==
  /\ runtime.awaits \intersect Sending = {}
  /\ CloseGoes("draining", "sdk")

DisposeSdk == CloseGoes("sdk", "closed") \/ CloseGoes("sdk", "failed")

CloseNext == CloseRuntime \/ DisposeTransport \/ AbortSends \/ SendsEnded \/ DisposeSdk

TransportNext == CloseNext \/ \E m \in Mails : SendNext(m)

\* Promises and timers have their turn, and an SDK ends what was aborted; no
\* provider need ever answer.
TransportFairness ==
  /\ WF_transportVars(DisposeTransport \/ AbortSends \/ SendsEnded \/ DisposeSdk)
  /\ \A m \in Mails :
       /\ WF_transportVars(Submit(m) \/ SdkGivesUp(m) \/ AnswerSend(m))
       /\ WF_transportVars(DeliveryTimesOut(m))

TransportSpec == TransportInit /\ [][TransportNext]_transportVars /\ TransportFairness

-----------------------------------------------------------------------------
(* Properties                                                              *)

TransportTypeOK ==
  /\ sends \in [Mails -> [at : {"idle", "trying", "waiting", "settled", "answered"},
                          tries : 0 .. MaxTries, cancelled : BOOLEAN,
                          result : {"none", "receipt", "failed"},
                          reason : {"none", "timeout", "closed"},
                          answer : {"none", "receipt", "failed", "timeout", "closed",
                                    "cancelled"}]]
  /\ wire \in [Mails -> SUBSET (0 .. MaxTries)] /\ taken \in [Mails -> SUBSET (0 .. MaxTries)]
  /\ runtime.at \in {"open", "called", "disposing", "draining", "sdk", "closed", "failed"}
  /\ runtime.awaits \subseteq Mails

\* Whatever is cancelled, runs out of time or is closed in whichever order, a mail
\* is accepted once however often it was submitted; a caller is told of a receipt
\* only for one that was accepted and neither aborted nor cancelled, and that time
\* ran out or the transport was closed only when it was so; and the SDK is disposed
\* of only when no send uses it, and used by none after.
SendsSettle ==
  /\ \A m \in Mails :
       /\ Cardinality(taken[m]) <= 1
       /\ sends[m].answer = "receipt" =>
            taken[m] # {} /\ sends[m].reason = "none" /\ ~sends[m].cancelled
       /\ sends[m].answer = "timeout" => sends[m].reason = "timeout" /\ ~sends[m].cancelled
       /\ sends[m].answer = "closed" => TransportClosed
  /\ runtime.at \in {"sdk", "closed", "failed"} => Sending = {}

\* In the end every send that was made is answered and a close that was called has
\* ended, also when no provider ever answers.
Ended == /\ \A m \in Mails : sends[m].at \in {"idle", "answered"}
         /\ runtime.at \in {"open", "closed", "failed"}
SendsEnd == <>[]Ended

\* The mail settings follow their sources and the sends settle as they ended (see
\* MailFollowsSources and SendsSettle).
MailIsSound == MailFollowsSources /\ SendsSettle
=============================================================================
