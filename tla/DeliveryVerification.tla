------------------------ MODULE DeliveryVerification -------------------------
(***************************************************************************)
(* How a recorded request tells the way Fedify verified it (federation      *)
(* verification.ts, tracking.ts, classifyInbound() of inbound.ts) and keeps *)
(* the public key that was used (models key.ts): Fedify reports every       *)
(* signature it tried, one of them is shown, and its key becomes a version  *)
(* of a logical key, which other deliveries observe at the same time and    *)
(* remote servers rotate.                                                   *)
(*                                                                         *)
(* A key is an IRI, or NoIri, and its material; materials of an unsupported *)
(* type have no fingerprint.  Errors and reasons are named by their kind.   *)
(***************************************************************************)
EXTENDS Integers, Sequences, SequencesExt, FiniteSets, FiniteSetsExt

CONSTANTS
  Deliveries,    \* the requests that are recorded
  ReportsOf,     \* what Fedify may report of each
  NoReport,      \* a request it reports nothing of, and that names no key
  Unsupported,   \* the materials without a fingerprint
  NoIri,
  StoredVersions, \* the sets of key versions earlier requests may have left
  LatestTime     \* bound: the last moment

ASSUME VerificationAssumption ==
  LatestTime \in Nat /\ DOMAIN ReportsOf = Deliveries

VARIABLES
  moment,
  keyIris,    \* the logical keys, by their IRIs
  versions,   \* when every material of a logical key was first and last seen
  report,     \* what Fedify reported of a request, once it is handled
  observing,  \* the statement its observation is at
  seenAt,     \* when it observed the key
  row         \* what is recorded of it

verificationVars == <<moment, keyIris, versions, report, observing, seenAt, row>>

NoKey == [iri |-> NoIri, material |-> "none"]
NoCheck == [status |-> "none", reason |-> "none", key |-> NoKey, tried |-> NoKey,
            declared |-> NoIri]
NoAttempt == [mechanism |-> "none", root |-> FALSE, status |-> "none", reason |-> "none",
              checks |-> <<>>]

-----------------------------------------------------------------------------
(* The signature that is shown                                              *)

\* find(), findLast(): the first and the last element at one of some places.
FirstAt(s, places, default) == IF places = {} THEN default ELSE s[Min(places)]
LastAt(s, places, default) == IF places = {} THEN default ELSE s[Max(places)]

VerifiedIn(checks) == {i \in DOMAIN checks : checks[i].status = "verified"}

\* Signatures of an attempt that verified: the checks that did.
Signatures(attempt) ==
  IF attempt.status = "verified" THEN VerifiedIn(attempt.checks) ELSE {}

PolicyReasons == {"uncoveredAttribution", "missingOwner", "proofPolicy"}
\* attributionFailure(): the signature is valid, what it vouches for is refused.
AttributionFailure(attempt) ==
  /\ attempt.status = "rejected"
  /\ attempt.reason \in PolicyReasons
  /\ VerifiedIn(attempt.checks) # {}

\* The attempts worth showing, those on the activity itself before the others.
IsMeaningful(rep, attempt) ==
  \/ attempt.checks # <<>>
  \/ attempt.status = "rejected" /\ attempt.reason # "noSignature"
  \/ attempt.status = "error" /\ rep.authentication # "notDetermined"
Eligible(rep) ==
  LET meaningful == {i \in DOMAIN rep.attempts : IsMeaningful(rep, rep.attempts[i])}
      root == {i \in meaningful : rep.attempts[i].root}
  IN IF root # {} THEN root ELSE meaningful

SelectAttempt(rep) ==
  LET tries == rep.attempts
      eligible == Eligible(rep)
      signed == {i \in eligible : Signatures(tries[i]) # {}}
      refused == {i \in eligible : AttributionFailure(tries[i])}
  IN IF rep.authentication = "verified" THEN FirstAt(tries, signed, NoAttempt)
     ELSE LastAt(tries, signed, LastAt(tries, refused, LastAt(tries, eligible, NoAttempt)))

\* Mutant: one valid signature stands for the set.
IsVerifiedPartly(attempt) == VerifiedIn(attempt.checks) # {}
IsVerified(attempt) == attempt.status = "verified" \/ AttributionFailure(attempt)

SelectedCheck(attempt) ==
  LET checks == attempt.checks IN
  IF IsVerified(attempt) THEN FirstAt(checks, VerifiedIn(checks), NoCheck)
  ELSE LastAt(checks, DOMAIN checks \ VerifiedIn(checks),
              LastAt(checks, DOMAIN checks, NoCheck))

\* httpDeclaration(): the key the HTTP signature names, by a header if need be.
HttpDeclaration(rep) ==
  LET tries == rep.attempts
      http == {i \in DOMAIN tries : tries[i].mechanism = "http"}
      verified == FirstAt(tries, {i \in http : tries[i].status = "verified"}, NoAttempt)
      checked == FirstAt(tries, {i \in http : tries[i].checks # <<>>}, NoAttempt)
      check == FirstAt(verified.checks, VerifiedIn(verified.checks),
                       FirstAt(checked.checks, DOMAIN checked.checks, NoCheck))
  IN IF check.declared # NoIri THEN check.declared ELSE rep.header

CheckDetail(check) ==
  CASE check.status = "error" -> "error"
    [] check.status = "rejected" -> check.reason
    [] OTHER -> "none"

\* refusalDetail(): the outcome of the request, then of its authentication, then
\* of the attempt that is shown.
RefusalDetail(rep, attempt, check) ==
  LET outcome == rep.outcome IN
  CASE outcome.disposition = "exception" -> "error"
    [] outcome.accepted -> "none"
    [] outcome.disposition = "failed" -> outcome.reason
    [] outcome.disposition = "rejected" /\ outcome.reason # "authentication" ->
         outcome.reason
    [] outcome.refusal # "none" -> outcome.refusal
    [] attempt.status = "error" -> "error"
    [] attempt.status = "rejected" /\ attempt.reason \notin PolicyReasons
       /\ CheckDetail(check) # "none" -> CheckDetail(check)
    [] attempt.status = "rejected" -> attempt.reason
    [] OTHER -> CheckDetail(check)

Nothing(result, signed, detail) ==
  [mechanism |-> "none", result |-> result, key |-> NoKey, signed |-> signed,
   detail |-> detail]

\* summarizeVerification()
Summarize(rep) ==
  LET attempt == SelectAttempt(rep)
      check == SelectedCheck(attempt)
      key == IF check.status = "verified" THEN check.key ELSE check.tried
  IN IF attempt = NoAttempt
     THEN Nothing(IF rep.authentication = "notDetermined" THEN "unattempted"
                  ELSE "no_signature",
                  HttpDeclaration(rep), RefusalDetail(rep, NoAttempt, NoCheck))
     ELSE [mechanism |-> attempt.mechanism,
           result |-> IF IsVerified(attempt) THEN "verified"
                      ELSE IF check.status = "rejected" /\ check.reason = "keyFetchError"
                      THEN "key_fetch_error" ELSE "invalid_signature",
           key |-> [key EXCEPT !.iri = IF key.iri # NoIri THEN key.iri
                                       ELSE check.declared],
           signed |-> HttpDeclaration(rep),
           detail |-> RefusalDetail(rep, attempt, check)]
SummaryOf(d) ==
  IF report[d] = NoReport THEN Nothing("unobserved", NoIri, "none")
  ELSE Summarize(report[d])

-----------------------------------------------------------------------------
(* Observing its key                                                        *)

\* Reports come with the request; those of tasks that outlive it are dropped.  A
\* request nothing is reported of was refused.
Handle(d, rep) ==
  /\ observing[d] = "handling"
  /\ report' = [report EXCEPT ![d] = rep]
  /\ observing' = [observing EXCEPT ![d] = "summarizing"]
  /\ UNCHANGED <<moment, keyIris, versions, seenAt, row>>

KeyOf(d) == SummaryOf(d).key
VersionOf(d) == <<KeyOf(d).iri, KeyOf(d).material>>

Advance(d, from, to) ==
  observing[d] = from /\ observing' = [observing EXCEPT ![d] = to]

\* Without a key or an IRI for it there is no version; and without a fingerprint
\* the observation fails before its transaction.
StartObserving(d) ==
  /\ Advance(d, "summarizing",
       IF KeyOf(d).material = "none" \/ KeyOf(d).iri = NoIri THEN "keyless"
       ELSE IF KeyOf(d).material \in Unsupported THEN "failed" ELSE "inserting")
  /\ UNCHANGED <<moment, keyIris, versions, report, seenAt, row>>

\* A key, or a version, that another transaction inserted is waited for.
Others(d, steps) == {o \in Deliveries \ {d} : observing[o] \in steps}
InsertKey(d) ==
  /\ Advance(d, "inserting", "keyed")
  /\ KeyOf(d).iri \notin keyIris =>
       \A o \in Others(d, {"keyed", "timed", "versioned"}) : KeyOf(o).iri # KeyOf(d).iri
  /\ UNCHANGED <<moment, keyIris, versions, report, seenAt, row>>

ReadTime(d) ==
  /\ Advance(d, "keyed", "timed")
  /\ seenAt' = [seenAt EXCEPT ![d] = moment]
  /\ UNCHANGED <<moment, keyIris, versions, report, row>>

UpsertVersion(d) ==
  /\ Advance(d, "timed", "versioned")
  /\ \A o \in Others(d, {"versioned"}) : VersionOf(o) # VersionOf(d)
  /\ UNCHANGED <<moment, keyIris, versions, report, seenAt, row>>

Later(a, b) == IF a > b THEN a ELSE b
CommitVersion(d) ==
  LET version == VersionOf(d) IN
  /\ Advance(d, "versioned", "observed")
  /\ keyIris' = keyIris \union {KeyOf(d).iri}
  /\ versions' =
       [v \in DOMAIN versions \union {version} |->
          IF v # version THEN versions[v]
          ELSE IF v \in DOMAIN versions
          THEN [versions[v] EXCEPT !.last = Later(@, seenAt[d])]
          ELSE [first |-> seenAt[d], last |-> seenAt[d]]]
  /\ UNCHANGED <<moment, report, seenAt, row>>

FailObserving(d) ==
  /\ \E step \in {"inserting", "keyed", "timed", "versioned"} : Advance(d, step, "failed")
  /\ UNCHANGED <<moment, keyIris, versions, report, seenAt, row>>

\* classifyInbound(), of an activity whose listener has not run yet.
Classify(rep, result) ==
  IF rep # NoReport /\ rep.outcome.accepted THEN "acknowledged"
  ELSE IF result = "verified" THEN "rejected" ELSE "unverified"

\* What observeVerification() returns, as recordInbound() keeps it.
Record(d) ==
  LET summary == SummaryOf(d)
      failed == observing[d] = "failed"
      result == IF failed THEN "unobserved" ELSE summary.result
  IN /\ \E step \in {"keyless", "observed", "failed"} : Advance(d, step, "recorded")
     /\ row' = [row EXCEPT ![d] =
          [mechanism |-> IF failed THEN "none" ELSE summary.mechanism,
           result |-> result,
           version |-> IF observing[d] = "observed" THEN VersionOf(d) ELSE <<>>,
           signed |-> summary.signed,
           detail |-> IF failed THEN "observation failed" ELSE summary.detail,
           status |-> Classify(report[d], result)]]
     /\ UNCHANGED <<moment, keyIris, versions, report, seenAt>>

Tick ==
  /\ moment < LatestTime /\ moment' = moment + 1
  /\ UNCHANGED <<keyIris, versions, report, observing, seenAt, row>>

Unrecorded == [status |-> "none"]

VerificationInit ==
  /\ moment = 0
  /\ \E stored \in StoredVersions :
       /\ keyIris = {v[1] : v \in stored}
       /\ versions = [v \in stored |-> [first |-> 0, last |-> 0]]
  /\ report = [d \in Deliveries |-> NoReport]
  /\ observing = [d \in Deliveries |-> "handling"]
  /\ seenAt = [d \in Deliveries |-> 0]
  /\ row = [d \in Deliveries |-> Unrecorded]

VerificationNext ==
  \/ \E d \in Deliveries :
       \/ \E rep \in ReportsOf[d] : Handle(d, rep)
       \/ StartObserving(d) \/ InsertKey(d) \/ ReadTime(d) \/ UpsertVersion(d)
       \/ CommitVersion(d) \/ FailObserving(d) \/ Record(d)
  \/ Tick

-----------------------------------------------------------------------------
\* What Fedify's types say of a report: an attempt that verified has a check that
\* did, and one that was rejected, like a request that was, has a reason.
IsKey(key) == DOMAIN key = {"iri", "material"}
AttemptOK(attempt) ==
  /\ attempt.mechanism # "none" /\ attempt.status \in {"verified", "rejected", "error"}
  /\ Len(attempt.checks) \in Nat /\ DOMAIN attempt.checks = 1 .. Len(attempt.checks)
  /\ attempt.status = "verified" => VerifiedIn(attempt.checks) # {}
  /\ attempt.status = "rejected" => attempt.reason # "none"
  /\ \A i \in DOMAIN attempt.checks :
       IsKey(attempt.checks[i].key) /\ IsKey(attempt.checks[i].tried)
ReportOK(rep) ==
  /\ Len(rep.attempts) \in Nat /\ DOMAIN rep.attempts = 1 .. Len(rep.attempts)
  /\ \A i \in DOMAIN rep.attempts : AttemptOK(rep.attempts[i])
  /\ rep.outcome.disposition \in {"failed", "rejected"} => rep.outcome.reason # "none"

ASSUME ReportsAssumption ==
  \A d \in Deliveries : \A rep \in ReportsOf[d] : rep = NoReport \/ ReportOK(rep)

-----------------------------------------------------------------------------
\* The attempts a row may show: those on the activity itself, if one was evaluated.
ShownOf(rep) ==
  {a \in Range(rep.attempts) :
     /\ IsMeaningful(rep, a)
     /\ a.root \/ \A other \in Range(rep.attempts) : IsMeaningful(rep, other) => ~other.root}
Vouches(attempt) ==
  /\ attempt.status = "verified" \/ AttributionFailure(attempt)
  /\ VerifiedIn(attempt.checks) # {}

\* A row says verified exactly if a shown attempt was, or was refused for what it
\* vouches for alone: a set of proofs some of which failed never is.  The version
\* it names is of a key that verified one of the attempt's signatures, or was tried
\* last, and was seen no later than its lastSeen; and a refusal of an attempt says
\* why (summarizeVerification, verification.ts:208-215, and observeKeyVersion,
\* key.ts:92-137).
RowsTellTheVerification ==
  \A d \in Deliveries : observing[d] = "recorded" =>
    LET r == row[d]
        rep == report[d]
    IN /\ r.result = "unobserved" => r.version = <<>>
       /\ r.status = "rejected" => r.result = "verified"
       /\ r.result \notin {"unobserved", "unattempted", "no_signature"} =>
            /\ r.result = "verified" <=> \E a \in ShownOf(rep) : Vouches(a)
            /\ r.result = "verified" =>
                 \E a \in ShownOf(rep) : Vouches(a) /\ a.mechanism = r.mechanism
            /\ r.result # "verified" /\ ~rep.outcome.accepted => r.detail # "none"
       /\ r.version # <<>> =>
            /\ r.version \in DOMAIN versions /\ r.version[1] \in keyIris
            /\ versions[r.version].first <= versions[r.version].last
            /\ seenAt[d] <= versions[r.version].last
            /\ \E a \in ShownOf(rep) :
                 /\ a.mechanism = r.mechanism
                 /\ \E check \in Range(a.checks) :
                      /\ r.version[2] = IF check.status = "verified" THEN check.key.material
                                        ELSE check.tried.material
                      /\ r.result = "verified" => check.status = "verified"
=============================================================================
