--------------------------- MODULE DocsDeployment ---------------------------
(***************************************************************************)
(* Deployments of one documentation site (docs-current, docs-intent and     *)
(* docs-record of scripts/release.mts, in the order the jobs docs-release   *)
(* and docs-canary call them): a record is posted before the upload and     *)
(* settled after it, and what a failed job left unsettled is settled by the *)
(* next one, from the build the site names.                                 *)
(*                                                                         *)
(* A build is its number in the site's order: the run number of a canary, a *)
(* release's place in SemVer's order.  GitHub's deployments and the host of *)
(* the site are external; the jobs of one site run one at a time, and no    *)
(* upload outlives its job.                                                 *)
(***************************************************************************)
EXTENDS Integers, Sequences, SequencesExt

CONSTANTS
  DocsBuilds,    \* builds whose jobs run, again and in any order
  MaxDeployments \* bound on the deployments recorded

ASSUME DocsAssumption == DocsBuilds \subseteq Nat \ {0}

VARIABLES
  docsSite,    \* the build the site names, 0 for one before builds were named
  deployments, \* the records, oldest first, with their newest status
  docsJob      \* the job that runs

docsVars == <<docsSite, deployments, docsJob>>

NoDocsJob == [at |-> "none", build |-> 0, record |-> 0]

DocsInit ==
  /\ docsSite = 0
  /\ deployments = <<>>
  /\ docsJob = NoDocsJob

-----------------------------------------------------------------------------
DocsAt(point) == docsJob.at = point
DocsGoes(point) == docsJob' = [docsJob EXCEPT !.at = point]
Looked == deployments[docsJob.record]

\* docsCurrent() reads every record, from the newest.
DocsCurrent(b) ==
  /\ docsJob = NoDocsJob
  /\ docsJob' = [at |-> "settle", build |-> b, record |-> Len(deployments)]
  /\ UNCHANGED <<docsSite, deployments>>

\* An intent whose upload may or may not have reached the site is settled by
\* what the site serves.
Settled(state) ==
  IF state \notin {"created", "in_progress"} THEN state
  ELSE IF docsSite = Looked.build THEN "success"
  ELSE "inactive"

\* servedDocsDeployment(): the newest record that was served decides; builds
\* older than it are skipped.
SettleRecord ==
  /\ DocsAt("settle")
  /\ docsJob.record > 0
  /\ LET state == Settled(Looked.state) IN
       /\ deployments' = [deployments EXCEPT ![docsJob.record].state = state]
       /\ docsJob' =
            IF state = "inactive" THEN [docsJob EXCEPT !.record = @ - 1]
            ELSE IF docsJob.build < Looked.build THEN NoDocsJob
            ELSE [docsJob EXCEPT !.at = "intent"]
  /\ UNCHANGED docsSite

\* No record was served: whatever the build, it is deployed.
NothingServed ==
  /\ DocsAt("settle")
  /\ docsJob.record = 0
  /\ DocsGoes("intent")
  /\ UNCHANGED <<docsSite, deployments>>

\* githubPost(): a record whose answer was lost stays, and another is posted.
DocsIntent ==
  /\ DocsAt("intent")
  /\ Len(deployments) < MaxDeployments
  /\ deployments' =
       Append(deployments, [build |-> docsJob.build, state |-> "created"])
  /\ \/ docsJob' = [docsJob EXCEPT !.at = "progress",
                                   !.record = Len(deployments) + 1]
     \/ UNCHANGED docsJob
  /\ UNCHANGED docsSite

PostDocsStatus(state) ==
  deployments' = [deployments EXCEPT ![docsJob.record].state = state]

PostProgress ==
  /\ DocsAt("progress")
  /\ PostDocsStatus("in_progress")
  /\ DocsGoes("upload")
  /\ UNCHANGED docsSite

Upload ==
  /\ DocsAt("upload")
  /\ docsSite' = docsJob.build
  /\ DocsGoes("record")
  /\ UNCHANGED deployments

DocsRecordDeployment ==
  /\ DocsAt("record")
  /\ PostDocsStatus("success")
  /\ docsJob' = NoDocsJob
  /\ UNCHANGED docsSite

\* A request fails after its retries, or the runner ends the job.
DocsJobFails ==
  /\ docsJob # NoDocsJob
  /\ docsJob' = NoDocsJob
  /\ UNCHANGED <<docsSite, deployments>>

DocsNext ==
  \/ \E b \in DocsBuilds : DocsCurrent(b)
  \/ SettleRecord \/ NothingServed
  \/ DocsIntent \/ PostProgress \/ Upload \/ DocsRecordDeployment
  \/ DocsJobFails

DocsSpec == DocsInit /\ [][DocsNext]_docsVars

-----------------------------------------------------------------------------
(* Properties                                                              *)

DocsTypeOK ==
  /\ docsSite \in DocsBuilds \union {0}
  /\ Len(deployments) <= MaxDeployments
  /\ \A d \in ToSet(deployments) :
       /\ d.build \in DocsBuilds
       /\ d.state \in {"created", "in_progress", "success", "inactive"}
  /\ docsJob.record \in 0 .. Len(deployments)

\* Whichever jobs fail, and wherever, and whichever builds' jobs run again, no
\* build is ever replaced on the site by an older one.
DocsNeverGoBack == [][docsSite' >= docsSite]_docsVars
=============================================================================
