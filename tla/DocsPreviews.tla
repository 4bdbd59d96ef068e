---------------------------- MODULE DocsPreviews ----------------------------
(***************************************************************************)
(* Previews of the documentation in pull requests from one branch           *)
(* (scripts/docs-preview.mts and docs-deploy.mts, in the order              *)
(* docs-preview.yaml calls them): a job for each completed run of the build *)
(* finds the pull request whose head is still the commit it built, deploys, *)
(* and posts or edits its comment.                                          *)
(*                                                                         *)
(* Commits are numbered as they are pushed.  The jobs of a head branch run  *)
(* one at a time, in any order.  GitHub and Cloudflare Pages are external.  *)
(***************************************************************************)
EXTENDS Integers, Sequences, FiniteSets

CONSTANTS
  Pulls,      \* pull requests from the branch
  MaxCommits, \* bound on the commits pushed
  MaxPreviews \* bound on the preview jobs begun

ASSUME PreviewAssumption == MaxCommits \in Nat /\ MaxPreviews \in Nat

VARIABLES
  head,        \* the branch's newest commit
  open,        \* the open pull requests
  docsResult,  \* the docs job of each commit's latest attempt
  waiting,     \* commits of completed runs whose preview jobs wait
  previewJobs, \* the preview jobs that run
  preview,     \* the commit each pull request's preview shows
  comments,    \* the commits its preview comments name, oldest first
  previews     \* how many jobs were begun

previewVars == <<head, open, docsResult, waiting, previewJobs, preview,
                 comments, previews>>

Commits == 1 .. MaxCommits

PreviewInit ==
  /\ head = 1
  /\ open = {}
  /\ docsResult = [c \in Commits |-> IF c = 1 THEN "running" ELSE "none"]
  /\ waiting = {}
  /\ previewJobs = {}
  /\ preview = [n \in Pulls |-> 0]
  /\ comments = [n \in Pulls |-> <<>>]
  /\ previews = 0

-----------------------------------------------------------------------------
PushCommit ==
  /\ head < MaxCommits
  /\ head' = head + 1
  /\ docsResult' = [docsResult EXCEPT ![head + 1] = "running"]
  /\ UNCHANGED <<open, waiting, previewJobs, preview, comments, previews>>

OpenOrClose(n) ==
  /\ open' = IF n \in open THEN open \ {n} ELSE open \union {n}
  /\ UNCHANGED <<head, docsResult, waiting, previewJobs, preview, comments,
                 previews>>

\* A run completes, whatever its docs job did, and its preview job is queued.
RunCompletes(c) ==
  /\ docsResult[c] = "running"
  /\ docsResult' \in {[docsResult EXCEPT ![c] = r] : r \in {"success", "failure"}}
  /\ waiting' = waiting \union {c}
  /\ UNCHANGED <<head, open, previewJobs, preview, comments, previews>>

RunAgain(c) ==
  /\ docsResult[c] \in {"success", "failure"}
  /\ docsResult' = [docsResult EXCEPT ![c] = "running"]
  /\ UNCHANGED <<head, open, waiting, previewJobs, preview, comments, previews>>

-----------------------------------------------------------------------------
Moves(j, next) == previewJobs' = (previewJobs \ {j}) \union {next}
Stops(j) == previewJobs' = previewJobs \ {j}

StartPreview(c) ==
  /\ previewJobs = {}
  /\ c \in waiting
  /\ previews < MaxPreviews
  /\ previews' = previews + 1
  /\ waiting' = waiting \ {c}
  /\ previewJobs' = previewJobs \union
       {[commit |-> c, at |-> "pr", pull |-> 0, oldest |-> 0]}
  /\ UNCHANGED <<head, open, docsResult, preview, comments>>

\* selectPullRequest()
Matches(n, c) == n \in open /\ head = c

\* A single open pull request must have the built commit as its head.
FindPullRequest(j) ==
  /\ j.at = "pr"
  /\ LET matches == {n \in Pulls : Matches(n, j.commit)} IN
       IF Cardinality(matches) # 1 THEN Stops(j)
       ELSE \E n \in matches : Moves(j, [j EXCEPT !.at = "built", !.pull = n])
  /\ UNCHANGED <<head, open, docsResult, waiting, preview, comments, previews>>

\* docsJobSucceeded(): what an earlier attempt left does not count.
CheckBuilt(j) ==
  /\ j.at = "built"
  /\ IF docsResult[j.commit] = "success"
     THEN Moves(j, [j EXCEPT !.at = "deploy"]) ELSE Stops(j)
  /\ UNCHANGED <<head, open, docsResult, waiting, preview, comments, previews>>

DeployPreview(j) ==
  /\ j.at = "deploy"
  /\ preview' = [preview EXCEPT ![j.pull] = j.commit]
  /\ Moves(j, [j EXCEPT !.at = "list"])
  /\ UNCHANGED <<head, open, docsResult, waiting, comments, previews>>

\* previewComments()
ListComments(j) ==
  /\ j.at = "list"
  /\ Moves(j, [j EXCEPT !.at = "comment",
                        !.oldest = IF comments[j.pull] = <<>> THEN 0 ELSE 1])
  /\ UNCHANGED <<head, open, docsResult, waiting, preview, comments, previews>>

\* Without a comment one is posted; the oldest one is edited.
PostComment(j) ==
  /\ j.at = "comment"
  /\ comments' = [comments EXCEPT ![j.pull] =
       IF j.oldest = 0 THEN Append(@, j.commit) ELSE [@ EXCEPT ![1] = j.commit]]
  /\ Stops(j)
  /\ UNCHANGED <<head, open, docsResult, waiting, preview, previews>>

PreviewFails(j) ==
  /\ Stops(j)
  /\ UNCHANGED <<head, open, docsResult, waiting, preview, comments, previews>>

PreviewNext ==
  \/ PushCommit
  \/ \E n \in Pulls : OpenOrClose(n)
  \/ \E c \in Commits : RunCompletes(c) \/ RunAgain(c) \/ StartPreview(c)
  \/ \E j \in previewJobs :
       \/ FindPullRequest(j) \/ CheckBuilt(j) \/ DeployPreview(j)
       \/ ListComments(j) \/ PostComment(j) \/ PreviewFails(j)

PreviewSpec == PreviewInit /\ [][PreviewNext]_previewVars

-----------------------------------------------------------------------------
(* Properties                                                              *)

\* Commits pushed, pull requests opened and closed and runs repeated while jobs
\* wait or run: no preview goes back to an older commit, nor does the one
\* comment that names it, and no pull request gets a second comment.
PreviewsNeverGoBack ==
  [][\A n \in Pulls :
       /\ preview'[n] >= preview[n]
       /\ Len(comments'[n]) <= 1
       /\ \A i \in DOMAIN comments[n] : comments'[n][i] >= comments[n][i]
    ]_previewVars
=============================================================================
