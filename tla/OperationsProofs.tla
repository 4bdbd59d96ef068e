-------------------------- MODULE OperationsProofs ---------------------------
(***************************************************************************)
(* Proofs about what operates the program: the release, the deployment of   *)
(* the documentation and its previews, the sends of mail and its settings,  *)
(* and the opening and preparing of the database, each with an inductive    *)
(* invariant of its own.                                                   *)
(***************************************************************************)
EXTENDS Operations, MailTransport, PgliteStores, DatabasePreparation, FiniteSetTheorems,
        SequenceTheorems, TLAPS

-----------------------------------------------------------------------------
(***************************************************************************)
(* ReleaseWorkflow, for any builds, channels and packages, and however often *)
(* jobs fail and run again.  That a version is whole rests on what a build's *)
(* passed jobs and its running one vouch for, KeptOK, PassedOK and JobOK:   *)
(* what is published is never built again, so that whatever a later run     *)
(* still finds kept is what was published.                                 *)
(***************************************************************************)
N == Cardinality(Packages)
Image == [bytes : Nat, of : Nat]
Places == {"github", "registry"}
PublishPoints == {"preflight", "upload", "promote", "staging"}
ImagePoints == {"push", "attest", "tag", "pull"}
ReleasePoints == {"create", "assets"}
BuildJobs == {"artifacts", "image", "publish", "image-publish", "github-release"}

Job == [name : {"none", "publish", "image-publish", "github-release"},
        build : Builds \union {0},
        at : {"none"} \union PublishPoints \union ImagePoints \union ReleasePoints,
        package : Nat]

ReleaseTypeOK ==
  /\ tarballs \in [Builds -> Nat]
  /\ layout \in [Builds -> Image]
  /\ bytes \in Nat
  /\ npm \in [Builds -> [Packages -> Nat]]
  /\ distTag \in [Packages -> [Channels -> Nat]]
  /\ image \in [Builds -> Image]
  /\ attested \in [Builds -> SUBSET Places]
  /\ imageTag \in [Channels -> Nat]
  /\ release \in [Builds -> BOOLEAN]
  /\ latest \in Nat
  /\ passed \in [Builds -> SUBSET BuildJobs]
  /\ job \in Job

Offered(b) == image[b] # NoImage /\ attested[b] = Places

\* What was published, and what is kept of it, was built once.
KeptOK ==
  \A b \in Builds :
    /\ \A p, q \in Packages : npm[b][p] # 0 /\ npm[b][q] # 0 => npm[b][p] = npm[b][q]
    /\ \A p \in Packages : npm[b][p] # 0 /\ layout[b] # NoImage =>
                             layout[b].of = npm[b][p]
    /\ image[b] # NoImage => \A p \in Packages : npm[b][p] # 0 /\ npm[b][p] = image[b].of

\* What the jobs of a run that passed vouch for.
PassedOK ==
  \A b \in Builds :
    /\ "image" \in passed[b] =>
         /\ "artifacts" \in passed[b]
         /\ tarballs[b] # 0 /\ layout[b] # NoImage => layout[b].of = tarballs[b]
    /\ "publish" \in passed[b] => Published(b)
    /\ "image-publish" \in passed[b] => Offered(b)

\* What the job that runs has found and done so far.
JobOK ==
  LET b == job.build IN
  /\ job = NoJob \/ job.build \in Builds
  /\ job.at = "none" <=> job.name = "none"
  /\ job.at \in PublishPoints =>
       /\ job.name = "publish"
       /\ tarballs[b] # 0 /\ {"artifacts", "image"} \subseteq passed[b]
  /\ job.at \in ImagePoints =>
       job.name = "image-publish" /\ layout[b] # NoImage /\ Published(b)
  /\ job.at \in ReleasePoints => job.name = "github-release" /\ Offered(b)
  /\ job.at = "upload" =>
       /\ \A p \in Packages : npm[b][p] \in {0, tarballs[b]}
       /\ \A p \in Packages : p < job.package => npm[b][p] # 0
  /\ job.at \in {"promote", "staging"} => Published(b)
  /\ job.at = "promote" => \A p \in Packages : distTag[p][ChannelOf[b]] <= b
  /\ job.at \in {"attest", "tag", "pull"} => image[b] # NoImage
  /\ job.at \in {"tag", "pull"} => attested[b] = Places
  /\ job # NoJob => job.package \in 1 .. N + 1

\* What the shared tags name.
TagsOK ==
  /\ \A b \in Builds :
       /\ (\E p \in Packages : distTag[p][ChannelOf[b]] = b) => Published(b)
       /\ imageTag[ChannelOf[b]] = b \/ release[b] => Offered(b)
  /\ latest <= distTag[N]["latest"]

RelInv == ReleaseTypeOK /\ KeptOK /\ PassedOK /\ JobOK /\ TagsOK

LEMMA CountIsNatural == N \in Nat /\ Packages = 1 .. N /\ N \in Packages
  <1>1. N \in Nat
    BY ReleaseAssumption, FS_CardinalityType DEF N
  <1>2. Packages = 1 .. N
    BY ReleaseAssumption DEF N
  <1>3. N \in Packages
    BY <1>1, <1>2, ReleaseAssumption
  <1> QED
    BY <1>1, <1>2, <1>3

LEMMA RelInitially == ReleaseInit => RelInv
  <1> SUFFICES ASSUME ReleaseInit PROVE RelInv
    OBVIOUS
  <1> USE DEF ReleaseInit, NoImage, NoJob, Channels, Published, Offered
  <1>1. ReleaseTypeOK
    BY DEF ReleaseTypeOK, Image, Places, Job
  <1>2. KeptOK /\ PassedOK
    BY DEF KeptOK, PassedOK
  <1>3. JobOK
    BY DEF JobOK, PublishPoints, ImagePoints, ReleasePoints
  <1>4. TagsOK
    <2>1. ChannelOf \in [Builds -> Channels] /\ \A b \in Builds : b > 0 /\ b \in Nat
      BY ReleaseAssumption
    <2>2. N \in Packages
      BY CountIsNatural
    <2> QED
      BY <2>1, <2>2 DEF TagsOK
  <1> QED
    BY <1>1, <1>2, <1>3, <1>4 DEF RelInv

LEMMA BuildsAreNumbers ==
  \A b \in Builds : b \in Nat /\ b > 0 /\ ChannelOf[b] \in Channels
  BY ReleaseAssumption DEF Channels

\* A job that goes on keeps its name and its build.
LEMMA JobMoves ==
  ASSUME ReleaseTypeOK
  PROVE  /\ \A point : JobGoes(point) =>
              /\ job'.name = job.name /\ job'.build = job.build
              /\ job'.at = point /\ job'.package = 1
         /\ NextPackage =>
              /\ job'.name = job.name /\ job'.build = job.build
              /\ job'.at = job.at /\ job'.package = job.package + 1
  BY DEF ReleaseTypeOK, Job, JobGoes, NextPackage

\* The job whose steps are taken is one of a build.
LEMMA JobRuns ==
  ASSUME JobOK, job.at # "none"
  PROVE  job.build \in Builds /\ job # NoJob
  BY DEF JobOK, NoJob

LEMMA PairUpdated ==
  ASSUME NEW A, NEW B, NEW f \in [A -> [B -> Nat]], NEW a \in A, NEW b \in B, NEW v \in Nat,
         NEW g, g = [f EXCEPT ![a][b] = v]
  PROVE  /\ g \in [A -> [B -> Nat]]
         /\ \A x \in A, y \in B : g[x][y] = IF x = a /\ y = b THEN v ELSE f[x][y]
         /\ \A x \in A \ {a} : g[x] = f[x]
  OBVIOUS

\* What an upload publishes, and what the move of a dist-tag changes.
LEMMA UploadMeans ==
  ASSUME ReleaseTypeOK, JobOK, PublishOne
  PROVE  /\ job.build \in Builds /\ job.package \in Packages
         /\ npm' \in [Builds -> [Packages -> Nat]]
         /\ \A c \in Builds \ {job.build} : npm'[c] = npm[c]
         /\ \A p \in Packages :
              npm'[job.build][p] = IF p = job.package /\ npm[job.build][p] = 0
                                   THEN tarballs[job.build] ELSE npm[job.build][p]
  <1>1. job.build \in Builds /\ job.package \in Packages
    BY JobRuns DEF PublishOne, JobAt
  <1>2. npm \in [Builds -> [Packages -> Nat]] /\ tarballs[job.build] \in Nat
    BY <1>1 DEF ReleaseTypeOK
  <1>3. CASE npm[job.build][job.package] # 0
    <2>1. npm' = npm
      BY <1>3 DEF PublishOne
    <2> QED
      BY <1>1, <1>2, <1>3, <2>1
  <1>4. CASE npm[job.build][job.package] = 0
    <2>1. npm' = [npm EXCEPT ![job.build][job.package] = tarballs[job.build]]
      BY <1>4 DEF PublishOne
    <2> QED
      BY <1>1, <1>2, <1>4, <2>1, PairUpdated
  <1> QED
    BY <1>3, <1>4

LEMMA PromotionMeans ==
  ASSUME ReleaseTypeOK, JobOK, PromotePackage
  PROVE  /\ job.build \in Builds /\ job.package \in Packages
         /\ distTag' \in [Packages -> [Channels -> Nat]]
         /\ \A p \in Packages, c \in Channels :
              \/ distTag'[p][c] = distTag[p][c]
              \/ c = ChannelOf[job.build] /\ distTag'[p][c] = job.build
  <1>1. job.build \in Builds /\ job.package \in Packages
    BY JobRuns DEF PromotePackage, JobAt
  <1>2. distTag \in [Packages -> [Channels -> Nat]]
    BY DEF ReleaseTypeOK
  <1>3. job.build \in Nat /\ ChannelOf[job.build] \in Channels
    BY <1>1, BuildsAreNumbers
  <1>4. CASE distTag' = distTag
    BY <1>1, <1>2, <1>4
  <1>5. CASE distTag' = [distTag EXCEPT ![job.package][ChannelOf[job.build]] = job.build]
    BY <1>1, <1>2, <1>3, <1>5, PairUpdated
  <1> QED
    BY <1>4, <1>5 DEF PromotePackage

LEMMA ImageTagMeans ==
  ASSUME ReleaseTypeOK, JobOK, ImageTags
  PROVE  /\ job.build \in Builds
         /\ imageTag' \in [Channels -> Nat]
         /\ \A c \in Channels :
              \/ imageTag'[c] = imageTag[c]
              \/ /\ c = ChannelOf[job.build] /\ imageTag'[c] = job.build
                 /\ ~(imageTag[c] > job.build)
  <1>1. job.build \in Builds
    BY JobRuns DEF ImageTags, JobAt
  <1>2. imageTag \in [Channels -> Nat]
    BY DEF ReleaseTypeOK
  <1>3. job.build \in Nat /\ ChannelOf[job.build] \in Channels
    BY <1>1, BuildsAreNumbers
  <1>4. CASE imageTag' = imageTag
    BY <1>1, <1>2, <1>4
  <1>5. CASE /\ imageTag' = [imageTag EXCEPT ![ChannelOf[job.build]] = job.build]
             /\ ~(imageTag[ChannelOf[job.build]] > job.build)
    BY <1>1, <1>2, <1>3, <1>5
  <1> QED
    BY <1>4, <1>5 DEF ImageTags, IsNewer

LEMMA ReleaseTypeOKStep == RelInv /\ ReleaseNext => ReleaseTypeOK'
  <1> SUFFICES ASSUME RelInv, ReleaseNext PROVE ReleaseTypeOK'
    OBVIOUS
  <1> USE DEF ReleaseTypeOK, Channels
  <1>0. ReleaseTypeOK /\ JobOK /\ (job = NoJob \/ job.build \in Builds) /\ (job.at = "none" <=> job.name = "none")
    BY DEF RelInv, JobOK
  <1>1. ASSUME NEW b \in Builds, PackArtifacts(b) PROVE ReleaseTypeOK'
    <2>1. bytes' \in Nat /\ tarballs' \in [Builds -> Nat]
      BY <1>0, <1>1 DEF PackArtifacts
    <2>2. passed' \in [Builds -> SUBSET BuildJobs]
      BY <1>0, <1>1 DEF PackArtifacts, JobPasses, BuildJobs
    <2> QED
      BY <1>0, <1>1, <2>1, <2>2 DEF PackArtifacts, storesVars
  <1>2. ASSUME NEW b \in Builds, BuildImage(b) PROVE ReleaseTypeOK'
    <2>1. bytes' \in Nat
      BY <1>0, <1>2 DEF BuildImage
    <2>3. [bytes |-> bytes + 1, of |-> tarballs[b]] \in Image
      BY <1>0, <1>2 DEF Image
    <2>4. layout' \in [Builds -> Image]
      BY <1>0, <1>2, <2>3 DEF BuildImage
    <2>2. passed' \in [Builds -> SUBSET BuildJobs]
      BY <1>0, <1>2 DEF BuildImage, JobPasses, BuildJobs
    <2> QED
      BY <1>0, <1>2, <2>1, <2>2, <2>4 DEF BuildImage, storesVars
  <1>3. ASSUME NEW b \in Builds, LoseArtifacts(b) PROVE ReleaseTypeOK'
    <2>1. tarballs' = tarballs \/ tarballs' = [tarballs EXCEPT ![b] = 0]
      BY <1>3 DEF LoseArtifacts
    <2>2. layout' = layout \/ layout' = [layout EXCEPT ![b] = NoImage]
      BY <1>3 DEF LoseArtifacts
    <2>3. tarballs' \in [Builds -> Nat]
      BY <1>0, <2>1
    <2>4. NoImage \in Image
      BY DEF NoImage, Image
    <2>5. layout' \in [Builds -> Image]
      BY <1>0, <2>2, <2>4
    <2> QED
      BY <1>0, <1>3, <2>3, <2>5 DEF LoseArtifacts, storesVars
  <1>4. ASSUME NEW b \in Builds, RerunAll(b) PROVE ReleaseTypeOK'
    BY <1>0, <1>4 DEF RerunAll, CountEvent, storesVars, Job, PublishPoints, ImagePoints, ReleasePoints, NoJob
  <1>5. ASSUME NEW b \in Builds, RetargetTag(b) PROVE ReleaseTypeOK'
    BY <1>0, <1>5 DEF RetargetTag, CountEvent, storesVars, Job, PublishPoints, ImagePoints, ReleasePoints, NoJob
  <1>6. ASSUME NEW b \in Builds, NEW name \in {"publish", "image-publish", "github-release"}, StartJob(b, name) PROVE ReleaseTypeOK'
    BY <1>0, <1>6 DEF StartJob, CountEvent, JobNeeds, FirstStep, storesVars, Job, PublishPoints, ImagePoints, ReleasePoints, NoJob
  <1>7. CASE JobFails
    BY <1>0, <1>7 DEF JobFails, storesVars, Job, PublishPoints, ImagePoints, ReleasePoints, NoJob
  <1>8. CASE Preflight
    BY <1>0, <1>8 DEF Preflight, JobAt, JobGoes, KeepsRuns, storesVars, Job, PublishPoints, ImagePoints, ReleasePoints, NoJob
  <1>9. CASE PublishOne
    <2>1. npm' \in [Builds -> [Packages -> Nat]]
      BY <1>0, <1>9, UploadMeans
    <2>2. job.package + 1 \in Nat
      BY <1>0 DEF Job
    <2>3. job' = [job EXCEPT !.package = job.package + 1]
      BY <1>9 DEF PublishOne, NextPackage
    <2>4. job' \in Job
      BY <1>0, <2>2, <2>3 DEF Job
    <2> QED
      BY <1>0, <1>9, <2>1, <2>4 DEF PublishOne, KeepsRuns
  <1>10. CASE ReadTags
    BY <1>0, <1>10 DEF ReadTags, NewerExists, IsNewer, JobAt, JobGoes, KeepsRuns, storesVars, Job, PublishPoints, ImagePoints, ReleasePoints, NoJob
  <1>11. CASE PromotePackage
    <2>1. distTag' \in [Packages -> [Channels -> Nat]]
      BY <1>0, <1>11, PromotionMeans
    <2>2. job.package + 1 \in Nat
      BY <1>0 DEF Job
    <2>3. job' = [job EXCEPT !.package = job.package + 1]
      BY <1>11 DEF PromotePackage, NextPackage
    <2>4. job' \in Job
      BY <1>0, <2>2, <2>3 DEF Job
    <2> QED
      BY <1>0, <1>11, <2>1, <2>4 DEF PromotePackage, KeepsRuns
  <1>12. CASE EndPublish
    BY <1>0, <1>12 DEF EndPublish, EndJob, JobPasses, JobAt, storesVars, Job, PublishPoints, ImagePoints, ReleasePoints, NoJob, BuildJobs
  <1>13. CASE ImagePush
    BY <1>0, <1>13 DEF ImagePush, JobAt, JobGoes, KeepsRuns, Job, PublishPoints, ImagePoints, ReleasePoints, NoJob
  <1>14. CASE AttestImage
    BY <1>0, <1>14 DEF AttestImage, JobAt, KeepsRuns, Job, PublishPoints, ImagePoints, ReleasePoints, NoJob, Places
  <1>15. CASE VerifyAttestation
    BY <1>0, <1>15 DEF VerifyAttestation, JobAt, JobGoes, KeepsRuns, storesVars, Job, PublishPoints, ImagePoints, ReleasePoints, NoJob
  <1>16. CASE ImageTags
    <2>1. job.build \in Builds /\ job.build \in Nat /\ ChannelOf[job.build] \in Channels
      BY <1>0, <1>16, BuildsAreNumbers DEF ImageTags, JobAt, NoJob
    <2>2. imageTag' \in [Channels -> Nat]
      BY <1>0, <1>16, <2>1 DEF ImageTags
    <2>3. job' \in Job
      BY <1>0, <1>16, <2>1 DEF ImageTags, Job, JobGoes, NextPackage, JobAt, PublishPoints, ImagePoints, ReleasePoints
    <2> QED
      BY <1>0, <1>16, <2>2, <2>3 DEF ImageTags, KeepsRuns
  <1>17. CASE CheckAnonymousPull
    BY <1>0, <1>17 DEF CheckAnonymousPull, EndJob, JobPasses, JobAt, storesVars, Job, PublishPoints, ImagePoints, ReleasePoints, NoJob, BuildJobs
  <1>18. CASE CreateRelease
    <2>1. job.build \in Builds /\ job.build \in Nat /\ ChannelOf[job.build] \in Channels
      BY <1>0, <1>18, BuildsAreNumbers DEF CreateRelease, JobAt, NoJob
    <2>2. release' \in [Builds -> BOOLEAN] /\ latest' \in Nat
      BY <1>0, <1>18, <2>1 DEF CreateRelease
    <2>3. job' \in Job
      BY <1>0, <1>18, <2>1 DEF CreateRelease, Job, JobGoes, NextPackage, JobAt, PublishPoints, ImagePoints, ReleasePoints
    <2> QED
      BY <1>0, <1>18, <2>2, <2>3 DEF CreateRelease, KeepsRuns
  <1>19. CASE UploadAsset
    BY <1>0, <1>19 DEF UploadAsset, JobAt, KeepsRuns, Job, PublishPoints, ImagePoints, ReleasePoints, NoJob
  <1>20. CASE AssetsUploaded
    BY <1>0, <1>20 DEF AssetsUploaded, EndJob, JobPasses, JobAt, storesVars, Job, PublishPoints, ImagePoints, ReleasePoints, NoJob, BuildJobs
  <1> QED
    BY <1>1, <1>2, <1>3, <1>4, <1>5, <1>6, <1>7, <1>8, <1>9, <1>10, <1>11, <1>12, <1>13, <1>14, <1>15, <1>16, <1>17, <1>18, <1>19, <1>20 DEF ReleaseNext

LEMMA KeptOKStep == RelInv /\ ReleaseNext => KeptOK'
  <1> SUFFICES ASSUME RelInv, ReleaseNext PROVE KeptOK'
    OBVIOUS
  <1> USE DEF KeptOK
  <1>0. /\ ReleaseTypeOK /\ KeptOK /\ PassedOK /\ JobOK
    BY DEF RelInv
  <1>1. ASSUME NEW b \in Builds, PackArtifacts(b) PROVE KeptOK'
    BY <1>0, <1>1 DEF PackArtifacts, Unpublished, JobPasses, storesVars, ReleaseTypeOK
  <1>2. ASSUME NEW b \in Builds, BuildImage(b) PROVE KeptOK'
    <2>1. npm' = npm /\ image' = image
      BY <1>2 DEF BuildImage, storesVars
    <2>2. \/ layout' = layout
          \/ /\ \A p \in Packages : npm[b][p] = 0
             /\ \A c \in Builds \ {b} : layout'[c] = layout[c]
      BY <1>0, <1>2 DEF BuildImage, Unpublished, ReleaseTypeOK
    <2> QED
      BY <1>0, <2>1, <2>2
  <1>3. ASSUME NEW b \in Builds, LoseArtifacts(b) PROVE KeptOK'
    BY <1>0, <1>3 DEF LoseArtifacts, CountEvent, storesVars, ReleaseTypeOK
  <1>4. ASSUME NEW b \in Builds, RerunAll(b) PROVE KeptOK'
    BY <1>0, <1>4 DEF RerunAll, CountEvent, storesVars
  <1>5. ASSUME NEW b \in Builds, RetargetTag(b) PROVE KeptOK'
    BY <1>0, <1>5 DEF RetargetTag, CountEvent, storesVars
  <1>6. ASSUME NEW b \in Builds, NEW name \in {"publish", "image-publish", "github-release"}, StartJob(b, name) PROVE KeptOK'
    BY <1>0, <1>6 DEF StartJob, CountEvent, JobNeeds, FirstStep, storesVars
  <1>7. CASE JobFails
    BY <1>0, <1>7 DEF JobFails, storesVars
  <1>8. CASE Preflight
    BY <1>0, <1>8 DEF Preflight, JobAt, JobGoes, KeepsRuns, storesVars
  <1>9. CASE PublishOne
    <2> DEFINE build == job.build
    <2>1. build \in Builds /\ job.package \in Packages
      BY <1>0, <1>9, JobRuns DEF PublishOne, JobAt
    <2>2. /\ tarballs[build] # 0
          /\ layout[build] # NoImage => layout[build].of = tarballs[build]
      BY <1>0, <1>9, <2>1 DEF PublishOne, JobAt, JobOK, PassedOK, PublishPoints
    <2>3. \A p \in Packages : npm[build][p] \in {0, tarballs[build]}
      BY <1>0, <1>9 DEF PublishOne, JobAt, JobOK
    <2>4. /\ \A c \in Builds \ {build} : npm'[c] = npm[c]
          /\ \A p \in Packages :
               \/ npm'[build][p] = npm[build][p]
               \/ npm[build][p] = 0 /\ npm'[build][p] = tarballs[build]
      <3>1. \A c \in Builds \ {job.build} : npm'[c] = npm[c]
        BY <1>0, <1>9, UploadMeans
      <3>2. \A p \in Packages :
              npm'[job.build][p] = IF p = job.package /\ npm[job.build][p] = 0
                                   THEN tarballs[job.build] ELSE npm[job.build][p]
        BY <1>0, <1>9, UploadMeans
      <3> QED
        BY <3>1, <3>2
    <2>5. layout' = layout /\ image' = image
      BY <1>9 DEF PublishOne, KeepsRuns
    <2>6. image[build] # NoImage => \A p \in Packages : npm[build][p] # 0
      BY <1>0, <2>1
    <2> HIDE DEF build
    <2> QED
      BY <1>0, <2>1, <2>2, <2>3, <2>4, <2>5, <2>6
  <1>10. CASE ReadTags
    BY <1>0, <1>10 DEF ReadTags, NewerExists, IsNewer, JobAt, JobGoes, KeepsRuns, storesVars
  <1>11. CASE PromotePackage
    BY <1>0, <1>11 DEF PromotePackage, JobAt, NextPackage, KeepsRuns
  <1>12. CASE EndPublish
    BY <1>0, <1>12 DEF EndPublish, EndJob, JobPasses, JobAt, storesVars
  <1>13. CASE ImagePush
    <2> DEFINE build == job.build
    <2>1. build \in Builds
      BY <1>0, <1>13, JobRuns DEF ImagePush, JobAt
    <2>2. layout[build] # NoImage /\ Published(build)
      BY <1>0, <1>13 DEF ImagePush, JobAt, JobOK, ImagePoints
    <2>3. /\ \A c \in Builds \ {build} : image'[c] = image[c]
          /\ image'[build] = image[build] \/ image'[build] = layout[build]
      BY <1>0, <1>13, <2>1 DEF ImagePush, ReleaseTypeOK
    <2>4. layout' = layout /\ npm' = npm
      BY <1>13 DEF ImagePush, KeepsRuns
    <2> HIDE DEF build
    <2> QED
      BY <1>0, <2>1, <2>2, <2>3, <2>4 DEF Published
  <1>14. CASE AttestImage
    BY <1>0, <1>14 DEF AttestImage, JobAt, KeepsRuns
  <1>15. CASE VerifyAttestation
    BY <1>0, <1>15 DEF VerifyAttestation, JobAt, JobGoes, KeepsRuns, storesVars
  <1>16. CASE ImageTags
    BY <1>0, <1>16 DEF ImageTags, IsNewer, JobAt, JobGoes, KeepsRuns
  <1>17. CASE CheckAnonymousPull
    BY <1>0, <1>17 DEF CheckAnonymousPull, EndJob, JobPasses, JobAt, storesVars
  <1>18. CASE CreateRelease
    BY <1>0, <1>18 DEF CreateRelease, JobAt, JobGoes, KeepsRuns
  <1>19. CASE UploadAsset
    BY <1>0, <1>19 DEF UploadAsset, JobAt, KeepsRuns
  <1>20. CASE AssetsUploaded
    BY <1>0, <1>20 DEF AssetsUploaded, EndJob, JobPasses, JobAt, storesVars
  <1> QED
    BY <1>1, <1>2, <1>3, <1>4, <1>5, <1>6, <1>7, <1>8, <1>9, <1>10, <1>11, <1>12, <1>13, <1>14, <1>15, <1>16, <1>17, <1>18, <1>19, <1>20 DEF ReleaseNext

LEMMA PassedOKStep == RelInv /\ ReleaseNext => PassedOK'
  <1> SUFFICES ASSUME RelInv, ReleaseNext PROVE PassedOK'
    OBVIOUS
  <1> USE DEF PassedOK, Published, Offered
  <1>0. /\ ReleaseTypeOK /\ KeptOK /\ PassedOK /\ JobOK
    BY DEF RelInv
  <1>1. ASSUME NEW b \in Builds, PackArtifacts(b) PROVE PassedOK'
    BY <1>0, <1>1 DEF PackArtifacts, Unpublished, JobPasses, storesVars, ReleaseTypeOK
  <1>2. ASSUME NEW b \in Builds, BuildImage(b) PROVE PassedOK'
    BY <1>0, <1>2 DEF BuildImage, Unpublished, JobPasses, storesVars, ReleaseTypeOK
  <1>3. ASSUME NEW b \in Builds, LoseArtifacts(b) PROVE PassedOK'
    BY <1>0, <1>3 DEF LoseArtifacts, CountEvent, storesVars, ReleaseTypeOK
  <1>4. ASSUME NEW b \in Builds, RerunAll(b) PROVE PassedOK'
    BY <1>0, <1>4 DEF RerunAll, CountEvent, storesVars, ReleaseTypeOK
  <1>5. ASSUME NEW b \in Builds, RetargetTag(b) PROVE PassedOK'
    BY <1>0, <1>5 DEF RetargetTag, CountEvent, storesVars, ReleaseTypeOK
  <1>6. ASSUME NEW b \in Builds, NEW name \in {"publish", "image-publish", "github-release"}, StartJob(b, name) PROVE PassedOK'
    BY <1>0, <1>6 DEF StartJob, CountEvent, JobNeeds, FirstStep, storesVars
  <1>7. CASE JobFails
    BY <1>0, <1>7 DEF JobFails, storesVars
  <1>8. CASE Preflight
    BY <1>0, <1>8 DEF Preflight, JobAt, JobGoes, KeepsRuns, storesVars
  <1>9. CASE PublishOne
    <2>1. job.build \in Builds /\ tarballs[job.build] # 0
      BY <1>0, <1>9, JobRuns DEF PublishOne, JobAt, JobOK, PublishPoints
    <2>2. \A c \in Builds, p \in Packages : npm[c][p] # 0 => npm'[c][p] # 0
      <3>1. tarballs[job.build] # 0
        BY <2>1
      <3>2. \A p \in Packages : npm[job.build][p] # 0 => npm'[job.build][p] # 0
        BY <1>0, <1>9, <3>1, UploadMeans
      <3>3. \A c \in Builds \ {job.build} : npm'[c] = npm[c]
        BY <1>0, <1>9, UploadMeans
      <3> QED
        BY <3>2, <3>3
    <2>3. UNCHANGED <<passed, tarballs, layout, image, attested>>
      BY <1>9 DEF PublishOne, KeepsRuns
    <2> QED
      BY <1>0, <2>2, <2>3
  <1>10. CASE ReadTags
    BY <1>0, <1>10 DEF ReadTags, NewerExists, IsNewer, JobAt, JobGoes, KeepsRuns, storesVars
  <1>11. CASE PromotePackage
    BY <1>0, <1>11 DEF PromotePackage, JobAt, NextPackage, KeepsRuns
  <1>12. CASE EndPublish
    BY <1>0, <1>12 DEF EndPublish, EndJob, JobPasses, JobAt, storesVars, ReleaseTypeOK, JobOK, PublishPoints, ImagePoints, ReleasePoints, NoJob
  <1>13. CASE ImagePush
    BY <1>0, <1>13 DEF ImagePush, JobAt, JobGoes, KeepsRuns, ReleaseTypeOK, JobOK, PublishPoints, ImagePoints, ReleasePoints, NoJob
  <1>14. CASE AttestImage
    <2>1. \A c \in Builds : attested[c] = Places => attested'[c] = Places
      BY <1>0, <1>14 DEF AttestImage, ReleaseTypeOK, Places
    <2>2. UNCHANGED <<passed, tarballs, layout, image, npm>>
      BY <1>14 DEF AttestImage, KeepsRuns
    <2> QED
      BY <1>0, <2>1, <2>2
  <1>15. CASE VerifyAttestation
    BY <1>0, <1>15 DEF VerifyAttestation, JobAt, JobGoes, KeepsRuns, storesVars
  <1>16. CASE ImageTags
    BY <1>0, <1>16 DEF ImageTags, IsNewer, JobAt, JobGoes, KeepsRuns
  <1>17. CASE CheckAnonymousPull
    BY <1>0, <1>17 DEF CheckAnonymousPull, EndJob, JobPasses, JobAt, storesVars, ReleaseTypeOK, JobOK, PublishPoints, ImagePoints, ReleasePoints, NoJob
  <1>18. CASE CreateRelease
    BY <1>0, <1>18 DEF CreateRelease, JobAt, JobGoes, KeepsRuns
  <1>19. CASE UploadAsset
    BY <1>0, <1>19 DEF UploadAsset, JobAt, KeepsRuns
  <1>20. CASE AssetsUploaded
    BY <1>0, <1>20 DEF AssetsUploaded, EndJob, JobPasses, JobAt, storesVars, ReleaseTypeOK, JobOK, PublishPoints, ImagePoints, ReleasePoints, NoJob
  <1> QED
    BY <1>1, <1>2, <1>3, <1>4, <1>5, <1>6, <1>7, <1>8, <1>9, <1>10, <1>11, <1>12, <1>13, <1>14, <1>15, <1>16, <1>17, <1>18, <1>19, <1>20 DEF ReleaseNext

LEMMA JobOKStep == RelInv /\ ReleaseNext => JobOK'
  <1> SUFFICES ASSUME RelInv, ReleaseNext PROVE JobOK'
    OBVIOUS
  <1> USE DEF JobOK, Published, Offered, PublishPoints, ImagePoints, ReleasePoints, NoJob
  <1>0. /\ ReleaseTypeOK /\ KeptOK /\ PassedOK /\ JobOK
    BY DEF RelInv
  <1>1. ASSUME NEW b \in Builds, PackArtifacts(b) PROVE JobOK'
    BY <1>0, <1>1 DEF PackArtifacts, Unpublished, JobPasses, storesVars, ReleaseTypeOK, Job
  <1>2. ASSUME NEW b \in Builds, BuildImage(b) PROVE JobOK'
    BY <1>0, <1>2 DEF BuildImage, Unpublished, JobPasses, storesVars, ReleaseTypeOK, Job
  <1>3. ASSUME NEW b \in Builds, LoseArtifacts(b) PROVE JobOK'
    BY <1>0, <1>3 DEF LoseArtifacts, CountEvent, storesVars, ReleaseTypeOK, Job
  <1>4. ASSUME NEW b \in Builds, RerunAll(b) PROVE JobOK'
    BY <1>0, <1>4 DEF RerunAll, CountEvent, storesVars, ReleaseTypeOK, Job
  <1>5. ASSUME NEW b \in Builds, RetargetTag(b) PROVE JobOK'
    BY <1>0, <1>5 DEF RetargetTag, CountEvent, storesVars, ReleaseTypeOK, Job
  <1>6. ASSUME NEW b \in Builds, NEW name \in {"publish", "image-publish", "github-release"}, StartJob(b, name) PROVE JobOK'
    <2>1. job' = [name |-> name, build |-> b, at |-> FirstStep(name), package |-> 1]
      BY <1>6 DEF StartJob
    <2>2. /\ JobNeeds(name) \subseteq passed[b]
          /\ name # "image-publish" => tarballs[b] # 0
          /\ name # "publish" => layout[b] # NoImage
          /\ UNCHANGED <<tarballs, layout, npm, distTag, image, attested, passed>>
      BY <1>6 DEF StartJob, storesVars
    <2>3. 1 \in 1 .. N + 1
      BY CountIsNatural
    <2>4. CASE name = "publish"
      BY <1>0, <2>1, <2>2, <2>3, <2>4 DEF JobNeeds, FirstStep
    <2>5. CASE name = "image-publish"
      BY <1>0, <2>1, <2>2, <2>3, <2>5 DEF JobNeeds, FirstStep, PassedOK
    <2>6. CASE name = "github-release"
      BY <1>0, <2>1, <2>2, <2>3, <2>6 DEF JobNeeds, FirstStep, PassedOK
    <2> QED
      BY <2>4, <2>5, <2>6
  <1>7. CASE JobFails
    BY <1>0, <1>7 DEF JobFails, storesVars, ReleaseTypeOK, Job
  <1>8. CASE Preflight
    <2>1. job.build \in Builds /\ job # NoJob /\ 1 \in 1 .. N + 1
      BY <1>0, <1>8, JobRuns, CountIsNatural DEF Preflight, JobAt
    <2>2. job'.name = job.name /\ job'.build = job.build /\ job'.package = 1
      BY <1>0, <1>8, JobMoves DEF Preflight
    <2>3. job'.at = "upload"
      BY <1>0, <1>8, JobMoves DEF Preflight
    <2>4. \A p \in Packages : ~(p < 1)
      BY CountIsNatural
    <2> QED
      BY <1>0, <1>8, <2>1, <2>2, <2>3, <2>4 DEF Preflight, JobAt, KeepsRuns, storesVars
  <1>9. CASE PublishOne
    <2>1. job.build \in Builds /\ job # NoJob /\ job.package \in Packages
      BY <1>0, <1>9, JobRuns DEF PublishOne, JobAt
    <2>2. /\ job'.name = job.name /\ job'.build = job.build
          /\ job'.at = "upload" /\ job'.package = job.package + 1
      BY <1>0, <1>9, JobMoves DEF PublishOne, JobAt
    <2>3. tarballs[job.build] # 0 /\ \A p \in Packages : npm[job.build][p] \in {0, tarballs[job.build]}
      BY <1>0, <1>9 DEF PublishOne, JobAt
    <2>4. \A p \in Packages :
            npm'[job.build][p] = IF p = job.package /\ npm[job.build][p] = 0
                                 THEN tarballs[job.build] ELSE npm[job.build][p]
      BY <1>0, <1>9, UploadMeans
    <2>5. \A p \in Packages : p < job.package + 1 => p < job.package \/ p = job.package
      BY <2>1, CountIsNatural
    <2>6. job.package + 1 \in 1 .. N + 1
      BY <2>1, CountIsNatural
    <2>7. \A p \in Packages : p < job'.package => npm'[job.build][p] # 0
      BY <1>0, <1>9, <2>2, <2>3, <2>4, <2>5 DEF PublishOne, JobAt
    <2>8. UNCHANGED <<tarballs, passed, layout>>
      BY <1>9 DEF PublishOne, KeepsRuns
    <2> QED
      BY <1>0, <1>9, <2>1, <2>2, <2>3, <2>4, <2>6, <2>7, <2>8 DEF PublishOne, JobAt
  <1>10. CASE ReadTags
    <2>1. job.build \in Builds /\ job # NoJob /\ 1 \in 1 .. N + 1
      BY <1>0, <1>10, JobRuns, CountIsNatural DEF ReadTags, JobAt
    <2>2. job'.name = job.name /\ job'.build = job.build /\ job'.package = 1
      BY <1>0, <1>10, JobMoves DEF ReadTags
    <2>3. \/ job'.at = "staging"
          \/ job'.at = "promote" /\ ~\E p \in Packages : distTag[p][ChannelOf[job.build]] > job.build
      <3>1. CASE NewerExists(job.build)
        <4>1. JobGoes("staging")
          BY <1>10, <3>1 DEF ReadTags
        <4> QED
          BY <1>0, <4>1, JobMoves
      <3>2. CASE ~NewerExists(job.build)
        <4>1. JobGoes("promote")
          BY <1>10, <3>2 DEF ReadTags
        <4>2. job'.at = "promote"
          BY <1>0, <4>1, JobMoves
        <4> QED
          BY <3>2, <4>2 DEF NewerExists, IsNewer
      <3> QED
        BY <3>1, <3>2
    <2>4. job'.at = "promote" => \A p \in Packages : distTag[p][ChannelOf[job.build]] <= job.build
      BY <1>0, <2>1, <2>3, BuildsAreNumbers DEF ReleaseTypeOK
    <2>5. \A p \in Packages : p < job.package
      BY <1>0, <1>10, <2>1, CountIsNatural DEF ReadTags
    <2>6. Published(job.build)
      BY <1>0, <1>10, <2>5 DEF ReadTags, JobAt
    <2> QED
      BY <1>0, <1>10, <2>1, <2>2, <2>3, <2>4, <2>6 DEF ReadTags, JobAt, KeepsRuns, storesVars
  <1>11. CASE PromotePackage
    <2>1. job.build \in Builds /\ job # NoJob /\ job.package \in Packages
      BY <1>0, <1>11, JobRuns DEF PromotePackage, JobAt
    <2>2. /\ job'.name = job.name /\ job'.build = job.build
          /\ job'.at = "promote" /\ job'.package = job.package + 1
      BY <1>0, <1>11, JobMoves DEF PromotePackage, JobAt
    <2>3. job.package + 1 \in 1 .. N + 1
      BY <2>1, CountIsNatural
    <2>4. \A p \in Packages :
            \/ distTag'[p][ChannelOf[job.build]] = distTag[p][ChannelOf[job.build]]
            \/ distTag'[p][ChannelOf[job.build]] = job.build
      BY <1>0, <1>11, BuildsAreNumbers, PromotionMeans
    <2>5. \A p \in Packages : distTag'[p][ChannelOf[job.build]] <= job.build
      BY <1>0, <1>11, <2>1, <2>4, BuildsAreNumbers DEF PromotePackage, JobAt
    <2>6. UNCHANGED <<tarballs, passed, layout, npm>>
      BY <1>11 DEF PromotePackage, KeepsRuns
    <2> QED
      BY <1>0, <1>11, <2>1, <2>2, <2>3, <2>5, <2>6 DEF PromotePackage, JobAt
  <1>12. CASE EndPublish
    BY <1>0, <1>12 DEF EndPublish, EndJob, JobPasses, JobAt, storesVars, ReleaseTypeOK, Job
  <1>13. CASE ImagePush
    <2>1. job.build \in Builds /\ job # NoJob /\ 1 \in 1 .. N + 1
      BY <1>0, <1>13, JobRuns, CountIsNatural DEF ImagePush, JobAt
    <2>2. job'.name = job.name /\ job'.build = job.build /\ job'.package = 1
      BY <1>0, <1>13, JobMoves DEF ImagePush
    <2>3. job'.at = "attest"
      BY <1>0, <1>13, JobMoves DEF ImagePush
    <2>4. layout[job.build] # NoImage /\ image'[job.build] # NoImage
      BY <1>0, <1>13, <2>1 DEF ImagePush, JobAt, ReleaseTypeOK
    <2> QED
      BY <1>0, <1>13, <2>1, <2>2, <2>3, <2>4 DEF ImagePush, JobAt, KeepsRuns
  <1>14. CASE AttestImage
    BY <1>0, <1>14 DEF AttestImage, JobAt, KeepsRuns, ReleaseTypeOK, Job
  <1>15. CASE VerifyAttestation
    <2>1. job.build \in Builds /\ job # NoJob /\ 1 \in 1 .. N + 1
      BY <1>0, <1>15, JobRuns, CountIsNatural DEF VerifyAttestation, JobAt
    <2>2. job'.name = job.name /\ job'.build = job.build /\ job'.package = 1
      BY <1>0, <1>15, JobMoves DEF VerifyAttestation
    <2>3. job'.at = "tag"
      BY <1>0, <1>15, JobMoves DEF VerifyAttestation
    <2> QED
      BY <1>0, <1>15, <2>1, <2>2, <2>3 DEF VerifyAttestation, JobAt, KeepsRuns, Places, storesVars
  <1>16. CASE ImageTags
    <2>1. job.build \in Builds /\ job # NoJob /\ 1 \in 1 .. N + 1
      BY <1>0, <1>16, JobRuns, CountIsNatural DEF ImageTags, JobAt
    <2>2. job'.name = job.name /\ job'.build = job.build /\ job'.package = 1
      BY <1>0, <1>16, JobMoves DEF ImageTags
    <2>3. job'.at = "pull"
      BY <1>0, <1>16, JobMoves DEF ImageTags
    <2> QED
      BY <1>0, <1>16, <2>1, <2>2, <2>3 DEF ImageTags, JobAt, KeepsRuns
  <1>17. CASE CheckAnonymousPull
    BY <1>0, <1>17 DEF CheckAnonymousPull, EndJob, JobPasses, JobAt, storesVars, ReleaseTypeOK, Job
  <1>18. CASE CreateRelease
    <2>1. job.build \in Builds /\ job # NoJob /\ 1 \in 1 .. N + 1
      BY <1>0, <1>18, JobRuns, CountIsNatural DEF CreateRelease, JobAt
    <2>2. job'.name = job.name /\ job'.build = job.build /\ job'.package = 1
      BY <1>0, <1>18, JobMoves DEF CreateRelease
    <2>3. job'.at = "assets"
      BY <1>0, <1>18, JobMoves DEF CreateRelease
    <2> QED
      BY <1>0, <1>18, <2>1, <2>2, <2>3 DEF CreateRelease, JobAt, KeepsRuns
  <1>19. CASE UploadAsset
    BY <1>0, <1>19 DEF UploadAsset, JobAt, KeepsRuns, ReleaseTypeOK, Job
  <1>20. CASE AssetsUploaded
    BY <1>0, <1>20 DEF AssetsUploaded, EndJob, JobPasses, JobAt, storesVars, ReleaseTypeOK, Job
  <1> QED
    BY <1>1, <1>2, <1>3, <1>4, <1>5, <1>6, <1>7, <1>8, <1>9, <1>10, <1>11, <1>12, <1>13, <1>14, <1>15, <1>16, <1>17, <1>18, <1>19, <1>20 DEF ReleaseNext

LEMMA TagsOKStep == RelInv /\ ReleaseNext => TagsOK'
  <1> SUFFICES ASSUME RelInv, ReleaseNext PROVE TagsOK'
    OBVIOUS
  <1> USE DEF TagsOK, Published, Offered
  <1>0. /\ ReleaseTypeOK /\ KeptOK /\ TagsOK /\ JobOK
    BY DEF RelInv
  <1>1. ASSUME NEW b \in Builds, PackArtifacts(b) PROVE TagsOK'
    BY <1>0, <1>1 DEF PackArtifacts, Unpublished, JobPasses, storesVars
  <1>2. ASSUME NEW b \in Builds, BuildImage(b) PROVE TagsOK'
    BY <1>0, <1>2 DEF BuildImage, Unpublished, JobPasses, storesVars
  <1>3. ASSUME NEW b \in Builds, LoseArtifacts(b) PROVE TagsOK'
    BY <1>0, <1>3 DEF LoseArtifacts, CountEvent, storesVars
  <1>4. ASSUME NEW b \in Builds, RerunAll(b) PROVE TagsOK'
    BY <1>0, <1>4 DEF RerunAll, CountEvent, storesVars
  <1>5. ASSUME NEW b \in Builds, RetargetTag(b) PROVE TagsOK'
    BY <1>0, <1>5 DEF RetargetTag, CountEvent, storesVars
  <1>6. ASSUME NEW b \in Builds, NEW name \in {"publish", "image-publish", "github-release"}, StartJob(b, name) PROVE TagsOK'
    BY <1>0, <1>6 DEF StartJob, CountEvent, JobNeeds, FirstStep, storesVars
  <1>7. CASE JobFails
    BY <1>0, <1>7 DEF JobFails, storesVars
  <1>8. CASE Preflight
    BY <1>0, <1>8 DEF Preflight, JobAt, JobGoes, KeepsRuns, storesVars
  <1>9. CASE PublishOne
    <2>1. job.build \in Builds /\ tarballs[job.build] # 0
      BY <1>0, <1>9, JobRuns DEF PublishOne, JobAt, JobOK, PublishPoints
    <2>2. \A c \in Builds, p \in Packages : npm[c][p] # 0 => npm'[c][p] # 0
      <3>1. tarballs[job.build] # 0
        BY <2>1
      <3>2. \A p \in Packages : npm[job.build][p] # 0 => npm'[job.build][p] # 0
        BY <1>0, <1>9, <3>1, UploadMeans
      <3>3. \A c \in Builds \ {job.build} : npm'[c] = npm[c]
        BY <1>0, <1>9, UploadMeans
      <3> QED
        BY <3>2, <3>3
    <2>3. UNCHANGED <<distTag, imageTag, release, latest, image, attested>>
      BY <1>9 DEF PublishOne
    <2> QED
      BY <1>0, <2>2, <2>3
  <1>10. CASE ReadTags
    BY <1>0, <1>10 DEF ReadTags, NewerExists, IsNewer, JobAt, JobGoes, KeepsRuns, storesVars
  <1>11. CASE PromotePackage
    <2>1. job.build \in Builds /\ Published(job.build) /\ job.package \in Packages
      BY <1>0, <1>11, JobRuns DEF PromotePackage, JobAt, JobOK
    <2>2. \A p \in Packages, c \in Channels :
            \/ distTag'[p][c] = distTag[p][c]
            \/ c = ChannelOf[job.build] /\ distTag'[p][c] = job.build
      BY <1>0, <1>11, PromotionMeans
    <2>3. UNCHANGED <<npm, imageTag, release, latest, image, attested>>
      BY <1>11 DEF PromotePackage
    <2>4. \A b \in Builds : (\E p \in Packages : distTag'[p][ChannelOf[b]] = b) => Published(b)
      BY <1>0, <2>1, <2>2, BuildsAreNumbers
    <2>5. distTag[N]["latest"] \in Nat /\ distTag'[N]["latest"] >= distTag[N]["latest"]
      <3>1. \A p \in Packages : distTag[p][ChannelOf[job.build]] <= job.build
        BY <1>0, <1>11 DEF JobOK, PromotePackage, JobAt
      <3>2. distTag[N]["latest"] \in Nat
        BY <1>0, CountIsNatural DEF ReleaseTypeOK, Channels
      <3>3. \/ distTag'[N]["latest"] = distTag[N]["latest"]
            \/ ChannelOf[job.build] = "latest" /\ distTag'[N]["latest"] = job.build
        <4>1. N \in Packages /\ "latest" \in Channels
          BY CountIsNatural DEF Channels
        <4> QED
          BY <2>2, <4>1
      <3> QED
        BY <2>1, <3>1, <3>2, <3>3, BuildsAreNumbers, CountIsNatural
    <2>6. latest' <= distTag'[N]["latest"]
      <3>1. latest \in Nat /\ latest <= distTag[N]["latest"] /\ latest' = latest
        BY <1>0, <2>3 DEF ReleaseTypeOK
      <3>2. distTag'[N]["latest"] \in Nat
        BY <1>0, <1>11, PromotionMeans, CountIsNatural DEF Channels
      <3> QED
        BY <2>5, <3>1, <3>2
    <2> QED
      BY <1>0, <2>3, <2>4, <2>6
  <1>12. CASE EndPublish
    BY <1>0, <1>12 DEF EndPublish, EndJob, JobPasses, JobAt, storesVars
  <1>13. CASE ImagePush
    BY <1>0, <1>13 DEF ImagePush, JobAt, JobGoes, KeepsRuns, ReleaseTypeOK, JobOK, PublishPoints, ImagePoints, ReleasePoints, NoJob
  <1>14. CASE AttestImage
    <2>1. \A c \in Builds : attested[c] = Places => attested'[c] = Places
      BY <1>0, <1>14 DEF AttestImage, ReleaseTypeOK, Places
    <2>2. UNCHANGED <<distTag, imageTag, release, latest, image, npm>>
      BY <1>14 DEF AttestImage
    <2> QED
      BY <1>0, <2>1, <2>2
  <1>15. CASE VerifyAttestation
    BY <1>0, <1>15 DEF VerifyAttestation, JobAt, JobGoes, KeepsRuns, storesVars
  <1>16. CASE ImageTags
    <2>1. job.build \in Builds /\ Offered(job.build)
      BY <1>0, <1>16, JobRuns DEF ImageTags, JobAt, JobOK
    <2>2. \A c \in Channels :
            \/ imageTag'[c] = imageTag[c]
            \/ c = ChannelOf[job.build] /\ imageTag'[c] = job.build
      <3>1. ReleaseTypeOK /\ JobOK /\ ImageTags
        BY <1>0, <1>16
      <3> QED
        BY <3>1, ImageTagMeans
    <2>3. UNCHANGED <<npm, distTag, release, latest, image, attested>>
      BY <1>16 DEF ImageTags
    <2> QED
      BY <1>0, <2>1, <2>2, <2>3, BuildsAreNumbers
  <1>17. CASE CheckAnonymousPull
    BY <1>0, <1>17 DEF CheckAnonymousPull, EndJob, JobPasses, JobAt, storesVars
  <1>18. CASE CreateRelease
    <2>1. job.build \in Builds /\ Offered(job.build)
      BY <1>0, <1>18, JobRuns DEF CreateRelease, JobAt, JobOK, ReleasePoints
    <2>2. \A b \in Builds : release'[b] => release[b] \/ b = job.build
      BY <1>0, <1>18, <2>1 DEF CreateRelease, ReleaseTypeOK
    <2>3. UNCHANGED <<npm, distTag, imageTag, image, attested>>
      BY <1>18 DEF CreateRelease
    <2>4. latest' = latest \/ latest' = distTag[N]["latest"]
      BY <1>18 DEF CreateRelease, N
    <2>5. distTag[N]["latest"] \in Nat
      BY <1>0, CountIsNatural DEF ReleaseTypeOK, Channels
    <2> QED
      BY <1>0, <2>1, <2>2, <2>3, <2>4, <2>5
  <1>19. CASE UploadAsset
    BY <1>0, <1>19 DEF UploadAsset, JobAt, KeepsRuns
  <1>20. CASE AssetsUploaded
    BY <1>0, <1>20 DEF AssetsUploaded, EndJob, JobPasses, JobAt, storesVars
  <1> QED
    BY <1>1, <1>2, <1>3, <1>4, <1>5, <1>6, <1>7, <1>8, <1>9, <1>10, <1>11, <1>12, <1>13, <1>14, <1>15, <1>16, <1>17, <1>18, <1>19, <1>20 DEF ReleaseNext

LEMMA RelStutter == RelInv /\ UNCHANGED releaseVars => RelInv'
  <1> SUFFICES ASSUME RelInv, UNCHANGED releaseVars PROVE RelInv'
    OBVIOUS
  <1>1. UNCHANGED <<bytes, tarballs, layout, npm, distTag, image, attested, imageTag,
                    release, latest, passed, job>>
    BY DEF releaseVars
  <1>2. ReleaseTypeOK'
    BY <1>1 DEF RelInv, ReleaseTypeOK
  <1>3. KeptOK' /\ PassedOK'
    BY <1>1 DEF RelInv, KeptOK, PassedOK, Published, Offered
  <1>4. JobOK' /\ TagsOK'
    BY <1>1 DEF RelInv, JobOK, TagsOK, Published, Offered
  <1> QED
    BY <1>2, <1>3, <1>4 DEF RelInv

LEMMA ReleaseInvariance == ReleaseSpec => []RelInv
  <1>1. RelInv /\ [ReleaseNext]_releaseVars => RelInv'
    BY ReleaseTypeOKStep, KeptOKStep, PassedOKStep, JobOKStep, TagsOKStep, RelStutter DEF RelInv
  <1> QED
    BY <1>1, RelInitially, PTL DEF ReleaseSpec

\* Everything anyone finds under a version was built once, and what a shared
\* tag names is there in full (publish(), imagePush() and release() of
\* scripts/release.mts).
THEOREM VersionsAreWhole == ReleaseSpec => []BuildsAreWhole
  <1>1. RelInv => BuildsAreWhole
    BY DEF RelInv, KeptOK, TagsOK, BuildsAreWhole, Offered, Places
  <1> QED
    BY <1>1, ReleaseInvariance, PTL

\* No tag others follow is moved back to an older build.
THEOREM ChannelsAdvance == ReleaseSpec => ChannelsNeverGoBack
  <1> DEFINE Advance == /\ \A p \in Packages, c \in Channels : distTag'[p][c] >= distTag[p][c]
                        /\ \A c \in Channels : imageTag'[c] >= imageTag[c]
                        /\ latest' >= latest
  <1>1. RelInv /\ [ReleaseNext]_releaseVars => Advance
    <2> SUFFICES ASSUME RelInv, [ReleaseNext]_releaseVars PROVE Advance
      OBVIOUS
    <2>1. ReleaseTypeOK /\ JobOK /\ TagsOK
      BY DEF RelInv
    <2>2. /\ \A p \in Packages, c \in Channels : distTag[p][c] \in Nat
          /\ \A c \in Channels : imageTag[c] \in Nat
          /\ latest \in Nat
      BY <2>1 DEF ReleaseTypeOK
    <2>3. CASE UNCHANGED <<distTag, imageTag, latest>>
      BY <2>2, <2>3
    <2>4. CASE PromotePackage
      <3>1. \A p \in Packages, c \in Channels :
              \/ distTag'[p][c] = distTag[p][c]
              \/ c = ChannelOf[job.build] /\ distTag'[p][c] = job.build
        BY <2>1, <2>4, PromotionMeans
      <3>2. job.build \in Nat
        BY <2>1, <2>4, PromotionMeans, BuildsAreNumbers
      <3>3. \A p \in Packages : distTag[p][ChannelOf[job.build]] <= job.build
        BY <2>1, <2>4 DEF JobOK, PromotePackage, JobAt
      <3>4. imageTag' = imageTag /\ latest' = latest
        BY <2>4 DEF PromotePackage
      <3> QED
        BY <2>2, <3>1, <3>2, <3>3, <3>4
    <2>5. CASE ImageTags
      <3>1. job.build \in Nat
        BY <2>1, <2>5, ImageTagMeans, BuildsAreNumbers
      <3>2. \A c \in Channels : imageTag'[c] >= imageTag[c]
        BY <2>1, <2>2, <2>5, <3>1, ImageTagMeans
      <3>3. distTag' = distTag /\ latest' = latest
        BY <2>5 DEF ImageTags
      <3> QED
        BY <2>2, <3>2, <3>3
    <2>6. CASE CreateRelease
      <3>1. latest' = latest \/ latest' = distTag[N]["latest"]
        BY <2>6 DEF CreateRelease, N
      <3>2. latest <= distTag[N]["latest"] /\ distTag[N]["latest"] \in Nat
        BY <2>1, CountIsNatural DEF TagsOK, ReleaseTypeOK, Channels
      <3>3. distTag' = distTag /\ imageTag' = imageTag
        BY <2>6 DEF CreateRelease
      <3> QED
        BY <2>2, <3>1, <3>2, <3>3
    <2>7. CASE /\ ReleaseNext
               /\ ~PromotePackage /\ ~ImageTags /\ ~CreateRelease
      BY <2>3, <2>7 DEF ReleaseNext, storesVars, PackArtifacts, BuildImage, LoseArtifacts,
         RerunAll, RetargetTag, StartJob, JobFails, Preflight, PublishOne, ReadTags, EndPublish,
         ImagePush, AttestImage, VerifyAttestation, CheckAnonymousPull, UploadAsset,
         AssetsUploaded
    <2> QED
      BY <2>3, <2>4, <2>5, <2>6, <2>7 DEF releaseVars
  <1>2. RelInv /\ [ReleaseNext]_releaseVars => [Advance]_releaseVars
    BY <1>1
  <1> HIDE DEF Advance
  <1>3. [][Advance]_releaseVars => ChannelsNeverGoBack
    BY DEF Advance, ChannelsNeverGoBack
  <1> QED
    BY <1>2, <1>3, ReleaseInvariance, PTL DEF ReleaseSpec

-----------------------------------------------------------------------------
(***************************************************************************)
(* DocsDeployment.  What the site serves is told by the newest record that  *)
(* was not settled as inactive, ServedOK, once a job has settled all later  *)
(* ones; so a job that goes on has a build no older, DocsJobOK.             *)
(***************************************************************************)
RecordStates == {"created", "in_progress", "success", "inactive"}
DocsPoints == {"none", "settle", "intent", "progress", "upload", "record"}

DocsShapeOK ==
  /\ docsSite \in DocsBuilds \union {0}
  /\ deployments \in Seq([build : DocsBuilds, state : RecordStates])
  /\ docsJob \in [at : DocsPoints, build : DocsBuilds \union {0}, record : Nat]
  /\ docsJob.at # "none" => docsJob.build \in DocsBuilds

\* Record i may be what the site serves, and no later one is known to be.
Serves(i, site, records) ==
  /\ records[i].build = site
  /\ records[i].state # "inactive"
  /\ \A j \in DOMAIN records : j > i => records[j].state # "success"

ServedOK == docsSite # 0 =>
              \E i \in DOMAIN deployments : Serves(i, docsSite, deployments)

DocsJobOK ==
  /\ docsJob.at = "settle" =>
       /\ docsJob.record <= Len(deployments)
       /\ \A j \in DOMAIN deployments :
            j > docsJob.record => deployments[j].state = "inactive"
  /\ docsJob.at \in {"intent", "progress", "upload"} => docsSite <= docsJob.build
  /\ docsJob.at \in {"progress", "upload", "record"} =>
       /\ docsJob.record = Len(deployments)
       /\ docsJob.record \in DOMAIN deployments
       /\ deployments[docsJob.record].build = docsJob.build
       /\ deployments[docsJob.record].state \in {"created", "in_progress"}
  /\ docsJob.at = "record" => docsSite = docsJob.build

DocsInv == DocsShapeOK /\ ServedOK /\ DocsJobOK

LEMMA DocsInitially == DocsInit => DocsInv
  BY DEF DocsInit, DocsInv, DocsShapeOK, ServedOK, DocsJobOK, NoDocsJob, DocsPoints

LEMMA RecordShape ==
  ASSUME DocsShapeOK, NEW i \in DOMAIN deployments
  PROVE  /\ deployments[i] \in [build : DocsBuilds, state : RecordStates]
         /\ deployments[i].build \in DocsBuilds /\ deployments[i].state \in RecordStates
  <1> DEFINE Entry == [build : DocsBuilds, state : RecordStates]
  <1>1. deployments \in Seq(Entry)
    BY DEF DocsShapeOK
  <1>2. i \in 1 .. Len(deployments)
    BY <1>1
  <1>3. deployments[i] \in Entry
    <2> HIDE DEF Entry
    <2> QED
      BY <1>1, <1>2, ElementOfSeq
  <1> QED
    BY <1>3

\* The status of a record changes, and nothing else of the list.
LEMMA RecordUpdated ==
  ASSUME DocsShapeOK, NEW i \in DOMAIN deployments, NEW state \in RecordStates,
         deployments' = [deployments EXCEPT ![i].state = state]
  PROVE  /\ deployments' \in Seq([build : DocsBuilds, state : RecordStates])
         /\ Len(deployments') = Len(deployments) /\ DOMAIN deployments' = DOMAIN deployments
         /\ \A j \in DOMAIN deployments :
              /\ deployments'[j].build = deployments[j].build
              /\ deployments'[j].state = IF j = i THEN state ELSE deployments[j].state
  <1> DEFINE Entry == [build : DocsBuilds, state : RecordStates]
  <1>1. deployments \in Seq(Entry) /\ deployments[i] \in Entry
    BY RecordShape DEF DocsShapeOK
  <1>2. [deployments[i] EXCEPT !.state = state] \in Entry
    BY <1>1
  <1>3. deployments' = [deployments EXCEPT ![i] = [deployments[i] EXCEPT !.state = state]]
    OBVIOUS
  <1>4. \A j \in DOMAIN deployments :
          deployments'[j] = IF j = i THEN [deployments[i] EXCEPT !.state = state] ELSE deployments[j]
    BY <1>1, <1>3
  <1>5. deployments' \in Seq(Entry) /\ Len(deployments') = Len(deployments) /\ DOMAIN deployments' = DOMAIN deployments
    <2> HIDE DEF Entry
    <2> QED
      BY <1>1, <1>2, <1>3
  <1> QED
    BY <1>1, <1>4, <1>5

LEMMA RecordAdded ==
  ASSUME DocsShapeOK, NEW b \in DocsBuilds,
         deployments' = Append(deployments, [build |-> b, state |-> "created"])
  PROVE  /\ deployments' \in Seq([build : DocsBuilds, state : RecordStates])
         /\ Len(deployments') = Len(deployments) + 1
         /\ DOMAIN deployments' = DOMAIN deployments \union {Len(deployments) + 1}
         /\ \A j \in DOMAIN deployments : deployments'[j] = deployments[j]
         /\ deployments'[Len(deployments) + 1] = [build |-> b, state |-> "created"]
  <1>1. deployments \in Seq([build : DocsBuilds, state : RecordStates])
    BY DEF DocsShapeOK
  <1>2. [build |-> b, state |-> "created"] \in [build : DocsBuilds, state : RecordStates]
    BY DEF RecordStates
  <1> QED
    BY <1>1, <1>2

\* What a job about to look at a record learns of it.
LEMMA SettlingMeans ==
  ASSUME DocsInv, SettleRecord
  PROVE  LET r == docsJob.record
             state == Settled(deployments[r].state)
         IN /\ r \in DOMAIN deployments /\ r \in Nat
            /\ state \in {"success", "inactive"}
            /\ deployments' = [deployments EXCEPT ![r].state = state]
            /\ state = "success" => docsSite \in {0, deployments[r].build}
            /\ \A i \in DOMAIN deployments : Serves(i, docsSite, deployments) =>
                 i < r \/ (i = r /\ state = "success")
            /\ \A i \in DOMAIN deployments : Serves(i, docsSite, deployments) /\ i < r =>
                 deployments[r].state # "success"
  <1> DEFINE r == docsJob.record
             state == Settled(deployments[r].state)
  <1>1. r \in Nat /\ r > 0 /\ r <= Len(deployments) /\ docsJob.at = "settle"
    BY DEF DocsInv, DocsShapeOK, DocsJobOK, SettleRecord, DocsAt
  <1>2. DOMAIN deployments = 1 .. Len(deployments) /\ Len(deployments) \in Nat
    BY DEF DocsInv, DocsShapeOK
  <1>3. r \in DOMAIN deployments
    BY <1>1, <1>2
  <1>4. deployments[r].state \in RecordStates
    BY <1>3, RecordShape DEF DocsInv
  <1>5. /\ state \in {"success", "inactive"}
        /\ state = "success" => deployments[r].state = "success" \/ docsSite = deployments[r].build
        /\ state = "inactive" => deployments[r].state # "success"
        /\ state = "inactive" => deployments[r].state = "inactive" \/ docsSite # deployments[r].build
    BY <1>4 DEF Settled, Looked, RecordStates
  <1>6. deployments' = [deployments EXCEPT ![r].state = state]
    BY DEF SettleRecord, Looked
  <1>7. \A j \in DOMAIN deployments : j > r => deployments[j].state = "inactive"
    BY <1>1 DEF DocsInv, DocsJobOK
  <1>8. \A i \in DOMAIN deployments : Serves(i, docsSite, deployments) => ~(i > r)
    BY <1>7 DEF Serves
  <1>9. \A i \in DOMAIN deployments : Serves(i, docsSite, deployments) => i < r \/ (i = r /\ state = "success")
    <2> SUFFICES ASSUME NEW i \in DOMAIN deployments, Serves(i, docsSite, deployments), ~(i < r)
                 PROVE  i = r /\ state = "success"
      OBVIOUS
    <2>1. i = r
      BY <1>1, <1>2, <1>8
    <2> QED
      BY <2>1, <1>5 DEF Serves
  <1>10. \A i \in DOMAIN deployments : Serves(i, docsSite, deployments) /\ i < r => deployments[r].state # "success"
    BY <1>1, <1>2, <1>3 DEF Serves
  <1>11. ASSUME state = "success" PROVE docsSite \in {0, deployments[r].build}
    <2>1. CASE docsSite = deployments[r].build
      BY <2>1
    <2>2. CASE deployments[r].state = "success" /\ docsSite # 0
      <3>1. PICK i \in DOMAIN deployments : Serves(i, docsSite, deployments)
        BY <2>2 DEF DocsInv, ServedOK
      <3>2. i = r
        BY <2>2, <3>1, <1>9, <1>10
      <3> QED
        BY <3>1, <3>2 DEF Serves
    <2> QED
      BY <1>5, <1>11, <2>1, <2>2
  <1> QED
    BY <1>1, <1>3, <1>5, <1>6, <1>9, <1>10, <1>11

LEMMA SettlingStep == DocsInv /\ SettleRecord => DocsInv'
  <1> SUFFICES ASSUME DocsInv, SettleRecord PROVE DocsInv'
    OBVIOUS
  <1> DEFINE r == docsJob.record
             state == Settled(deployments[r].state)
  <1>1. /\ r \in DOMAIN deployments /\ r \in Nat
        /\ state \in {"success", "inactive"}
        /\ deployments' = [deployments EXCEPT ![r].state = state]
        /\ state = "success" => docsSite \in {0, deployments[r].build}
        /\ \A i \in DOMAIN deployments : Serves(i, docsSite, deployments) => i < r \/ (i = r /\ state = "success")
        /\ \A i \in DOMAIN deployments : Serves(i, docsSite, deployments) /\ i < r => deployments[r].state # "success"
    BY SettlingMeans
  <1>2. DocsShapeOK /\ docsSite' = docsSite /\ docsJob.at = "settle" /\ docsJob.build \in DocsBuilds
    BY DEF DocsInv, SettleRecord, DocsAt, DocsShapeOK
  <1>3. DOMAIN deployments = 1 .. Len(deployments) /\ Len(deployments) \in Nat
    BY <1>2 DEF DocsShapeOK
  <1>4. deployments[r].build \in DocsBuilds
    BY <1>1, <1>2, RecordShape
  <1>5. docsJob' = IF state = "inactive" THEN [docsJob EXCEPT !.record = r - 1]
                   ELSE IF docsJob.build < deployments[r].build THEN NoDocsJob
                   ELSE [docsJob EXCEPT !.at = "intent"]
    BY DEF SettleRecord, Looked
  <1>6. \A j \in DOMAIN deployments : j > r => deployments[j].state = "inactive"
    BY <1>2 DEF DocsInv, DocsJobOK
  <1> HIDE DEF state, r
  <1>7. /\ deployments' \in Seq([build : DocsBuilds, state : RecordStates])
        /\ Len(deployments') = Len(deployments) /\ DOMAIN deployments' = DOMAIN deployments
        /\ \A j \in DOMAIN deployments :
             /\ deployments'[j].build = deployments[j].build
             /\ deployments'[j].state = IF j = r THEN state ELSE deployments[j].state
    <2>1. state \in RecordStates
      BY <1>1 DEF RecordStates
    <2> QED
      BY <1>1, <1>2, <2>1, RecordUpdated
  <1>8. r - 1 \in Nat
    BY <1>1, <1>3
  <1>9. DocsShapeOK'
    BY <1>2, <1>5, <1>7, <1>8 DEF DocsShapeOK, NoDocsJob, DocsPoints
  <1>10. ServedOK'
    <2> SUFFICES ASSUME docsSite # 0
                 PROVE  \E i \in DOMAIN deployments : Serves(i, docsSite', deployments')
      BY <1>2, <1>7 DEF ServedOK
    <2>1. PICK i \in DOMAIN deployments : Serves(i, docsSite, deployments)
      BY DEF DocsInv, ServedOK
    <2>2. CASE state = "success"
      <3>1. deployments[r].build = docsSite
        BY <1>1, <2>2
      <3>2. \A j \in DOMAIN deployments : j > r => deployments'[j].state # "success"
        BY <1>1, <1>3, <1>6, <1>7
      <3>3. Serves(r, docsSite', deployments')
        BY <1>1, <1>2, <1>7, <2>2, <3>1, <3>2 DEF Serves
      <3> QED
        BY <1>1, <3>3
    <2>3. CASE state = "inactive"
      <3>1. i < r
        BY <1>1, <2>1, <2>3
      <3>2. Serves(i, docsSite', deployments')
        BY <1>1, <1>2, <1>3, <1>7, <2>1, <2>3, <3>1 DEF Serves
      <3> QED
        BY <3>2
    <2> QED
      BY <1>1, <2>2, <2>3
  <1>11. DocsJobOK'
    <2>1. CASE state = "inactive"
      <3>1. docsJob'.at = "settle" /\ docsJob'.record = r - 1
        BY <1>2, <1>5, <2>1 DEF DocsShapeOK
      <3>2. r - 1 <= Len(deployments)
        BY <1>1, <1>3
      <3>3. \A j \in DOMAIN deployments : j > r - 1 => j > r \/ j = r
        BY <1>1, <1>3
      <3> QED
        BY <1>6, <1>7, <2>1, <3>1, <3>2, <3>3 DEF DocsJobOK
    <2>2. CASE state = "success" /\ ~(docsJob.build < deployments[r].build)
      <3>1. docsJob'.at = "intent" /\ docsJob'.build = docsJob.build
        BY <1>2, <1>5, <2>2 DEF DocsShapeOK
      <3>2. docsSite <= docsJob.build
        BY <1>1, <1>2, <1>4, <2>2, DocsAssumption
      <3> QED
        BY <1>2, <3>1, <3>2 DEF DocsJobOK
    <2>3. CASE state = "success" /\ docsJob.build < deployments[r].build
      BY <1>5, <2>3 DEF DocsJobOK, NoDocsJob
    <2> QED
      BY <1>1, <2>1, <2>2, <2>3
  <1> QED
    BY <1>9, <1>10, <1>11 DEF DocsInv

LEMMA DocsStep == DocsInv /\ [DocsNext]_docsVars => DocsInv'
  <1> SUFFICES ASSUME DocsInv, [DocsNext]_docsVars PROVE DocsInv'
    OBVIOUS
  <1> USE DEF DocsInv
  <1>0. DOMAIN deployments = 1 .. Len(deployments) /\ Len(deployments) \in Nat
    BY DEF DocsShapeOK
  <1>1. ASSUME NEW b \in DocsBuilds, DocsCurrent(b) PROVE DocsInv'
    BY <1>0, <1>1 DEF DocsCurrent, DocsShapeOK, ServedOK, Serves, DocsJobOK, DocsPoints
  <1>2. CASE SettleRecord
    BY <1>2, SettlingStep
  <1>3. CASE NothingServed
    <2>1. docsSite = 0
      <3>1. \A i \in DOMAIN deployments : i > docsJob.record
        BY <1>0, <1>3 DEF NothingServed
      <3> QED
        BY <1>3, <3>1 DEF NothingServed, DocsAt, DocsJobOK, ServedOK, Serves
    <2>2. docsJob' \in [at : DocsPoints, build : DocsBuilds \union {0}, record : Nat]
          /\ docsJob'.at = "intent" /\ docsJob'.build = docsJob.build /\ docsJob.build \in DocsBuilds
      BY <1>3 DEF NothingServed, DocsAt, DocsGoes, DocsShapeOK, DocsPoints
    <2>3. docsSite' = docsSite /\ deployments' = deployments
      BY <1>3 DEF NothingServed
    <2>4. docsSite <= docsJob.build
      <3>1. docsJob.build \in DocsBuilds
        BY <2>2
      <3>2. docsJob.build \in Nat
        BY <3>1, DocsAssumption
      <3> QED
        BY <2>1, <3>2
    <2> QED
      BY <2>1, <2>2, <2>3, <2>4 DEF DocsShapeOK, ServedOK, DocsJobOK
  <1>4. CASE DocsIntent
    <2> DEFINE n == Len(deployments) + 1
    <2>1. docsJob.at = "intent" /\ docsJob.build \in DocsBuilds /\ docsSite <= docsJob.build
      BY <1>4 DEF DocsIntent, DocsAt, DocsShapeOK, DocsJobOK
    <2>2. /\ deployments' \in Seq([build : DocsBuilds, state : RecordStates])
          /\ Len(deployments') = n
          /\ DOMAIN deployments' = DOMAIN deployments \union {n}
          /\ \A j \in DOMAIN deployments : deployments'[j] = deployments[j]
          /\ deployments'[n] = [build |-> docsJob.build, state |-> "created"]
      BY <1>4, <2>1, RecordAdded DEF DocsIntent
    <2>3. docsSite' = docsSite /\ n \in Nat
      BY <1>0, <1>4 DEF DocsIntent
    <2>4. \/ docsJob' = docsJob
          \/ docsJob' = [docsJob EXCEPT !.at = "progress", !.record = n]
      BY <1>4 DEF DocsIntent
    <2> HIDE DEF n
    <2>5. DocsShapeOK'
      BY <2>1, <2>2, <2>3, <2>4 DEF DocsShapeOK, DocsPoints
    <2>6. ServedOK'
      BY <2>2, <2>3 DEF ServedOK, Serves
    <2>7. DocsJobOK'
      <3>1. CASE docsJob' = docsJob
        BY <2>1, <2>2, <2>3, <3>1 DEF DocsJobOK
      <3>2. CASE docsJob' = [docsJob EXCEPT !.at = "progress", !.record = n]
        <4>1. /\ docsJob'.at = "progress" /\ docsJob'.record = n
              /\ docsJob'.build = docsJob.build
          BY <3>2 DEF DocsShapeOK
        <4>2. n \in DOMAIN deployments'
          BY <2>2
        <4> QED
          BY <2>1, <2>2, <2>3, <4>1, <4>2 DEF DocsJobOK
      <3> QED
        BY <2>4, <3>1, <3>2
    <2> QED
      BY <2>5, <2>6, <2>7
  <1>5. CASE PostProgress
    <2>1. docsJob.at = "progress" /\ docsJob.record \in DOMAIN deployments
      BY <1>5 DEF PostProgress, DocsAt, DocsJobOK
    <2>2. /\ deployments' \in Seq([build : DocsBuilds, state : RecordStates])
          /\ Len(deployments') = Len(deployments) /\ DOMAIN deployments' = DOMAIN deployments
          /\ \A j \in DOMAIN deployments :
               /\ deployments'[j].build = deployments[j].build
               /\ deployments'[j].state = IF j = docsJob.record THEN "in_progress"
                                          ELSE deployments[j].state
      BY <1>5, <2>1, RecordUpdated DEF PostProgress, PostDocsStatus, RecordStates
    <2>3. docsJob' \in [at : DocsPoints, build : DocsBuilds \union {0}, record : Nat]
          /\ docsJob'.at = "upload" /\ docsJob'.build = docsJob.build
          /\ docsJob'.record = docsJob.record /\ docsJob.build \in DocsBuilds
      BY <1>5, <2>1 DEF PostProgress, DocsGoes, DocsShapeOK, DocsPoints
    <2>4. docsSite' = docsSite
      BY <1>5 DEF PostProgress
    <2>5. DocsShapeOK'
      BY <2>2, <2>3, <2>4 DEF DocsShapeOK
    <2>6. ServedOK'
      BY <2>2, <2>4 DEF ServedOK, Serves
    <2>7. DocsJobOK'
      BY <2>1, <2>2, <2>3, <2>4 DEF DocsJobOK
    <2> QED
      BY <2>5, <2>6, <2>7
  <1>6. CASE Upload
    <2>1. docsJob.at = "upload" /\ docsJob.record = Len(deployments)
          /\ docsJob.record \in DOMAIN deployments
          /\ deployments[docsJob.record].build = docsJob.build
          /\ deployments[docsJob.record].state \in {"created", "in_progress"}
      BY <1>6 DEF Upload, DocsAt, DocsJobOK
    <2>2. docsJob' \in [at : DocsPoints, build : DocsBuilds \union {0}, record : Nat]
          /\ docsJob'.at = "record" /\ docsJob'.build = docsJob.build
          /\ docsJob'.record = docsJob.record /\ docsJob.build \in DocsBuilds
      BY <1>6, <2>1 DEF Upload, DocsGoes, DocsShapeOK, DocsPoints
    <2>3. docsSite' = docsJob.build /\ deployments' = deployments
      BY <1>6 DEF Upload
    <2>4. \A j \in DOMAIN deployments : ~(j > docsJob.record)
      BY <1>0, <2>1
    <2>5. Serves(docsJob.record, docsSite', deployments')
      BY <2>1, <2>2, <2>3, <2>4 DEF Serves
    <2>6. ServedOK'
      BY <2>1, <2>2, <2>3, <2>5 DEF ServedOK
    <2>7. DocsShapeOK' /\ DocsJobOK'
      BY <2>1, <2>2, <2>3 DEF DocsShapeOK, DocsJobOK
    <2> QED
      BY <2>6, <2>7
  <1>7. CASE DocsRecordDeployment
    <2> DEFINE n == docsJob.record
    <2>1. docsJob.at = "record" /\ n = Len(deployments) /\ n \in DOMAIN deployments
          /\ deployments[n].build = docsSite
      BY <1>7 DEF DocsRecordDeployment, DocsAt, DocsJobOK
    <2>2. /\ deployments' \in Seq([build : DocsBuilds, state : RecordStates])
          /\ Len(deployments') = Len(deployments) /\ DOMAIN deployments' = DOMAIN deployments
          /\ \A j \in DOMAIN deployments :
               /\ deployments'[j].build = deployments[j].build
               /\ deployments'[j].state = IF j = n THEN "success" ELSE deployments[j].state
      BY <1>7, <2>1, RecordUpdated DEF DocsRecordDeployment, PostDocsStatus, RecordStates
    <2>3. docsJob' = NoDocsJob /\ docsSite' = docsSite
      BY <1>7 DEF DocsRecordDeployment
    <2>4. \A j \in DOMAIN deployments : ~(j > n)
      BY <1>0, <2>1
    <2> HIDE DEF n
    <2>5. Serves(n, docsSite', deployments')
      BY <2>1, <2>2, <2>3, <2>4 DEF Serves
    <2>6. ServedOK'
      BY <2>1, <2>2, <2>5 DEF ServedOK
    <2>7. DocsShapeOK' /\ DocsJobOK'
      BY <2>2, <2>3 DEF DocsShapeOK, DocsJobOK, NoDocsJob, DocsPoints
    <2> QED
      BY <2>6, <2>7
  <1>8. CASE DocsJobFails
    BY <1>8 DEF DocsJobFails, DocsShapeOK, ServedOK, Serves, DocsJobOK, NoDocsJob, DocsPoints
  <1>9. CASE UNCHANGED docsVars
    BY <1>9 DEF docsVars, DocsShapeOK, ServedOK, Serves, DocsJobOK
  <1> QED
    BY <1>1, <1>2, <1>3, <1>4, <1>5, <1>6, <1>7, <1>8, <1>9 DEF DocsNext

\* No build of the documentation is replaced on its site by an older one
\* (servedDocsDeployment() and docsRecord() of scripts/release.mts).
THEOREM DocsAdvance == DocsSpec => DocsNeverGoBack
  <1>1. DocsInv /\ [DocsNext]_docsVars => docsSite' >= docsSite
    <2> SUFFICES ASSUME DocsInv, [DocsNext]_docsVars PROVE docsSite' >= docsSite
      OBVIOUS
    <2>1. docsSite \in Nat
      BY DocsAssumption DEF DocsInv, DocsShapeOK
    <2>2. CASE Upload
      <3>1. docsSite <= docsJob.build /\ docsJob.build \in Nat
        BY <2>2, DocsAssumption DEF Upload, DocsAt, DocsInv, DocsJobOK, DocsShapeOK
      <3> QED
        BY <2>1, <2>2, <3>1 DEF Upload
    <2>3. CASE docsSite' = docsSite
      BY <2>1, <2>3
    <2> QED
      BY <2>2, <2>3 DEF DocsNext, docsVars, DocsCurrent, SettleRecord, NothingServed, DocsIntent,
         PostProgress, DocsRecordDeployment, DocsJobFails
  <1> QED
    BY <1>1, DocsInitially, DocsStep, PTL DEF DocsSpec, DocsNeverGoBack

-----------------------------------------------------------------------------
(***************************************************************************)
(* DocsPreviews.  One job runs at a time, and when it has found its pull    *)
(* request its commit is the head, which nothing shown is newer than: that  *)
(* stays true until it deploys and comments, though the head may move.      *)
(***************************************************************************)
JobPoints == {"pr", "built", "deploy", "list", "comment"}

PreviewShapeOK ==
  /\ head \in Nat
  /\ preview \in [Pulls -> Nat]
  /\ comments \in [Pulls -> Seq(Nat)]
  /\ previewJobs \subseteq [commit : Commits, at : JobPoints, pull : Pulls \union {0},
                            oldest : {0, 1}]
  /\ \A n \in Pulls : Len(comments[n]) <= 1
  /\ \A i, j \in previewJobs : i = j

\* Nothing shown is newer than commit c.
ShownUpTo(c) ==
  \A n \in Pulls : preview[n] <= c /\ \A i \in DOMAIN comments[n] : comments[n][i] <= c

PreviewJobOK(j) ==
  j.at # "pr" =>
    /\ j.pull \in Pulls
    /\ j.commit <= head
    /\ ShownUpTo(j.commit)
    /\ j.at = "comment" => (j.oldest = 0 <=> comments[j.pull] = <<>>)

PreviewInv ==
  /\ PreviewShapeOK
  /\ ShownUpTo(head)
  /\ \A j \in previewJobs : PreviewJobOK(j)

LEMMA PreviewInitially == PreviewInit => PreviewInv
  BY DEF PreviewInit, PreviewInv, PreviewShapeOK, ShownUpTo

\* A job that stops leaves none, and one that goes on is the only one.
LEMMA PreviewJobMoves ==
  ASSUME PreviewShapeOK, NEW j \in previewJobs
  PROVE  /\ Stops(j) => previewJobs' = {}
         /\ \A next : Moves(j, next) => previewJobs' = {next}
  BY DEF PreviewShapeOK, Stops, Moves

LEMMA PreviewJobShape ==
  ASSUME PreviewShapeOK, NEW j \in previewJobs
  PROVE  /\ j.commit \in Commits /\ j.commit \in Nat
         /\ j.at \in JobPoints /\ j.pull \in Pulls \union {0} /\ j.oldest \in {0, 1}
         /\ j = [commit |-> j.commit, at |-> j.at, pull |-> j.pull, oldest |-> j.oldest]
  <1>1. j \in [commit : Commits, at : JobPoints, pull : Pulls \union {0}, oldest : {0, 1}]
    BY DEF PreviewShapeOK
  <1>2. Commits \subseteq Nat
    BY PreviewAssumption DEF Commits
  <1> QED
    BY <1>1, <1>2

LEMMA OneElement ==
  /\ \A c \in Nat : /\ Append(<<>>, c) = <<c>> /\ Len(<<c>>) = 1
                    /\ DOMAIN <<c>> = {1} /\ <<c>>[1] = c /\ <<c>> \in Seq(Nat)
  /\ \A s \in Seq(Nat) : s # <<>> /\ Len(s) <= 1 => Len(s) = 1 /\ DOMAIN s = {1}
  <1>1. ASSUME NEW c \in Nat
        PROVE  /\ Append(<<>>, c) = <<c>> /\ Len(<<c>>) = 1
               /\ DOMAIN <<c>> = {1} /\ <<c>>[1] = c /\ <<c>> \in Seq(Nat)
    OBVIOUS
  <1>2. ASSUME NEW s \in Seq(Nat), s # <<>>, Len(s) <= 1
        PROVE  Len(s) = 1 /\ DOMAIN s = {1}
    <2>1. Len(s) \in Nat \ {0}
      BY <1>2, EmptySeq
    <2>2. \A n \in Nat \ {0} : n <= 1 => n = 1
      OBVIOUS
    <2>3. Len(s) = 1
      BY <1>2, <2>1, <2>2
    <2>4. DOMAIN s = 1 .. 1
      BY <2>3
    <2> QED
      BY <2>3, <2>4
  <1> QED
    BY <1>1, <1>2

LEMMA PreviewTypes ==
  ASSUME PreviewShapeOK, NEW n \in Pulls
  PROVE  /\ \A i \in DOMAIN comments[n] : i = 1 /\ comments[n][i] \in Nat
         /\ comments[n] # <<>> => DOMAIN comments[n] = {1} /\ Len(comments[n]) = 1
  <1>1. comments[n] \in Seq(Nat) /\ Len(comments[n]) <= 1
    BY DEF PreviewShapeOK
  <1> HIDE DEF PreviewShapeOK
  <1>2. DOMAIN comments[n] = 1 .. Len(comments[n]) /\ Len(comments[n]) \in Nat
    BY <1>1
  <1>3. \A i \in DOMAIN comments[n] : i = 1
    BY <1>1, <1>2
  <1>4. \A i \in DOMAIN comments[n] : comments[n][i] \in Nat
    BY <1>1, <1>2
  <1> QED
    BY <1>1, <1>3, <1>4, OneElement

\* A pull request's only comment names the commit that was deployed.
LEMMA CommentMeans ==
  ASSUME PreviewShapeOK, NEW j \in previewJobs, PreviewJobOK(j), PostComment(j)
  PROVE  /\ comments' \in [Pulls -> Seq(Nat)]
         /\ \A n \in Pulls : comments'[n] = comments[n] \/ comments'[n] = <<j.commit>>
         /\ Len(<<j.commit>>) = 1 /\ DOMAIN <<j.commit>> = {1} /\ <<j.commit>>[1] = j.commit
  <1> DEFINE new == IF j.oldest = 0 THEN Append(comments[j.pull], j.commit)
                    ELSE [comments[j.pull] EXCEPT ![1] = j.commit]
  <1>1. /\ j.at = "comment" /\ j.pull \in Pulls /\ j.commit \in Nat
        /\ j.oldest = 0 <=> comments[j.pull] = <<>>
    BY PreviewJobShape DEF PostComment, PreviewJobOK
  <1>2. comments[j.pull] \in Seq(Nat) /\ Len(comments[j.pull]) <= 1
    BY <1>1 DEF PreviewShapeOK
  <1>3. new = <<j.commit>>
    <2>1. CASE j.oldest = 0
      BY <1>1, <2>1, OneElement
    <2>2. CASE j.oldest # 0
      <3>1. DOMAIN comments[j.pull] = {1}
        BY <1>1, <2>2, PreviewTypes
      <3>2. Len(comments[j.pull]) = 1
        BY <1>1, <2>2, PreviewTypes
      <3>3. new = [comments[j.pull] EXCEPT ![1] = j.commit]
        BY <2>2
      <3>4. new \in Seq(Nat) /\ Len(new) = 1 /\ new[1] = j.commit
        BY <1>1, <1>2, <3>1, <3>2, <3>3
      <3> HIDE DEF new
      <3> QED
        BY <3>4
    <2> QED
      BY <2>1, <2>2
  <1>4. comments' = [comments EXCEPT ![j.pull] = new]
    BY DEF PostComment
  <1>5. <<j.commit>> \in Seq(Nat)
    BY <1>1, OneElement
  <1>6. Len(<<j.commit>>) = 1 /\ DOMAIN <<j.commit>> = {1} /\ <<j.commit>>[1] = j.commit
    BY <1>1, OneElement
  <1> HIDE DEF new
  <1> QED
    BY <1>1, <1>3, <1>4, <1>5, <1>6 DEF PreviewShapeOK

\* The invariant survives if nothing is shown anew and the job that runs, if
\* one still does, has what its point needs.
LEMMA PreviewKept ==
  ASSUME PreviewInv, UNCHANGED <<head, preview, comments>>,
         \/ previewJobs' = {}
         \/ \E next \in [commit : Commits, at : JobPoints, pull : Pulls \union {0},
                         oldest : {0, 1}] : previewJobs' = {next} /\ PreviewJobOK(next)
  PROVE  PreviewInv'
  BY DEF PreviewInv, PreviewShapeOK, ShownUpTo, PreviewJobOK

LEMMA PreviewStep == PreviewInv /\ [PreviewNext]_previewVars => PreviewInv'
  <1> SUFFICES ASSUME PreviewInv, [PreviewNext]_previewVars PROVE PreviewInv'
    OBVIOUS
  <1> DEFINE PreviewJob == [commit : Commits, at : JobPoints, pull : Pulls \union {0},
                            oldest : {0, 1}]
  <1>0. PreviewShapeOK /\ ShownUpTo(head) /\ \A j \in previewJobs : PreviewJobOK(j)
    BY DEF PreviewInv
  <1>1. CASE PushCommit
    <2>1. head' = head + 1 /\ UNCHANGED <<preview, comments, previewJobs>>
      BY <1>1 DEF PushCommit
    <2>2. ShownUpTo(head + 1)
      BY <1>0, PreviewTypes DEF ShownUpTo, PreviewShapeOK
    <2>3. \A j \in previewJobs : j.commit \in Nat
      BY <1>0, PreviewJobShape
    <2>4. \A j \in previewJobs : PreviewJobOK(j)'
      BY <1>0, <2>1, <2>3 DEF PreviewJobOK, ShownUpTo, PreviewShapeOK
    <2> QED
      BY <1>0, <2>1, <2>2, <2>4 DEF PreviewInv, PreviewShapeOK, ShownUpTo
  <1>2. CASE UNCHANGED <<head, preview, comments, previewJobs>>
    BY <1>0, <1>2 DEF PreviewInv, PreviewShapeOK, ShownUpTo, PreviewJobOK
  <1>3. ASSUME NEW c \in Commits, StartPreview(c) PROVE PreviewInv'
    <2> DEFINE next == [commit |-> c, at |-> "pr", pull |-> 0, oldest |-> 0]
    <2>1. previewJobs' = {next} /\ UNCHANGED <<head, preview, comments>>
      BY <1>3 DEF StartPreview
    <2>2. next \in PreviewJob /\ PreviewJobOK(next)
      BY DEF JobPoints, PreviewJobOK
    <2> QED
      BY <2>1, <2>2, PreviewKept
  <1>4. ASSUME NEW j \in previewJobs, FindPullRequest(j) PROVE PreviewInv'
    <2>1. UNCHANGED <<head, preview, comments>>
      BY <1>4 DEF FindPullRequest
    <2>2. CASE Stops(j)
      BY <1>0, <2>1, <2>2, PreviewJobMoves, PreviewKept
    <2>3. ASSUME NEW n \in Pulls, Matches(n, j.commit), Moves(j, [j EXCEPT !.at = "built", !.pull = n])
          PROVE  PreviewInv'
      <3> DEFINE next == [j EXCEPT !.at = "built", !.pull = n]
      <3>1. /\ next \in PreviewJob
            /\ next.at = "built" /\ next.pull = n /\ next.commit = j.commit
        <4> DEFINE found == [j EXCEPT !.at = "built"]
        <4>1. found \in PreviewJob /\ found.at = "built" /\ found.commit = j.commit
          BY <1>0, PreviewJobShape DEF JobPoints
        <4>2. next = [found EXCEPT !.pull = n]
          OBVIOUS
        <4> HIDE DEF found, next
        <4> QED
          BY <4>1, <4>2
      <3>2. j.commit = head /\ head \in Nat
        BY <1>0, <2>3 DEF Matches, PreviewShapeOK
      <3>3. PreviewJobOK(next)
        BY <1>0, <3>1, <3>2 DEF PreviewJobOK
      <3>4. previewJobs' = {next}
        BY <1>0, <2>3, PreviewJobMoves
      <3> QED
        BY <2>1, <3>1, <3>3, <3>4, PreviewKept
    <2> QED
      BY <1>4, <2>2, <2>3 DEF FindPullRequest
  <1>5. ASSUME NEW j \in previewJobs, CheckBuilt(j) PROVE PreviewInv'
    <2>1. UNCHANGED <<head, preview, comments>> /\ j.at = "built"
      BY <1>5 DEF CheckBuilt
    <2>2. CASE Stops(j)
      BY <1>0, <2>1, <2>2, PreviewJobMoves, PreviewKept
    <2>3. CASE Moves(j, [j EXCEPT !.at = "deploy"])
      <3> DEFINE next == [j EXCEPT !.at = "deploy"]
      <3>1. /\ next \in PreviewJob
            /\ next.at = "deploy" /\ next.pull = j.pull /\ next.commit = j.commit
        BY <1>0, PreviewJobShape DEF JobPoints
      <3>2. PreviewJobOK(next)
        BY <1>0, <2>1, <3>1 DEF PreviewJobOK
      <3>3. previewJobs' = {next}
        BY <1>0, <2>3, PreviewJobMoves
      <3> QED
        BY <2>1, <3>1, <3>2, <3>3, PreviewKept
    <2> QED
      BY <1>5, <2>2, <2>3 DEF CheckBuilt
  <1>6. ASSUME NEW j \in previewJobs, DeployPreview(j) PROVE PreviewInv'
    <2> DEFINE next == [j EXCEPT !.at = "list"]
    <2>1. /\ j.at = "deploy" /\ j.pull \in Pulls /\ j.commit <= head /\ ShownUpTo(j.commit)
          /\ j.commit \in Nat
      BY <1>0, <1>6, PreviewJobShape DEF DeployPreview, PreviewJobOK
    <2>2. /\ next \in PreviewJob
          /\ next.at = "list" /\ next.pull = j.pull /\ next.commit = j.commit
      BY <1>0, PreviewJobShape DEF JobPoints
    <2>3. previewJobs' = {next}
      BY <1>0, <1>6, PreviewJobMoves DEF DeployPreview
    <2>4. UNCHANGED <<head, comments>> /\ preview' = [preview EXCEPT ![j.pull] = j.commit]
      BY <1>6 DEF DeployPreview
    <2>5. /\ preview' \in [Pulls -> Nat]
          /\ \A n \in Pulls : preview'[n] = preview[n] \/ preview'[n] = j.commit
      BY <1>0, <2>1, <2>4 DEF PreviewShapeOK
    <2> HIDE DEF next
    <2>6. PreviewShapeOK'
      BY <1>0, <2>2, <2>3, <2>4, <2>5 DEF PreviewShapeOK
    <2>7. ShownUpTo(head)' /\ ShownUpTo(j.commit)'
      BY <1>0, <2>1, <2>4, <2>5 DEF ShownUpTo, PreviewShapeOK
    <2>8. PreviewJobOK(next)'
      BY <2>1, <2>2, <2>4, <2>7 DEF PreviewJobOK, ShownUpTo
    <2> QED
      BY <2>3, <2>6, <2>7, <2>8 DEF PreviewInv
  <1>7. ASSUME NEW j \in previewJobs, ListComments(j) PROVE PreviewInv'
    <2> DEFINE next == [j EXCEPT !.at = "comment",
                                 !.oldest = IF comments[j.pull] = <<>> THEN 0 ELSE 1]
    <2>1. UNCHANGED <<head, preview, comments>> /\ j.at = "list" /\ Moves(j, next)
      BY <1>7 DEF ListComments
    <2>2. /\ next \in PreviewJob
          /\ next.at = "comment" /\ next.pull = j.pull /\ next.commit = j.commit
          /\ next.oldest = IF comments[j.pull] = <<>> THEN 0 ELSE 1
      <3> DEFINE first == IF comments[j.pull] = <<>> THEN 0 ELSE 1
             listed == [j EXCEPT !.at = "comment"]
      <3>1. /\ listed \in PreviewJob
            /\ listed.at = "comment" /\ listed.pull = j.pull /\ listed.commit = j.commit
        BY <1>0, PreviewJobShape DEF JobPoints
      <3>2. next = [listed EXCEPT !.oldest = first] /\ first \in {0, 1}
        OBVIOUS
      <3> HIDE DEF listed, next, first
      <3>3. /\ next \in PreviewJob /\ next.oldest = first
            /\ next.at = "comment" /\ next.pull = j.pull /\ next.commit = j.commit
        BY <3>1, <3>2
      <3> QED
        BY <3>3 DEF first
    <2>3. PreviewJobOK(next)
      BY <1>0, <2>1, <2>2 DEF PreviewJobOK
    <2>4. previewJobs' = {next}
      BY <1>0, <2>1, PreviewJobMoves
    <2> QED
      BY <2>1, <2>2, <2>3, <2>4, PreviewKept
  <1>8. ASSUME NEW j \in previewJobs, PostComment(j) PROVE PreviewInv'
    <2>1. /\ j.at = "comment" /\ j.pull \in Pulls /\ j.commit <= head /\ ShownUpTo(j.commit)
          /\ j.commit \in Nat
      BY <1>0, <1>8, PreviewJobShape DEF PostComment, PreviewJobOK
    <2>2. previewJobs' = {} /\ UNCHANGED <<head, preview>>
      BY <1>0, <1>8, PreviewJobMoves DEF PostComment
    <2>3. /\ comments' \in [Pulls -> Seq(Nat)]
          /\ \A n \in Pulls : comments'[n] = comments[n] \/ comments'[n] = <<j.commit>>
          /\ Len(<<j.commit>>) = 1 /\ DOMAIN <<j.commit>> = {1} /\ <<j.commit>>[1] = j.commit
      BY <1>0, <1>8, CommentMeans
    <2>4. PreviewShapeOK'
      <3>1. \A n \in Pulls : Len(comments'[n]) <= 1
        <4> SUFFICES ASSUME NEW n \in Pulls PROVE Len(comments'[n]) <= 1
          OBVIOUS
        <4>1. CASE comments'[n] = comments[n]
          BY <1>0, <4>1 DEF PreviewShapeOK
        <4>2. CASE comments'[n] = <<j.commit>>
          BY <2>3, <4>2
        <4> QED
          BY <2>3, <4>1, <4>2
      <3>2. head' \in Nat /\ preview' \in [Pulls -> Nat]
        BY <1>0, <2>2 DEF PreviewShapeOK
      <3> QED
        BY <2>2, <2>3, <3>1, <3>2 DEF PreviewShapeOK
    <2>5. ShownUpTo(head)'
      BY <1>0, <2>1, <2>2, <2>3 DEF ShownUpTo, PreviewShapeOK
    <2> QED
      BY <2>2, <2>4, <2>5 DEF PreviewInv
  <1>9. ASSUME NEW j \in previewJobs, PreviewFails(j) PROVE PreviewInv'
    BY <1>0, <1>9, PreviewJobMoves, PreviewKept DEF PreviewFails
  <1> QED
    BY <1>1, <1>2, <1>3, <1>4, <1>5, <1>6, <1>7, <1>8, <1>9
    DEF PreviewNext, previewVars, OpenOrClose, RunCompletes, RunAgain

\* No preview and no comment that names one goes back to an older commit, and
\* no pull request gets a second comment (scripts/docs-preview.mts).
THEOREM PreviewsAdvance == PreviewSpec => PreviewsNeverGoBack
  <1> DEFINE Advance == \A n \in Pulls :
               /\ preview'[n] >= preview[n]
               /\ Len(comments'[n]) <= 1
               /\ \A i \in DOMAIN comments[n] : comments'[n][i] >= comments[n][i]
  <1>1. PreviewInv /\ [PreviewNext]_previewVars => Advance
    <2> SUFFICES ASSUME PreviewInv, [PreviewNext]_previewVars PROVE Advance
      OBVIOUS
    <2>1. PreviewShapeOK /\ \A j \in previewJobs : PreviewJobOK(j)
      BY DEF PreviewInv
    <2>2. /\ preview \in [Pulls -> Nat] /\ \A n \in Pulls : Len(comments[n]) <= 1
          /\ \A n \in Pulls : \A i \in DOMAIN comments[n] : comments[n][i] \in Nat
      BY <2>1, PreviewTypes DEF PreviewShapeOK
    <2>3. CASE UNCHANGED <<preview, comments>>
      BY <2>2, <2>3
    <2>4. ASSUME NEW j \in previewJobs, DeployPreview(j) PROVE Advance
      <3>1. j.pull \in Pulls /\ ShownUpTo(j.commit) /\ j.commit \in Nat
        BY <2>1, <2>4, PreviewJobShape DEF DeployPreview, PreviewJobOK
      <3>2. comments' = comments /\ preview' = [preview EXCEPT ![j.pull] = j.commit]
        BY <2>4 DEF DeployPreview
      <3>3. \A n \in Pulls : preview'[n] = preview[n] \/ preview'[n] = j.commit
        BY <2>2, <3>1, <3>2
      <3> QED
        BY <2>2, <3>1, <3>2, <3>3 DEF ShownUpTo
    <2>5. ASSUME NEW j \in previewJobs, PostComment(j) PROVE Advance
      <3>1. ShownUpTo(j.commit) /\ j.commit \in Nat
        BY <2>1, <2>5, PreviewJobShape DEF PostComment, PreviewJobOK
      <3>2. preview' = preview
        BY <2>5 DEF PostComment
      <3>3. /\ \A n \in Pulls : comments'[n] = comments[n] \/ comments'[n] = <<j.commit>>
            /\ Len(<<j.commit>>) = 1 /\ <<j.commit>>[1] = j.commit
        BY <2>1, <2>5, CommentMeans
      <3>4. \A n \in Pulls : \A i \in DOMAIN comments[n] : i = 1 /\ comments[n][i] <= j.commit
        BY <2>1, <3>1, PreviewTypes DEF ShownUpTo
      <3>5. ASSUME NEW n \in Pulls
            PROVE  /\ preview'[n] >= preview[n]
                   /\ Len(comments'[n]) <= 1
                   /\ \A i \in DOMAIN comments[n] : comments'[n][i] >= comments[n][i]
        <4>1. preview'[n] >= preview[n]
          BY <2>2, <3>2
        <4>2. CASE comments'[n] = comments[n]
          BY <2>2, <4>1, <4>2
        <4>3. CASE comments'[n] = <<j.commit>>
          BY <2>2, <3>1, <3>3, <3>4, <4>1, <4>3
        <4> QED
          BY <3>3, <4>2, <4>3
      <3> QED
        BY <3>5
    <2>6. [PreviewNext]_previewVars =>
            \/ UNCHANGED <<preview, comments>>
            \/ \E j \in previewJobs : DeployPreview(j) \/ PostComment(j)
      BY DEF PreviewNext, previewVars, PushCommit, OpenOrClose, RunCompletes, RunAgain,
         StartPreview, FindPullRequest, CheckBuilt, ListComments, PreviewFails
    <2> QED
      BY <2>3, <2>4, <2>5, <2>6
  <1> HIDE DEF Advance
  <1>2. [][Advance]_previewVars => PreviewsNeverGoBack
    BY DEF Advance, PreviewsNeverGoBack
  <1>3. PreviewInv /\ [PreviewNext]_previewVars => [Advance]_previewVars
    BY <1>1
  <1> QED
    BY <1>2, <1>3, PreviewInitially, PreviewStep, PTL DEF PreviewSpec

-----------------------------------------------------------------------------
(***************************************************************************)
(* MailTransport.  A send that is answered keeps the answer and what had    *)
(* aborted it, SendOK; and a transport that drains lets nobody begin, so    *)
(* that who still sends is among those it awaits, DrainOK.                  *)
(***************************************************************************)
SendPoints == {"idle", "trying", "waiting", "settled", "answered"}

SendShapeOK ==
  /\ sends \in [Mails -> [at : SendPoints, tries : Nat, cancelled : BOOLEAN,
                          result : {"none", "receipt", "failed"},
                          reason : {"none", "timeout", "closed"},
                          answer : {"none", "receipt", "failed", "timeout", "closed",
                                    "cancelled"}]]
  /\ wire \in [Mails -> SUBSET {0}]
  /\ taken \in [Mails -> SUBSET {0}]
  /\ runtime \in [at : {"open", "called", "disposing", "draining", "sdk", "closed", "failed"},
                  awaits : SUBSET Mails]

SendOK(m) ==
  /\ sends[m].result = "receipt" => taken[m] # {}
  /\ sends[m].at \in {"idle", "trying", "waiting", "settled"} => sends[m].answer = "none"
  /\ sends[m].at = "idle" => sends[m].reason = "none" /\ ~sends[m].cancelled
  /\ sends[m].answer = "receipt" =>
       taken[m] # {} /\ sends[m].reason = "none" /\ ~sends[m].cancelled
  /\ sends[m].answer = "timeout" => sends[m].reason = "timeout" /\ ~sends[m].cancelled
  /\ sends[m].answer = "closed" => TransportClosed

DrainOK ==
  /\ runtime.at = "draining" => Sending \subseteq runtime.awaits
  /\ runtime.at \in {"sdk", "closed", "failed"} => Sending = {}

\* disposing is the first point at which nothing new is accepted.
SendInv == SendShapeOK /\ (\A m \in Mails : SendOK(m)) /\ DrainOK

LEMMA SendsInitially == TransportInit => SendInv
  BY DEF TransportInit, SendInv, SendShapeOK, SendOK, DrainOK, NotSent, SendPoints, Sending

\* One send changes, and what is known of the others stays.
LEMMA SendChanges ==
  ASSUME SendInv, NEW m \in Mails, NEW q \in [at : SendPoints, tries : Nat, cancelled : BOOLEAN,
           result : {"none", "receipt", "failed"}, reason : {"none", "timeout", "closed"},
           answer : {"none", "receipt", "failed", "timeout", "closed", "cancelled"}],
         sends' = [sends EXCEPT ![m] = q],
         wire' \in [Mails -> SUBSET {0}], UNCHANGED <<taken, runtime>>,
         SendOK(m)',
         q.at \in {"trying", "waiting", "settled"} =>
           sends[m].at \in {"trying", "waiting", "settled"} \/ ~TransportClosed
  PROVE  SendInv'
  <1>1. SendShapeOK'
    BY DEF SendInv, SendShapeOK
  <1>2. \A n \in Mails \ {m} : sends'[n] = sends[n]
    BY DEF SendInv, SendShapeOK
  <1>3. sends'[m] = q
    BY DEF SendInv, SendShapeOK
  <1>4. \A n \in Mails : SendOK(n)'
    BY <1>2 DEF SendInv, SendOK, TransportClosed
  <1>5. Sending' \subseteq Sending \/ ~TransportClosed
    BY <1>2, <1>3 DEF Sending
  <1>6. DrainOK'
    BY <1>5 DEF SendInv, DrainOK, TransportClosed
  <1> QED
    BY <1>1, <1>4, <1>6 DEF SendInv

LEMMA SendStep == SendInv /\ [TransportNext]_transportVars => SendInv'
  <1> SUFFICES ASSUME SendInv, [TransportNext]_transportVars PROVE SendInv'
    OBVIOUS
  <1> DEFINE Send == [at : SendPoints, tries : Nat, cancelled : BOOLEAN,
           result : {"none", "receipt", "failed"}, reason : {"none", "timeout", "closed"},
           answer : {"none", "receipt", "failed", "timeout", "closed", "cancelled"}]
  <1>0. SendShapeOK /\ (\A m \in Mails : SendOK(m)) /\ DrainOK
    BY DEF SendInv
  <1>1. ASSUME NEW m \in Mails, SendNext(m) PROVE SendInv'
    <2>1. sends[m] \in Send /\ sends \in [Mails -> Send] /\ SendOK(m)
          /\ wire \in [Mails -> SUBSET {0}]
      BY <1>0 DEF SendShapeOK
    <2>2. CASE SendMessage(m)
      <3> DEFINE q == [sends[m] EXCEPT !.at = IF TransportClosed THEN "answered" ELSE "trying",
                                       !.answer = IF TransportClosed THEN "closed" ELSE "none"]
      <3>1. sends' = [sends EXCEPT ![m] = q] /\ UNCHANGED <<wire, taken, runtime>>
        BY <2>2 DEF SendMessage
      <3>2. /\ q \in Send /\ q.result = sends[m].result /\ q.reason = sends[m].reason
            /\ q.cancelled = sends[m].cancelled
            /\ q.at = IF TransportClosed THEN "answered" ELSE "trying"
            /\ q.answer = IF TransportClosed THEN "closed" ELSE "none"
        BY <2>1 DEF SendPoints
      <3> HIDE DEF q
      <3>3. sends'[m] = q
        BY <2>1, <3>1
      <3>4. SendOK(m)'
        BY <2>1, <2>2, <3>1, <3>2, <3>3 DEF SendOK, TransportClosed, SendMessage
      <3> QED
        BY <2>1, <3>1, <3>2, <3>4, SendChanges
    <2>3. CASE Submit(m)
      <3> DEFINE mid == [sends[m] EXCEPT !.at = "waiting"]
                 q == [mid EXCEPT !.tries = sends[m].tries + 1]
      <3>0. sends[m].tries + 1 \in Nat
        BY <2>1
      <3>1. UNCHANGED <<taken, runtime>> /\ sends[m].at = "trying"
            /\ sends' = [sends EXCEPT ![m] = q]
        BY <2>1, <2>3 DEF Submit
      <3>m. /\ mid \in Send /\ mid.result = sends[m].result /\ mid.reason = sends[m].reason
            /\ mid.cancelled = sends[m].cancelled /\ mid.answer = sends[m].answer
            /\ mid.at = "waiting"
        BY <2>1 DEF SendPoints
      <3> HIDE DEF mid
      <3>2. /\ q \in Send /\ q.result = sends[m].result /\ q.reason = sends[m].reason
            /\ q.cancelled = sends[m].cancelled /\ q.answer = sends[m].answer /\ q.at = "waiting"
        BY <3>0, <3>m
      <3> HIDE DEF q
      <3>3. sends'[m] = q /\ wire' \in [Mails -> SUBSET {0}]
        BY <2>1, <2>3, <3>1 DEF Submit, SubmissionKey
      <3>4. SendOK(m)'
        BY <2>1, <3>1, <3>2, <3>3 DEF SendOK, TransportClosed
      <3> QED
        BY <2>1, <3>1, <3>2, <3>3, <3>4, SendChanges
    <2>4. CASE ProviderAccepts(m)
      <3>1. UNCHANGED <<sends, wire, runtime>> /\ taken' \in [Mails -> SUBSET {0}]
            /\ \A n \in Mails : taken[n] \subseteq taken'[n]
        BY <1>0, <2>4 DEF ProviderAccepts, SendShapeOK
      <3>2. SendShapeOK' /\ DrainOK'
        BY <1>0, <3>1 DEF SendShapeOK, DrainOK, Sending
      <3>3. \A n \in Mails : SendOK(n)'
        BY <1>0, <3>1 DEF SendOK, TransportClosed
      <3> QED
        BY <3>2, <3>3 DEF SendInv
    <2>5. CASE TryAgain(m)
      <3> DEFINE q == [sends[m] EXCEPT !.at = "trying"]
      <3>1. sends' = [sends EXCEPT ![m] = q] /\ UNCHANGED <<wire, taken, runtime>>
            /\ sends[m].at = "waiting"
        BY <2>5 DEF TryAgain
      <3>2. /\ q \in Send /\ q.result = sends[m].result /\ q.reason = sends[m].reason
            /\ q.cancelled = sends[m].cancelled /\ q.answer = sends[m].answer /\ q.at = "trying"
        BY <2>1 DEF SendPoints
      <3> HIDE DEF q
      <3>3. sends'[m] = q
        BY <2>1, <3>1
      <3>4. SendOK(m)'
        BY <2>1, <3>1, <3>2, <3>3 DEF SendOK, TransportClosed
      <3> QED
        BY <2>1, <3>1, <3>2, <3>4, SendChanges
    <2>6. ASSUME NEW result \in {"receipt", "failed"}, SdkSettles(m, result),
                 result = "receipt" => taken[m] # {}, sends[m].at \in {"trying", "waiting"}
          PROVE  SendInv'
      <3> DEFINE q == [sends[m] EXCEPT !.at = "settled", !.result = result]
      <3>1. sends' = [sends EXCEPT ![m] = q] /\ UNCHANGED <<wire, taken, runtime>>
        BY <2>6 DEF SdkSettles
      <3>2. /\ q \in Send /\ q.result = result /\ q.reason = sends[m].reason
            /\ q.cancelled = sends[m].cancelled /\ q.answer = sends[m].answer /\ q.at = "settled"
        BY <2>1 DEF SendPoints
      <3> HIDE DEF q
      <3>3. sends'[m] = q
        BY <2>1, <3>1
      <3>4. SendOK(m)'
        BY <2>1, <2>6, <3>1, <3>2, <3>3 DEF SendOK, TransportClosed
      <3> QED
        BY <2>1, <2>6, <3>1, <3>2, <3>4, SendChanges
    <2>7. CASE AnswerSend(m)
      <3> DEFINE ended == SendOutcome(m)
                 q == [sends[m] EXCEPT !.at = "answered", !.answer = ended]
      <3>1. sends' = [sends EXCEPT ![m] = q] /\ UNCHANGED <<wire, taken, runtime>>
        BY <2>7 DEF AnswerSend
      <3>2. /\ ended \in {"none", "receipt", "failed", "timeout", "cancelled"}
            /\ ended = "receipt" => /\ sends[m].result = "receipt" /\ sends[m].reason = "none"
                                      /\ ~sends[m].cancelled
            /\ ended = "timeout" => sends[m].reason = "timeout" /\ ~sends[m].cancelled
        BY <2>1 DEF SendOutcome
      <3> HIDE DEF ended
      <3>3. /\ q \in Send /\ q.result = sends[m].result /\ q.reason = sends[m].reason
            /\ q.cancelled = sends[m].cancelled /\ q.answer = ended /\ q.at = "answered"
        BY <2>1, <3>2 DEF SendPoints
      <3> HIDE DEF q
      <3>4. sends'[m] = q
        BY <2>1, <3>1
      <3>5. SendOK(m)'
        BY <2>1, <3>1, <3>2, <3>3, <3>4 DEF SendOK, TransportClosed
      <3> QED
        BY <2>1, <3>1, <3>3, <3>5, SendChanges
    <2>8. CASE DeliveryTimesOut(m)
      <3> DEFINE q == [sends[m] EXCEPT !.reason = "timeout"]
      <3>1. sends' = [sends EXCEPT ![m] = q] /\ UNCHANGED <<wire, taken, runtime>>
            /\ sends[m].at \in {"trying", "waiting"}
        BY <2>8 DEF DeliveryTimesOut
      <3>2. /\ q \in Send /\ q.result = sends[m].result /\ q.reason = "timeout"
            /\ q.cancelled = sends[m].cancelled /\ q.answer = sends[m].answer
            /\ q.at = sends[m].at
        BY <2>1
      <3> HIDE DEF q
      <3>3. sends'[m] = q
        BY <2>1, <3>1
      <3>4. SendOK(m)'
        BY <2>1, <3>1, <3>2, <3>3 DEF SendOK, TransportClosed
      <3> QED
        BY <2>1, <3>1, <3>2, <3>4, SendChanges
    <2>9. CASE CancelSend(m)
      <3> DEFINE q == [sends[m] EXCEPT !.cancelled = TRUE]
      <3>1. sends' = [sends EXCEPT ![m] = q] /\ UNCHANGED <<wire, taken, runtime>>
            /\ sends[m].at \in {"trying", "waiting", "settled"}
        BY <2>9 DEF CancelSend, Sending
      <3>2. /\ q \in Send /\ q.result = sends[m].result /\ q.reason = sends[m].reason
            /\ q.cancelled /\ q.answer = sends[m].answer /\ q.at = sends[m].at
        BY <2>1
      <3> HIDE DEF q
      <3>3. sends'[m] = q
        BY <2>1, <3>1
      <3>4. SendOK(m)'
        BY <2>1, <3>1, <3>2, <3>3 DEF SendOK, TransportClosed
      <3> QED
        BY <2>1, <3>1, <3>2, <3>4, SendChanges
    <2> QED
      BY <1>1, <2>2, <2>3, <2>4, <2>5, <2>6, <2>7, <2>8, <2>9
      DEF SendNext, SdkAnswers, SdkGivesUp
  <1>2. CASE AbortSends
    <2>1. /\ runtime.at = "disposing" /\ runtime' = [at |-> "draining", awaits |-> Sending]
          /\ UNCHANGED <<wire, taken>>
          /\ sends' = [m \in Mails |->
                 IF m \in Sending /\ sends[m].reason = "none"
                 THEN [sends[m] EXCEPT !.reason = "closed"] ELSE sends[m]]
      BY <1>2 DEF AbortSends
    <2>2. sends \in [Mails -> Send]
      BY <1>0 DEF SendShapeOK
    <2>3. \A m \in Mails :
            LET q == [sends[m] EXCEPT !.reason = "closed"] IN
            /\ q \in Send /\ q.at = sends[m].at /\ q.result = sends[m].result
            /\ q.answer = sends[m].answer /\ q.cancelled = sends[m].cancelled
      BY <2>2
    <2>4. /\ sends' \in [Mails -> Send]
          /\ \A m \in Mails :
               /\ sends'[m].at = sends[m].at /\ sends'[m].result = sends[m].result
               /\ sends'[m].answer = sends[m].answer /\ sends'[m].cancelled = sends[m].cancelled
               /\ m \in Sending \/ sends'[m] = sends[m]
      BY <2>1, <2>2, <2>3
    <2>5. Sending' = Sending
      BY <2>4 DEF Sending
    <2>6. SendShapeOK'
      BY <1>0, <2>1, <2>4 DEF SendShapeOK, Sending
    <2>7. \A m \in Mails : SendOK(m)'
      BY <1>0, <2>1, <2>4 DEF SendOK, TransportClosed, Sending
    <2>8. DrainOK'
      BY <2>1, <2>5 DEF DrainOK
    <2> QED
      BY <2>6, <2>7, <2>8 DEF SendInv
  <1>3. CASE CloseRuntime \/ DisposeTransport \/ SendsEnded \/ DisposeSdk
    <2>1. UNCHANGED <<sends, wire, taken>> /\ Sending' = Sending
      BY <1>3 DEF CloseRuntime, DisposeTransport, SendsEnded, DisposeSdk, CloseGoes, Sending
    <2>2. /\ runtime' \in [at : {"open", "called", "disposing", "draining", "sdk", "closed",
                                 "failed"}, awaits : SUBSET Mails]
          /\ runtime'.at \in {"called", "disposing", "sdk", "closed", "failed"}
          /\ TransportClosed => TransportClosed'
          /\ runtime'.at \in {"sdk", "closed", "failed"} => Sending = {}
      <3>0. runtime \in [at : {"open", "called", "disposing", "draining", "sdk", "closed",
                               "failed"}, awaits : SUBSET Mails]
        BY <1>0 DEF SendShapeOK
      <3>1. CASE CloseRuntime
        BY <3>0, <3>1 DEF CloseRuntime, CloseGoes, TransportClosed
      <3>2. CASE DisposeTransport
        BY <3>0, <3>2 DEF DisposeTransport, CloseGoes, TransportClosed
      <3>3. CASE SendsEnded
        BY <1>0, <3>0, <3>3 DEF SendsEnded, CloseGoes, TransportClosed, DrainOK
      <3>4. CASE DisposeSdk
        BY <1>0, <3>0, <3>4 DEF DisposeSdk, CloseGoes, TransportClosed, DrainOK
      <3> QED
        BY <1>3, <3>1, <3>2, <3>3, <3>4
    <2>3. SendShapeOK' /\ DrainOK'
      BY <1>0, <2>1, <2>2 DEF SendShapeOK, DrainOK
    <2>4. \A m \in Mails : SendOK(m)'
      BY <1>0, <2>1, <2>2 DEF SendOK
    <2> QED
      BY <2>3, <2>4 DEF SendInv
  <1>4. CASE UNCHANGED transportVars
    BY <1>0, <1>4 DEF transportVars, SendInv, SendShapeOK, SendOK, DrainOK, Sending, TransportClosed
  <1> QED
    BY <1>1, <1>2, <1>3, <1>4 DEF TransportNext, CloseNext

LEMMA SendInvariance == TransportSpec => []SendInv
  BY SendsInitially, SendStep, PTL DEF TransportSpec

\* However a mail is cancelled, timed out, closed or submitted again, it is
\* accepted once and its caller is told what happened; and the SDK is disposed
\* of when no send uses it (bounded-mail-runtime.ts, resend-runtime.ts).
THEOREM SendsEndAsToldOf == TransportSpec => []SendsSettle
  <1>1. SendInv => SendsSettle
    <2> SUFFICES ASSUME SendInv PROVE SendsSettle
      OBVIOUS
    <2>1. \A m \in Mails : Cardinality(taken[m]) <= 1
      <3> SUFFICES ASSUME NEW m \in Mails PROVE Cardinality(taken[m]) <= 1
        OBVIOUS
      <3>1. taken[m] = {} \/ taken[m] = {0}
        BY DEF SendInv, SendShapeOK
      <3>2. Cardinality({}) = 0 /\ Cardinality({0}) = 1
        BY FS_EmptySet, FS_Singleton
      <3> QED
        BY <3>1, <3>2
    <2> QED
      BY <2>1 DEF SendInv, SendOK, DrainOK, SendsSettle
  <1> QED
    BY <1>1, SendInvariance, PTL

-----------------------------------------------------------------------------
(***************************************************************************)
(* MailConfiguration, whatever its sources give.  The rank of two fields is *)
(* the greater of theirs, and one of them is alone at it when their ranks   *)
(* differ, so that the choice of a credential compares ranks only; without  *)
(* what is ignored, the compared ranks fall but never the chosen one.       *)
(***************************************************************************)
Setting == [rank : 1 .. 3, value : STRING] \union {NotGiven}
Raw == [MailFields -> Setting]
Ranks == -1 .. 3

Greater(a, b) == IF a >= b THEN a ELSE b

ResolvedOK ==
  /\ given \in Givens
  /\ mail = Undecided \/ mail = MailSettings(RawSettings(given))

LEMMA BoundIsSetting ==
  ASSUME NEW values \in SUBSET [rank : 1 .. 3, value : STRING]
  PROVE  BindSetting(values) \in Setting
  <1>1. CASE values = {}
    BY <1>1 DEF BindSetting, Setting
  <1>2. CASE values # {}
    <2>1. \E v \in values : \A w \in values : w.rank <= v.rank
      <3>1. \A v \in values : v.rank \in 1 .. 3
        OBVIOUS
      <3>2. CASE \E v \in values : v.rank = 3
        BY <3>1, <3>2
      <3>3. CASE (\A v \in values : v.rank # 3) /\ (\E v \in values : v.rank = 2)
        BY <3>1, <3>3
      <3>4. CASE \A v \in values : v.rank # 3 /\ v.rank # 2
        BY <1>2, <3>1, <3>4
      <3> QED
        BY <3>2, <3>3, <3>4
    <2>2. BindSetting(values) \in values
      BY <1>2, <2>1 DEF BindSetting
    <2> QED
      BY <2>2 DEF Setting
  <1> QED
    BY <1>1, <1>2

LEMMA SettingsAreRaw == ASSUME NEW giving \in Givens PROVE RawSettings(giving) \in Raw
  <1>1. \A f \in MailFields : giving[f] \in SUBSET [rank : 1 .. 3, value : STRING]
    BY GivensAssumption
  <1>2. \A f \in MailFields : BindSetting(giving[f]) \in Setting
    BY <1>1, BoundIsSetting
  <1> QED
    BY <1>2 DEF RawSettings, Raw

\* What is not given is one value, of the lowest rank.
LEMMA SettingMeans ==
  ASSUME NEW raw \in Raw, NEW f \in MailFields
  PROVE  /\ raw[f] \in Setting
         /\ raw[f].rank \in Ranks
         /\ raw[f].rank # 0
         /\ IsGiven(raw, f) <=> raw[f].rank >= 1
         /\ IsGiven(raw, f) <=> raw[f] # NotGiven
         /\ raw[f].rank = -1 <=> raw[f] = NotGiven
  BY DEF Raw, Setting, NotGiven, IsGiven, Ranks

LEMMA GreatestExists ==
  ASSUME NEW S \in SUBSET Ranks, S # {}
  PROVE  Max(S) \in S /\ \A r \in S : r <= Max(S)
  <1>1. \E x \in S : \A y \in S : x >= y
    <2>1. CASE 3 \in S
      BY <2>1 DEF Ranks
    <2>2. CASE 3 \notin S /\ 2 \in S
      BY <2>2 DEF Ranks
    <2>3. CASE 3 \notin S /\ 2 \notin S /\ 1 \in S
      BY <2>3 DEF Ranks
    <2>4. CASE 3 \notin S /\ 2 \notin S /\ 1 \notin S /\ 0 \in S
      BY <2>4 DEF Ranks
    <2>5. CASE S \subseteq {-1}
      <3>1. -1 \in S /\ \A y \in S : y = -1
        BY <2>5
      <3>2. -1 >= -1
        OBVIOUS
      <3> QED
        BY <3>1, <3>2
    <2> QED
      BY <2>1, <2>2, <2>3, <2>4, <2>5 DEF Ranks
  <1>2. Max(S) \in S /\ \A y \in S : Max(S) >= y
    BY <1>1 DEF Max
  <1> QED
    BY <1>2 DEF Ranks

\* The rank of fields is the highest of theirs.
LEMMA RankMeans ==
  ASSUME NEW raw \in Raw, NEW fields \in SUBSET MailFields, fields # {}
  PROVE  /\ RankOf(raw, fields) \in Ranks
         /\ \A f \in fields : raw[f].rank <= RankOf(raw, fields)
         /\ \E f \in fields : raw[f].rank = RankOf(raw, fields)
  <1> DEFINE S == {raw[f].rank : f \in fields}
  <1>1. S \in SUBSET Ranks /\ S # {}
    BY SettingMeans
  <1>2. RankOf(raw, fields) = Max(S)
    BY DEF RankOf
  <1> HIDE DEF S
  <1>3. Max(S) \in S /\ \A r \in S : r <= Max(S)
    BY <1>1, GreatestExists
  <1> USE DEF S
  <1> QED
    BY <1>1, <1>2, <1>3

LEMMA GreatestOfTwo ==
  ASSUME NEW a \in Ranks, NEW b \in Ranks
  PROVE  Max({a, b}) = Greater(a, b) /\ Greater(a, b) \in Ranks
  <1>1. Max({a, b}) \in {a, b} /\ \A r \in {a, b} : r <= Max({a, b})
    BY GreatestExists
  <1> QED
    BY <1>1 DEF Greater, Ranks

LEMMA RankOfTwo ==
  ASSUME NEW raw \in Raw, NEW f \in MailFields, NEW g \in MailFields
  PROVE  RankOf(raw, {f, g}) = Greater(raw[f].rank, raw[g].rank)
  <1>1. /\ RankOf(raw, {f, g}) \in Ranks
        /\ \A h \in {f, g} : raw[h].rank <= RankOf(raw, {f, g})
        /\ \E h \in {f, g} : raw[h].rank = RankOf(raw, {f, g})
    BY RankMeans
  <1>2. raw[f].rank \in Ranks /\ raw[g].rank \in Ranks
    BY SettingMeans
  <1> QED
    BY <1>1, <1>2 DEF Greater, Ranks

\* A field is alone at the highest rank when every other field has a lower one.
LEMMA AloneMeans ==
  ASSUME NEW raw \in Raw, NEW fields \in SUBSET MailFields, fields # {}
  PROVE  /\ Cardinality(HighestFields(raw, fields)) = 1 =>
              \E f \in fields :
                 /\ HighestField(raw, fields) = f /\ raw[f].rank >= 1
                 /\ \A g \in fields \ {f} : raw[g].rank < raw[f].rank
         /\ \A f \in fields :
              raw[f].rank >= 1 /\ (\A g \in fields \ {f} : raw[g].rank < raw[f].rank) =>
                 /\ Cardinality(HighestFields(raw, fields)) = 1
                 /\ HighestField(raw, fields) = f
  <1> DEFINE H == HighestFields(raw, fields)
  <1>1. /\ RankOf(raw, fields) \in Ranks
        /\ \A f \in fields : raw[f].rank <= RankOf(raw, fields)
        /\ \E f \in fields : raw[f].rank = RankOf(raw, fields)
    BY RankMeans
  <1>2. \A f \in fields : /\ raw[f].rank \in Ranks /\ (IsGiven(raw, f) <=> raw[f].rank >= 1)
                          /\ raw[f].rank # 0
    BY SettingMeans
  <1>3. H = {f \in fields : IsGiven(raw, f) /\ raw[f].rank = RankOf(raw, fields)}
    BY DEF HighestFields
  <1>f. HighestField(raw, fields) = CHOOSE f \in fields : f \in H
    BY DEF HighestField
  <1> HIDE DEF H
  <1>4. ASSUME Cardinality(H) = 1
        PROVE  \E f \in fields :
                 /\ HighestField(raw, fields) = f /\ raw[f].rank >= 1
                 /\ \A g \in fields \ {f} : raw[g].rank < raw[f].rank
    <2>1. IsFiniteSet(MailFields)
      <3>1. /\ Selectors = (({"mailTransport"} \union {"smtpUrl"}) \union {"smtpHost"})
                            \union {"jmapSessionUrl"}
            /\ PasswordFields = {"password"} \union {"passwordFile"}
            /\ TokenFields = {"token"} \union {"tokenFile"}
            /\ MailFields = ((Selectors \union (PasswordFields \union TokenFields))
                               \union {"user"}) \union {"tls"} \union {"authMethod"}
        BY DEF Selectors, PasswordFields, TokenFields, MailFields, CredentialFields
      <3>2. \A x : IsFiniteSet({x})
        BY FS_Singleton
      <3>3. \A S, x : IsFiniteSet(S) => IsFiniteSet(S \union {x})
        BY FS_AddElement
      <3>4. IsFiniteSet(Selectors)
        BY <3>1, <3>2, <3>3, Zenon
      <3>5. IsFiniteSet(PasswordFields) /\ IsFiniteSet(TokenFields)
        BY <3>1, <3>2, <3>3, Zenon
      <3>6. IsFiniteSet(Selectors \union (PasswordFields \union TokenFields))
        BY <3>4, <3>5, FS_Union
      <3> QED
        BY <3>1, <3>3, <3>6, Zenon
    <2>2. IsFiniteSet(H)
      BY <1>3, <2>1, FS_Subset
    <2>3. PICK f : H = {f}
      BY <1>4, <2>2, FS_Singleton
    <2>4. f \in fields /\ raw[f].rank >= 1 /\ raw[f].rank = RankOf(raw, fields)
      BY <1>2, <1>3, <2>3
    <2>5. HighestField(raw, fields) = f
      BY <1>f, <2>3, <2>4
    <2>6. \A g \in fields \ {f} : raw[g].rank < raw[f].rank
      <3> SUFFICES ASSUME NEW g \in fields \ {f} PROVE raw[g].rank < raw[f].rank
        OBVIOUS
      <3>1. raw[g].rank # RankOf(raw, fields)
        BY <1>2, <1>3, <2>3, <2>4
      <3> QED
        BY <1>1, <1>2, <2>4, <3>1 DEF Ranks
    <2> QED
      BY <2>4, <2>5, <2>6
  <1>5. ASSUME NEW f \in fields, raw[f].rank >= 1,
               \A g \in fields \ {f} : raw[g].rank < raw[f].rank
        PROVE  Cardinality(H) = 1 /\ HighestField(raw, fields) = f
    <2>1. raw[f].rank = RankOf(raw, fields)
      BY <1>1, <1>2, <1>5 DEF Ranks
    <2>2. H = {f}
      BY <1>2, <1>3, <1>5, <2>1 DEF Ranks
    <2> QED
      BY <1>f, <2>2, FS_Singleton
  <1> QED
    BY <1>4, <1>5 DEF H

\* What decides between the variants of a credential, as ranks.
LEMMA VariantsMean ==
  ASSUME NEW raw \in Raw
  PROVE  /\ RankOf(raw, PasswordFields) = Greater(raw["password"].rank, raw["passwordFile"].rank)
         /\ RankOf(raw, TokenFields) = Greater(raw["token"].rank, raw["tokenFile"].rank)
         /\ RankOf(raw, PasswordFields) \in Ranks
         /\ RankOf(raw, TokenFields) \in Ranks
         /\ \A f \in CredentialFields : raw[f].rank \in Ranks /\ raw[f].rank # 0
  <1>1. PasswordFields \subseteq MailFields /\ TokenFields \subseteq MailFields
    BY DEF MailFields, CredentialFields
  <1>2. {"password", "passwordFile", "token", "tokenFile"} \subseteq MailFields
        /\ CredentialFields \subseteq MailFields
    BY DEF MailFields, CredentialFields, PasswordFields, TokenFields
  <1>3. RankOf(raw, PasswordFields) = Greater(raw["password"].rank, raw["passwordFile"].rank)
    BY <1>2, RankOfTwo DEF PasswordFields
  <1>4. RankOf(raw, TokenFields) = Greater(raw["token"].rank, raw["tokenFile"].rank)
    BY <1>2, RankOfTwo DEF TokenFields
  <1>5. PasswordFields # {} /\ TokenFields # {}
    BY DEF PasswordFields, TokenFields
  <1>6. RankOf(raw, PasswordFields) \in Ranks /\ RankOf(raw, TokenFields) \in Ranks
    BY <1>1, <1>5, RankMeans
  <1>7. \A f \in CredentialFields : raw[f].rank \in Ranks /\ raw[f].rank # 0
    BY <1>2, SettingMeans
  <1> QED
    BY <1>3, <1>4, <1>6, <1>7

\* One of two fields is alone when their ranks differ.
LEMMA AloneOfTwo ==
  ASSUME NEW raw \in Raw, NEW f \in MailFields, NEW g \in MailFields, f # g
  PROVE  /\ Cardinality(HighestFields(raw, {f, g})) = 1 <=> raw[f].rank # raw[g].rank
         /\ raw[f].rank > raw[g].rank => HighestField(raw, {f, g}) = f
         /\ raw[f].rank < raw[g].rank => HighestField(raw, {f, g}) = g
  <1>1. /\ raw[f].rank \in Ranks /\ raw[g].rank \in Ranks /\ raw[f].rank # 0
        /\ raw[g].rank # 0
    BY SettingMeans
  <1> DEFINE S == {f, g}
             One == Cardinality(HighestFields(raw, S)) = 1
  <1>2. /\ One => \E x \in S : /\ HighestField(raw, S) = x /\ raw[x].rank >= 1
                               /\ \A y \in S \ {x} : raw[y].rank < raw[x].rank
        /\ \A x \in S : raw[x].rank >= 1 /\ (\A y \in S \ {x} : raw[y].rank < raw[x].rank)
                          => One /\ HighestField(raw, S) = x
    <2>1. S \in SUBSET MailFields /\ S # {}
      OBVIOUS
    <2> QED
      BY <2>1, AloneMeans
  <1> HIDE DEF One
  <1>3. ASSUME One PROVE raw[f].rank # raw[g].rank
    <2>1. PICK x \in {f, g} : \A y \in {f, g} \ {x} : raw[y].rank < raw[x].rank
      BY <1>2, <1>3
    <2> QED
      BY <1>1, <2>1 DEF Ranks
  <1>4. ASSUME raw[f].rank > raw[g].rank PROVE One /\ HighestField(raw, S) = f
    BY <1>1, <1>2, <1>4 DEF Ranks
  <1>5. ASSUME raw[f].rank < raw[g].rank PROVE One /\ HighestField(raw, S) = g
    BY <1>1, <1>2, <1>5 DEF Ranks
  <1> QED
    BY <1>1, <1>3, <1>4, <1>5 DEF Ranks, One

SmtpFields == CredentialFields \union {"smtpUrl"}

\* The rank each credential of SMTP is given at.
SmtpRank(raw, f) ==
  IF f = "smtpUrl" THEN UrlComponents(raw).password.rank ELSE raw[f].rank

Chosen(raw, c) ==
  c \in SmtpFields /\ SmtpRank(raw, c) >= 1
  /\ \A f \in SmtpFields \ {c} : SmtpRank(raw, f) < SmtpRank(raw, c)

LEMMA SmtpRanksMean ==
  ASSUME NEW raw \in Raw
  PROVE  /\ \A f \in SmtpFields : SmtpRank(raw, f) \in Ranks /\ SmtpRank(raw, f) # 0
         /\ UrlComponents(raw).password = IF raw["smtpUrl"].value = "login"
              THEN [rank |-> raw["smtpUrl"].rank, value |-> "password"] ELSE NotGiven
         /\ SmtpPasswordRank(raw) = Greater(RankOf(raw, PasswordFields), SmtpRank(raw, "smtpUrl"))
         /\ SmtpPasswordRank(raw) \in Ranks
  <1> DEFINE u == UrlComponents(raw).password
  <1>1. u = IF raw["smtpUrl"].value = "login"
              THEN [rank |-> raw["smtpUrl"].rank, value |-> "password"] ELSE NotGiven
    BY DEF UrlComponents
  <1>2. raw["smtpUrl"].rank \in Ranks /\ raw["smtpUrl"].rank # 0
    BY SettingMeans DEF MailFields, Selectors
  <1>3. u.rank \in Ranks /\ u.rank # 0
    BY <1>1, <1>2 DEF NotGiven, Ranks
  <1>4. \A f \in SmtpFields : SmtpRank(raw, f) \in Ranks /\ SmtpRank(raw, f) # 0
    BY <1>3, VariantsMean DEF SmtpFields, SmtpRank
  <1>5. SmtpPasswordRank(raw) = Greater(RankOf(raw, PasswordFields), u.rank)
        /\ SmtpPasswordRank(raw) \in Ranks
    BY <1>3, VariantsMean, GreatestOfTwo DEF SmtpPasswordRank
  <1> QED
    BY <1>1, <1>4, <1>5 DEF SmtpRank

\* The five ranks, by name.
LEMMA SmtpNumbers ==
  ASSUME NEW raw \in Raw
  PROVE  LET p == raw["password"].rank
             q == raw["passwordFile"].rank
             t == raw["token"].rank
             s == raw["tokenFile"].rank
             u == UrlComponents(raw).password.rank
         IN /\ p \in Ranks /\ q \in Ranks /\ t \in Ranks /\ s \in Ranks /\ u \in Ranks
            /\ p # 0 /\ q # 0 /\ t # 0 /\ s # 0 /\ u # 0
            /\ SmtpPasswordRank(raw) = Greater(Greater(p, q), u)
            /\ RankOf(raw, TokenFields) = Greater(t, s)
            /\ \A c \in SmtpFields : Chosen(raw, c) <=>
                 \/ c = "password" /\ p >= 1 /\ q < p /\ t < p /\ s < p /\ u < p
                 \/ c = "passwordFile" /\ q >= 1 /\ p < q /\ t < q /\ s < q /\ u < q
                 \/ c = "token" /\ t >= 1 /\ p < t /\ q < t /\ s < t /\ u < t
                 \/ c = "tokenFile" /\ s >= 1 /\ p < s /\ q < s /\ t < s /\ u < s
                 \/ c = "smtpUrl" /\ u >= 1 /\ p < u /\ q < u /\ t < u /\ s < u
  <1>1. SmtpFields = {"password", "passwordFile", "token", "tokenFile", "smtpUrl"}
    BY DEF SmtpFields, CredentialFields, PasswordFields, TokenFields
  <1>2. \A f \in SmtpFields : SmtpRank(raw, f) \in Ranks /\ SmtpRank(raw, f) # 0
    BY SmtpRanksMean
  <1>3. /\ SmtpRank(raw, "password") = raw["password"].rank
        /\ SmtpRank(raw, "passwordFile") = raw["passwordFile"].rank
        /\ SmtpRank(raw, "token") = raw["token"].rank
        /\ SmtpRank(raw, "tokenFile") = raw["tokenFile"].rank
        /\ SmtpRank(raw, "smtpUrl") = UrlComponents(raw).password.rank
    BY DEF SmtpRank
  <1>4. \A c \in SmtpFields : Chosen(raw, c) <=>
          SmtpRank(raw, c) >= 1 /\ \A f \in SmtpFields \ {c} : SmtpRank(raw, f) < SmtpRank(raw, c)
    BY DEF Chosen
  <1>5. SmtpPasswordRank(raw) = Greater(Greater(raw["password"].rank, raw["passwordFile"].rank),
                                        UrlComponents(raw).password.rank)
    BY <1>3, SmtpRanksMean, VariantsMean
  <1>6. RankOf(raw, TokenFields) = Greater(raw["token"].rank, raw["tokenFile"].rank)
    BY VariantsMean
  <1> QED
    BY <1>1, <1>2, <1>3, <1>4, <1>5, <1>6

\* What is accepted for SMTP is a credential alone at the highest rank.
LEMMA SmtpChooses ==
  ASSUME NEW raw \in Raw
  PROVE  /\ /\ SmtpAuthenticates(raw) /\ ~SmtpCredentialRefused(raw)
            /\ SmtpPasswordRank(raw) # RankOf(raw, TokenFields)
            => Chosen(raw, SmtpCredential(raw))
         /\ \A c \in SmtpFields : Chosen(raw, c) =>
              /\ SmtpAuthenticates(raw) /\ ~SmtpCredentialRefused(raw)
              /\ SmtpPasswordRank(raw) # RankOf(raw, TokenFields)
              /\ SmtpCredential(raw) = c
              /\ PasswordSelected(raw) <=> c \notin TokenFields
              /\ Max({SmtpPasswordRank(raw), RankOf(raw, TokenFields)}) = SmtpRank(raw, c)
  <1> DEFINE p == raw["password"].rank
             q == raw["passwordFile"].rank
             t == raw["token"].rank
             s == raw["tokenFile"].rank
             u == UrlComponents(raw).password.rank
             P == SmtpPasswordRank(raw)
             T == RankOf(raw, TokenFields)
             literal == ComponentOf(raw["password"], UrlComponents(raw).password)
  <1>1. /\ p \in Ranks /\ q \in Ranks /\ t \in Ranks /\ s \in Ranks /\ u \in Ranks
        /\ p # 0 /\ q # 0 /\ t # 0 /\ s # 0 /\ u # 0
        /\ P = Greater(Greater(p, q), u)
        /\ T = Greater(t, s)
    BY SmtpNumbers
  <1>2. \A c \in SmtpFields : Chosen(raw, c) <=>
                 \/ c = "password" /\ p >= 1 /\ q < p /\ t < p /\ s < p /\ u < p
                 \/ c = "passwordFile" /\ q >= 1 /\ p < q /\ t < q /\ s < q /\ u < q
                 \/ c = "token" /\ t >= 1 /\ p < t /\ q < t /\ s < t /\ u < t
                 \/ c = "tokenFile" /\ s >= 1 /\ p < s /\ q < s /\ t < s /\ u < s
                 \/ c = "smtpUrl" /\ u >= 1 /\ p < u /\ q < u /\ t < u /\ s < u
    BY SmtpNumbers
  <1>3. /\ SmtpAuthenticates(raw) <=> P >= 0 \/ T >= 0
        /\ PasswordSelected(raw) <=> P > T
    BY DEF SmtpAuthenticates, PasswordSelected
  <1>4. /\ Cardinality(HighestFields(raw, TokenFields)) = 1 <=> t # s
        /\ t > s => HighestField(raw, TokenFields) = "token"
        /\ t < s => HighestField(raw, TokenFields) = "tokenFile"
    BY AloneOfTwo DEF TokenFields, MailFields, CredentialFields
  <1>5. Max({p, u}) = Greater(p, u) /\ Max({P, T}) = Greater(P, T)
    <2>1. P \in Ranks /\ T \in Ranks
      BY SmtpRanksMean, VariantsMean
    <2> QED
      BY <1>1, <2>1, GreatestOfTwo
  <1>6. SmtpCredentialRefused(raw) <=>
          IF P > T THEN q = Greater(p, u) \/ (q < Greater(p, u) /\ p = u /\ p >= 0)
          ELSE t = s
    BY <1>3, <1>4, <1>5 DEF SmtpCredentialRefused, GivenTwice
  <1>7. literal.rank = IF p > u THEN p ELSE u
    BY DEF ComponentOf
  <1>8. /\ p > u => literal = raw["password"]
        /\ p < u => literal # raw["password"]
    BY <1>1, <1>7 DEF ComponentOf, Ranks
  <1>9. SmtpCredential(raw) = IF ~(P > T) THEN HighestField(raw, TokenFields)
                              ELSE IF q > literal.rank THEN "passwordFile"
                              ELSE IF literal = raw["password"] THEN "password" ELSE "smtpUrl"
    BY <1>3 DEF SmtpCredential
  <1>10. SmtpFields = {"password", "passwordFile", "token", "tokenFile", "smtpUrl"}
         /\ TokenFields = {"token", "tokenFile"}
    BY DEF SmtpFields, CredentialFields, PasswordFields, TokenFields
  <1>11. /\ SmtpRank(raw, "password") = p /\ SmtpRank(raw, "passwordFile") = q
         /\ SmtpRank(raw, "token") = t /\ SmtpRank(raw, "tokenFile") = s
         /\ SmtpRank(raw, "smtpUrl") = u
    BY DEF SmtpRank
  <1> HIDE DEF p, q, t, s, u, P, T, literal
  <1>12. ASSUME SmtpAuthenticates(raw), ~SmtpCredentialRefused(raw), P # T
         PROVE  Chosen(raw, SmtpCredential(raw))
    <2>1. SmtpCredential(raw) \in SmtpFields
      BY <1>1, <1>3, <1>4, <1>6, <1>9, <1>10, <1>12 DEF Greater, Ranks
    <2>2. CASE ~(P > T)
      BY <1>1, <1>2, <1>3, <1>4, <1>6, <1>9, <1>12, <2>1, <2>2 DEF Greater, Ranks
    <2>3. CASE P > T /\ q > literal.rank
      BY <1>1, <1>2, <1>7, <1>9, <2>1, <2>3 DEF Greater, Ranks
    <2>4. CASE P > T /\ ~(q > literal.rank) /\ p > u
      BY <1>1, <1>2, <1>6, <1>7, <1>8, <1>9, <1>12, <2>1, <2>4 DEF Greater, Ranks
    <2>5. CASE P > T /\ ~(q > literal.rank) /\ p < u
      BY <1>1, <1>2, <1>6, <1>7, <1>8, <1>9, <1>12, <2>1, <2>5 DEF Greater, Ranks
    <2>6. CASE P > T /\ ~(q > literal.rank) /\ p = u
      BY <1>1, <1>6, <1>7, <1>12, <2>6 DEF Greater, Ranks
    <2> QED
      BY <1>1, <2>2, <2>3, <2>4, <2>5, <2>6 DEF Ranks
  <1>13. ASSUME NEW c \in SmtpFields, Chosen(raw, c)
         PROVE  /\ SmtpAuthenticates(raw) /\ ~SmtpCredentialRefused(raw) /\ P # T
                /\ SmtpCredential(raw) = c
                /\ PasswordSelected(raw) <=> c \notin TokenFields
                /\ Max({P, T}) = SmtpRank(raw, c)
    <2>1. CASE c = "password"
      BY <1>1, <1>2, <1>3, <1>5, <1>6, <1>7, <1>8, <1>9, <1>10, <1>11, <1>13, <2>1
      DEF Greater, Ranks
    <2>2. CASE c = "passwordFile"
      BY <1>1, <1>2, <1>3, <1>5, <1>6, <1>7, <1>8, <1>9, <1>10, <1>11, <1>13, <2>2
      DEF Greater, Ranks
    <2>3. CASE c = "smtpUrl"
      BY <1>1, <1>2, <1>3, <1>5, <1>6, <1>7, <1>8, <1>9, <1>10, <1>11, <1>13, <2>3
      DEF Greater, Ranks
    <2>4. CASE c = "token" \/ c = "tokenFile"
      BY <1>1, <1>2, <1>3, <1>4, <1>5, <1>6, <1>9, <1>10, <1>11, <1>13, <2>4
      DEF Greater, Ranks
    <2> QED
      BY <1>10, <2>1, <2>2, <2>3, <2>4
  <1> QED
    BY <1>12, <1>13 DEF P, T

\* A selector that does not decide may go: the same transport is selected.
LEMMA SelectorsDecide ==
  ASSUME NEW raw \in Raw, NEW less \in Raw,
         \A f \in Selectors : \/ less[f] = raw[f]
                              \/ less[f] = NotGiven /\ ~IsDecisive(raw, f)
  PROVE  SelectTransport(less) = SelectTransport(raw)
  <1>1. Selectors \in SUBSET MailFields /\ Selectors # {}
    BY DEF Selectors, MailFields
  <1>2. \A r \in {raw, less} :
          /\ RankOf(r, Selectors) \in Ranks
          /\ \A f \in Selectors : r[f].rank <= RankOf(r, Selectors)
          /\ \E f \in Selectors : r[f].rank = RankOf(r, Selectors)
    BY <1>1, RankMeans
  <1>3. \A r \in {raw, less}, f \in Selectors :
          r[f].rank \in Ranks /\ r[f].rank # 0 /\ (IsGiven(r, f) <=> r[f].rank >= 1)
    BY <1>1, SettingMeans
  <1>4. \A r \in {raw, less}, f \in Selectors :
          IsDecisive(r, f) <=> r[f].rank >= 1 /\ r[f].rank = RankOf(r, Selectors)
    BY <1>3 DEF IsDecisive, HighestFields
  <1>5. NotGiven.rank = -1
    BY DEF NotGiven
  <1>6. \A f \in Selectors : less[f].rank <= raw[f].rank
    BY <1>3, <1>5 DEF Ranks
  <1>7. \A f \in Selectors : IsDecisive(less, f) <=> IsDecisive(raw, f)
    <2>1. CASE RankOf(raw, Selectors) >= 1
      <3>1. PICK f \in Selectors : raw[f].rank = RankOf(raw, Selectors)
        BY <1>2
      <3>2. less[f] = raw[f]
        BY <1>4, <2>1, <3>1
      <3>3. RankOf(less, Selectors) = RankOf(raw, Selectors)
        <4>1. PICK g \in Selectors : less[g].rank = RankOf(less, Selectors)
          BY <1>2
        <4>2. RankOf(less, Selectors) <= RankOf(raw, Selectors)
          BY <1>2, <1>3, <1>6, <4>1 DEF Ranks
        <4>3. RankOf(less, Selectors) >= RankOf(raw, Selectors)
          BY <1>2, <3>1, <3>2 DEF Ranks
        <4> QED
          BY <1>2, <4>2, <4>3 DEF Ranks
      <3> QED
        BY <1>3, <1>4, <1>5, <3>3
    <2>2. CASE ~(RankOf(raw, Selectors) >= 1)
      BY <1>2, <1>3, <1>4, <1>6, <2>2 DEF Ranks
    <2> QED
      BY <2>1, <2>2
  <1>8. \A f \in Selectors : IsDecisive(raw, f) => less[f] = raw[f]
    OBVIOUS
  <1>9. /\ IsDecisive(less, "mailTransport") <=> IsDecisive(raw, "mailTransport")
        /\ IsDecisive(less, "smtpUrl") <=> IsDecisive(raw, "smtpUrl")
        /\ IsDecisive(less, "smtpHost") <=> IsDecisive(raw, "smtpHost")
        /\ IsDecisive(less, "jmapSessionUrl") <=> IsDecisive(raw, "jmapSessionUrl")
        /\ IsDecisive(raw, "mailTransport") => less["mailTransport"] = raw["mailTransport"]
    BY <1>7, <1>8 DEF Selectors
  <1> QED
    BY <1>9 DEF SelectTransport

\* A credential that was not chosen may go, and a method it alone needs.
LEMMA SmtpSame ==
  ASSUME NEW raw \in Raw, NEW less \in Raw, ~SmtpRefused(raw),
         \A f \in {"smtpUrl", "smtpHost", "tls", "user"} : less[f] = raw[f],
         \A f \in CredentialFields :
           \/ less[f] = raw[f]
           \/ /\ less[f] = NotGiven
              /\ SmtpAuthenticates(raw) => f # SmtpCredential(raw),
         \/ less["authMethod"] = raw["authMethod"]
         \/ less["authMethod"] = NotGiven /\ MethodPassedOver(raw) /\ SmtpAuthenticates(raw)
  PROVE  SmtpSettings(less) = SmtpSettings(raw)
  <1>1. UrlComponents(less) = UrlComponents(raw)
    BY DEF UrlComponents
  <1>2. \A f \in SmtpFields : /\ SmtpRank(less, f) \in Ranks /\ SmtpRank(raw, f) \in Ranks
                              /\ SmtpRank(less, f) # 0 /\ SmtpRank(raw, f) # 0
    BY SmtpRanksMean
  <1>3. \A f \in SmtpFields :
          \/ SmtpRank(less, f) = SmtpRank(raw, f)
          \/ /\ SmtpRank(less, f) = -1
             /\ SmtpAuthenticates(raw) => f # SmtpCredential(raw)
    BY <1>1 DEF SmtpRank, SmtpFields, NotGiven
  <1>4. \A r \in {raw, less} : \* no credential at all
          SmtpAuthenticates(r) <=> \E f \in SmtpFields : SmtpRank(r, f) >= 1
    <2> SUFFICES ASSUME NEW r \in {raw, less}
                 PROVE  SmtpAuthenticates(r) <=> \E f \in SmtpFields : SmtpRank(r, f) >= 1
      OBVIOUS
    <2>1. r \in Raw
      OBVIOUS
    <2>2. LET p == r["password"].rank
              q == r["passwordFile"].rank
              t == r["token"].rank
              s == r["tokenFile"].rank
              u == UrlComponents(r).password.rank
          IN /\ p \in Ranks /\ q \in Ranks /\ t \in Ranks /\ s \in Ranks /\ u \in Ranks
             /\ p # 0 /\ q # 0 /\ t # 0 /\ s # 0 /\ u # 0
             /\ SmtpPasswordRank(r) = Greater(Greater(p, q), u)
             /\ RankOf(r, TokenFields) = Greater(t, s)
      BY <2>1, SmtpNumbers
    <2>3. SmtpFields = {"password", "passwordFile", "token", "tokenFile", "smtpUrl"}
      BY DEF SmtpFields, CredentialFields, PasswordFields, TokenFields
    <2>4. /\ SmtpRank(r, "password") = r["password"].rank
          /\ SmtpRank(r, "passwordFile") = r["passwordFile"].rank
          /\ SmtpRank(r, "token") = r["token"].rank
          /\ SmtpRank(r, "tokenFile") = r["tokenFile"].rank
          /\ SmtpRank(r, "smtpUrl") = UrlComponents(r).password.rank
      BY DEF SmtpRank
    <2> QED
      BY <2>2, <2>3, <2>4 DEF SmtpAuthenticates, Greater, Ranks
  <1>5. CASE ~SmtpAuthenticates(raw)
    <2>1. \A f \in SmtpFields : SmtpRank(raw, f) = -1
      BY <1>2, <1>4, <1>5 DEF Ranks
    <2>2. ~SmtpAuthenticates(less)
      BY <1>2, <1>3, <1>4, <2>1
    <2>3. less["authMethod"] = raw["authMethod"]
      BY <1>5
    <2>4. ~IsGiven(less, "authMethod")
      BY <1>5, <2>3 DEF SmtpRefused, IsGiven
    <2>5. ~SmtpRefused(less)
      BY <1>1, <1>5, <2>2, <2>4 DEF SmtpRefused, TlsRefused
    <2>6. TlsMode(less, FALSE) = TlsMode(raw, FALSE)
      BY <1>1 DEF TlsMode
    <2>7. SmtpAuthenticates(raw) = FALSE /\ SmtpAuthenticates(less) = FALSE
      BY <1>5, <2>2 DEF SmtpAuthenticates
    <2> QED
      BY <1>1, <1>5, <2>5, <2>6, <2>7 DEF SmtpSettings
  <1>6. CASE SmtpAuthenticates(raw)
    <2> DEFINE c == SmtpCredential(raw)
               top(r) == Max({SmtpPasswordRank(r), RankOf(r, TokenFields)})
    <2>1. /\ SmtpPasswordRank(raw) # RankOf(raw, TokenFields) /\ ~SmtpCredentialRefused(raw)
          /\ AuthenticationMethod(raw) \in MethodsOf(raw)
      BY <1>6 DEF SmtpRefused
    <2>2. Chosen(raw, c)
      BY <1>6, <2>1, SmtpChooses
    <2>3. c \in SmtpFields /\ SmtpRank(less, c) = SmtpRank(raw, c)
      BY <1>3, <1>6, <2>2 DEF Chosen
    <2>4. Chosen(less, c)
      BY <1>2, <1>3, <2>2, <2>3 DEF Chosen, Ranks
    <2>5. /\ SmtpAuthenticates(less) /\ ~SmtpCredentialRefused(less)
          /\ SmtpPasswordRank(less) # RankOf(less, TokenFields)
          /\ SmtpCredential(less) = c
          /\ PasswordSelected(less) <=> c \notin TokenFields
          /\ top(less) = SmtpRank(less, c)
      BY <2>3, <2>4, SmtpChooses
    <2>6. /\ PasswordSelected(raw) <=> c \notin TokenFields
          /\ top(raw) = SmtpRank(raw, c)
      BY <2>2, <2>3, SmtpChooses
    <2> HIDE DEF c
    <2>7. MethodsOf(less) = MethodsOf(raw)
      BY <2>5, <2>6 DEF MethodsOf
    <2>8. AuthenticationMethod(less) = AuthenticationMethod(raw)
      <3>1. CASE less["authMethod"] = raw["authMethod"]
        BY <2>3, <2>5, <2>6, <2>7, <3>1 DEF AuthenticationMethod, MethodPassedOver, IsGiven
      <3>2. CASE less["authMethod"] = NotGiven /\ MethodPassedOver(raw)
        <4>1. ~IsGiven(less, "authMethod")
          BY <3>2 DEF IsGiven, NotGiven
        <4> QED
          BY <2>5, <2>6, <3>2, <4>1 DEF AuthenticationMethod
      <3> QED
        BY <3>1, <3>2
    <2>9. ~SmtpRefused(less)
      BY <1>1, <1>6, <2>1, <2>5, <2>7, <2>8 DEF SmtpRefused, TlsRefused
    <2>10. TlsMode(less, TRUE) = TlsMode(raw, TRUE)
      BY <1>1 DEF TlsMode
    <2> QED
      BY <1>1, <1>6, <2>5, <2>8, <2>9, <2>10 DEF SmtpSettings, c
  <1> QED
    BY <1>5, <1>6

\* The ranks of the two variants, and who is alone at them.
LEMMA PairsMean ==
  ASSUME NEW r \in Raw
  PROVE  LET p == r["password"].rank
             q == r["passwordFile"].rank
             t == r["token"].rank
             s == r["tokenFile"].rank
         IN /\ p \in Ranks /\ q \in Ranks /\ t \in Ranks /\ s \in Ranks
            /\ p # 0 /\ q # 0 /\ t # 0 /\ s # 0
            /\ RankOf(r, PasswordFields) = Greater(p, q)
            /\ RankOf(r, TokenFields) = Greater(t, s)
            /\ Cardinality(HighestFields(r, PasswordFields)) = 1 <=> p # q
            /\ p > q => HighestField(r, PasswordFields) = "password"
            /\ p < q => HighestField(r, PasswordFields) = "passwordFile"
            /\ Cardinality(HighestFields(r, TokenFields)) = 1 <=> t # s
            /\ t > s => HighestField(r, TokenFields) = "token"
            /\ t < s => HighestField(r, TokenFields) = "tokenFile"
  <1>1. {"password", "passwordFile", "token", "tokenFile"} \subseteq MailFields
    BY DEF MailFields, CredentialFields, PasswordFields, TokenFields
  <1>2. /\ Cardinality(HighestFields(r, PasswordFields)) = 1
             <=> r["password"].rank # r["passwordFile"].rank
        /\ r["password"].rank > r["passwordFile"].rank =>
             HighestField(r, PasswordFields) = "password"
        /\ r["password"].rank < r["passwordFile"].rank =>
             HighestField(r, PasswordFields) = "passwordFile"
    BY <1>1, AloneOfTwo DEF PasswordFields
  <1>3. /\ Cardinality(HighestFields(r, TokenFields)) = 1
             <=> r["token"].rank # r["tokenFile"].rank
        /\ r["token"].rank > r["tokenFile"].rank => HighestField(r, TokenFields) = "token"
        /\ r["token"].rank < r["tokenFile"].rank => HighestField(r, TokenFields) = "tokenFile"
    BY <1>1, AloneOfTwo DEF TokenFields
  <1>4. \A f \in {"password", "passwordFile", "token", "tokenFile"} :
          r[f].rank \in Ranks /\ r[f].rank # 0
    BY <1>1, SettingMeans
  <1> QED
    BY <1>2, <1>3, <1>4, VariantsMean

LEMMA JmapSame ==
  ASSUME NEW raw \in Raw, NEW less \in Raw, JmapSettings(raw) # MailRefused,
         less["jmapSessionUrl"] = raw["jmapSessionUrl"],
         \A f \in CredentialFields :
           less[f] = raw[f] \/ (less[f] = NotGiven /\ f # JmapSettings(raw).credential),
         \/ less["user"] = raw["user"]
         \/ less["user"] = NotGiven /\ JmapSettings(raw).user = NotGiven
  PROVE  /\ JmapSettings(less) = JmapSettings(raw)
         /\ \A f \in CredentialFields \ {JmapSettings(raw).credential} :
              raw[f].rank < raw[JmapSettings(raw).credential].rank
         /\ JmapSettings(raw).credential \in CredentialFields
         /\ JmapSettings(raw).transport = "jmap"
  <1> DEFINE c == JmapSettings(raw).credential
             Bearer(r) == RankOf(r, TokenFields) > RankOf(r, PasswordFields)
             Fields(r) == IF Bearer(r) THEN TokenFields ELSE PasswordFields
             Refused(r) == \/ ~IsGiven(r, "jmapSessionUrl")
                           \/ RankOf(r, TokenFields) = RankOf(r, PasswordFields)
                           \/ Cardinality(HighestFields(r, Fields(r))) # 1
                           \/ ~Bearer(r) /\ ~IsGiven(r, "user")
  <1>1. \A r : JmapSettings(r) = IF Refused(r) THEN MailRefused
                 ELSE [transport |-> "jmap",
                       user |-> IF Bearer(r) THEN NotGiven ELSE r["user"],
                       credential |-> HighestField(r, Fields(r))]
    BY DEF JmapSettings
  <1>2. ~Refused(raw) /\ JmapSettings(raw).transport = "jmap"
        /\ c = HighestField(raw, Fields(raw))
        /\ JmapSettings(raw).user = IF Bearer(raw) THEN NotGiven ELSE raw["user"]
    BY <1>1
  <1>3. \A r \in {raw, less} :
          LET p == r["password"].rank
              q == r["passwordFile"].rank
              t == r["token"].rank
              s == r["tokenFile"].rank
          IN /\ p \in Ranks /\ q \in Ranks /\ t \in Ranks /\ s \in Ranks
             /\ p # 0 /\ q # 0 /\ t # 0 /\ s # 0
             /\ RankOf(r, PasswordFields) = Greater(p, q)
             /\ RankOf(r, TokenFields) = Greater(t, s)
             /\ Cardinality(HighestFields(r, PasswordFields)) = 1 <=> p # q
             /\ p > q => HighestField(r, PasswordFields) = "password"
             /\ p < q => HighestField(r, PasswordFields) = "passwordFile"
             /\ Cardinality(HighestFields(r, TokenFields)) = 1 <=> t # s
             /\ t > s => HighestField(r, TokenFields) = "token"
             /\ t < s => HighestField(r, TokenFields) = "tokenFile"
    BY PairsMean
  <1>4. CredentialFields = {"password", "passwordFile", "token", "tokenFile"}
    BY DEF CredentialFields, PasswordFields, TokenFields
  <1>5. \A f \in CredentialFields : \/ less[f].rank = raw[f].rank
                                    \/ less[f].rank = -1 /\ f # c
    BY DEF NotGiven
  <1>6. /\ \/ less["password"].rank = raw["password"].rank
           \/ less["password"].rank = -1 /\ "password" # c
        /\ \/ less["passwordFile"].rank = raw["passwordFile"].rank
           \/ less["passwordFile"].rank = -1 /\ "passwordFile" # c
        /\ \/ less["token"].rank = raw["token"].rank
           \/ less["token"].rank = -1 /\ "token" # c
        /\ \/ less["tokenFile"].rank = raw["tokenFile"].rank
           \/ less["tokenFile"].rank = -1 /\ "tokenFile" # c
    BY <1>4, <1>5
  <1> HIDE DEF c
  <1>7. CASE Bearer(raw)
    <2>1. /\ RankOf(raw, TokenFields) > RankOf(raw, PasswordFields)
          /\ raw["token"].rank # raw["tokenFile"].rank /\ c = HighestField(raw, TokenFields)
      BY <1>2, <1>3, <1>7
    <2>2. /\ c \in CredentialFields
          /\ \A f \in CredentialFields \ {c} : raw[f].rank < raw[c].rank
      BY <1>3, <1>4, <2>1 DEF Greater, Ranks
    <2>3. /\ RankOf(less, TokenFields) > RankOf(less, PasswordFields)
          /\ less["token"].rank # less["tokenFile"].rank /\ c = HighestField(less, TokenFields)
      BY <1>3, <1>6, <2>1 DEF Greater, Ranks
    <2>4. IsGiven(less, "jmapSessionUrl")
      BY <1>2 DEF IsGiven
    <2>5. Bearer(less) /\ ~Refused(less)
      BY <1>3, <2>3, <2>4 DEF Ranks, Greater
    <2> QED
      BY <1>1, <1>2, <1>7, <2>1, <2>2, <2>3, <2>5 DEF c
  <1>8. CASE ~Bearer(raw)
    <2>1. /\ RankOf(raw, TokenFields) < RankOf(raw, PasswordFields)
          /\ raw["password"].rank # raw["passwordFile"].rank
          /\ c = HighestField(raw, PasswordFields)
      BY <1>2, <1>3, <1>8 DEF Greater, Ranks
    <2>2. /\ c \in CredentialFields
          /\ \A f \in CredentialFields \ {c} : raw[f].rank < raw[c].rank
      BY <1>3, <1>4, <2>1 DEF Greater, Ranks
    <2>3. /\ RankOf(less, TokenFields) < RankOf(less, PasswordFields)
          /\ less["password"].rank # less["passwordFile"].rank
          /\ c = HighestField(less, PasswordFields)
      BY <1>3, <1>6, <2>1 DEF Greater, Ranks
    <2>4. IsGiven(less, "jmapSessionUrl") /\ IsGiven(raw, "user")
      BY <1>2, <1>8 DEF IsGiven
    <2>5. less["user"] = raw["user"]
      BY <1>2, <1>8
    <2>6. IsGiven(less, "user")
      BY <2>4, <2>5 DEF IsGiven
    <2>7. ~Bearer(less) /\ ~Refused(less)
      BY <1>3, <2>3, <2>4, <2>6 DEF Ranks, Greater
    <2> QED
      BY <1>1, <1>2, <1>8, <2>1, <2>2, <2>3, <2>5, <2>7 DEF c
  <1> QED
    BY <1>7, <1>8

LEMMA ApiSame ==
  ASSUME NEW raw \in Raw, NEW less \in Raw, ApiMailSettings(raw) # MailRefused,
         \A f \in CredentialFields :
           less[f] = raw[f] \/ (less[f] = NotGiven /\ f # ApiMailSettings(raw).credential)
  PROVE  /\ ApiMailSettings(less) = ApiMailSettings(raw)
         /\ \A f \in CredentialFields \ {ApiMailSettings(raw).credential} :
              raw[f].rank < raw[ApiMailSettings(raw).credential].rank
         /\ ApiMailSettings(raw).credential \in CredentialFields
         /\ ApiMailSettings(raw).transport = "api"
  <1> DEFINE c == HighestField(raw, CredentialFields)
  <1>1. /\ Cardinality(HighestFields(raw, CredentialFields)) = 1
        /\ ApiMailSettings(raw) = [transport |-> "api", credential |-> c]
    BY DEF ApiMailSettings
  <1>2. CredentialFields \in SUBSET MailFields /\ CredentialFields # {}
    BY DEF MailFields, CredentialFields, PasswordFields
  <1>3. /\ c \in CredentialFields /\ raw[c].rank >= 1
        /\ \A f \in CredentialFields \ {c} : raw[f].rank < raw[c].rank
    BY <1>1, <1>2, AloneMeans
  <1> HIDE DEF c
  <1>4. \A f \in CredentialFields :
          raw[f].rank \in Ranks /\ (less[f] = raw[f] \/ (less[f].rank = -1 /\ f # c))
    BY <1>1, VariantsMean DEF NotGiven
  <1>5. /\ less[c].rank >= 1
        /\ \A f \in CredentialFields \ {c} : less[f].rank < less[c].rank
    BY <1>3, <1>4 DEF Ranks
  <1>6. /\ Cardinality(HighestFields(less, CredentialFields)) = 1
        /\ HighestField(less, CredentialFields) = c
    BY <1>2, <1>3, <1>5, AloneMeans
  <1>7. ApiMailSettings(less) = [transport |-> "api", credential |-> c]
    BY <1>6 DEF ApiMailSettings
  <1> QED
    BY <1>1, <1>3, <1>7

LEMMA SesSame ==
  ASSUME NEW raw \in Raw, NEW less \in Raw, SesSettings(raw) # MailRefused,
         less["authMethod"] = raw["authMethod"],
         \A f \in CredentialFields :
           \/ less[f] = raw[f]
           \/ less[f] = NotGiven /\ f \notin {SesSettings(raw).credential, SesSettings(raw).session}
  PROVE  /\ SesSettings(less) = SesSettings(raw)
         /\ \A f \in PasswordFields \ {SesSettings(raw).credential} :
              raw[f].rank < raw[SesSettings(raw).credential].rank
         /\ SesSettings(raw).credential \in CredentialFields
         /\ SesSettings(raw).transport = "ses"
  <1> DEFINE c == HighestField(raw, PasswordFields)
             k == IF SesMode(raw) = "session" THEN HighestField(raw, TokenFields) ELSE "none"
  <1>1. /\ SesMode(raw) \in {"credentials", "session"}
        /\ Cardinality(HighestFields(raw, PasswordFields)) = 1
        /\ SesMode(raw) = "session" => Cardinality(HighestFields(raw, TokenFields)) = 1
        /\ SesSettings(raw) = [transport |-> "ses", mode |-> SesMode(raw), credential |-> c,
                               session |-> k]
    BY DEF SesSettings
  <1>2. \A r \in {raw, less} :
          LET p == r["password"].rank
              q == r["passwordFile"].rank
              t == r["token"].rank
              s == r["tokenFile"].rank
          IN /\ p \in Ranks /\ q \in Ranks /\ t \in Ranks /\ s \in Ranks
             /\ p # 0 /\ q # 0 /\ t # 0 /\ s # 0
             /\ RankOf(r, TokenFields) = Greater(t, s)
             /\ Cardinality(HighestFields(r, PasswordFields)) = 1 <=> p # q
             /\ p > q => HighestField(r, PasswordFields) = "password"
             /\ p < q => HighestField(r, PasswordFields) = "passwordFile"
             /\ Cardinality(HighestFields(r, TokenFields)) = 1 <=> t # s
             /\ t > s => HighestField(r, TokenFields) = "token"
             /\ t < s => HighestField(r, TokenFields) = "tokenFile"
    BY PairsMean
  <1>3. /\ PasswordFields = {"password", "passwordFile"}
        /\ CredentialFields = {"password", "passwordFile", "token", "tokenFile"}
    BY DEF CredentialFields, PasswordFields, TokenFields
  <1>4. \A f \in CredentialFields : \/ less[f].rank = raw[f].rank
                                    \/ less[f].rank = -1 /\ f # c /\ f # k
    <2> HIDE DEF c, k
    <2> QED
      BY <1>1 DEF NotGiven
  <1>5. raw["authMethod"].rank \in Ranks
    BY SettingMeans DEF MailFields
  <1>6. /\ c \in CredentialFields
        /\ \A f \in PasswordFields \ {c} : raw[f].rank < raw[c].rank
        /\ Cardinality(HighestFields(less, PasswordFields)) = 1
        /\ HighestField(less, PasswordFields) = c
    <2>1. /\ raw["password"].rank # raw["passwordFile"].rank
          /\ raw["password"].rank > raw["passwordFile"].rank => c = "password"
          /\ raw["password"].rank < raw["passwordFile"].rank => c = "passwordFile"
      BY <1>1, <1>2
    <2> HIDE DEF c, k
    <2>2. c \in CredentialFields /\ \A f \in PasswordFields \ {c} : raw[f].rank < raw[c].rank
      BY <1>2, <1>3, <2>1 DEF Ranks
    <2>3. /\ c = "password" => less["password"].rank > less["passwordFile"].rank
          /\ c = "passwordFile" => less["password"].rank < less["passwordFile"].rank
      BY <1>2, <1>3, <1>4, <2>1 DEF Ranks
    <2> QED
      BY <1>2, <1>3, <2>1, <2>2, <2>3 DEF Ranks
  <1>7. /\ SesMode(less) = SesMode(raw)
        /\ SesMode(raw) = "session" => /\ Cardinality(HighestFields(less, TokenFields)) = 1
                                       /\ HighestField(less, TokenFields) = k
    <2>1. CASE SesMode(raw) = "session"
      <3>1. /\ raw["token"].rank # raw["tokenFile"].rank
            /\ raw["token"].rank > raw["tokenFile"].rank => k = "token"
            /\ raw["token"].rank < raw["tokenFile"].rank => k = "tokenFile"
        BY <1>1, <1>2, <2>1
      <3> HIDE DEF c, k
      <3>2. /\ RankOf(less, TokenFields) = RankOf(raw, TokenFields)
            /\ k = "token" => less["token"].rank > less["tokenFile"].rank
            /\ k = "tokenFile" => less["token"].rank < less["tokenFile"].rank
            /\ k \in {"token", "tokenFile"}
        BY <1>2, <1>3, <1>4, <3>1 DEF Ranks, Greater
      <3>3. SesMode(less) = SesMode(raw)
        BY <3>2 DEF SesMode, IsGiven
      <3> QED
        BY <1>2, <3>1, <3>2, <3>3 DEF Ranks
    <2>2. CASE SesMode(raw) # "session"
      <3>1. ~(RankOf(raw, TokenFields) > raw["authMethod"].rank)
        BY <2>2 DEF SesMode
      <3> HIDE DEF c, k
      <3>2. RankOf(less, TokenFields) <= RankOf(raw, TokenFields)
        BY <1>2, <1>3, <1>4 DEF Greater, Ranks
      <3>3. ~(RankOf(less, TokenFields) > less["authMethod"].rank)
        BY <1>2, <1>5, <3>1, <3>2 DEF Greater, Ranks
      <3> QED
        BY <2>2, <3>1, <3>3 DEF SesMode, IsGiven
    <2> QED
      BY <2>1, <2>2
  <1>8. SesSettings(less) = SesSettings(raw)
    BY <1>1, <1>6, <1>7 DEF SesSettings
  <1> QED
    BY <1>1, <1>6, <1>8

\* What the ignored settings of a transport are not.
LEMMA IgnoredMeans ==
  ASSUME NEW raw \in Raw, NEW m, m.transport \in Transports,
         NEW f \in IgnoredFields(raw, m)
  PROVE  /\ f \in MailFields /\ IsGiven(raw, f)
         /\ f # "mailTransport"
         /\ m.transport = "smtp" =>
              /\ f \notin {"smtpUrl", "smtpHost", "tls", "user"}
              /\ f \in CredentialFields =>
                   f # m.credential /\ ~(f = "password" /\ m.credential = "smtpUrl")
              /\ f = "authMethod" => m.credential # "none" /\ MethodPassedOver(raw)
         /\ m.transport = "jmap" =>
              /\ f # "jmapSessionUrl"
              /\ f \in CredentialFields => f # m.credential
              /\ f = "user" => m.user = NotGiven
         /\ m.transport = "api" /\ f \in CredentialFields => f # m.credential
         /\ m.transport = "ses" =>
              /\ f # "authMethod"
              /\ f \in CredentialFields => f \notin {m.credential, m.session}
  <1>1. /\ f \in MailFields /\ IsGiven(raw, f)
        /\ \/ f \notin FieldsOf(m.transport)
           \/ /\ m.transport = "smtp"
              /\ \/ /\ f \in CredentialFields
                    /\ f # m.credential
                    /\ ~(f = "password" /\ m.credential = "smtpUrl")
                 \/ f = "authMethod" /\ m.credential # "none" /\ MethodPassedOver(raw)
           \/ /\ m.transport = "jmap"
              /\ f \in (CredentialFields \ {m.credential}) \union
                       (IF m.user = NotGiven THEN {"user"} ELSE {})
           \/ m.transport = "api" /\ f \in CredentialFields \ {m.credential}
           \/ m.transport = "ses" /\ f \in CredentialFields \ {m.credential, m.session}
    BY DEF IgnoredFields
  <1>2. CredentialFields = {"password", "passwordFile", "token", "tokenFile"}
    BY DEF CredentialFields, PasswordFields, TokenFields
  <1>3. CASE m.transport = "smtp"
    BY <1>1, <1>2, <1>3 DEF FieldsOf, MailFields, Selectors
  <1>4. CASE m.transport = "jmap"
    BY <1>1, <1>2, <1>4 DEF FieldsOf
  <1>5. CASE m.transport = "api"
    BY <1>1, <1>2, <1>5 DEF FieldsOf
  <1>6. CASE m.transport = "ses"
    BY <1>1, <1>2, <1>6 DEF FieldsOf
  <1>7. CASE m.transport = "logtape"
    BY <1>1, <1>2, <1>7 DEF FieldsOf
  <1> QED
    BY <1>3, <1>4, <1>5, <1>6, <1>7 DEF Transports

\* Only a selector of the transport decides.
LEMMA OthersDecideNothing ==
  ASSUME NEW raw \in Raw, SelectTransport(raw) # "refused"
  PROVE  /\ SelectTransport(raw) \in Transports
         /\ SelectTransport(raw) # "smtp" =>
              ~IsDecisive(raw, "smtpUrl") /\ ~IsDecisive(raw, "smtpHost")
         /\ SelectTransport(raw) # "jmap" => ~IsDecisive(raw, "jmapSessionUrl")
  BY DEF SelectTransport

\* A credential that is used over SMTP needs more than opportunistic TLS.
LEMMA SmtpNeedsTls ==
  ASSUME NEW raw \in Raw, SmtpSettings(raw) # MailRefused
  PROVE  /\ SmtpSettings(raw).transport = "smtp"
         /\ ~SmtpRefused(raw)
         /\ SmtpAuthenticates(raw) =>
              /\ SmtpSettings(raw).tls # "opportunistic"
              /\ SmtpSettings(raw).credential = SmtpCredential(raw)
              /\ Chosen(raw, SmtpCredential(raw))
         /\ ~SmtpAuthenticates(raw) => SmtpSettings(raw).credential = "none"
  <1>1. ~SmtpRefused(raw) /\ SmtpSettings(raw).transport = "smtp"
        /\ SmtpSettings(raw).tls = TlsMode(raw, SmtpAuthenticates(raw))
        /\ SmtpSettings(raw).credential =
             IF SmtpAuthenticates(raw) THEN SmtpCredential(raw) ELSE "none"
    BY DEF SmtpSettings
  <1>2. ASSUME SmtpAuthenticates(raw)
        PROVE  Chosen(raw, SmtpCredential(raw))
    BY <1>1, <1>2, SmtpChooses DEF SmtpRefused
  <1>3. ASSUME SmtpAuthenticates(raw)
        PROVE  TlsMode(raw, SmtpAuthenticates(raw)) # "opportunistic"
    BY <1>3 DEF TlsMode
  <1> QED
    BY <1>1, <1>2, <1>3

LEMMA ResolvedFollows ==
  ASSUME NEW raw \in Raw, NEW m, m = MailSettings(raw), m # MailRefused
  PROVE  /\ m.transport \in Transports
         /\ m.transport = "smtp" /\ m.credential # "none" => m.tls # "opportunistic"
         /\ m.transport = "smtp" /\ m.credential # "none" => Chosen(raw, m.credential)
         /\ m.transport \in {"jmap", "api"} =>
              \A f \in CredentialFields \ {m.credential} : raw[f].rank < raw[m.credential].rank
         /\ m.transport = "ses" =>
              \A f \in PasswordFields \ {m.credential} : raw[f].rank < raw[m.credential].rank
         /\ m.transport \in {"jmap", "api", "ses"} => m.credential \in CredentialFields
         /\ MailSettings([f \in MailFields |->
                 IF f \in IgnoredFields(raw, m) THEN NotGiven ELSE raw[f]]) = m
  <1> DEFINE less == [f \in MailFields |->
                        IF f \in IgnoredFields(raw, m) THEN NotGiven ELSE raw[f]]
             t == SelectTransport(raw)
  <1>1. /\ less \in Raw
        /\ \A f \in MailFields : less[f] = IF f \in IgnoredFields(raw, m) THEN NotGiven
                                           ELSE raw[f]
    BY DEF Raw, Setting
  <1> HIDE DEF less
  <1>2. /\ t \in Transports
        /\ t # "smtp" => ~IsDecisive(raw, "smtpUrl") /\ ~IsDecisive(raw, "smtpHost")
        /\ t # "jmap" => ~IsDecisive(raw, "jmapSessionUrl")
    <2>1. t # "refused"
      BY DEF MailSettings
    <2> QED
      BY <2>1, OthersDecideNothing
  <1>3. m = CASE t = "smtp" -> SmtpSettings(raw)
              [] t = "jmap" -> JmapSettings(raw)
              [] t = "api" -> ApiMailSettings(raw)
              [] t = "ses" -> SesSettings(raw)
              [] t = "logtape" -> [transport |-> "logtape"]
              [] OTHER -> MailRefused
    BY DEF MailSettings
  <1>4. m.transport = t
    <2>1. CASE t = "smtp"
      BY <1>3, <2>1, SmtpNeedsTls
    <2>2. CASE t = "jmap"
      BY <1>3, <2>2 DEF JmapSettings
    <2>3. CASE t = "api"
      BY <1>3, <2>3 DEF ApiMailSettings
    <2>4. CASE t = "ses"
      BY <1>3, <2>4 DEF SesSettings
    <2>5. CASE t = "logtape"
      BY <1>3, <2>5
    <2> QED
      BY <1>2, <2>1, <2>2, <2>3, <2>4, <2>5 DEF Transports
  <1>5. \A f \in MailFields :
          \/ less[f] = raw[f]
          \/ less[f] = NotGiven /\ f \in IgnoredFields(raw, m)
    BY <1>1
  <1>6. \A f \in Selectors : \/ less[f] = raw[f]
                             \/ less[f] = NotGiven /\ ~IsDecisive(raw, f)
    <2> SUFFICES ASSUME NEW f \in Selectors, f \in IgnoredFields(raw, m)
                 PROVE  ~IsDecisive(raw, f)
      BY <1>5 DEF MailFields
    <2>1. /\ f # "mailTransport"
          /\ t = "smtp" => f \notin {"smtpUrl", "smtpHost"}
          /\ t = "jmap" => f # "jmapSessionUrl"
      BY <1>2, <1>4, IgnoredMeans
    <2> QED
      BY <1>2, <2>1 DEF Selectors
  <1>7. SelectTransport(less) = t
    BY <1>1, <1>6, SelectorsDecide
  <1>8. CredentialFields \subseteq MailFields
        /\ {"smtpUrl", "smtpHost", "tls", "user", "authMethod", "jmapSessionUrl"} \subseteq MailFields
    BY DEF MailFields, Selectors
  <1>9. CASE t = "smtp"
    <2>1. m = SmtpSettings(raw) /\ SmtpSettings(raw) # MailRefused
      BY <1>3, <1>9
    <2>2. /\ m.transport = "smtp" /\ ~SmtpRefused(raw)
          /\ SmtpAuthenticates(raw) => /\ m.tls # "opportunistic"
                                       /\ m.credential = SmtpCredential(raw)
                                       /\ Chosen(raw, SmtpCredential(raw))
          /\ ~SmtpAuthenticates(raw) => m.credential = "none"
      BY <2>1, SmtpNeedsTls
    <2>3. \A f \in {"smtpUrl", "smtpHost", "tls", "user"} : less[f] = raw[f]
      BY <1>2, <1>4, <1>5, <1>8, <1>9, IgnoredMeans
    <2>4. \A f \in CredentialFields :
            \/ less[f] = raw[f]
            \/ less[f] = NotGiven /\ (SmtpAuthenticates(raw) => f # SmtpCredential(raw))
      BY <1>2, <1>4, <1>5, <1>8, <1>9, <2>2, IgnoredMeans
    <2>5. \/ less["authMethod"] = raw["authMethod"]
          \/ less["authMethod"] = NotGiven /\ MethodPassedOver(raw) /\ SmtpAuthenticates(raw)
      BY <1>2, <1>4, <1>5, <1>8, <1>9, <2>2, IgnoredMeans
    <2>6. SmtpSettings(less) = m
      BY <1>1, <2>1, <2>2, <2>3, <2>4, <2>5, SmtpSame
    <2>7. MailSettings(less) = m
      BY <1>7, <1>9, <2>6 DEF MailSettings
    <2> QED
      BY <1>9, <2>2, <2>7 DEF less, Transports
  <1>10. CASE t = "jmap"
    <2>1. m = JmapSettings(raw) /\ m # MailRefused
      BY <1>3, <1>10
    <2>2. less["jmapSessionUrl"] = raw["jmapSessionUrl"]
      <3>1. "jmapSessionUrl" \notin IgnoredFields(raw, m)
        BY <1>2, <1>4, <1>10, IgnoredMeans
      <3> QED
        BY <1>5, <1>8, <3>1
    <2>3. \A f \in CredentialFields : less[f] = raw[f] \/ (less[f] = NotGiven /\ f # m.credential)
      <3>1. ASSUME NEW f \in CredentialFields, f \in IgnoredFields(raw, m)
            PROVE  f # m.credential
        BY <1>2, <1>4, <1>10, <3>1, IgnoredMeans
      <3>2. \A f \in CredentialFields :
              less[f] = raw[f] \/ (less[f] = NotGiven /\ f \in IgnoredFields(raw, m))
        BY <1>5, <1>8
      <3> QED
        BY <3>1, <3>2
    <2>4. less["user"] = raw["user"] \/ (less["user"] = NotGiven /\ m.user = NotGiven)
      <3>1. "user" \in IgnoredFields(raw, m) => m.user = NotGiven
        BY <1>2, <1>4, <1>10, IgnoredMeans
      <3> QED
        BY <1>5, <1>8, <3>1
    <2>5. /\ JmapSettings(less) = m /\ m.transport = "jmap" /\ m.credential \in CredentialFields
          /\ \A f \in CredentialFields \ {m.credential} : raw[f].rank < raw[m.credential].rank
      BY <1>1, <2>1, <2>2, <2>3, <2>4, JmapSame
    <2>6. MailSettings(less) = m
      BY <1>7, <1>10, <2>5 DEF MailSettings
    <2> QED
      BY <2>5, <2>6 DEF less, Transports
  <1>11. CASE t = "api"
    <2>1. m = ApiMailSettings(raw) /\ m # MailRefused
      BY <1>3, <1>11
    <2>2. \A f \in CredentialFields : less[f] = raw[f] \/ (less[f] = NotGiven /\ f # m.credential)
      <3>1. ASSUME NEW f \in CredentialFields, f \in IgnoredFields(raw, m)
            PROVE  f # m.credential
        BY <1>2, <1>4, <1>11, <3>1, IgnoredMeans
      <3>2. \A f \in CredentialFields :
              less[f] = raw[f] \/ (less[f] = NotGiven /\ f \in IgnoredFields(raw, m))
        BY <1>5, <1>8
      <3> QED
        BY <3>1, <3>2
    <2>3. /\ ApiMailSettings(less) = m /\ m.transport = "api" /\ m.credential \in CredentialFields
          /\ \A f \in CredentialFields \ {m.credential} : raw[f].rank < raw[m.credential].rank
      BY <1>1, <2>1, <2>2, ApiSame
    <2>4. MailSettings(less) = m
      BY <1>7, <1>11, <2>3 DEF MailSettings
    <2> QED
      BY <2>3, <2>4 DEF less, Transports
  <1>12. CASE t = "ses"
    <2>1. m = SesSettings(raw) /\ m # MailRefused
      BY <1>3, <1>12
    <2>2. less["authMethod"] = raw["authMethod"]
      BY <1>2, <1>4, <1>5, <1>8, <1>12, IgnoredMeans
    <2>3. \A f \in CredentialFields :
            less[f] = raw[f] \/ (less[f] = NotGiven /\ f \notin {m.credential, m.session})
      <3>1. ASSUME NEW f \in CredentialFields, f \in IgnoredFields(raw, m)
            PROVE  f \notin {m.credential, m.session}
        BY <1>2, <1>4, <1>12, <3>1, IgnoredMeans
      <3>2. \A f \in CredentialFields :
              less[f] = raw[f] \/ (less[f] = NotGiven /\ f \in IgnoredFields(raw, m))
        BY <1>5, <1>8
      <3> QED
        BY <3>1, <3>2
    <2>4. /\ SesSettings(less) = m /\ m.transport = "ses" /\ m.credential \in CredentialFields
          /\ \A f \in PasswordFields \ {m.credential} : raw[f].rank < raw[m.credential].rank
      BY <1>1, <2>1, <2>2, <2>3, SesSame
    <2>5. MailSettings(less) = m
      BY <1>7, <1>12, <2>4 DEF MailSettings
    <2> QED
      BY <2>4, <2>5 DEF less, Transports
  <1>13. CASE t = "logtape"
    <2>1. m.transport = "logtape" /\ MailSettings(less) = m
      BY <1>3, <1>4, <1>7, <1>13 DEF MailSettings
    <2> QED
      BY <2>1 DEF less, Transports
  <1> QED
    BY <1>2, <1>9, <1>10, <1>11, <1>12, <1>13 DEF Transports

\* Whatever the three sources give, a credential used over SMTP needs TLS, the
\* credential used is alone at its source and no higher one gives another, and
\* what is reported as ignored plays no part (resolveMailSettings()).
THEOREM MailFollowsAnySources == MailSpec => []MailFollowsSources
  <1>1. MailInit => ResolvedOK
    BY DEF MailInit, ResolvedOK
  <1>2. ResolvedOK /\ [MailNext]_mailVars => ResolvedOK'
    BY DEF ResolvedOK, MailNext, ResolveMailSettings, mailVars
  <1>3. ResolvedOK => MailFollowsSources
    <2> SUFFICES ASSUME ResolvedOK, mail \notin {Undecided, MailRefused}
                 PROVE  LET raw == RawSettings(given) IN
                          /\ CredentialsNeedTls
                          /\ mail.transport # "logtape" => CredentialIsHighest(raw)
                          /\ IgnoredPlaysNoPart(raw)
      BY DEF MailFollowsSources
    <2> DEFINE raw == RawSettings(given)
    <2>1. raw \in Raw /\ mail = MailSettings(raw) /\ mail # MailRefused
      BY SettingsAreRaw DEF ResolvedOK
    <2> HIDE DEF raw
    <2>2. /\ mail.transport \in Transports
          /\ mail.transport = "smtp" /\ mail.credential # "none" => mail.tls # "opportunistic"
          /\ mail.transport = "smtp" /\ mail.credential # "none" => Chosen(raw, mail.credential)
          /\ mail.transport \in {"jmap", "api"} =>
               \A f \in CredentialFields \ {mail.credential} :
                 raw[f].rank < raw[mail.credential].rank
          /\ mail.transport = "ses" =>
               \A f \in PasswordFields \ {mail.credential} :
                 raw[f].rank < raw[mail.credential].rank
          /\ mail.transport \in {"jmap", "api", "ses"} => mail.credential \in CredentialFields
          /\ MailSettings([f \in MailFields |->
                 IF f \in IgnoredFields(raw, mail) THEN NotGiven ELSE raw[f]]) = mail
      BY <2>1, ResolvedFollows
    <2>3. CredentialsNeedTls /\ IgnoredPlaysNoPart(raw)
      BY <2>2 DEF CredentialsNeedTls, IgnoredPlaysNoPart
    <2>4. ASSUME mail.transport # "logtape", mail.credential # "none"
          PROVE  CredentialIsHighest(raw)
      <3> DEFINE fields == CredentialFields \union {"smtpUrl"}
                 ranks == [f \in fields |-> IF f = "smtpUrl" THEN UrlComponents(raw).password.rank
                                            ELSE raw[f].rank]
      <3>0. /\ fields = SmtpFields /\ PasswordFields \subseteq CredentialFields
            /\ "smtpUrl" \notin CredentialFields
        BY DEF SmtpFields, CredentialFields, PasswordFields, TokenFields
      <3>1. \A f \in fields : ranks[f] = SmtpRank(raw, f)
        BY DEF SmtpRank
      <3>2. \A f \in CredentialFields : ranks[f] = raw[f].rank
        BY <3>0
      <3> DEFINE variants == CASE mail.transport = "smtp" -> DOMAIN ranks
                               [] mail.transport = "ses" -> PasswordFields
                               [] OTHER -> CredentialFields
      <3>3. DOMAIN ranks = fields
        OBVIOUS
      <3>4. CredentialIsHighest(raw) <=>
              (mail.credential # "none" =>
                 \A f \in variants \ {mail.credential} : ranks[f] < ranks[mail.credential])
        BY DEF CredentialIsHighest
      <3> HIDE DEF ranks, fields
      <3>5. CASE mail.transport = "smtp"
        BY <2>2, <2>4, <3>0, <3>1, <3>3, <3>4, <3>5 DEF Chosen
      <3>6. CASE mail.transport = "ses"
        BY <2>2, <3>0, <3>2, <3>4, <3>6
      <3>7. CASE mail.transport \in {"jmap", "api"}
        BY <2>2, <3>2, <3>4, <3>7
      <3> QED
        BY <2>2, <2>4, <3>5, <3>6, <3>7 DEF Transports
    <2>5. mail.credential = "none" => CredentialIsHighest(raw)
      BY DEF CredentialIsHighest
    <2> QED
      BY <2>3, <2>4, <2>5 DEF raw
  <1> QED
    BY <1>1, <1>2, <1>3, PTL DEF MailSpec

-----------------------------------------------------------------------------
\* Neither what a release publishes, nor what the documentation's site serves,
\* nor what a preview shows goes back, however their jobs overlap.
THEOREM NothingGoesBack == ReleaseSpec /\ DocsSpec /\ PreviewSpec => ReleasesNeverGoBack
  BY ChannelsAdvance, DocsAdvance, PreviewsAdvance DEF ReleasesNeverGoBack

\* The mail settings follow whatever their sources give, and the sends settle as
\* they ended, however they are cancelled, timed out or closed.
THEOREM MailStaysSound == MailSpec /\ TransportSpec => []MailIsSound
  BY MailFollowsAnySources, SendsEndAsToldOf, PTL DEF MailIsSound

-----------------------------------------------------------------------------
(***************************************************************************)
(* PgliteStores, for any number of processes, and DatabasePreparation, for  *)
(* any number of programs and any manifests.  That a database which may run *)
(* keeps its directory locked rests on what each point of an opening or a   *)
(* close holds, HoldersOK; that a history is one release's rests on what is *)
(* known under the migration lock, MigrationOK.                            *)
(***************************************************************************)
\* From the lock to the database's end the lock is held, and before and after
\* that nothing runs.
HoldersOK ==
  \A o \in Owners :
    /\ store[o] \in {"locked", "starting", "open", "broken", "unlock"} => fileLock = o
    /\ store[o] \in {"path", "locked", "unlock", "over", "failed"} => client[o] # "active"

SInv == StoreTypeOK /\ HoldersOK /\ DirectoryHasOneOwner

\* A step of one process: what it leaves of the others, and of the lock they hold.
StepOfOwner(o) ==
  \A p \in Owners \ {o} :
    /\ store'[p] = store[p] /\ client'[p] = client[p]
    /\ fileLock = p => fileLock' = p

LEMMA StoreInitially == StoreInit => SInv
BY OwnersAssumption DEF StoreInit, SInv, StoreTypeOK, HoldersOK, DirectoryHasOneOwner

\* Nobody takes or gives up the lock of another process.
LEMMA OthersKept ==
  ASSUME SInv, NEW o \in Owners,
         \/ AcquireLock(o) \/ StartClient(o) \/ ClientReady(o) \/ CallClose(o)
         \/ CloseClient(o) \/ CloseLock(o) \/ ExitProcess(o)
  PROVE  StepOfOwner(o)
<1> USE OwnersAssumption DEF SInv, StoreTypeOK, HoldersOK, StepOfOwner, StoreAt
<1>1. CASE AcquireLock(o)
  BY <1>1 DEF AcquireLock
<1>2. CASE StartClient(o)
  BY <1>2 DEF StartClient
<1>3. CASE ClientReady(o)
  BY <1>3 DEF ClientReady
<1>4. CASE CallClose(o)
  BY <1>4 DEF CallClose
<1>5. CASE CloseClient(o)
  BY <1>5 DEF CloseClient
<1>6. CASE CloseLock(o)
  BY <1>6 DEF CloseLock
<1>7. CASE ExitProcess(o)
  BY <1>7 DEF ExitProcess
<1> QED
  BY <1>1, <1>2, <1>3, <1>4, <1>5, <1>6, <1>7

LEMMA StoreTypeStep == SInv /\ [StoreNext]_storeVars => StoreTypeOK'
<1> SUFFICES ASSUME SInv, [StoreNext]_storeVars
             PROVE  StoreTypeOK'
  OBVIOUS
<1> USE DEF SInv, StoreTypeOK, StoreAt
<1>1. ASSUME NEW o \in Owners, AcquireLock(o) \/ StartClient(o) \/ ClientReady(o)
      PROVE  StoreTypeOK'
  BY <1>1 DEF AcquireLock, StartClient, ClientReady
<1>2. ASSUME NEW o \in Owners, CallClose(o) \/ CloseClient(o) \/ CloseLock(o)
      PROVE  StoreTypeOK'
  BY <1>2 DEF CallClose, CloseClient, CloseLock
<1>3. ASSUME NEW o \in Owners, ExitProcess(o)
      PROVE  StoreTypeOK'
  BY <1>3 DEF ExitProcess
<1>4. CASE UNCHANGED storeVars
  BY <1>4 DEF storeVars
<1> QED
  BY <1>1, <1>2, <1>3, <1>4 DEF StoreNext

LEMMA StoreStep == SInv /\ [StoreNext]_storeVars => SInv'
<1> SUFFICES ASSUME SInv, [StoreNext]_storeVars
             PROVE  SInv'
  OBVIOUS
<1>1. StoreTypeOK'
  BY StoreTypeStep
<1>2. ASSUME NEW o \in Owners,
             \/ AcquireLock(o) \/ StartClient(o) \/ ClientReady(o) \/ CallClose(o)
             \/ CloseClient(o) \/ CloseLock(o) \/ ExitProcess(o)
      PROVE  HoldersOK' /\ DirectoryHasOneOwner'
  <2>1. StepOfOwner(o)
    BY <1>2, OthersKept
  <2>2. \A p \in Owners \ {o} : (client'[p] = "active" => fileLock' = p)
    BY <2>1 DEF StepOfOwner, SInv, DirectoryHasOneOwner
  <2> USE DEF SInv, StoreTypeOK, HoldersOK, StoreAt, DirectoryHasOneOwner
  <2>3. /\ store'[o] \in {"locked", "starting", "open", "broken", "unlock"} => fileLock' = o
        /\ store'[o] \in {"path", "locked", "unlock", "over", "failed"} => client'[o] # "active"
        /\ client'[o] = "active" => fileLock' = o
    <3>1. CASE AcquireLock(o)
      BY <3>1 DEF AcquireLock
    <3>2. CASE StartClient(o)
      BY <3>2 DEF StartClient
    <3>3. CASE ClientReady(o) \/ CallClose(o)
      BY <3>3 DEF ClientReady, CallClose
    <3>4. CASE CloseClient(o)
      BY <3>4 DEF CloseClient
    <3>5. CASE CloseLock(o)
      BY <3>5 DEF CloseLock
    <3>6. CASE ExitProcess(o)
      BY <3>6 DEF ExitProcess
    <3> QED
      BY <1>2, <3>1, <3>2, <3>3, <3>4, <3>5, <3>6
  <2>4. HoldersOK'
    BY <2>1, <2>3 DEF StepOfOwner
  <2>5. DirectoryHasOneOwner'
    BY <2>2, <2>3
  <2> QED
    BY <2>4, <2>5
<1>3. CASE UNCHANGED storeVars
  BY <1>3 DEF storeVars, SInv, StoreTypeOK, HoldersOK, DirectoryHasOneOwner
<1> QED
  BY <1>1, <1>2, <1>3 DEF StoreNext, SInv

\* A data directory is never active in two processes, whatever fails to open or
\* to close and whichever process ends (pglite-store.ts).
THEOREM DirectoriesAreOwned == StoreSpec => []DirectoryHasOneOwner
<1>1. SInv => DirectoryHasOneOwner
  BY DEF SInv
<1> QED
  BY <1>1, StoreInitially, StoreStep, PTL DEF StoreSpec

-----------------------------------------------------------------------------
(* Database preparation.  A history that is at some moment one release's    *)
(* need not stay so: it stays so because whoever migrates has held the lock *)
(* since it compared the history with its manifest, MigrationOK, a commit   *)
(* carried out after its client gave up included.                           *)

MigrationRecord == [name : Nat, intact : BOOLEAN]
ReleaseRows(p) == Rows(Manifest[p])

Starts(s, t) == Len(s) <= Len(t) /\ \A i \in 1 .. Len(s) : s[i] = t[i]

\* The lock is held by the backend that took it, until that ends.
LockOK == \A p \in Preparers : holder = p <=> backend[p] # "none"

\* Where a preparation holds the lock.
PointsOK ==
  \A p \in Preparers :
    /\ prep[p] \in {"before", "snapshot", "begin", "migrate", "after", "close"} =>
         holder = p
    /\ prep[p] = "verify" /\ Policy[p] = "apply" /\ kind = "pglite" => holder = p

\* Whoever has found its release's history too short holds the lock and knows
\* the rest of it.
MigrationOK ==
  \A p \in Preparers :
    /\ prep[p] \in {"snapshot", "begin"} => Starts(history, ReleaseRows(p))
    /\ prep[p] = "begin" => toApply[p] = ReleaseRows(p)
    /\ backend[p] \in {"migrating", "committing"} =>
         /\ prep[p] \in {"migrate", "over"}
         /\ history \o toApply[p] = ReleaseRows(p)

OneRelease == \E p \in Preparers : Starts(history, ReleaseRows(p))
ReadyOK == \A p \in Preparers : outcome[p] = "ready" => Starts(ReleaseRows(p), history)

PrepInv ==
  /\ PrepTypeOK
  /\ LockOK
  /\ PointsOK
  /\ MigrationOK
  /\ OneRelease
  /\ ReadyOK

LEMMA FunctionIsSeq ==
  ASSUME NEW S, NEW n \in Nat, NEW f \in [1 .. n -> S]
  PROVE  f \in Seq(S) /\ Len(f) = n
OBVIOUS

\* The rows a release's manifest promises.
LEMMA ReleaseType ==
  ASSUME PreparationAssumption, NEW p \in Preparers
  PROVE  /\ ReleaseRows(p) \in Seq(MigrationRecord)
         /\ Len(ReleaseRows(p)) = Len(Manifest[p])
         /\ Len(Manifest[p]) \in Nat
         /\ DOMAIN Manifest[p] = 1 .. Len(Manifest[p])
         /\ \A i, j \in 1 .. Len(Manifest[p]) :
              /\ Manifest[p][i] \in Nat
              /\ i < j => Manifest[p][i] < Manifest[p][j]
         /\ \A i \in 1 .. Len(ReleaseRows(p)) :
              /\ ReleaseRows(p)[i] = MigrationRow(Manifest[p][i], TRUE)
              /\ ReleaseRows(p)[i].name = Manifest[p][i]
              /\ ReleaseRows(p)[i] \in MigrationRecord
<1> DEFINE m == Manifest[p]
<1>1. /\ m \in Seq(Nat) /\ Len(m) \in Nat /\ DOMAIN m = 1 .. Len(m)
      /\ \A i \in 1 .. Len(m) : m[i] \in Nat
  BY DEF PreparationAssumption
<1> HIDE DEF m
<1>2. \A i \in 1 .. Len(m) : /\ MigrationRow(m[i], TRUE) \in MigrationRecord
                             /\ MigrationRow(m[i], TRUE).name = m[i]
  BY <1>1 DEF MigrationRow, MigrationRecord
<1>3. Rows(m) = [i \in 1 .. Len(m) |-> MigrationRow(m[i], TRUE)]
  BY <1>1 DEF Rows
<1> HIDE DEF MigrationRecord
<1>4. Rows(m) \in [1 .. Len(m) -> MigrationRecord]
  BY <1>2, <1>3
<1>5. Rows(m) \in Seq(MigrationRecord) /\ Len(Rows(m)) = Len(m)
  BY <1>1, <1>4, FunctionIsSeq
<1>6. \A i \in 1 .. Len(m) : Rows(m)[i] = MigrationRow(m[i], TRUE)
  BY <1>3
<1>7. \A i, j \in 1 .. Len(m) : i < j => m[i] < m[j]
  BY <1>1 DEF PreparationAssumption, m
<1> QED
  BY <1>1, <1>2, <1>5, <1>6, <1>7 DEF ReleaseRows, m

\* A prefix, element by element.
LEMMA PrefixMeans ==
  ASSUME NEW S, NEW s \in Seq(S), NEW t \in Seq(S)
  PROVE  IsPrefix(s, t) <=> Starts(s, t)
<1>1. Len(s) \in Nat /\ Len(t) \in Nat
  OBVIOUS
<1>2. ASSUME Len(s) <= Len(t)
      PROVE  SubSeq(s, 1, Len(s)) = SubSeq(t, 1, Len(s))
               <=> \A i \in 1 .. Len(s) : s[i] = t[i]
  <2>1. \A i \in 1 .. Len(s) : s[i] \in S /\ t[i] \in S
    BY <1>1, <1>2
  <2>2. /\ SubSeq(s, 1, Len(s)) \in Seq(S) /\ SubSeq(t, 1, Len(s)) \in Seq(S)
        /\ Len(SubSeq(s, 1, Len(s))) = Len(s) /\ Len(SubSeq(t, 1, Len(s))) = Len(s)
        /\ \A i \in 1 .. Len(s) : /\ SubSeq(s, 1, Len(s))[i] = s[i]
                                  /\ SubSeq(t, 1, Len(s))[i] = t[i]
    <3>1. /\ SubSeq(s, 1, Len(s)) \in Seq(S)
          /\ Len(SubSeq(s, 1, Len(s))) = IF 1 <= Len(s) THEN Len(s) - 1 + 1 ELSE 0
          /\ \A i \in 1 .. Len(s) - 1 + 1 : SubSeq(s, 1, Len(s))[i] = s[1 + i - 1]
      BY <1>1, <2>1, SubSeqProperties
    <3>2. /\ SubSeq(t, 1, Len(s)) \in Seq(S)
          /\ Len(SubSeq(t, 1, Len(s))) = IF 1 <= Len(s) THEN Len(s) - 1 + 1 ELSE 0
          /\ \A i \in 1 .. Len(s) - 1 + 1 : SubSeq(t, 1, Len(s))[i] = t[1 + i - 1]
      BY <1>1, <2>1, SubSeqProperties
    <3>3. /\ Len(s) - 1 + 1 = Len(s)
          /\ ~(1 <= Len(s)) => Len(s) = 0
          /\ \A i \in 1 .. Len(s) : 1 + i - 1 = i
      BY <1>1
    <3> QED
      BY <3>1, <3>2, <3>3
  <2> QED
    BY <2>2, SeqEqual
<1> QED
  BY <1>2 DEF IsPrefix, Starts

\* Since a manifest's names increase, what is not applied is what follows.
LEMMA RestFollows ==
  ASSUME PreparationAssumption, NEW p \in Preparers,
         history \in Seq(MigrationRecord), Starts(history, ReleaseRows(p))
  PROVE  /\ NotApplied(ReleaseRows(p)) \in Seq(MigrationRecord)
         /\ history \o NotApplied(ReleaseRows(p)) = ReleaseRows(p)
<1> DEFINE rows == ReleaseRows(p)
           n == Len(rows)
           l == Len(history)
           rest == {i \in DOMAIN rows : rows[i].name \notin Applied}
           at(k) == CHOOSE i \in rest : Cardinality({j \in rest : j <= i}) = k
<1>1. /\ rows \in Seq(MigrationRecord) /\ n \in Nat /\ DOMAIN rows = 1 .. n
      /\ n = Len(Manifest[p])
      /\ \A i \in 1 .. n : rows[i].name = Manifest[p][i] /\ rows[i] \in MigrationRecord
  <2>1. rows \in Seq(MigrationRecord)
    BY ReleaseType
  <2>2. n \in Nat /\ DOMAIN rows = 1 .. n
    BY <2>1
  <2>3. n = Len(Manifest[p])
    BY ReleaseType
  <2>4. \A i \in 1 .. n : rows[i].name = Manifest[p][i] /\ rows[i] \in MigrationRecord
    BY ReleaseType
  <2> QED
    BY <2>1, <2>2, <2>3, <2>4
<1>2. l \in Nat /\ l <= n /\ DOMAIN history = 1 .. l
      /\ \A i \in 1 .. l : history[i] = rows[i]
  BY DEF Starts
<1>3. \A i, j \in 1 .. n : rows[i].name = rows[j].name => i = j
  <2>1. \A i, j \in 1 .. n : i < j => Manifest[p][i] < Manifest[p][j]
    BY <1>1, ReleaseType
  <2>2. \A i \in 1 .. n : Manifest[p][i] \in Nat
    BY <1>1, ReleaseType
  <2>3. ASSUME NEW i \in 1 .. n, NEW j \in 1 .. n, i # j
        PROVE  Manifest[p][i] # Manifest[p][j]
    <3>1. i < j \/ j < i
      BY <1>1, <2>3
    <3> QED
      BY <2>1, <2>2, <3>1
  <2> QED
    BY <1>1, <2>3
<1> HIDE DEF rows, n, l
<1>4. rest = l + 1 .. n
  <2>1. ASSUME NEW i \in 1 .. n
        PROVE  rows[i].name \in Applied <=> i <= l
    <3>1. ASSUME i <= l PROVE rows[i].name \in Applied
      <4>1. i \in 1 .. l
        BY <1>2, <2>1, <3>1
      <4> QED
        BY <1>2, <4>1 DEF Applied
    <3>2. ASSUME rows[i].name \in Applied PROVE i <= l
      <4>1. PICK j \in 1 .. l : history[j].name = rows[i].name
        BY <1>2, <3>2 DEF Applied
      <4>2. j \in 1 .. n /\ rows[j].name = rows[i].name
        BY <1>1, <1>2, <4>1
      <4> QED
        BY <1>3, <2>1, <4>1, <4>2
    <3> QED
      BY <3>1, <3>2
  <2> QED
    BY <1>1, <1>2, <2>1
<1> HIDE DEF rest
<1>5. Cardinality(rest) = n - l
  <2>1. l + 1 \in Int /\ n \in Int
    BY <1>1, <1>2
  <2>2. Cardinality(l + 1 .. n) = IF l + 1 > n THEN 0 ELSE n - (l + 1) + 1
    BY <2>1, FS_Interval
  <2>3. l + 1 > n => n - l = 0
    BY <1>1, <1>2
  <2>4. n - (l + 1) + 1 = n - l
    BY <1>1, <1>2
  <2> QED
    BY <1>4, <2>2, <2>3, <2>4
<1>6. ASSUME NEW k \in 1 .. n - l
      PROVE  at(k) = l + k
  <2>1. ASSUME NEW i \in rest
        PROVE  Cardinality({j \in rest : j <= i}) = i - l
    <3>1. {j \in rest : j <= i} = l + 1 .. i
      BY <1>1, <1>2, <1>4, <2>1
    <3>2. i \in Int /\ l + 1 \in Int /\ l + 1 <= i
      BY <1>1, <1>2, <1>4, <2>1
    <3>3. Cardinality(l + 1 .. i) = IF l + 1 > i THEN 0 ELSE i - (l + 1) + 1
      BY <3>2, FS_Interval
    <3>4. ~(l + 1 > i) /\ i - (l + 1) + 1 = i - l
      BY <1>2, <3>2
    <3> QED
      BY <3>1, <3>3, <3>4
  <2>2. l + k \in rest
    BY <1>1, <1>2, <1>4
  <2>3. \A i \in rest : i - l = k <=> i = l + k
    BY <1>1, <1>2, <1>4
  <2> QED
    BY <2>1, <2>2, <2>3
<1>7. NotApplied(rows) = [k \in 1 .. n - l |-> rows[l + k]]
  <2>1. NotApplied(rows) = [k \in 1 .. Cardinality(rest) |-> rows[at(k)]]
    BY DEF NotApplied, rest
  <2> HIDE DEF at
  <2> QED
    BY <1>5, <1>6, <2>1
<1> DEFINE tail == [k \in 1 .. n - l |-> rows[l + k]]
<1>8. /\ tail \in Seq(MigrationRecord) /\ Len(tail) = n - l
      /\ \A k \in 1 .. n - l : tail[k] = rows[l + k]
  <2>1. n - l \in Nat /\ \A k \in 1 .. n - l : rows[l + k] \in MigrationRecord
    BY <1>1, <1>2
  <2> QED
    BY <2>1
<1> HIDE DEF tail
<1>9. history \o tail = rows
  <2>1. /\ history \o tail \in Seq(MigrationRecord)
        /\ Len(history \o tail) = l + Len(tail)
        /\ \A i \in 1 .. l + Len(tail) :
             (history \o tail)[i] = IF i <= l THEN history[i] ELSE tail[i - l]
    <3>1. history \in Seq(MigrationRecord) /\ tail \in Seq(MigrationRecord)
      BY <1>8
    <3> QED
      BY <3>1, ConcatProperties DEF l
  <2>2. Len(history \o tail) = n
    BY <1>1, <1>2, <1>8, <2>1
  <2>3. ASSUME NEW i \in 1 .. n
        PROVE  (history \o tail)[i] = rows[i]
    <3>1. CASE i <= l
      BY <1>1, <1>2, <1>8, <2>1, <3>1
    <3>2. CASE ~(i <= l)
      <4>1. i - l \in 1 .. n - l /\ l + (i - l) = i
        BY <1>1, <1>2, <3>2
      <4> QED
        BY <1>1, <1>2, <1>8, <2>1, <3>2, <4>1
    <3> QED
      BY <3>1, <3>2
  <2>4. Len(rows) = n
    BY DEF n
  <2> QED
    BY <1>1, <2>1, <2>2, <2>3, <2>4, SeqEqual
<1> QED
  BY <1>7, <1>8, <1>9 DEF rows, tail

\* What an inspection finds.
LEMMA InspectionMeans ==
  ASSUME PreparationAssumption, history \in Seq(MigrationRecord), NEW p \in Preparers
  PROVE  /\ InspectMigrationState(p) = "ready" => history = ReleaseRows(p)
         /\ InspectMigrationState(p) \in Compatible => Starts(history, ReleaseRows(p))
<1> DEFINE m == Manifest[p]
           rows == ReleaseRows(p)
           odd == {i \in DOMAIN history :
                     \/ ~Fits(m, history, i)
                     \/ i \in DOMAIN m /\ ~history[i].intact}
           state == ClassifyMigrationHistory(m, history, format)
<1>1. rows \in Seq(MigrationRecord) /\ Len(rows) = Len(m)
  BY ReleaseType
<1>2. Len(m) \in Nat /\ DOMAIN m = 1 .. Len(m)
  BY ReleaseType
<1>3. /\ Len(history) \in Nat /\ DOMAIN history = 1 .. Len(history)
      /\ \A i \in 1 .. Len(history) : history[i] \in MigrationRecord
  OBVIOUS
<1>4. \A i \in 1 .. Len(m) : rows[i] = MigrationRow(m[i], TRUE)
  BY <1>1, ReleaseType
<1> HIDE DEF rows, m
<1>5. state \in Compatible =>
        /\ odd = {}
        /\ Len(history) <= Len(m)
        /\ state = "ready" => Len(history) = Len(m)
  <2> DEFINE first == CHOOSE i \in odd : \A j \in odd : i <= j
  <2>1. state = IF odd # {} THEN IF Fits(m, history, first) THEN "modified"
                                 ELSE "diverged"
                ELSE IF Len(history) > Len(m) THEN "newer"
                ELSE IF format = "legacy" THEN "upgrade-required"
                ELSE IF history = <<>> THEN "uninitialized"
                ELSE IF Len(history) = Len(m) THEN "ready"
                ELSE "pending"
    BY DEF ClassifyMigrationHistory
  <2> HIDE DEF odd, state, first
  <2>2. odd # {} => state = "modified" \/ state = "diverged"
    BY <2>1
  <2>3. odd = {} /\ Len(history) > Len(m) => state = "newer"
    BY <2>1
  <2>4. odd = {} /\ ~(Len(history) > Len(m)) /\ state = "ready" =>
          Len(history) = Len(m)
    BY <2>1
  <2>5. {"modified", "diverged", "newer"} \intersect Compatible = {}
    BY DEF Compatible
  <2>6. ~(Len(history) > Len(m)) => Len(history) <= Len(m)
    BY <1>2, <1>3
  <2> QED
    BY <2>2, <2>3, <2>4, <2>5, <2>6
<1>6. ASSUME odd = {}, Len(history) <= Len(m)
      PROVE  \A i \in 1 .. Len(history) : history[i] = rows[i]
  <2> SUFFICES ASSUME NEW i \in 1 .. Len(history) PROVE history[i] = rows[i]
    OBVIOUS
  <2>1. i \in DOMAIN history /\ i \in DOMAIN m /\ i \in 1 .. Len(m)
    BY <1>2, <1>3, <1>6
  <2>2. Fits(m, history, i) /\ history[i].intact
    BY <1>6, <2>1
  <2>3. history[i].name = m[i]
    BY <2>1, <2>2 DEF Fits, Agrees
  <2>4. history[i] \in MigrationRecord /\ rows[i] = MigrationRow(m[i], TRUE)
    BY <1>3, <1>4, <2>1
  <2> QED
    BY <2>2, <2>3, <2>4 DEF MigrationRecord, MigrationRow
<1>7. InspectMigrationState(p) \in {state, "untracked-schema"}
  BY DEF InspectMigrationState, m
<1>8. "ready" \in Compatible /\ "untracked-schema" \notin Compatible
  BY DEF Compatible
<1> HIDE DEF odd, state
<1>9. InspectMigrationState(p) \in Compatible =>
        /\ Starts(history, rows)
        /\ InspectMigrationState(p) = "ready" => Len(history) = Len(rows)
  BY <1>1, <1>5, <1>6, <1>7, <1>8 DEF Starts
<1>10. Starts(history, rows) /\ Len(history) = Len(rows) => history = rows
  BY <1>1, SeqEqual DEF Starts
<1> QED
  BY <1>8, <1>9, <1>10 DEF rows

-----------------------------------------------------------------------------
LEMMA PrepInitially == PreparationAssumption /\ PrepInit => PrepInv
<1> SUFFICES ASSUME PreparationAssumption, PrepInit PROVE PrepInv
  OBVIOUS
<1>1. PICK p \in Preparers : history \in Prefixes(ReleaseRows(p))
  BY DEF PrepInit, ReleaseRows
<1> DEFINE rows == ReleaseRows(p)
<1>2. PICK l \in 0 .. Len(rows) : history = SubSeq(rows, 1, l)
  BY <1>1 DEF Prefixes
<1>3. history \in Seq(MigrationRecord) /\ Starts(history, rows)
  <2>1. /\ rows \in Seq(MigrationRecord) /\ Len(rows) \in Nat
        /\ \A i \in 1 .. Len(rows) : rows[i] \in MigrationRecord
    BY ReleaseType
  <2> HIDE DEF rows
  <2>2. 1 \in Int /\ l \in Int /\ l >= 0 /\ \A i \in 1 .. l : rows[i] \in MigrationRecord
    BY <1>2, <2>1
  <2>3. /\ SubSeq(rows, 1, l) \in Seq(MigrationRecord)
        /\ Len(SubSeq(rows, 1, l)) = IF 1 <= l THEN l - 1 + 1 ELSE 0
        /\ \A i \in 1 .. l - 1 + 1 : SubSeq(rows, 1, l)[i] = rows[1 + i - 1]
    BY <2>2, SubSeqProperties
  <2>4. Len(history) = l
    BY <1>2, <2>2, <2>3
  <2>5. \A i \in 1 .. l : history[i] = rows[i]
    BY <1>2, <2>2, <2>3
  <2>6. l <= Len(rows)
    BY <1>2, <2>1
  <2> QED
    BY <1>2, <2>3, <2>4, <2>5, <2>6 DEF Starts
<1>4. PrepTypeOK
  <2>1. \A q \in Preparers : <<>> \in Seq([name : Nat, intact : BOOLEAN])
    OBVIOUS
  <2> QED
    BY <1>3, <2>1 DEF PrepInit, PrepTypeOK, Boundaries, MigrationRecord
<1>5. LockOK /\ PointsOK /\ MigrationOK /\ ReadyOK
  BY DEF PreparationAssumption, PrepInit, LockOK, PointsOK, MigrationOK, ReadyOK
<1> QED
  BY <1>3, <1>4, <1>5 DEF PrepInv, OneRelease

LEMMA PrepTypeStep ==
  ASSUME PreparationAssumption, PrepInv, [PrepNext]_prepVars
  PROVE  PrepTypeOK'
<1> USE DEF PrepTypeOK, Boundaries, PrepGoes, PrepEnds, PrepCloses
<1>1. PrepTypeOK
  BY DEF PrepInv
<1>2. ASSUME NEW p \in Preparers,
             \/ VerifyMigrationManifest(p) \/ InspectHistory(p) \/ Acquire(p)
             \/ InspectBefore(p) \/ SendCommit(p) \/ InspectAfter(p) \/ CloseSession(p)
      PROVE  PrepTypeOK'
  BY <1>1, <1>2 DEF VerifyMigrationManifest, InspectHistory, Acquire, InspectBefore,
                    SendCommit, InspectAfter, CloseSession
<1>3. ASSUME NEW p \in Preparers,
             \/ VerificationFails(p) \/ MigrationFails(p) \/ Interrupt(p)
             \/ AbortAtBoundary(p) \/ BackendExits(p) \/ ReplaceInstallation(p)
      PROVE  PrepTypeOK'
  BY <1>1, <1>3 DEF VerificationFails, MigrationFails, Interrupt, AbortAtBoundary,
                    BackendExits, ReplaceInstallation
<1>4. ASSUME NEW p \in Preparers, VerifySnapshot(p)
      PROVE  PrepTypeOK'
  <2>1. ReleaseRows(p) \in Seq([name : Nat, intact : BOOLEAN])
    BY ReleaseType DEF MigrationRecord
  <2>2. toApply' \in [Preparers -> Seq([name : Nat, intact : BOOLEAN])]
    <3>1. toApply' = toApply \/ toApply' = [toApply EXCEPT ![p] = ReleaseRows(p)]
      BY <1>4 DEF VerifySnapshot, ReleaseRows
    <3> QED
      BY <1>1, <2>1, <3>1
  <2> QED
    BY <1>1, <1>4, <2>2 DEF VerifySnapshot
<1>5. ASSUME NEW p \in Preparers, BeginMigration(p)
      PROVE  PrepTypeOK'
  <2>1. toApply[p] = ReleaseRows(p) /\ Starts(history, ReleaseRows(p))
    BY <1>5 DEF BeginMigration, PrepInv, MigrationOK
  <2>2. NotApplied(toApply[p]) \in Seq([name : Nat, intact : BOOLEAN])
    BY <1>1, <2>1, RestFollows DEF MigrationRecord
  <2> DEFINE rest == NotApplied(toApply[p])
  <2>3. /\ toApply' = [toApply EXCEPT ![p] = rest]
        /\ format' = "current"
        /\ backend' = [backend EXCEPT ![p] = "migrating"]
        /\ prep' = [prep EXCEPT ![p] = "migrate"]
        /\ UNCHANGED <<kind, history, tables, installed, holder, outcome>>
    BY <1>5 DEF BeginMigration
  <2> HIDE DEF rest
  <2> QED
    BY <1>1, <2>2, <2>3 DEF rest
<1>6. ASSUME NEW p \in Preparers, CommitMigration(p)
      PROVE  PrepTypeOK'
  <2>1. history \o toApply[p] \in Seq([name : Nat, intact : BOOLEAN])
    BY <1>1
  <2> QED
    BY <1>1, <1>6, <2>1 DEF CommitMigration
<1>7. CASE UNCHANGED prepVars
  BY <1>1, <1>7 DEF prepVars
<1> QED
  BY <1>2, <1>3, <1>4, <1>5, <1>6, <1>7 DEF PrepNext, Prepare

\* Where the history is not committed to, each program keeps what it knew.
LEMMA LockStep ==
  ASSUME PreparationAssumption, PrepInv, [PrepNext]_prepVars
  PROVE  LockOK' /\ PointsOK'
<1> USE DEF PrepGoes, PrepEnds, PrepCloses
<1>1. PrepTypeOK /\ LockOK /\ PointsOK /\ MigrationOK
  BY DEF PrepInv
<1>2. Nobody \notin Preparers
  BY DEF PreparationAssumption
<1>3. ASSUME NEW p \in Preparers, VerifyMigrationManifest(p)
      PROVE  LockOK' /\ PointsOK'
  BY <1>1, <1>3 DEF VerifyMigrationManifest, PrepTypeOK, LockOK, PointsOK,
                    PreparationAssumption
<1>4. ASSUME NEW p \in Preparers, VerificationFails(p) \/ InspectHistory(p)
      PROVE  LockOK' /\ PointsOK'
  BY <1>1, <1>4 DEF VerificationFails, InspectHistory, PrepTypeOK, LockOK, PointsOK
<1>5. ASSUME NEW p \in Preparers, Acquire(p)
      PROVE  LockOK' /\ PointsOK'
  BY <1>1, <1>2, <1>5 DEF Acquire, PrepTypeOK, LockOK, PointsOK
<1>6. ASSUME NEW p \in Preparers, InspectBefore(p) \/ VerifySnapshot(p) \/ InspectAfter(p)
      PROVE  LockOK' /\ PointsOK'
  BY <1>1, <1>6 DEF InspectBefore, VerifySnapshot, InspectAfter, PrepTypeOK, LockOK,
                    PointsOK
<1>7. ASSUME NEW p \in Preparers,
             BeginMigration(p) \/ SendCommit(p) \/ MigrationFails(p)
      PROVE  LockOK' /\ PointsOK'
  BY <1>1, <1>7 DEF BeginMigration, SendCommit, MigrationFails, PrepTypeOK, LockOK,
                    PointsOK
<1>8. ASSUME NEW p \in Preparers, CommitMigration(p)
      PROVE  LockOK' /\ PointsOK'
  BY <1>1, <1>8 DEF CommitMigration, PrepTypeOK, LockOK, PointsOK
<1>9. ASSUME NEW p \in Preparers, CloseSession(p)
      PROVE  LockOK' /\ PointsOK'
  <2>1. holder = p /\ \A q \in Preparers \ {p} : backend[q] = "none"
    BY <1>1, <1>9 DEF CloseSession, PointsOK, LockOK
  <2> QED
    BY <1>1, <1>2, <1>9, <2>1 DEF CloseSession, PrepTypeOK, LockOK, PointsOK
<1>10. ASSUME NEW p \in Preparers, Interrupt(p) \/ AbortAtBoundary(p)
       PROVE  LockOK' /\ PointsOK'
  BY <1>1, <1>10 DEF Interrupt, AbortAtBoundary, Boundaries, PrepTypeOK, LockOK,
                     PointsOK
<1>11. ASSUME NEW p \in Preparers, BackendExits(p)
       PROVE  LockOK' /\ PointsOK'
  <2>1. holder = p /\ \A q \in Preparers \ {p} : backend[q] = "none"
    BY <1>1, <1>11 DEF BackendExits, LockOK
  <2> QED
    BY <1>1, <1>2, <1>11, <2>1 DEF BackendExits, PrepTypeOK, LockOK, PointsOK
<1>12. CASE UNCHANGED prepVars
  BY <1>1, <1>12 DEF prepVars, LockOK, PointsOK
<1>13. ASSUME NEW p \in Preparers, ReplaceInstallation(p)
       PROVE  LockOK' /\ PointsOK'
  BY <1>1, <1>13 DEF ReplaceInstallation, LockOK, PointsOK
<1> QED
  BY <1>3, <1>4, <1>5, <1>6, <1>7, <1>8, <1>9, <1>10, <1>11, <1>12, <1>13
  DEF PrepNext, Prepare

\* A program that is done with a history that is all its release's knows it.
LEMMA HistoryStays ==
  ASSUME PrepInv, UNCHANGED history,
         \A p \in Preparers : outcome'[p] = "ready" =>
           outcome[p] = "ready" \/ history = ReleaseRows(p)
  PROVE  OneRelease' /\ ReadyOK'
<1>1. \A p \in Preparers : history = ReleaseRows(p) => Starts(ReleaseRows(p), history)
  <2>1. Len(history) \in Nat
    BY DEF PrepInv, PrepTypeOK
  <2> QED
    BY <2>1 DEF Starts
<1>2. OneRelease'
  BY DEF PrepInv, OneRelease, ReleaseRows, Rows, Starts
<1>3. ReadyOK'
  <2>1. \A p \in Preparers : outcome'[p] = "ready" => Starts(ReleaseRows(p), history)
    BY <1>1 DEF PrepInv, ReadyOK
  <2> QED
    BY <2>1 DEF ReadyOK, ReleaseRows, Rows, Starts
<1> QED
  BY <1>2, <1>3

LEMMA MigrationStep ==
  ASSUME PreparationAssumption, PrepInv, PrepTypeOK', [PrepNext]_prepVars
  PROVE  MigrationOK' /\ OneRelease' /\ ReadyOK'
<1> USE DEF PrepGoes, PrepEnds, PrepCloses
<1>1. PrepTypeOK /\ LockOK /\ PointsOK /\ MigrationOK
  BY DEF PrepInv
<1>2. history \in Seq(MigrationRecord)
  BY <1>1 DEF PrepTypeOK, MigrationRecord
<1>3. ASSUME NEW p \in Preparers, UNCHANGED history,
             \A q \in Preparers \ {p} :
               /\ prep'[q] = prep[q] /\ backend'[q] = backend[q]
               /\ toApply'[q] = toApply[q] /\ outcome'[q] = outcome[q],
             prep'[p] \in {"snapshot", "begin"} => Starts(history, ReleaseRows(p)),
             prep'[p] = "begin" => toApply'[p] = ReleaseRows(p),
             backend'[p] \in {"migrating", "committing"} =>
               /\ prep'[p] \in {"migrate", "over"}
               /\ history \o toApply'[p] = ReleaseRows(p),
             outcome'[p] = "ready" => outcome[p] = "ready" \/ history = ReleaseRows(p)
      PROVE  MigrationOK' /\ OneRelease' /\ ReadyOK'
  <2>1. OneRelease' /\ ReadyOK'
    BY <1>3, HistoryStays
  <2>2. \A q \in Preparers :
          /\ prep'[q] \in {"snapshot", "begin"} => Starts(history, ReleaseRows(q))
          /\ prep'[q] = "begin" => toApply'[q] = ReleaseRows(q)
          /\ backend'[q] \in {"migrating", "committing"} =>
               /\ prep'[q] \in {"migrate", "over"}
               /\ history \o toApply'[q] = ReleaseRows(q)
    BY <1>1, <1>3 DEF MigrationOK
  <2>3. MigrationOK'
    BY <1>3, <2>2 DEF MigrationOK, Starts, ReleaseRows, Rows
  <2> QED
    BY <2>1, <2>3
<1>4. ASSUME NEW p \in Preparers,
             \/ VerifyMigrationManifest(p) \/ VerificationFails(p) \/ Acquire(p)
             \/ MigrationFails(p) \/ CloseSession(p) \/ Interrupt(p)
             \/ AbortAtBoundary(p) \/ BackendExits(p)
      PROVE  MigrationOK' /\ OneRelease' /\ ReadyOK'
  <2>1. /\ UNCHANGED <<history, toApply>>
        /\ \A q \in Preparers \ {p} : /\ prep'[q] = prep[q] /\ backend'[q] = backend[q]
                                      /\ outcome'[q] = outcome[q]
        /\ outcome'[p] \in {outcome[p], "failed"}
        /\ prep'[p] \notin {"snapshot", "begin"}
    BY <1>1, <1>4 DEF VerifyMigrationManifest, VerificationFails, Acquire, MigrationFails,
                      CloseSession, Interrupt, AbortAtBoundary, BackendExits, PrepTypeOK
  <2>2. backend'[p] \in {"migrating", "committing"} =>
          backend'[p] = backend[p] /\ prep'[p] \in {"migrate", "over"}
    BY <1>1, <1>4 DEF VerifyMigrationManifest, VerificationFails, Acquire, MigrationFails,
                      CloseSession, Interrupt, AbortAtBoundary, BackendExits, PrepTypeOK,
                      MigrationOK, Boundaries
  <2>3. backend'[p] \in {"migrating", "committing"} =>
          history \o toApply'[p] = ReleaseRows(p)
    BY <1>1, <2>1, <2>2 DEF MigrationOK
  <2>4. \A q \in Preparers : toApply'[q] = toApply[q]
    BY <2>1
  <2> QED
    BY <1>3, <2>1, <2>2, <2>3, <2>4
<1>5. ASSUME NEW p \in Preparers, ReplaceInstallation(p) \/ UNCHANGED prepVars
      PROVE  MigrationOK' /\ OneRelease' /\ ReadyOK'
  <2>1. UNCHANGED <<history, prep, backend, toApply, outcome>>
    BY <1>5 DEF ReplaceInstallation, prepVars
  <2> QED
    BY <1>1, <1>3, <2>1 DEF MigrationOK
<1>6. ASSUME NEW p \in Preparers, InspectHistory(p) \/ InspectBefore(p) \/ InspectAfter(p)
      PROVE  MigrationOK' /\ OneRelease' /\ ReadyOK'
  <2>1. /\ UNCHANGED <<history, toApply, backend>>
        /\ \A q \in Preparers \ {p} : prep'[q] = prep[q] /\ outcome'[q] = outcome[q]
        /\ prep[p] \in {"inspect", "before", "after"}
        /\ prep'[p] \in {"over", "close", "snapshot"}
        /\ prep'[p] = "snapshot" => InspectMigrationState(p) \in Compatible
        /\ outcome'[p] = "ready" =>
             outcome[p] = "ready" \/ InspectMigrationState(p) = "ready"
    BY <1>1, <1>6 DEF InspectHistory, InspectBefore, InspectAfter, PrepTypeOK
  <2>2. /\ prep'[p] = "snapshot" => Starts(history, ReleaseRows(p))
        /\ outcome'[p] = "ready" => outcome[p] = "ready" \/ history = ReleaseRows(p)
    BY <1>2, <2>1, InspectionMeans
  <2>3. backend[p] \notin {"migrating", "committing"}
    BY <1>1, <2>1 DEF MigrationOK
  <2> QED
    BY <1>3, <2>1, <2>2, <2>3
<1>7. ASSUME NEW p \in Preparers, VerifySnapshot(p)
      PROVE  MigrationOK' /\ OneRelease' /\ ReadyOK'
  <2>1. /\ UNCHANGED <<history, backend>>
        /\ prep[p] = "snapshot"
        /\ \A q \in Preparers \ {p} : /\ prep'[q] = prep[q] /\ outcome'[q] = outcome[q]
                                      /\ toApply'[q] = toApply[q]
        /\ outcome'[p] \in {outcome[p], "failed"}
        /\ prep'[p] \in {"begin", "close"}
        /\ prep'[p] = "begin" => toApply'[p] = Rows(Manifest[p])
    BY <1>1, <1>7 DEF VerifySnapshot, PrepTypeOK
  <2>2. /\ Starts(history, ReleaseRows(p))
        /\ backend[p] \notin {"migrating", "committing"}
    BY <1>1, <2>1 DEF MigrationOK
  <2> QED
    BY <1>3, <2>1, <2>2 DEF ReleaseRows
<1>8. ASSUME NEW p \in Preparers, BeginMigration(p)
      PROVE  MigrationOK' /\ OneRelease' /\ ReadyOK'
  <2> DEFINE rest == NotApplied(toApply[p])
  <2>1. /\ prep[p] = "begin"
        /\ toApply' = [toApply EXCEPT ![p] = rest]
        /\ backend' = [backend EXCEPT ![p] = "migrating"]
        /\ prep' = [prep EXCEPT ![p] = "migrate"]
        /\ UNCHANGED <<history, outcome>>
    BY <1>8 DEF BeginMigration
  <2>2. toApply[p] = ReleaseRows(p) /\ Starts(history, ReleaseRows(p))
    BY <1>1, <2>1 DEF MigrationOK
  <2>3. history \o rest = ReleaseRows(p)
    BY <1>2, <2>2, RestFollows
  <2> HIDE DEF rest
  <2>4. /\ prep'[p] = "migrate" /\ toApply'[p] = rest
        /\ \A q \in Preparers \ {p} :
             /\ prep'[q] = prep[q] /\ backend'[q] = backend[q]
             /\ toApply'[q] = toApply[q] /\ outcome'[q] = outcome[q]
    BY <1>1, <2>1 DEF PrepTypeOK
  <2> QED
    BY <1>3, <2>1, <2>3, <2>4
<1>9. ASSUME NEW p \in Preparers, SendCommit(p)
      PROVE  MigrationOK' /\ OneRelease' /\ ReadyOK'
  <2>1. /\ UNCHANGED <<history, prep, toApply, outcome>>
        /\ prep[p] = "migrate" /\ backend[p] = "migrating"
        /\ \A q \in Preparers \ {p} : backend'[q] = backend[q]
    BY <1>1, <1>9 DEF SendCommit, PrepTypeOK
  <2>2. history \o toApply[p] = ReleaseRows(p)
    BY <1>1, <2>1 DEF MigrationOK
  <2> QED
    BY <1>3, <2>1, <2>2
<1>10. ASSUME NEW p \in Preparers, CommitMigration(p)
       PROVE  MigrationOK' /\ OneRelease' /\ ReadyOK'
  <2>1. /\ history' = history \o toApply[p]
        /\ UNCHANGED <<toApply, outcome>>
        /\ backend[p] = "committing" /\ backend'[p] = "idle"
        /\ prep'[p] \in {"after", "over"}
        /\ \A q \in Preparers \ {p} : prep'[q] = prep[q] /\ backend'[q] = backend[q]
    BY <1>1, <1>10 DEF CommitMigration, PrepTypeOK, MigrationOK
  <2>2. history' = ReleaseRows(p)
    BY <1>1, <2>1 DEF MigrationOK
  <2>3. \A q \in Preparers \ {p} : /\ prep[q] \notin {"snapshot", "begin"}
                                   /\ backend[q] = "none"
    <3>1. holder = p
      BY <1>1, <2>1 DEF LockOK
    <3> QED
      BY <1>1, <3>1 DEF LockOK, PointsOK
  <2>4. MigrationOK'
    <3>1. \A q \in Preparers : /\ prep'[q] \notin {"snapshot", "begin"}
                               /\ backend'[q] \notin {"migrating", "committing"}
      BY <2>1, <2>3
    <3> QED
      BY <3>1 DEF MigrationOK
  <2>5. OneRelease'
    <3>1. history' \in Seq(MigrationRecord)
      BY DEF PrepTypeOK, MigrationRecord
    <3>2. Starts(history', ReleaseRows(p))
      BY <2>2, <3>1 DEF Starts
    <3> QED
      BY <3>2 DEF OneRelease, Starts, ReleaseRows, Rows
  <2>6. ReadyOK'
    <3>1. ASSUME NEW q \in Preparers, outcome[q] = "ready"
          PROVE  Starts(ReleaseRows(q), history')
      <4> DEFINE rows == ReleaseRows(q)
      <4>1. Starts(rows, history)
        BY <3>1 DEF PrepInv, ReadyOK
      <4>2. toApply[p] \in Seq(MigrationRecord)
        BY <1>1 DEF PrepTypeOK, MigrationRecord
      <4>3. rows \in Seq(MigrationRecord)
        BY ReleaseType
      <4> HIDE DEF rows
      <4>4. /\ Len(history') = Len(history) + Len(toApply[p])
            /\ \A i \in 1 .. Len(history) + Len(toApply[p]) :
                 history'[i] = IF i <= Len(history) THEN history[i]
                               ELSE toApply[p][i - Len(history)]
        BY <1>2, <2>1, <4>2, ConcatProperties
      <4>5. Len(history) \in Nat /\ Len(toApply[p]) \in Nat /\ Len(rows) \in Nat
        BY <1>2, <4>2, <4>3
      <4>6. \A i \in 1 .. Len(rows) : /\ i <= Len(history)
                                      /\ i \in 1 .. Len(history) + Len(toApply[p])
        BY <4>1, <4>5 DEF Starts
      <4>7. Starts(rows, history')
        BY <4>1, <4>4, <4>5, <4>6 DEF Starts
      <4> QED
        BY <4>7 DEF rows
    <3> QED
      BY <2>1, <3>1 DEF ReadyOK, Starts, ReleaseRows, Rows
  <2> QED
    BY <2>4, <2>5, <2>6
<1>11. CASE UNCHANGED prepVars
  <2>1. PICK p \in Preparers : TRUE
    BY DEF PrepInv, OneRelease
  <2> QED
    BY <1>5, <1>11, <2>1
<1> QED
  BY <1>4, <1>5, <1>6, <1>7, <1>8, <1>9, <1>10, <1>11 DEF PrepNext, Prepare

LEMMA PrepInvariance == PrepSpec => []PrepInv
<1>1. PrepInit => PrepInv
  BY PreparationAssumption, PrepInitially
<1>2. PrepInv /\ [PrepNext]_prepVars => PrepInv'
  <2> SUFFICES ASSUME PrepInv, [PrepNext]_prepVars PROVE PrepInv'
    OBVIOUS
  <2>1. PrepTypeOK' /\ LockOK' /\ PointsOK'
    BY PreparationAssumption, PrepTypeStep, LockStep
  <2>2. MigrationOK' /\ OneRelease' /\ ReadyOK'
    BY PreparationAssumption, <2>1, MigrationStep
  <2> QED
    BY <2>1, <2>2 DEF PrepInv
<1> QED
  BY <1>1, <1>2, PTL DEF PrepSpec

\* However many programs of however many releases open the database, race for
\* the lock, and are interrupted before, while or after their SQL commits, its
\* history stays that of one release; and a program that goes on has all its
\* migrations.
THEOREM OneReleasesHistory == PrepSpec => []HistoryIsOneRelease
<1>1. PrepInv => HistoryIsOneRelease
  <2> SUFFICES ASSUME PrepInv PROVE HistoryIsOneRelease
    OBVIOUS
  <2>1. \A p \in Preparers : ReleaseRows(p) \in Seq(MigrationRecord)
    BY PreparationAssumption, ReleaseType
  <2>2. history \in Seq(MigrationRecord)
    BY DEF PrepInv, PrepTypeOK, MigrationRecord
  <2>3. \A p \in Preparers : /\ IsPrefix(history, ReleaseRows(p)) <=>
                                  Starts(history, ReleaseRows(p))
                             /\ IsPrefix(ReleaseRows(p), history) <=>
                                  Starts(ReleaseRows(p), history)
    BY <2>1, <2>2, PrefixMeans
  <2> QED
    BY <2>3 DEF PrepInv, OneRelease, ReadyOK, HistoryIsOneRelease, ReleaseRows
<1> QED
  BY <1>1, PrepInvariance, PTL
=============================================================================
