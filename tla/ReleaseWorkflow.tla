--------------------------- MODULE ReleaseWorkflow ---------------------------
(***************************************************************************)
(* Runs of the release workflow (scripts/release.mts, called by the jobs of *)
(* .github/workflows/main.yaml) that publish builds to npm, to the image    *)
(* registry and to GitHub: packages are uploaded before a shared tag moves, *)
(* images are attested before theirs does, and jobs fail, are run again and *)
(* finish in any order of the builds, while artifacts expire and release    *)
(* tags are deleted.                                                        *)
(*                                                                         *)
(* A build is its number in the order of its channel: its run number for    *)
(* dev, its place in SemVer's order for a release.  The bytes of packages   *)
(* and images are named by when they were built.  The registries, GitHub    *)
(* and its runners are external; the jobs of the group npm-publish run one  *)
(* at a time.                                                               *)
(***************************************************************************)
EXTENDS Integers, FiniteSets

CONSTANTS
  Builds,    \* builds, by number
  ChannelOf, \* the channel of each
  Packages,  \* the packages' places in packageOrder
  MaxBytes,  \* bound on how often packages or images are built
  MaxEvents  \* bound on how often artifacts are lost, builds run again and
             \* tags moved

ASSUME ReleaseAssumption ==
  /\ \A b \in Builds : b \in Nat /\ b > 0
  /\ ChannelOf \in [Builds -> {"dev", "next", "latest"}]
  /\ IsFiniteSet(Packages) /\ Packages = 1 .. Cardinality(Packages) /\ Packages # {}
  /\ MaxBytes \in Nat /\ MaxEvents \in Nat

VARIABLES
  bytes,    \* how often something was built
  tarballs, \* the packages kept with each run, 0 if there are none
  layout,   \* the image kept with it, and the packages it was built from
  npm,      \* the bytes of each published version of a package
  distTag,  \* the version each dist-tag names, 0 if it is free or a seed
  image,    \* the image each version tag names
  attested, \* where the image's attestation is stored
  imageTag, \* the build whose image each channel tag names
  release,  \* whether the GitHub release exists
  assets,   \* its assets
  latest,   \* the release GitHub shows as the latest
  tagged,   \* whether the release's Git tag names its commit
  passed,   \* the jobs of each run that passed
  job,      \* the job that runs
  events    \* how many were lost, run again or moved

storesVars == <<npm, distTag, image, attested, imageTag, release, assets,
                latest>>
releaseVars == <<bytes, tarballs, layout, npm, distTag, image, attested, imageTag,
                 release, assets, latest, tagged, passed, job, events>>

Channels == {"dev", "next", "latest"}
NoImage == [bytes |-> 0, of |-> 0]
AssetNames == {"packages", "image"}
NoAsset == [state |-> "none", content |-> NoImage]
NoJob == [name |-> "none", build |-> 0, at |-> "none", package |-> 0]

ReleaseInit ==
  /\ bytes = 0
  /\ tarballs = [b \in Builds |-> 0]
  /\ layout = [b \in Builds |-> NoImage]
  /\ npm = [b \in Builds |-> [p \in Packages |-> 0]]
  /\ distTag = [p \in Packages |-> [c \in Channels |-> 0]]
  /\ image = [b \in Builds |-> NoImage]
  /\ attested = [b \in Builds |-> {}]
  /\ imageTag = [c \in Channels |-> 0]
  /\ release = [b \in Builds |-> FALSE]
  /\ assets = [b \in Builds |-> [a \in AssetNames |-> NoAsset]]
  /\ latest = 0
  /\ tagged = [b \in Builds |-> TRUE]
  /\ passed = [b \in Builds |-> {}]
  /\ job = NoJob
  /\ events = 0

-----------------------------------------------------------------------------
Published(b) == \A p \in Packages : npm[b][p] # 0

\* ensureUnpublished(): what was published is not built again.
Unpublished(b) == \A p \in Packages : npm[b][p] = 0

JobPasses(b, name) == passed' = [passed EXCEPT ![b] = @ \union {name}]

CountEvent == events < MaxEvents /\ events' = events + 1

\* Packages kept with the run are used again; otherwise they are built.
PackArtifacts(b) ==
  /\ "artifacts" \notin passed[b]
  /\ IF tarballs[b] # 0 THEN UNCHANGED <<bytes, tarballs>>
     ELSE /\ Unpublished(b)
          /\ bytes < MaxBytes
          /\ bytes' = bytes + 1
          /\ tarballs' = [tarballs EXCEPT ![b] = bytes + 1]
  /\ JobPasses(b, "artifacts")
  /\ UNCHANGED <<layout, storesVars, tagged, job, events>>

\* Mutant: a kept image is used again whatever packages it was built from.
ReuseImage(b) ==
  /\ "artifacts" \in passed[b]
  /\ "image" \notin passed[b]
  /\ tarballs[b] # 0
  /\ IF layout[b] # NoImage THEN UNCHANGED <<bytes, layout>>
     ELSE /\ Unpublished(b)
          /\ bytes < MaxBytes
          /\ bytes' = bytes + 1
          /\ layout' = [layout EXCEPT ![b] =
                          [bytes |-> bytes + 1, of |-> tarballs[b]]]
  /\ JobPasses(b, "image")
  /\ UNCHANGED <<tarballs, storesVars, tagged, job, events>>

\* The image is kept and built likewise; its index is refused if it was built
\* from other packages.
BuildImage(b) ==
  /\ "artifacts" \in passed[b]
  /\ "image" \notin passed[b]
  /\ tarballs[b] # 0
  /\ IF layout[b] # NoImage
     THEN layout[b].of = tarballs[b] /\ UNCHANGED <<bytes, layout>>
     ELSE /\ Unpublished(b)
          /\ bytes < MaxBytes
          /\ bytes' = bytes + 1
          /\ layout' = [layout EXCEPT ![b] =
                          [bytes |-> bytes + 1, of |-> tarballs[b]]]
  /\ JobPasses(b, "image")
  /\ UNCHANGED <<tarballs, storesVars, tagged, job, events>>

\* Artifacts expire, or are deleted.
LoseArtifacts(b) ==
  /\ job.build # b
  /\ CountEvent
  /\ \/ /\ tarballs[b] # 0
        /\ tarballs' = [tarballs EXCEPT ![b] = 0]
        /\ UNCHANGED layout
     \/ /\ layout[b] # NoImage
        /\ layout' = [layout EXCEPT ![b] = NoImage]
        /\ UNCHANGED tarballs
  /\ UNCHANGED <<bytes, storesVars, tagged, passed, job>>

\* A maintainer runs every job of a build again.
RerunAll(b) ==
  /\ job.build # b
  /\ CountEvent
  /\ passed[b] # {}
  /\ passed' = [passed EXCEPT ![b] = {}]
  /\ UNCHANGED <<bytes, tarballs, layout, storesVars, tagged, job>>

RetargetTag(b) ==
  /\ ChannelOf[b] # "dev"
  /\ tagged[b]
  /\ CountEvent
  /\ tagged' = [tagged EXCEPT ![b] = FALSE]
  /\ UNCHANGED <<bytes, tarballs, layout, storesVars, passed, job>>

-----------------------------------------------------------------------------
JobNeeds(name) ==
  CASE name = "publish" -> {"artifacts", "image"}
    [] name = "image-publish" -> {"publish", "image"}
    [] name = "github-release" -> {"publish", "image-publish"}

FirstStep(name) ==
  CASE name = "publish" -> "preflight"
    [] name = "image-publish" -> "push"
    [] name = "github-release" -> "create"

StartJob(b, name) ==
  /\ job = NoJob
  /\ JobNeeds(name) \subseteq passed[b]
  /\ name \notin passed[b]
  /\ name = "github-release" => ChannelOf[b] # "dev"
  /\ name # "image-publish" => tarballs[b] # 0
  /\ name # "publish" => layout[b] # NoImage
  /\ tagged[b]
  /\ job' = [name |-> name, build |-> b, at |-> FirstStep(name), package |-> 1]
  /\ UNCHANGED <<bytes, tarballs, layout, storesVars, tagged, passed, events>>

\* A command fails after its retries, a check refuses, or the runner dies.
JobFails ==
  /\ job # NoJob
  /\ job' = NoJob
  /\ UNCHANGED <<bytes, tarballs, layout, storesVars, tagged, passed, events>>

JobAt(point) == job.at = point
JobGoes(point) == job' = [job EXCEPT !.at = point, !.package = 1]
NextPackage == job' = [job EXCEPT !.package = @ + 1]
KeepsRuns == UNCHANGED <<bytes, tarballs, layout, tagged, passed, events>>

EndJob ==
  /\ job' = NoJob
  /\ JobPasses(job.build, job.name)
  /\ UNCHANGED <<bytes, tarballs, layout, tagged, events>>

-----------------------------------------------------------------------------
(* publish(): npm                                                          *)

\* A published version has the bytes of the run, or nothing is uploaded.
Preflight ==
  /\ JobAt("preflight")
  /\ \A p \in Packages : npm[job.build][p] \in {0, tarballs[job.build]}
  /\ JobGoes("upload")
  /\ KeepsRuns
  /\ UNCHANGED storesVars

\* publishOne(): an upload whose answer was lost is found published.
PublishOne ==
  /\ JobAt("upload")
  /\ job.package \in Packages
  /\ IF npm[job.build][job.package] # 0 THEN UNCHANGED npm
     ELSE /\ tagged[job.build]
          /\ npm' = [npm EXCEPT ![job.build][job.package] =
                       tarballs[job.build]]
  /\ NextPackage
  /\ KeepsRuns
  /\ UNCHANGED <<distTag, image, attested, imageTag, release, assets, latest>>

IsNewer(current, b) == current > b

\* Any member a newer build was promoted for keeps the channel.
NewerExists(b) ==
  \E p \in Packages : IsNewer(distTag[p][ChannelOf[b]], b)

ReadTags ==
  /\ JobAt("upload")
  /\ job.package \notin Packages
  /\ JobGoes(IF NewerExists(job.build) THEN "staging" ELSE "promote")
  /\ KeepsRuns
  /\ UNCHANGED storesVars

PromotePackage ==
  /\ JobAt("promote")
  /\ job.package \in Packages
  /\ IF distTag[job.package][ChannelOf[job.build]] = job.build
     THEN UNCHANGED distTag
     ELSE /\ tagged[job.build]
          /\ distTag' = [distTag EXCEPT
               ![job.package][ChannelOf[job.build]] = job.build]
  /\ NextPackage
  /\ KeepsRuns
  /\ UNCHANGED <<npm, image, attested, imageTag, release, assets,
                 latest>>

\* What is left are the staging tags, which nobody follows.
EndPublish ==
  /\ JobAt("staging") \/ (JobAt("promote") /\ job.package \notin Packages)
  /\ EndJob
  /\ UNCHANGED storesVars

-----------------------------------------------------------------------------
(* imagePush(), imageAttestation(), imageTags()                            *)

ImagePush ==
  /\ JobAt("push")
  /\ IF image[job.build] = NoImage
     THEN /\ tagged[job.build]
          /\ image' = [image EXCEPT ![job.build] = layout[job.build]]
     ELSE image[job.build] = layout[job.build] /\ UNCHANGED image
  /\ JobGoes("attest")
  /\ KeepsRuns
  /\ UNCHANGED <<npm, distTag, attested, imageTag, release, assets,
                 latest>>

\* The attestation is stored on GitHub, then attached to the registry; a rerun
\* attaches what an earlier one stored.
AttestImage ==
  /\ JobAt("attest")
  /\ attested[job.build] # {"github", "registry"}
  /\ tagged[job.build]
  /\ attested' = [attested EXCEPT ![job.build] =
       IF @ = {} THEN {"github"} ELSE {"github", "registry"}]
  /\ UNCHANGED job
  /\ KeepsRuns
  /\ UNCHANGED <<npm, distTag, image, imageTag, release, assets, latest>>

VerifyAttestation ==
  /\ JobAt("attest")
  /\ attested[job.build] = {"github", "registry"}
  /\ JobGoes("tag")
  /\ KeepsRuns
  /\ UNCHANGED storesVars

\* Mutant: the job that runs last moves the channel tag.
TagAlways ==
  /\ JobAt("tag")
  /\ IF imageTag[ChannelOf[job.build]] = job.build THEN UNCHANGED imageTag
     ELSE /\ tagged[job.build]
          /\ imageTag' = [imageTag EXCEPT ![ChannelOf[job.build]] = job.build]
  /\ JobGoes("pull")
  /\ KeepsRuns
  /\ UNCHANGED <<npm, distTag, image, attested, release, assets, latest>>

\* A channel tag that names a newer build is kept.
ImageTags ==
  /\ JobAt("tag")
  /\ LET current == imageTag[ChannelOf[job.build]] IN
       IF current = job.build \/ IsNewer(current, job.build)
       THEN UNCHANGED imageTag
       ELSE /\ tagged[job.build]
            /\ imageTag' = [imageTag EXCEPT ![ChannelOf[job.build]] = job.build]
  /\ JobGoes("pull")
  /\ KeepsRuns
  /\ UNCHANGED <<npm, distTag, image, attested, release, assets, latest>>

\* Only a dev build may go on while anonymous pulls are refused.
CheckAnonymousPull ==
  /\ JobAt("pull")
  /\ EndJob
  /\ UNCHANGED storesVars

-----------------------------------------------------------------------------
(* release(): GitHub                                                       *)

\* It is the latest if npm's latest is this version.
CreateRelease ==
  /\ JobAt("create")
  /\ release' = [release EXCEPT ![job.build] = TRUE]
  /\ latest' = IF /\ ~release[job.build]
                  /\ ChannelOf[job.build] = "latest"
                  /\ distTag[Cardinality(Packages)]["latest"] = job.build
               THEN job.build ELSE latest
  /\ JobGoes("assets")
  /\ KeepsRuns
  /\ UNCHANGED <<npm, distTag, image, attested, imageTag, assets>>

ExpectedAsset(b, a) ==
  [state |-> "uploaded",
   content |-> IF a = "image" THEN layout[b]
               ELSE [bytes |-> tarballs[b], of |-> tarballs[b]]]

\* A completed asset is never replaced, only what a failed upload left.
UploadAsset ==
  /\ JobAt("assets")
  /\ \E a \in AssetNames :
       /\ assets[job.build][a].state # "uploaded"
       /\ tagged[job.build]
       /\ \/ /\ assets' = [assets EXCEPT ![job.build][a] = ExpectedAsset(job.build, a)]
             /\ UNCHANGED job
          \/ /\ assets' = [assets EXCEPT ![job.build][a].state = "starter"]
             /\ job' = NoJob
  /\ KeepsRuns
  /\ UNCHANGED <<npm, distTag, image, attested, imageTag, release,
                 latest>>

AssetsUploaded ==
  /\ JobAt("assets")
  /\ \A a \in AssetNames : assets[job.build][a] = ExpectedAsset(job.build, a)
  /\ layout[job.build].of = tarballs[job.build]
  /\ EndJob
  /\ UNCHANGED storesVars

ReleaseNext ==
  \/ \E b \in Builds :
       \/ PackArtifacts(b) \/ BuildImage(b) \/ LoseArtifacts(b) \/ RerunAll(b)
       \/ RetargetTag(b)
       \/ \E name \in {"publish", "image-publish", "github-release"} :
            StartJob(b, name)
  \/ JobFails
  \/ Preflight \/ PublishOne \/ ReadTags \/ PromotePackage \/ EndPublish
  \/ ImagePush \/ AttestImage \/ VerifyAttestation \/ ImageTags \/ CheckAnonymousPull
  \/ CreateRelease \/ UploadAsset \/ AssetsUploaded

ReleaseSpec == ReleaseInit /\ [][ReleaseNext]_releaseVars

-----------------------------------------------------------------------------
(* Properties                                                              *)

\* Everything anyone finds under a version was built once: its packages and
\* its image, though jobs fail half way, artifacts are lost and jobs run again.
\* No shared tag names a version that is not there in full, and no image or
\* release is offered before it is attested.
BuildsAreWhole ==
  \A b \in Builds :
    /\ \A p, q \in Packages : npm[b][p] # 0 /\ npm[b][q] # 0 =>
                                npm[b][p] = npm[b][q]
    /\ \A p \in Packages : image[b] # NoImage => npm[b][p] = image[b].of
    /\ (\E p \in Packages : distTag[p][ChannelOf[b]] = b) => Published(b)
    /\ imageTag[ChannelOf[b]] = b \/ release[b] =>
         image[b] # NoImage /\ attested[b] = {"github", "registry"}

\* Whichever build's jobs run last, or again, no tag others follow is moved
\* back to an older build: neither a dist-tag of any package, nor an image's
\* tag, nor the release shown as the latest.
ChannelsNeverGoBack ==
  [][/\ \A p \in Packages, c \in Channels : distTag'[p][c] >= distTag[p][c]
     /\ \A c \in Channels : imageTag'[c] >= imageTag[c]
     /\ latest' >= latest]_releaseVars
=============================================================================
