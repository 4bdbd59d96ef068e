---------------------------- MODULE MCOperations -----------------------------
(***************************************************************************)
(* The server process and what operates the program, checked together: each *)
(* behaviour is one of the process, of releases, of deployments of the      *)
(* documentation, or of previews of it, named by part, while the others     *)
(* rest in their initial state.                                            *)
(***************************************************************************)
EXTENDS MCServerRuntime, Operations

VARIABLE part

\* Two builds of one channel.
MCChannelOf == [b \in Builds |-> "latest"]

Parts == {"server", "release", "docs", "previews"}

Init ==
  /\ part \in Parts
  /\ ServerInit
  /\ part # "server" => driver = "pglite" /\ withWeb
  /\ ReleaseInit /\ DocsInit /\ PreviewInit

Next ==
  /\ UNCHANGED part
  /\ IF part = "server" THEN ServerNext ELSE UNCHANGED serverVars
  /\ IF part = "release" THEN ReleaseNext ELSE UNCHANGED releaseVars
  /\ IF part = "docs" THEN DocsNext ELSE UNCHANGED docsVars
  /\ IF part = "previews" THEN PreviewNext ELSE UNCHANGED previewVars

vars == <<part, serverVars, releaseVars, docsVars, previewVars>>

\* The fairness of the server process (see ServerFairness), and of nothing else.
Serving(A) == part = "server" /\ A
Spec ==
  /\ Init /\ [][Next]_vars
  /\ WF_serverVars(Serving(StartupNext))
  /\ WF_serverVars(Serving(CleanupNext))
  /\ WF_serverVars(Serving(WorkerHandles))
  /\ WF_serverVars(Serving(WorkerEnds))
  /\ \A r \in Requests :
       /\ WF_serverVars(Serving(HandlerSettles(r)))
       /\ WF_serverVars(Serving(ResolverSettles(r)))
       /\ WF_serverVars(Serving(FetchSettles(r)))
=============================================================================
