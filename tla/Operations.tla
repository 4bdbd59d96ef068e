----------------------------- MODULE Operations ------------------------------
(***************************************************************************)
(* What operates the program, side by side: its release, the deployment of  *)
(* its documentation and the previews of it.  They share no state, and what *)
(* is promised of them is promised of each.                                *)
(***************************************************************************)
EXTENDS ReleaseWorkflow, DocsDeployment, DocsPreviews

\* Neither what a release publishes, nor what the documentation's site serves, nor
\* what a preview shows goes back (see ChannelsNeverGoBack, DocsNeverGoBack and
\* PreviewsNeverGoBack).
ReleasesNeverGoBack == ChannelsNeverGoBack /\ DocsNeverGoBack /\ PreviewsNeverGoBack
=============================================================================
