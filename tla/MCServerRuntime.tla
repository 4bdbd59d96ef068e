--------------------------- MODULE MCServerRuntime ---------------------------
(***************************************************************************)
(* Values for model-checking ServerRuntime: a GraphQL request and a page.   *)
(***************************************************************************)
EXTENDS ServerRuntime

CONSTANTS api, page

BothRequests == {api, page}
OnlyPage == {page}
Nothing == {}
SomeFaults == {"mail", "history", "web"}
SomeStubborn == {"web", "store"}
=============================================================================
