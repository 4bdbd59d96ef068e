-------------------------- MODULE MCInboundDelivery --------------------------
(***************************************************************************)
(* Values for model-checking InboundDelivery: two requests for one activity *)
(* IRI, a payload that embeds the object and one that refers to it, and an  *)
(* object whose IRI serves two versions.                                    *)
(***************************************************************************)
EXTENDS InboundDelivery, TLC

CONSTANTS d1, d2, embeds, refers, odd, v1, v2

TwoDeliveries == {d1, d2}
OneDelivery == {d1}
TwoPayloads == {embeds, refers}
OddPayloads == {refers, odd}
TwoVersions == {v1, v2}
OneVersion == {v1}
EmbeddingPayloads == {embeds}
OddDocuments == {odd}
Nothing == {}

\* The two requests differ in nothing but their names.
DeliverySymmetry == Permutations({d1, d2})
=============================================================================
