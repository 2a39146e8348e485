---------------------------- MODULE MCEmbedding ----------------------------
(* EmbeddingService on three texts.                                             *)
EXTENDS EmbeddingService

\* Two ordinary texts, and one over the budget.  A caller that asks for the
\* ordinary ones in one batch, again and again while it fails, competes with the
\* large one, which the two calls of a map() share.
MCTokens == ("short" :> 1) @@ ("other" :> 1) @@ ("long" :> 5)
MCWant == ("c1" :> <<"short", "other">>) @@ ("m1" :> <<"long">>) @@ ("m2" :> <<"long">>)
MCMapped == <<"m1", "m2">>
=============================================================================
