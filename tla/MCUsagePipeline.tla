--------------------------- MODULE MCUsagePipeline ---------------------------
(***************************************************************************)
(* UsagePipeline for TLC: one provider that may have one added account.    *)
(***************************************************************************)
EXTENDS UsagePipeline, TLC

CONSTANTS p, a

OneProvider == {p}
OneAccount == {a}
NoAccount == {}
ProviderOfOne == [k \in {a} |-> p]
ProviderOfNone == [k \in {} |-> p]

Nothing == {}
Everything == AllDisturbances

Symmetry == Permutations(BatchId)
=============================================================================
