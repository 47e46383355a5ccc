------------------------- MODULE MCEnrichmentMerge --------------------------
(* EnrichmentMerge for TLC.                                                *)
EXTENDS EnrichmentMerge, TLC

Symmetry == Permutations(Workers)
=============================================================================
