--------------------------- MODULE MCDiffusionLoad ---------------------------
(* Every file of one block of each kind, in all mixtures of types, and hosts *)
(* that keep any layers but long dense.                                      *)
EXTENDS DiffusionLoad

MCPlains == SUBSET {"qkv", "ada", "emb"}
=============================================================================
