-------------------------- MODULE MCValidityProposer --------------------------
(***************************************************************************)
(* ValidityProposer for TLC: nothing tells one commitment from another, so *)
(* that states which differ by a permutation of Configs are the same.      *)
(***************************************************************************)
EXTENDS ValidityProposer, TLC

Symmetry == Permutations(Configs)
=============================================================================
