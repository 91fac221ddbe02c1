----------------------------- MODULE MCLineage -----------------------------
(***************************************************************************)
(* Small instances of Lineage for TLC: one clock unit is 5 seconds.        *)
(***************************************************************************)
EXTENDS Lineage, TLC

Symmetry == Permutations(Jobs) \cup Permutations(Keys)
=============================================================================
