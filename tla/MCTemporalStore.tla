-------------------------- MODULE MCTemporalStore ---------------------------
(* TemporalStore for TLC.  Identifiers and node contents are only compared, *)
(* so permuting them maps behaviours to behaviours.                         *)
EXTENDS TemporalStore, TLC

Symmetry == Permutations(NodeIds) \cup Permutations(EdgeIds) \cup Permutations(NodeValues)
=============================================================================
