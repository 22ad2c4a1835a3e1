---------------------------- MODULE MCHistogram ----------------------------
(* Module Histogram for TLC: its operations never compare ranks. *)
EXTENDS Histogram, TLC

Symmetry == Permutations(Ranks)
=============================================================================
