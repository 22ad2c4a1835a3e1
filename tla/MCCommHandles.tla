--------------------------- MODULE MCCommHandles ---------------------------
(* Module CommHandles for TLC: the values of handles are interchangeable. *)
EXTENDS CommHandles, TLC

Symmetry == Permutations(Handles)
=============================================================================
