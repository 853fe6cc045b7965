----------------------------- MODULE MCFinalizers ----------------------------
(* Small instances of Finalizers for TLC. *)
EXTENDS Finalizers, TLC

\* Neither threads nor objects are told apart by the pass.
Symmetry == Permutations(Mutators) \cup Permutations(Objects)
=============================================================================
