----------------------------- MODULE MCPointer -----------------------------
(* Symmetry of the pointer's configurations. *)
EXTENDS Pointer

Symmetry == Permutations(Fingers)
=============================================================================
