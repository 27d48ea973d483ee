---------------------------- MODULE MCReconciler ----------------------------
(* Reconciler for TLC: verbs that settle a status before the power follows, *)
(* that boot, and that end in no VM at all.                                 *)
EXTENDS Reconciler

MCUserVerbs == {"stop", "resize", "destroy"}
=============================================================================
