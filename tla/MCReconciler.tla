---------------------------- MODULE MCReconciler ----------------------------
(***************************************************************************)
(* Reconciler for TLC: the symmetries of its small instances.              *)
(***************************************************************************)
EXTENDS Reconciler, TLC

\* Neither nodes nor projects differ, where every node or none is Shared.
Symmetry == Permutations(Leaves) \cup Permutations(Projects)

=============================================================================
