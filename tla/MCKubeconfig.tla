---------------------------- MODULE MCKubeconfig ----------------------------
(* Small instances of Kubeconfig for TLC. *)
EXTENDS Kubeconfig, TLC

Symmetry == Permutations(Contexts) \cup Permutations(Procs)
=============================================================================
