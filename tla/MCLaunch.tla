------------------------------ MODULE MCLaunch ------------------------------
(* Small instances of Launch for TLC. *)
EXTENDS Launch, TLC

Symmetry == Permutations(Servers) \cup Permutations(Pools)
=============================================================================
