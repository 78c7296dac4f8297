----------------------------- MODULE MCDiscovery -----------------------------
(* Small instances of Discovery for TLC. *)
EXTENDS Discovery, TLC

IdSymmetry == Permutations(Routers) \cup Permutations(Networks)
=============================================================================
