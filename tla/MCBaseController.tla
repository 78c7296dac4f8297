-------------------------- MODULE MCBaseController --------------------------
(* Small instances of BaseController for TLC. *)
EXTENDS BaseController, TLC

Symmetry == Permutations(Keys) \cup Permutations(Workers)
=============================================================================
