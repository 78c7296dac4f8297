--------------------------- MODULE MCGroundControl ---------------------------
(* Small instances of GroundControl for TLC. *)
EXTENDS GroundControl, TLC

AllCalls == Calls

\* A phase update whose answer is lost skips the wait for the cache.
AnsweredCalls == Calls \ {"phasePutLate"}

NoCalls == {}
=============================================================================
