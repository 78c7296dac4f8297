--------------------------- MODULE KlusterLifecycle ---------------------------
(***************************************************************************)
(* What the ground controller promises of one kluster, without queues,     *)
(* caches or failing calls: the phase the API reports and whether the      *)
(* control plane (the helm release) exists.  The control plane is built    *)
(* once, before the kluster is Creating; it is torn down only while the    *)
(* kluster is Terminating; the kluster goes only when it is torn down; and *)
(* a kluster never falls back from Running to Creating or to Pending.      *)
(*                                                                         *)
(* A kluster can be made Terminating while the controller is busy with it; *)
(* the controller then finishes what it started, which is why Build,       *)
(* Created and Booted are also possible in phase Terminating.              *)
(*                                                                         *)
(* The promise ends when the controller takes up a kluster it has already  *)
(* deleted, because it could not tell that it had: it then works on the    *)
(* successor of the same name as if that were the deleted one.  The        *)
(* variable trusted says that this has not happened.                       *)
(***************************************************************************)
VARIABLES phase, plane, trusted

lifecycleVars == <<phase, plane, trusted>>

Init == phase = "Absent" /\ plane = FALSE /\ trusted = TRUE

Create ==
  /\ phase = "Absent" /\ phase' = "Pending"
  /\ UNCHANGED plane

Build ==
  /\ phase \in {"Pending", "Terminating"} /\ ~ plane
  /\ plane' = TRUE
  /\ UNCHANGED phase

Created ==
  /\ phase \in {"Pending", "Terminating"} /\ plane
  /\ phase' = "Creating"
  /\ UNCHANGED plane

Booted ==
  /\ phase \in {"Creating", "Terminating"} /\ plane
  /\ phase' = "Running"
  /\ UNCHANGED plane

Terminate ==
  /\ phase \in {"Pending", "Creating", "Running"}
  /\ phase' = "Terminating"
  /\ UNCHANGED plane

TearDown ==
  /\ phase = "Terminating" /\ plane
  /\ plane' = FALSE
  /\ UNCHANGED phase

Remove ==
  /\ phase = "Terminating" /\ ~ plane
  /\ phase' = "Absent"
  /\ UNCHANGED plane

\* What the controller promises of every step.
Promised ==
  /\ trusted /\ UNCHANGED trusted
  /\ Create \/ Build \/ Created \/ Booted \/ Terminate \/ TearDown \/ Remove

\* The controller takes up a kluster it has deleted ...
Overtake ==
  /\ trusted /\ trusted' = FALSE
  /\ UNCHANGED <<phase, plane>>

\* ... after which nothing is promised.
Unpromised == ~ trusted /\ UNCHANGED trusted

Next == Promised \/ Overtake \/ Unpromised

Spec == Init /\ [][Next]_lifecycleVars
=============================================================================
