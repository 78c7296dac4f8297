-------------------------------- MODULE Launch --------------------------------
(***************************************************************************)
(* pkg/controller/launch: the reconciler that keeps the node pools of a    *)
(* kluster at their size, for one kluster, with the REST handlers and the  *)
(* informer of KlusterApi.  BaseController shows when Reconcile is called: *)
(* after every change of the kluster, again when it asks for it or fails,  *)
(* and every five minutes for every kluster, never twice at once for one   *)
(* kluster (BaseControllerProofs!Exclusion).  Here it may start any time.  *)
(*                                                                         *)
(* Every call to OpenStack or Kubernetes is a step of its own that may     *)
(* fail.  The phases, which the ground controller writes, follow what      *)
(* GroundControl shows in detail (Ground below).                           *)
(***************************************************************************)
EXTENDS KlusterApi, FiniteSets

CONSTANTS
  Servers,      \* server ids
  PageSize,     \* servers on one page of a listing
  MaxEvents     \* bound: calls that fail, servers that fail or reboot, restarts

ASSUME LaunchBounds == PageSize \in Nat \ {0} /\ MaxEvents \in Nat
ASSUME ServersAssumption == IsFiniteSet(Servers)

VARIABLES
  nodes,      \* the servers of the kluster, by id
  creds,      \* the kluster's service user exists
  lpc,        \* what Reconcile does next
  seen,       \* what Reconcile reads of the kluster it was called with
  todo,       \* pools Reconcile has not come to yet
  pool,       \* the pool reconcilePool works on
  victims,    \* nodes reconcilePool has still to delete
  need,       \* nodes reconcilePool has still to create
  reported,   \* status.Running + status.Starting
  requeue,    \* requeueRequested so far
  again,      \* the last Reconcile failed or asked to be called again
  events,     \* failures so far
  came, lost  \* history: servers back in, or dropped out of, service since the listing

launchVars == <<lpc, seen, todo, pool, victims, need, reported, requeue, again>>
vars == <<apiVars, nodes, creds, launchVars, events, came, lost>>

-----------------------------------------------------------------------------
(* A server as OpenStack shows it (external): the task and the VM state    *)
(* and whether PowerState is above 1.  "spawning" stands for the four      *)
(* tasks of a build.                                                       *)

NoServer == [pool |-> "none", task |-> "", vm |-> "deleted", down |-> TRUE]

Scheduled(p) == [pool |-> p, task |-> "spawning", vm |-> "building", down |-> FALSE]
Building(p)  == [pool |-> p, task |-> "", vm |-> "building", down |-> FALSE]
Active(p)    == [pool |-> p, task |-> "", vm |-> "active", down |-> FALSE]
Rebooting(p) == [pool |-> p, task |-> "rebooting", vm |-> "active", down |-> FALSE]
PoweredOff(p) == [pool |-> p, task |-> "", vm |-> "active", down |-> TRUE]
Broken(p)    == [pool |-> p, task |-> "", vm |-> "error", down |-> FALSE]
Deleting(n)  == [n EXCEPT !.task = "deleting"]

BuildTasks == {"spawning"}

\* Mutant of Starting: a build between two tasks is not recognised.
StartingNeedsTask(n) == n.task \in BuildTasks

Starting(n) ==
  n.task \in BuildTasks \/ (n.task = "" /\ n.vm = "building")

Stopping(n) == n.task \notin BuildTasks /\ n.task # ""

Running(n) == ~ Starting(n) /\ ~ Stopping(n) /\ ~ n.down /\ n.vm = "active"

\* Counted for the size of a pool.
InService(n) == Starting(n) \/ Running(n)

starting(S) == Cardinality({s \in S : Starting(nodes[s])})
stopping(S) == Cardinality({s \in S : Stopping(nodes[s])})
running(S)  == Cardinality({s \in S : Running(nodes[s])})

\* The servers of a pool, found by the prefix of their name.
Of(p) == {s \in Servers : nodes[s].pool = p}

\* What is in service in truth, whatever the code counts.
Serving(n) == n.vm \in {"building", "active"} /\ n.task \in {"", "spawning"} /\ ~ n.down

Live(p) == Cardinality({s \in Of(p) : Serving(nodes[s])})

\* GetNodes: every page of a listing replaces the one before it.
LastPages(S) ==
  IF Cardinality(S) <= PageSize THEN {S}
  ELSE {T \in SUBSET S : Cardinality(T) \in 1..PageSize}

-----------------------------------------------------------------------------
States == {"", "spawning", "rebooting", "deleting"}

TypeOK ==
  /\ ApiTypeOK
  /\ nodes \in [Servers -> {NoServer} \cup
                  [pool : Pools, task : States, vm : {"building", "active", "error"},
                   down : BOOLEAN]]
  /\ creds \in BOOLEAN
  /\ lpc \in {"idle", "pool", "delete", "create", "statusGet", "statusPut"}
  /\ seen \in [phase : Phases \cup {"Absent"}, spec : [Pools -> Sizes]]
  /\ todo \subseteq Pools /\ pool \in Pools \cup {"none"} /\ victims \subseteq Servers
  /\ need \in 0..MaxSize /\ reported \in Nat
  /\ requeue \in BOOLEAN /\ again \in BOOLEAN
  /\ events \in 0..MaxEvents /\ came \in Nat /\ lost \in Nat

\* What Reconcile reads of a kluster.
View(o) == [phase |-> o.phase, spec |-> o.spec]

\* A kluster that the ground controller has brought up, without nodes yet.
Fresh(spec) == [KlusterFor(TRUE, spec) EXCEPT !.phase = "Running", !.url = TRUE]

Init ==
  /\ \E spec \in [Pools -> Sizes] : store = Fresh(spec)
  /\ cache = store /\ seen = View(store)
  /\ fresh = {} /\ watch = <<>>
  /\ apiPc = "idle" /\ requests = 0 /\ accepted = FALSE
  /\ nodes = [s \in Servers |-> NoServer]
  /\ creds = TRUE
  /\ lpc = "idle" /\ todo = {} /\ pool = "none"
  /\ victims = {} /\ need = 0 /\ reported = 0
  /\ requeue = FALSE /\ again = TRUE
  /\ events = 0 /\ came = 0 /\ lost = 0

-----------------------------------------------------------------------------
(* The environment of the reconciler.                                      *)

Api ==
  /\ ApiNext
  /\ UNCHANGED <<nodes, creds, launchVars, events, came, lost>>

\* The informer; a change of the kluster queues it for Reconcile.
CacheEvent ==
  /\ CacheNext
  /\ again' = TRUE
  /\ UNCHANGED <<store, fresh, apiPc, requests, accepted, nodes, creds, lpc, seen, todo,
                 pool, victims, need, reported, requeue, events, came, lost>>

\* The ground controller brings a kluster up, deletes the service user of one
\* that is to be terminated, and deletes its resource.
Ground ==
  /\ \/ /\ store.phase = "Pending"
        /\ Write([store EXCEPT !.phase = "Running", !.os = TRUE, !.url = TRUE])
        /\ creds' = TRUE
     \/ /\ store.phase = "Terminating" /\ creds
        /\ creds' = FALSE
        /\ UNCHANGED <<store, fresh, watch>>
     \/ /\ store.phase = "Terminating" /\ ~ creds
        /\ Write(Absent)
        /\ UNCHANGED creds
  /\ UNCHANGED <<cache, apiPc, requests, accepted, nodes, launchVars, events, came, lost>>

\* OpenStack moves server s from one state to another.
Move(s, from, to) ==
  /\ nodes[s] = from
  /\ nodes' = [nodes EXCEPT ![s] = to]
  /\ came' = came + (IF lpc = "create" /\ Serving(to) /\ ~ Serving(from) THEN 1 ELSE 0)
  /\ lost' = lost + (IF lpc = "delete" /\ Serving(from) /\ ~ Serving(to) THEN 1 ELSE 0)

\* What OpenStack finishes by itself: builds, reboots and deletions.
Nova ==
  /\ \E s \in Servers, p \in Pools :
       \/ Move(s, Scheduled(p), Building(p))
       \/ Move(s, Building(p), Active(p))
       \/ Move(s, Rebooting(p), Active(p))
       \/ nodes[s].pool = p /\ nodes[s].task = "deleting" /\ Move(s, nodes[s], NoServer)
  /\ UNCHANGED <<apiVars, creds, launchVars, events>>

Event == events < MaxEvents /\ events' = events + 1

\* A build fails, a server reboots or stops.
NovaEvent ==
  /\ Event
  /\ \E s \in Servers, p \in Pools :
       \/ Move(s, Scheduled(p), Broken(p))
       \/ Move(s, Active(p), Rebooting(p))
       \/ Move(s, Active(p), PoweredOff(p))
  /\ UNCHANGED <<apiVars, creds, launchVars>>

\* Somebody starts a server again.
Restarted ==
  /\ \E s \in Servers, p \in Pools : Move(s, PoweredOff(p), Active(p))
  /\ UNCHANGED <<apiVars, creds, launchVars, events>>

\* Reconcile returns; its local variables are gone.
Return(more) ==
  /\ lpc' = "idle" /\ again' = more
  /\ todo' = {} /\ pool' = "none" /\ victims' = {} /\ need' = 0 /\ reported' = 0
  /\ requeue' = FALSE /\ came' = 0 /\ lost' = 0
  /\ UNCHANGED seen

\* The operator restarts: the informer lists the kluster and queues it.
Crash ==
  /\ Event
  /\ cache' = store /\ watch' = <<>> /\ fresh' = fresh \ {"launch"}
  /\ Return(TRUE)
  /\ UNCHANGED <<store, apiPc, requests, accepted, nodes, creds>>

-----------------------------------------------------------------------------
(* Reconcile.                                                              *)

\* Only klusters that are Running or Terminating have nodes.
Reconcile ==
  /\ lpc = "idle"
  /\ Exists(cache)
  /\ seen' = View(cache)
  /\ IF cache.phase \in {"Running", "Terminating"}
     THEN lpc' = "pool" /\ todo' = {p \in Pools : cache.spec[p] # NoPool} /\ UNCHANGED again
     ELSE again' = FALSE /\ UNCHANGED <<lpc, todo>>
  /\ UNCHANGED <<apiVars, nodes, creds, pool, victims, need, reported, requeue, events,
                 came, lost>>

\* A call fails: Reconcile returns the error and is called again.
Failed == Return(TRUE) /\ UNCHANGED events

Fault == Return(TRUE) /\ Event

\* OpenStack refuses the calls of a user that is gone, once its token ends.
Refused == Fault \/ (~ creds /\ Failed)

\* Mutant of Needed: servers out of service are not replaced.
NeededCountsAll(size, S) == IF size > Cardinality(S) THEN size - Cardinality(S) ELSE 0

Needed(size, S) ==
  LET n == size - running(S) - starting(S) IN IF n < 0 THEN 0 ELSE n

\* Mutant of UnNeeded: one server more than necessary.
UnNeededOffByOne(size, S) ==
  LET n == running(S) + starting(S) - size IN IF n <= 0 THEN 0 ELSE n + 1

UnNeeded(size, S) ==
  LET n == running(S) + starting(S) - size IN IF n < 0 THEN 0 ELSE n

\* The loops of reconcilePool over the nodes to delete and to create, which ask
\* to be called again, and its last part, which does so for nodes that start or
\* stop and sets the status.
DeleteNodes(S, n) ==
  /\ \E V \in SUBSET S : Cardinality(V) = n /\ victims' = V
  /\ requeue' = (requeue \/ n > 0)
  /\ lpc' = IF n > 0 THEN "delete" ELSE "pool"
  /\ UNCHANGED <<need, reported>>

CreateNodes(n) ==
  /\ need' = n
  /\ requeue' = TRUE
  /\ lpc' = "create"
  /\ UNCHANGED <<victims, reported>>

\* Mutant of ReportStatus: the last pool decides alone.
ReportStatusLastPool(S) ==
  /\ reported' = running(S) + starting(S)
  /\ requeue' = (starting(S) > 0 \/ stopping(S) > 0)
  /\ lpc' = "statusGet"
  /\ UNCHANGED <<victims, need>>

ReportStatus(S) ==
  /\ reported' = running(S) + starting(S)
  /\ requeue' = (requeue \/ starting(S) > 0 \/ stopping(S) > 0)
  /\ lpc' = "statusGet"
  /\ UNCHANGED <<victims, need>>

\* What reconcilePool does with a pool of a given size whose listing is S.
Decide(size, S) ==
  IF seen.phase = "Terminating" THEN DeleteNodes(S, Cardinality(S))
  ELSE IF Needed(size, S) > 0 THEN CreateNodes(Needed(size, S))
  ELSE IF UnNeeded(size, S) > 0 THEN DeleteNodes(S, UnNeeded(size, S))
  ELSE ReportStatus(S)

\* reconcilePool of the next pool: list its servers and decide.
ReconcilePool ==
  /\ lpc = "pool"
  /\ \E p \in todo :
       \/ /\ pool' = p
          /\ todo' = todo \ {p}
          /\ \E S \in LastPages(Of(p)) : Decide(seen.spec[p], S)
          /\ came' = 0 /\ lost' = 0
          /\ UNCHANGED <<seen, again, events>>
       \/ Refused
  /\ UNCHANGED <<apiVars, nodes, creds>>

ReconcileEnds ==
  /\ lpc = "pool" /\ todo = {}
  /\ Return(requeue)
  /\ UNCHANGED <<apiVars, nodes, creds, events>>

\* The next node of a loop, or the next pool.
Continue(more) ==
  /\ lpc' = IF more THEN lpc ELSE "pool"
  /\ UNCHANGED <<seen, todo, pool, reported, requeue, again, events, came, lost>>

\* CreateNode reads the secret of the release, gone with the kluster, and asks
\* for a server; when the answer is lost the server is there all the same.
CreateNode ==
  /\ lpc = "create"
  /\ \/ /\ Exists(store)
        /\ \E s \in Servers :
             nodes[s] = NoServer /\ nodes' = [nodes EXCEPT ![s] = Scheduled(pool)]
        /\ \/ need' = need - 1 /\ UNCHANGED victims /\ Continue(need > 1)
           \/ Fault
     \/ /\ IF Exists(store) THEN Refused ELSE Failed
        /\ UNCHANGED nodes
  /\ UNCHANGED <<apiVars, creds>>

\* DeleteNode of a server that is gone is an error.
DeleteNode ==
  /\ lpc = "delete"
  /\ \E s \in victims :
       \/ /\ nodes[s] # NoServer
          /\ nodes' = [nodes EXCEPT ![s] = Deleting(@)]
          /\ \/ victims' = victims \ {s} /\ UNCHANGED need /\ Continue(victims # {s})
             \/ Fault
       \/ /\ IF nodes[s] # NoServer THEN Refused ELSE Failed
          /\ UNCHANGED nodes
  /\ UNCHANGED <<apiVars, creds>>

\* SetStatus gets a fresh copy, which it changes only when it has an entry for
\* the pool that differs.  (Size, Healthy and Schedulable of the entry are not
\* read by any code and left out.)
SetStatusGet ==
  /\ lpc = "statusGet"
  /\ \/ /\ Exists(store) /\ store.status[pool] \notin {NoPool, reported}
        /\ Read("launch")
        /\ lpc' = "statusPut"
        /\ UNCHANGED <<seen, todo, pool, victims, need, reported, requeue, again, events,
                       came, lost>>
     \/ /\ Exists(store) /\ store.status[pool] \in {NoPool, reported}
        /\ Continue(FALSE) /\ UNCHANGED <<victims, need, fresh>>
     \/ /\ IF Exists(store) THEN Fault ELSE Failed
        /\ UNCHANGED fresh
  /\ UNCHANGED <<store, watch, cache, apiPc, requests, accepted, nodes, creds>>

\* A copy that is not current any more is a conflict.
SetStatusPut ==
  /\ lpc = "statusPut"
  /\ \/ /\ "launch" \in fresh
        /\ Write([store EXCEPT !.status[pool] = reported])
        /\ Continue(FALSE) /\ UNCHANGED <<victims, need>>
     \/ /\ IF "launch" \in fresh THEN Fault ELSE Failed
        /\ UNCHANGED <<store, fresh, watch>>
  /\ UNCHANGED <<cache, apiPc, requests, accepted, nodes, creds>>

Worker ==
  \/ Reconcile \/ ReconcilePool \/ ReconcileEnds \/ CreateNode \/ DeleteNode
  \/ SetStatusGet \/ SetStatusPut

Next == Api \/ CacheEvent \/ Ground \/ Nova \/ NovaEvent \/ Restarted \/ Crash \/ Worker

Spec == Init /\ [][Next]_vars

(***************************************************************************)
(* Fairness.  The base controller calls Reconcile at least every five      *)
(* minutes, every call returns, the informer and the ground controller run *)
(* on, and OpenStack finishes what it started.  Nothing is assumed of      *)
(* requests and failures.                                                  *)
(***************************************************************************)
FairSpec ==
  /\ Spec
  /\ WF_vars(Worker) /\ WF_vars(CacheEvent) /\ WF_vars(Ground) /\ WF_vars(Nova)

-----------------------------------------------------------------------------
(* Properties.                                                             *)

\* Creating nodes never takes a pool over the size Reconcile was called with,
\* but for servers that came back into service since they were listed: a retry,
\* a restart or an answer that was lost never creates a node twice.
NoOvershoot ==
  lpc = "create" => Live(pool) + need <= seen.spec[pool] + came

\* Deleting nodes never takes a pool of a running kluster below the size
\* Reconcile was called with, but for servers lost since they were listed.
NoUndershoot ==
  lpc = "delete" /\ seen.phase = "Running" =>
    Cardinality({s \in Of(pool) \ victims : Serving(nodes[s])}) + lost >= seen.spec[pool]

\* The base controller is told that nothing is left to do only when no node of
\* the kluster it handed over is still being built or deleted: the status of
\* such a node could not be trusted, and nobody else would look at it again.
QuietMeansSettled ==
  lpc = "idle" /\ ~ again /\ seen.phase \in {"Running", "Terminating"} =>
    \A p \in Pools, s \in Servers :
      seen.spec[p] # NoPool /\ s \in Of(p) =>
        nodes[s].vm # "building" /\ nodes[s].task # "deleting"

\* A running kluster settles with every pool at its size and with a status that
\* says so, once requests and failures stop.
Converges ==
  <>[](store.phase = "Running" =>
         \A p \in Pools : store.spec[p] # NoPool =>
           /\ Live(p) = store.spec[p]
           /\ store.status[p] \in {NoPool, store.spec[p]})

\* A kluster is terminated only when it has no nodes left ("Cluster still has
\* Nodes in a Pool"): none is left without a kluster.
NoOrphans ==
  ~ Exists(store) => \A s \in Servers : ~ Serving(nodes[s])
=============================================================================
