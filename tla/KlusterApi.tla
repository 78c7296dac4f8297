------------------------------ MODULE KlusterApi ------------------------------
(***************************************************************************)
(* The kluster resource of one kluster name: its object in the Kubernetes  *)
(* API server, the REST handlers of pkg/api/handlers that change it, and   *)
(* the operator's informer, whose cache follows the object with a lag.     *)
(*                                                                         *)
(* resourceVersion is abstracted to "fresh", the set of clients whose last *)
(* Get still is the current version: any write empties it, and an Update   *)
(* of a client that is not in it ends with a conflict.  An Update that     *)
(* succeeds therefore writes the client's change on top of "store".        *)
(***************************************************************************)
EXTENDS Integers, Sequences

CONSTANTS
  Pools,        \* node pool names
  MaxSize,      \* bound: the size of a node pool (swagger.yml says 127; nothing checks it)
  MaxRequests   \* bound: REST requests that change the kluster

ASSUME SizeAssumption == MaxSize \in Nat
ASSUME RequestsAssumption == MaxRequests \in Nat

VARIABLES
  store,      \* the object in the API server
  fresh,      \* clients whose copy of it is current
  watch,      \* versions the watch has not yet delivered to the informer
  cache,      \* the object in the informer's indexer
  apiPc,      \* where the DELETE handler is: its check and its edit are two requests
  requests,   \* REST requests served so far
  accepted    \* history: a DELETE has made this kluster Terminating

apiVars == <<store, fresh, watch, cache, apiPc, requests, accepted>>

Phases == {"Pending", "Creating", "Running", "Terminating"}

\* A pool is absent from the spec or from the status (NoPool) or has a size.
NoPool == -1
Sizes == NoPool..MaxSize

\* What the operator reads of a kluster: the phase, whether the OpenStack
\* parameters and the URLs are filled in, the node pools asked for (size) and
\* the running nodes reported (status.NodePools[].Running).
Object ==
  [phase : Phases \cup {"Absent"}, os : BOOLEAN, url : BOOLEAN,
   spec : [Pools -> Sizes], status : [Pools -> Nat \cup {NoPool}]]

Absent ==
  [phase |-> "Absent", os |-> FALSE, url |-> FALSE,
   spec |-> [p \in Pools |-> NoPool], status |-> [p \in Pools |-> NoPool]]

Exists(o) == o.phase # "Absent"

ApiTypeOK ==
  /\ store \in Object
  /\ fresh \subseteq {"ground", "launch"}
  /\ watch \in Seq(Object)
  /\ cache \in Object
  /\ apiPc \in {"idle", "checked"}
  /\ requests \in 0..MaxRequests
  /\ accepted \in BOOLEAN

ApiInit ==
  /\ store = Absent
  /\ fresh = {}
  /\ watch = <<>>
  /\ cache = Absent
  /\ apiPc = "idle"
  /\ requests = 0
  /\ accepted = FALSE

-----------------------------------------------------------------------------
\* A write of the API server.  A write that changes nothing keeps the
\* resourceVersion and raises no event.
Write(o) ==
  /\ store' = o
  /\ IF o = store
     THEN UNCHANGED <<fresh, watch>>
     ELSE fresh' = {} /\ watch' = Append(watch, o)

\* A client's Get of an existing object.
Read(client) == fresh' = fresh \cup {client}

\* The informer applies the next version of the watch to its indexer.
CacheNext ==
  /\ watch # <<>>
  /\ cache' = Head(watch)
  /\ watch' = Tail(watch)

-----------------------------------------------------------------------------
(* The REST handlers.  editCluster is a Get and an Update: it takes effect *)
(* only when nothing was written in between, so it is one step; otherwise  *)
(* the client gets an error and nothing changes.                           *)

Request ==
  /\ requests < MaxRequests
  /\ requests' = requests + 1

\* KlusterFor: phase Pending and a status entry of zero nodes for every pool of
\* the spec.
KlusterFor(os, spec) ==
  [phase |-> "Pending", os |-> os, url |-> FALSE, spec |-> spec,
   status |-> [p \in Pools |-> IF spec[p] = NoPool THEN NoPool ELSE 0]]

EditCluster(edited) == Exists(store) /\ Write(edited)

\* POST: 409 when the kluster exists.  The OpenStack parameters may be given.
CreateCluster ==
  /\ Request
  /\ ~ Exists(store)
  /\ \E os \in BOOLEAN, spec \in [Pools -> Sizes] : Write(KlusterFor(os, spec))
  /\ accepted' = FALSE
  /\ UNCHANGED <<cache, apiPc>>

\* PUT: replaces the node pools of the spec; the status is left alone.
UpdateCluster ==
  /\ Request
  /\ \E spec \in [Pools -> Sizes] : EditCluster([store EXCEPT !.spec = spec])
  /\ UNCHANGED <<cache, apiPc, accepted>>

\* DELETE, first part: 404 without a kluster, 409 "Cluster still has Nodes in
\* a Pool" when a pool of the status reports a running node.
TerminateCheck ==
  /\ Request
  /\ apiPc = "idle"
  /\ Exists(store)
  /\ \A p \in Pools : store.status[p] <= 0
  /\ apiPc' = "checked"
  /\ UNCHANGED <<store, fresh, watch, cache, accepted>>

\* DELETE, second part: editCluster sets the phase (202, or 500 when the answer
\* of the API server to the edit was lost), or ends with an error.
TerminateEdit ==
  /\ apiPc = "checked"
  /\ apiPc' = "idle"
  /\ \/ /\ EditCluster([store EXCEPT !.phase = "Terminating"])
        /\ accepted' = TRUE
     \/ UNCHANGED <<store, fresh, watch, accepted>>
  /\ UNCHANGED <<cache, requests>>

ApiNext == CreateCluster \/ UpdateCluster \/ TerminateCheck \/ TerminateEdit
=============================================================================
