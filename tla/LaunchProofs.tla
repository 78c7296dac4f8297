----------------------------- MODULE LaunchProofs -----------------------------
(***************************************************************************)
(* Proofs about Launch, for any number of pools, servers, requests and     *)
(* failures.  That a pool is never taken below its size holds whatever the *)
(* pages of a listing are; that it is never taken over its size, and that  *)
(* a quiet controller has settled, needs listings that fit on one page.    *)
(***************************************************************************)
EXTENDS Launch, FiniteSetTheorems, SequenceTheorems, TLAPS

\* Every listing of servers is complete.
OnePage == Cardinality(Servers) <= PageSize

-----------------------------------------------------------------------------
(* The inductive invariants.  Sound is what reconcilePool and OpenStack     *)
(* keep between two calls: nodes to create or to delete remain only where  *)
(* another call was asked for, and a build is in service.  The pools that  *)
(* were looked at and asked for no further call stay settled (Visited).    *)

Shape(n) ==
  /\ n.task = "spawning" => n.vm = "building"
  /\ n.vm = "building" => ~ n.down

Sound ==
  /\ \A s \in Servers : Shape(nodes[s])
  /\ lpc \in {"create", "delete", "statusGet", "statusPut"} => pool \in Pools
  /\ lpc = "create" => need >= 1 /\ requeue
  /\ lpc = "delete" => requeue

Settled(n) == n.vm # "building" /\ n.task # "deleting"

Visited ==
  lpc # "idle" /\ ~ requeue =>
    \A p \in Pools, s \in Servers :
      seen.spec[p] # NoPool /\ p \notin todo /\ s \in Of(p) => Settled(nodes[s])

PoolInv == TypeOK /\ Sound /\ NoUndershoot
PageInv == NoOvershoot /\ Visited /\ QuietMeansSettled

-----------------------------------------------------------------------------
(* The kluster resource keeps its type.                                    *)

\* Objects with one field replaced are objects.
LEMMA ObjectLemma ==
  ASSUME NEW o \in Object
  PROVE  /\ \A ph \in Phases : [o EXCEPT !.phase = ph] \in Object
         /\ [o EXCEPT !.phase = "Running", !.os = TRUE, !.url = TRUE] \in Object
         /\ \A p \in Pools, n \in Nat : [o EXCEPT !.status[p] = n] \in Object
         /\ \A sp \in [Pools -> Sizes] : [o EXCEPT !.spec = sp] \in Object
BY DEF Object, Phases

\* No kluster is an object like the others.
LEMMA AbsentLemma == Absent \in Object
<1>1. [p \in Pools |-> NoPool] \in [Pools -> Sizes]
  BY SizeAssumption DEF Sizes, NoPool
<1>2. [p \in Pools |-> NoPool] \in [Pools -> Nat \cup {NoPool}]
  OBVIOUS
<1> QED BY <1>1, <1>2 DEF Absent, Object

\* POST creates a Pending object.
LEMMA KlusterForLemma ==
  ASSUME NEW os \in BOOLEAN, NEW spec \in [Pools -> Sizes]
  PROVE  KlusterFor(os, spec) \in Object
<1>1. [p \in Pools |-> IF spec[p] = NoPool THEN NoPool ELSE 0] \in [Pools -> Nat \cup {NoPool}]
  OBVIOUS
<1> QED BY <1>1 DEF KlusterFor, Object, Phases

\* A write of an object keeps the types of the API server's state.
LEMMA WriteType ==
  ASSUME ApiTypeOK, NEW o \in Object, Write(o)
  PROVE  store' \in Object /\ fresh' \subseteq {"ground", "launch"} /\ watch' \in Seq(Object)
<1>1. Append(watch, o) \in Seq(Object)
  BY AppendProperties DEF ApiTypeOK
<1> QED BY <1>1 DEF ApiTypeOK, Write

\* The REST handlers.
LEMMA ApiType ==
  ASSUME ApiTypeOK, ApiNext
  PROVE  ApiTypeOK'
<1>1. CASE CreateCluster
  <2>1. store' \in Object /\ fresh' \subseteq {"ground", "launch"} /\ watch' \in Seq(Object)
    <3>1. PICK os \in BOOLEAN, spec \in [Pools -> Sizes] : Write(KlusterFor(os, spec))
      BY <1>1 DEF CreateCluster
    <3>2. KlusterFor(os, spec) \in Object
      BY KlusterForLemma
    <3> QED BY <3>1, <3>2, WriteType
  <2>2. requests' \in 0..MaxRequests
    BY <1>1, RequestsAssumption DEF ApiTypeOK, CreateCluster, Request
  <2>3. cache' = cache /\ apiPc' = apiPc /\ accepted' \in BOOLEAN
    BY <1>1 DEF CreateCluster
  <2> QED BY <2>1, <2>2, <2>3 DEF ApiTypeOK
<1>2. CASE UpdateCluster
  <2>1. store' \in Object /\ fresh' \subseteq {"ground", "launch"} /\ watch' \in Seq(Object)
    BY <1>2, WriteType, ObjectLemma DEF ApiTypeOK, UpdateCluster, EditCluster
  <2> QED BY <1>2, <2>1, RequestsAssumption DEF ApiTypeOK, UpdateCluster, Request
<1>3. CASE TerminateCheck
  BY <1>3, RequestsAssumption DEF ApiTypeOK, TerminateCheck, Request
<1>4. CASE TerminateEdit
  <2>1. store' \in Object /\ fresh' \subseteq {"ground", "launch"} /\ watch' \in Seq(Object)
    BY <1>4, WriteType, ObjectLemma DEF ApiTypeOK, TerminateEdit, EditCluster, Phases
  <2> QED BY <1>4, <2>1 DEF ApiTypeOK, TerminateEdit
<1> QED BY <1>1, <1>2, <1>3, <1>4 DEF ApiNext

-----------------------------------------------------------------------------
(* Servers.                                                                *)

\* The servers OpenStack can show.
Nodes ==
  {NoServer} \cup [pool : Pools, task : States, vm : {"building", "active", "error"},
                   down : BOOLEAN]

\* Every server is one of them.
LEMMA NodeLemma ==
  ASSUME TypeOK
  PROVE  /\ nodes \in [Servers -> Nodes]
         /\ \A s \in Servers : nodes[s] \in Nodes /\ nodes[s].down \in BOOLEAN
<1>1. nodes \in [Servers -> Nodes]
  BY DEF TypeOK, Nodes
<1>2. \A n \in Nodes : n.down \in BOOLEAN
  <2>1. NoServer.down \in BOOLEAN
    BY Zenon DEF NoServer
  <2>2. ASSUME NEW n \in [pool : Pools, task : States, vm : {"building", "active", "error"},
                         down : BOOLEAN]
        PROVE  n.down \in BOOLEAN
    BY Zenon
  <2> QED BY <2>1, <2>2, Zenon DEF Nodes
<1> QED BY <1>1, <1>2

-----------------------------------------------------------------------------
(* Counting.                                                               *)

\* Sets of servers are finite.
LEMMA ServersLemma ==
  ASSUME NEW S, S \subseteq Servers
  PROVE  IsFiniteSet(S) /\ Cardinality(S) \in Nat
BY ServersAssumption, FS_Subset, FS_CardinalityType

\* A smaller set counts less, and one more element at most one more.
LEMMA CountLemma ==
  ASSUME NEW A, NEW B, A \subseteq Servers, B \subseteq Servers
  PROVE  /\ A \subseteq B => Cardinality(A) <= Cardinality(B)
         /\ \A x \in Servers : A \subseteq B \cup {x} => Cardinality(A) <= Cardinality(B) + 1
<1>1. IsFiniteSet(B) /\ Cardinality(B) \in Nat /\ Cardinality(A) \in Nat
  BY ServersLemma
<1>2. A \subseteq B => Cardinality(A) <= Cardinality(B)
  BY <1>1, FS_Subset
<1>3. ASSUME NEW x \in Servers, A \subseteq B \cup {x}
      PROVE  Cardinality(A) <= Cardinality(B) + 1
  <2> DEFINE C == B \cup {x}
  <2>1. IsFiniteSet(C) /\ Cardinality(C) = IF x \in B THEN Cardinality(B) ELSE Cardinality(B) + 1
    BY <1>1, FS_AddElement
  <2> HIDE DEF C
  <2>2. A \subseteq C
    BY <1>3 DEF C
  <2>3. Cardinality(A) <= Cardinality(C)
    BY <2>1, <2>2, FS_Subset
  <2>4. Cardinality(C) <= Cardinality(B) + 1 /\ Cardinality(C) \in Nat
    BY <1>1, <2>1
  <2> QED BY <1>1, <2>3, <2>4
<1> QED BY <1>2, <1>3

\* What is in service in truth is counted by the code, and nothing else is.
LEMMA ServingLemma ==
  ASSUME NEW n, n.down \in BOOLEAN
  PROVE  /\ Serving(n) => InService(n)
         /\ Shape(n) /\ InService(n) => Serving(n)
         /\ ~ (Starting(n) /\ Running(n))
         /\ ~ Starting(n) /\ ~ Stopping(n) => Settled(n)
         /\ n.task = "deleting" => ~ Serving(n)
         /\ ~ Serving(NoServer)
BY DEF Serving, InService, Starting, Running, Stopping, BuildTasks, Shape, Settled, NoServer

\* The counts of a listing.
LEMMA ListingLemma ==
  ASSUME TypeOK, NEW S, S \subseteq Servers
  PROVE  /\ running(S) \in Nat /\ starting(S) \in Nat /\ stopping(S) \in Nat
         /\ running(S) + starting(S) = Cardinality({s \in S : InService(nodes[s])})
<1> DEFINE R == {s \in S : Running(nodes[s])}
           T == {s \in S : Starting(nodes[s])}
           U == {s \in S : Stopping(nodes[s])}
<1>1. /\ IsFiniteSet(R) /\ IsFiniteSet(T)
      /\ Cardinality(R) \in Nat /\ Cardinality(T) \in Nat /\ Cardinality(U) \in Nat
  BY ServersLemma
<1>2. \A s \in Servers : nodes[s].down \in BOOLEAN
  BY NodeLemma
<1>3. R \cap T = {}
  BY <1>2, ServingLemma
<1>4. R \cup T = {s \in S : InService(nodes[s])}
  BY DEF InService
<1>5. Cardinality(R \cup T) = Cardinality(R) + Cardinality(T)
  <2>1. Cardinality(R \cup T) = Cardinality(R) + Cardinality(T) - Cardinality(R \cap T)
    BY <1>1, FS_Union
  <2>2. Cardinality(R \cap T) = 0
    BY <1>3, FS_EmptySet
  <2> QED BY <1>1, <2>1, <2>2
<1> QED BY <1>1, <1>4, <1>5 DEF running, starting, stopping

\* A listing has servers of the pool, and all of them when it fits on one page.
LEMMA PagesLemma ==
  ASSUME NEW p, NEW S \in LastPages(Of(p))
  PROVE  S \subseteq Of(p) /\ S \subseteq Servers /\ (OnePage => S = Of(p))
<1>1. Of(p) \subseteq Servers
  BY DEF Of
<1>2. /\ Cardinality(Of(p)) <= Cardinality(Servers)
      /\ Cardinality(Of(p)) \in Nat /\ Cardinality(Servers) \in Nat
  BY <1>1, ServersLemma, ServersAssumption, FS_Subset
<1>3. S \subseteq Of(p)
  BY DEF LastPages
<1>4. ASSUME OnePage PROVE S = Of(p)
  <2>1. Cardinality(Of(p)) <= PageSize
    BY <1>2, <1>4, LaunchBounds DEF OnePage
  <2> QED BY <2>1 DEF LastPages
<1> QED BY <1>1, <1>3, <1>4

-----------------------------------------------------------------------------
(* The steps of OpenStack.                                                 *)

\* The moves OpenStack makes: a server stays in its pool or goes away, and one
\* that has settled never starts to build or to go away by itself.
Moved(s, from, to) ==
  /\ Move(s, from, to)
  /\ Shape(to)
  /\ (to = NoServer /\ from.task = "deleting") \/ to.pool = from.pool
  /\ Settled(from) => Settled(to)

\* Every step of OpenStack is such a move.
LEMMA NovaLemma ==
  ASSUME TypeOK, Nova \/ NovaEvent \/ Restarted
  PROVE  \E s \in Servers, from \in Nodes, to \in Nodes : Moved(s, from, to)
<1>1. ASSUME NEW p \in Pools
      PROVE  {Scheduled(p), Building(p), Active(p), Rebooting(p), PoweredOff(p), Broken(p)}
               \subseteq Nodes
  <2>1. /\ {"", "spawning", "rebooting"} \subseteq States
        /\ TRUE \in BOOLEAN /\ FALSE \in BOOLEAN
    BY DEF States
  <2>2. \A k \in States, v \in {"building", "active", "error"}, d \in BOOLEAN :
          [pool |-> p, task |-> k, vm |-> v, down |-> d] \in Nodes
    BY Zenon DEF Nodes
  <2>3. Scheduled(p) \in Nodes
    BY <2>1, <2>2, Zenon DEF Scheduled
  <2>4. Building(p) \in Nodes
    BY <2>1, <2>2, Zenon DEF Building
  <2>5. Active(p) \in Nodes
    BY <2>1, <2>2, Zenon DEF Active
  <2>6. Rebooting(p) \in Nodes
    BY <2>1, <2>2, Zenon DEF Rebooting
  <2>7. PoweredOff(p) \in Nodes
    BY <2>1, <2>2, Zenon DEF PoweredOff
  <2>8. Broken(p) \in Nodes
    BY <2>1, <2>2, Zenon DEF Broken
  <2> QED BY <2>3, <2>4, <2>5, <2>6, <2>7, <2>8
<1>2. NoServer \in Nodes /\ \A s \in Servers : nodes[s] \in Nodes
  BY NodeLemma DEF Nodes
<1>3. PICK s \in Servers, p \in Pools :
        \/ Move(s, Scheduled(p), Building(p))
        \/ Move(s, Building(p), Active(p))
        \/ Move(s, Rebooting(p), Active(p))
        \/ nodes[s].pool = p /\ nodes[s].task = "deleting" /\ Move(s, nodes[s], NoServer)
        \/ Move(s, Scheduled(p), Broken(p))
        \/ Move(s, Active(p), Rebooting(p))
        \/ Move(s, Active(p), PoweredOff(p))
        \/ Move(s, PoweredOff(p), Active(p))
  BY DEF Nova, NovaEvent, Restarted
<1>4. /\ Shape(Building(p)) /\ Shape(Active(p)) /\ Shape(Rebooting(p)) /\ Shape(Broken(p))
      /\ Shape(PoweredOff(p)) /\ Shape(NoServer)
  BY DEF Shape, Building, Active, Rebooting, Broken, PoweredOff, NoServer
<1>5. /\ ~ Settled(Scheduled(p)) /\ ~ Settled(Building(p)) /\ Settled(NoServer)
      /\ Settled(Active(p)) /\ Settled(Rebooting(p)) /\ Settled(PoweredOff(p))
  BY DEF Settled, Scheduled, Building, Active, Rebooting, PoweredOff, NoServer
<1>6. /\ Scheduled(p).pool = p /\ Building(p).pool = p /\ Active(p).pool = p
      /\ Rebooting(p).pool = p /\ PoweredOff(p).pool = p /\ Broken(p).pool = p
  BY DEF Scheduled, Building, Active, Rebooting, PoweredOff, Broken
<1> QED BY <1>1, <1>2, <1>3, <1>4, <1>5, <1>6, Zenon DEF Moved

\* What a move does to what is in service, and to the servers of a pool.
LEMMA MoveLemma ==
  ASSUME TypeOK, Sound, NEW s \in Servers, NEW from \in Nodes, NEW to \in Nodes,
         Moved(s, from, to), UNCHANGED launchVars
  PROVE  /\ nodes' \in [Servers -> Nodes] /\ came' \in Nat /\ lost' \in Nat
         /\ \A t \in Servers : Shape(nodes'[t])
         /\ NoUndershoot => NoUndershoot'
         /\ NoOvershoot => NoOvershoot'
         /\ Visited => Visited'
         /\ QuietMeansSettled => QuietMeansSettled'
<1>1. /\ nodes[s] = from /\ nodes' = [nodes EXCEPT ![s] = to]
      /\ Shape(to) /\ (Settled(from) => Settled(to))
      /\ (to = NoServer /\ from.task = "deleting") \/ to.pool = from.pool
  BY DEF Moved, Move
<1>2. nodes \in [Servers -> Nodes]
  BY NodeLemma
<1>3. /\ nodes' \in [Servers -> Nodes] /\ nodes'[s] = to
      /\ \A t \in Servers : t # s => nodes'[t] = nodes[t]
  BY <1>1, <1>2
<1>4. came \in Nat /\ lost \in Nat
  BY DEF TypeOK
<1>5. /\ came' = IF lpc = "create" /\ Serving(to) /\ ~ Serving(from) THEN came + 1 ELSE came
      /\ lost' = IF lpc = "delete" /\ Serving(from) /\ ~ Serving(to) THEN lost + 1 ELSE lost
  BY <1>4 DEF Moved, Move
<1>6. came' \in Nat /\ lost' \in Nat
  BY <1>4, <1>5
<1>7. \A t \in Servers : Shape(nodes'[t])
  BY <1>1, <1>3 DEF Sound
<1>8. ~ Serving(NoServer) /\ (from.task = "deleting" => ~ Serving(from))
  BY DEF Serving, NoServer
<1>9. ASSUME NoUndershoot, lpc = "delete", seen.phase = "Running"
      PROVE  Cardinality({t \in Of(pool) \ victims : Serving(nodes[t])}') + lost' >= seen.spec[pool]
  <2> DEFINE A == {t \in Of(pool) \ victims : Serving(nodes[t])}
             B == A'
  <2>1. A \subseteq Servers /\ B \subseteq Servers
    BY DEF Of
  <2>2. /\ A \subseteq B \cup {s}
        /\ ~ (Serving(from) /\ ~ Serving(to)) => A \subseteq B
    BY <1>1, <1>3, <1>8 DEF Of, launchVars
  <2>3. Cardinality(A) + lost >= seen.spec[pool]
    BY <1>9 DEF NoUndershoot
  <2>4. seen.spec[pool] \in Int
    BY <1>9 DEF Sound, TypeOK, Sizes, NoPool
  <2> HIDE DEF A, B
  <2>5. Cardinality(A) \in Nat /\ Cardinality(B) \in Nat
    BY <2>1, ServersLemma
  <2>6. /\ Cardinality(A) <= Cardinality(B) + 1
        /\ ~ (Serving(from) /\ ~ Serving(to)) => Cardinality(A) <= Cardinality(B)
    BY <2>1, <2>2, CountLemma
  <2>7. Cardinality(B) + lost' >= seen.spec[pool]
    BY <1>4, <1>5, <1>9, <2>3, <2>4, <2>5, <2>6
  <2> QED BY <2>7 DEF A, B
<1>10. ASSUME NoOvershoot, lpc = "create"
       PROVE  Live(pool)' + need <= seen.spec[pool] + came'
  <2> DEFINE A == {t \in Of(pool) : Serving(nodes[t])}
             B == A'
  <2>1. A \subseteq Servers /\ B \subseteq Servers
    BY DEF Of
  <2>2. /\ B \subseteq A \cup {s}
        /\ ~ (Serving(to) /\ ~ Serving(from)) => B \subseteq A
    BY <1>1, <1>3, <1>8 DEF Of, launchVars
  <2>3. Cardinality(A) + need <= seen.spec[pool] + came
    BY <1>10 DEF NoOvershoot, Live
  <2>4. seen.spec[pool] \in Int /\ need \in Int
    BY <1>10, SizeAssumption DEF Sound, TypeOK, Sizes, NoPool
  <2> HIDE DEF A, B
  <2>5. Cardinality(A) \in Nat /\ Cardinality(B) \in Nat
    BY <2>1, ServersLemma
  <2>6. /\ Cardinality(B) <= Cardinality(A) + 1
        /\ ~ (Serving(to) /\ ~ Serving(from)) => Cardinality(B) <= Cardinality(A)
    BY <2>1, <2>2, CountLemma
  <2>7. Cardinality(B) + need <= seen.spec[pool] + came'
    BY <1>4, <1>5, <1>10, <2>3, <2>4, <2>5, <2>6
  <2> QED BY <2>7 DEF A, B, Live
<1>11. ASSUME NEW t \in Servers, NEW p \in Pools, t \in Of(p)', ~ Settled(nodes[t])'
       PROVE  t \in Of(p) /\ ~ Settled(nodes[t])
  <2>1. t \in Servers /\ nodes'[t].pool = p /\ ~ Settled(nodes'[t])
    BY <1>11 DEF Of, Settled
  <2>2. CASE t # s
    BY <1>3, <2>1, <2>2 DEF Of
  <2>3. CASE t = s
    <3>1. Settled(NoServer)
      BY DEF Settled, NoServer
    <3> QED BY <1>1, <1>3, <2>1, <2>3, <3>1 DEF Of
  <2> QED BY <2>2, <2>3
<1>12. Visited => Visited'
  BY <1>11 DEF Visited, launchVars
<1>13. QuietMeansSettled => QuietMeansSettled'
  BY <1>11 DEF QuietMeansSettled, Settled, launchVars
<1> QED BY <1>3, <1>6, <1>7, <1>9, <1>10, <1>12, <1>13 DEF NoUndershoot, NoOvershoot, launchVars

-----------------------------------------------------------------------------
(* Steps that leave the nodes alone, and the end of Reconcile.             *)

\* The types of what Reconcile keeps.
LocalTypeOK ==
  /\ lpc \in {"idle", "pool", "delete", "create", "statusGet", "statusPut"}
  /\ seen \in [phase : Phases \cup {"Absent"}, spec : [Pools -> Sizes]]
  /\ todo \subseteq Pools /\ pool \in Pools \cup {"none"} /\ victims \subseteq Servers
  /\ need \in 0..MaxSize /\ reported \in Nat
  /\ requeue \in BOOLEAN /\ again \in BOOLEAN
  /\ came \in Nat /\ lost \in Nat

\* The type invariant by its parts.
LEMMA TypeParts ==
  TypeOK <=> /\ ApiTypeOK /\ nodes \in [Servers -> Nodes] /\ creds \in BOOLEAN
             /\ LocalTypeOK /\ events \in 0..MaxEvents
BY DEF TypeOK, LocalTypeOK, Nodes

\* The type invariant of the next state by its parts.
LEMMA TypePartsNext ==
  TypeOK' <=> /\ ApiTypeOK' /\ nodes' \in [Servers -> Nodes] /\ creds' \in BOOLEAN
              /\ LocalTypeOK' /\ events' \in 0..MaxEvents
BY DEF TypeOK, LocalTypeOK, Nodes

\* A step that changes neither the nodes nor what Reconcile keeps.
LEMMA KeepLemma ==
  ASSUME PoolInv, ApiTypeOK', creds' \in BOOLEAN, again' \in {again, TRUE}, UNCHANGED events,
         UNCHANGED <<nodes, lpc, seen, todo, pool, victims, need, reported, requeue, came, lost>>
  PROVE  PoolInv' /\ (PageInv => PageInv')
<1>1. LocalTypeOK'
  <2>1. again' \in BOOLEAN
    BY TypeParts, Zenon DEF PoolInv, LocalTypeOK
  <2> QED BY <2>1, TypeParts DEF PoolInv, LocalTypeOK
<1>2. TypeOK'
  BY <1>1, TypeParts, TypePartsNext DEF PoolInv
<1>3. Sound' /\ NoUndershoot'
  BY DEF PoolInv, Sound, NoUndershoot, Of
<1>4. PageInv => NoOvershoot' /\ Visited'
  BY DEF PageInv, NoOvershoot, Visited, Live, Of
<1>5. PageInv => QuietMeansSettled'
  BY DEF PageInv, QuietMeansSettled, Of
<1> QED BY <1>2, <1>3, <1>4, <1>5 DEF PoolInv, PageInv

\* Reconcile returns to be called again.
LEMMA ReturnLemma ==
  ASSUME PoolInv, Return(TRUE), ApiTypeOK', nodes' \in [Servers -> Nodes],
         \A s \in Servers : Shape(nodes'[s]), creds' \in BOOLEAN, events' \in 0..MaxEvents
  PROVE  PoolInv' /\ PageInv'
<1>1. LocalTypeOK'
  <2>1. lpc' = "idle" /\ pool' = "none" /\ todo' = {} /\ victims' = {} /\ seen' = seen
    BY DEF Return
  <2>2. need' = 0 /\ reported' = 0 /\ came' = 0 /\ lost' = 0
    BY DEF Return
  <2>3. requeue' \in BOOLEAN /\ again' \in BOOLEAN
    BY Zenon DEF Return
  <2>4. seen \in [phase : Phases \cup {"Absent"}, spec : [Pools -> Sizes]]
    BY TypeParts DEF PoolInv, LocalTypeOK
  <2> QED BY <2>1, <2>2, <2>3, <2>4, SizeAssumption DEF LocalTypeOK
<1>2. TypeOK'
  BY <1>1, TypePartsNext
<1>3. lpc' = "idle" /\ again'
  BY DEF Return
<1>4. Sound' /\ NoUndershoot' /\ PageInv'
  BY <1>3 DEF Sound, NoUndershoot, PageInv, NoOvershoot, Visited, QuietMeansSettled
<1> QED BY <1>2, <1>4 DEF PoolInv

\* A failure is counted, or none.
LEMMA EventLemma ==
  ASSUME TypeOK, Event \/ UNCHANGED events
  PROVE  events' \in 0..MaxEvents
BY LaunchBounds DEF TypeOK, Event

\* A call that fails, with the nodes as they were.
LEMMA FailLemma ==
  ASSUME PoolInv, Failed \/ Fault, ApiTypeOK', UNCHANGED <<nodes, creds>>
  PROVE  PoolInv' /\ PageInv'
<1>1. Return(TRUE)
  BY DEF Failed, Fault
<1>2. events' \in 0..MaxEvents
  BY EventLemma DEF PoolInv, Failed, Fault
<1>3. /\ nodes' \in [Servers -> Nodes] /\ creds' \in BOOLEAN
      /\ \A s \in Servers : Shape(nodes'[s])
  BY TypeParts DEF PoolInv, Sound
<1> QED BY <1>1, <1>2, <1>3, ReturnLemma

-----------------------------------------------------------------------------
(* The environment.                                                        *)

\* Requests, the informer and the ground controller.
LEMMA ApiStep ==
  ASSUME PoolInv, Api \/ CacheEvent \/ Ground
  PROVE  PoolInv' /\ (PageInv => PageInv')
<1>0. ApiTypeOK /\ creds \in BOOLEAN
  BY TypeParts DEF PoolInv
<1>1. CASE Api
  <2>1. ApiTypeOK'
    BY <1>0, <1>1, ApiType DEF Api
  <2> QED BY <1>0, <1>1, <2>1, KeepLemma DEF Api, launchVars
<1>2. CASE CacheEvent
  <2>1. ApiTypeOK'
    <3>1. watch # <<>> /\ cache' = Head(watch) /\ watch' = Tail(watch) /\ watch \in Seq(Object)
      BY <1>0, <1>2 DEF CacheEvent, CacheNext, ApiTypeOK
    <3>2. cache' \in Object /\ watch' \in Seq(Object)
      BY <3>1, HeadTailProperties
    <3> QED BY <1>0, <1>2, <3>2 DEF CacheEvent, ApiTypeOK
  <2> QED BY <1>0, <1>2, <2>1, KeepLemma DEF CacheEvent
<1>3. CASE Ground
  <2>1. UNCHANGED <<cache, apiPc, requests, accepted, nodes, launchVars, events, came, lost>>
    BY <1>3 DEF Ground
  <2>2. creds' \in BOOLEAN
    BY <1>0, <1>3, Zenon DEF Ground
  <2>3. store' \in Object /\ fresh' \subseteq {"ground", "launch"} /\ watch' \in Seq(Object)
    BY <1>0, <1>3, WriteType, ObjectLemma, AbsentLemma DEF Ground, ApiTypeOK
  <2>4. ApiTypeOK'
    BY <1>0, <2>1, <2>3 DEF ApiTypeOK
  <2> QED BY <2>1, <2>2, <2>4, KeepLemma DEF launchVars
<1> QED BY <1>1, <1>2, <1>3

\* OpenStack.
LEMMA NovaStep ==
  ASSUME PoolInv, Nova \/ NovaEvent \/ Restarted
  PROVE  PoolInv' /\ (PageInv => PageInv')
<1>1. PICK s \in Servers, from \in Nodes, to \in Nodes : Moved(s, from, to)
  BY NovaLemma DEF PoolInv
<1>2. UNCHANGED apiVars /\ UNCHANGED creds /\ UNCHANGED launchVars
  BY DEF Nova, NovaEvent, Restarted
<1>3. events' \in 0..MaxEvents
  BY EventLemma DEF PoolInv, Nova, NovaEvent, Restarted
<1>4. /\ nodes' \in [Servers -> Nodes] /\ came' \in Nat /\ lost' \in Nat
      /\ \A t \in Servers : Shape(nodes'[t])
      /\ NoUndershoot' /\ (PageInv => PageInv')
  BY <1>1, <1>2, MoveLemma DEF PoolInv, PageInv
<1>5. LocalTypeOK'
  BY <1>2, <1>4, TypeParts DEF PoolInv, LocalTypeOK, launchVars
<1>6. TypeOK'
  BY <1>2, <1>3, <1>4, <1>5, TypeParts, TypePartsNext DEF PoolInv, ApiTypeOK, apiVars
<1>7. Sound'
  BY <1>2, <1>4 DEF PoolInv, Sound, launchVars
<1> QED BY <1>4, <1>6, <1>7 DEF PoolInv

\* The operator restarts.
LEMMA CrashStep ==
  ASSUME PoolInv, Crash
  PROVE  PoolInv' /\ PageInv'
<1>1. Return(TRUE) /\ UNCHANGED <<nodes, creds>>
  BY DEF Crash
<1>2. events' \in 0..MaxEvents
  BY EventLemma DEF PoolInv, Crash
<1>3. /\ nodes' \in [Servers -> Nodes] /\ creds' \in BOOLEAN
      /\ \A s \in Servers : Shape(nodes'[s])
  BY <1>1, TypeParts DEF PoolInv, Sound
<1>4. ApiTypeOK'
  <2>1. <<>> \in Seq(Object)
    BY EmptySeq
  <2> QED BY <2>1, TypeParts DEF PoolInv, Crash, ApiTypeOK
<1> QED BY <1>1, <1>2, <1>3, <1>4, ReturnLemma

-----------------------------------------------------------------------------
(* Reconcile.                                                              *)

\* Reconcile starts: no pool counts as visited yet.
LEMMA ReconcileStep ==
  ASSUME PoolInv, Reconcile
  PROVE  PoolInv' /\ PageInv'
<1>1. UNCHANGED <<apiVars, nodes, creds, pool, victims, need, reported, requeue, events, came, lost>>
  BY DEF Reconcile
<1>2. /\ lpc = "idle" /\ seen' = View(cache)
      /\ \/ lpc' = "pool" /\ todo' = {p \in Pools : cache.spec[p] # NoPool} /\ again' = again
         \/ /\ lpc' = "idle" /\ todo' = todo /\ again' = FALSE
            /\ cache.phase \notin {"Running", "Terminating"}
  BY DEF Reconcile
<1>3. seen' \in [phase : Phases \cup {"Absent"}, spec : [Pools -> Sizes]]
  BY <1>2, TypeParts DEF PoolInv, ApiTypeOK, Object, View
<1>4. LocalTypeOK'
  <2>1. again' \in BOOLEAN
    BY <1>2, TypeParts, Zenon DEF PoolInv, LocalTypeOK
  <2>2. lpc' \in {"idle", "pool"} /\ todo' \subseteq Pools
    BY <1>2, TypeParts DEF PoolInv, LocalTypeOK
  <2> QED BY <1>1, <1>3, <2>1, <2>2, TypeParts DEF PoolInv, LocalTypeOK
<1>5. TypeOK'
  BY <1>1, <1>4, TypeParts, TypePartsNext DEF PoolInv, ApiTypeOK, apiVars
<1>6. Sound' /\ NoUndershoot' /\ NoOvershoot'
  BY <1>1, <1>2 DEF PoolInv, Sound, NoUndershoot, NoOvershoot
<1>7. seen'.phase = cache.phase /\ seen'.spec = cache.spec
  BY <1>2 DEF View
<1>8. Visited' /\ QuietMeansSettled'
  BY <1>2, <1>7 DEF Visited, QuietMeansSettled
<1> QED BY <1>5, <1>6, <1>8 DEF PoolInv, PageInv

\* Reconcile ends: when it asks for no further call every pool was visited.
LEMMA ReconcileEndsStep ==
  ASSUME PoolInv, ReconcileEnds
  PROVE  PoolInv' /\ (PageInv => PageInv')
<1>1. /\ lpc = "pool" /\ todo = {} /\ Return(requeue)
      /\ UNCHANGED <<apiVars, nodes, creds, events>>
  BY DEF ReconcileEnds
<1>2. LocalTypeOK'
  <2>1. lpc' = "idle" /\ pool' = "none" /\ todo' = {} /\ victims' = {} /\ seen' = seen
    BY <1>1 DEF Return
  <2>2. need' = 0 /\ reported' = 0 /\ came' = 0 /\ lost' = 0
    BY <1>1 DEF Return
  <2>3. requeue' \in BOOLEAN /\ again' \in BOOLEAN
    BY <1>1, TypeParts, Zenon DEF Return, PoolInv, LocalTypeOK
  <2>4. seen \in [phase : Phases \cup {"Absent"}, spec : [Pools -> Sizes]]
    BY TypeParts DEF PoolInv, LocalTypeOK
  <2> QED BY <2>1, <2>2, <2>3, <2>4, SizeAssumption DEF LocalTypeOK
<1>3. TypeOK'
  BY <1>1, <1>2, TypeParts, TypePartsNext DEF PoolInv, ApiTypeOK, apiVars
<1>4. lpc' = "idle" /\ seen' = seen /\ nodes' = nodes /\ again' = requeue
  BY <1>1 DEF Return
<1>5. Sound' /\ NoUndershoot' /\ NoOvershoot' /\ Visited'
  BY <1>4 DEF PoolInv, Sound, NoUndershoot, NoOvershoot, Visited
<1>6. Visited => QuietMeansSettled'
  BY <1>1, <1>4 DEF Visited, QuietMeansSettled, Settled, Of
<1> QED BY <1>3, <1>5, <1>6 DEF PoolInv, PageInv

\* CreateNode: one server more, one node less to create.
LEMMA CreateNodeStep ==
  ASSUME PoolInv, CreateNode
  PROVE  PoolInv' /\ (PageInv => PageInv')
<1>1. ApiTypeOK' /\ UNCHANGED creds /\ lpc = "create"
  BY TypeParts DEF PoolInv, CreateNode, ApiTypeOK, apiVars
<1>2. CASE UNCHANGED nodes /\ (Failed \/ Fault)
  BY <1>1, <1>2, FailLemma
<1>3. ASSUME NEW s \in Servers, nodes[s] = NoServer,
             nodes' = [nodes EXCEPT ![s] = Scheduled(pool)],
             Fault \/ (need' = need - 1 /\ UNCHANGED victims /\ Continue(need > 1))
      PROVE  PoolInv' /\ (PageInv => PageInv')
  <2>1. pool \in Pools /\ need \in 1..MaxSize /\ requeue
    BY <1>1, TypeParts, SizeAssumption DEF PoolInv, Sound, LocalTypeOK
  <2>2. Scheduled(pool) \in Nodes
    <3>1. "spawning" \in States /\ FALSE \in BOOLEAN
      BY DEF States
    <3> QED BY <2>1, <3>1, Zenon DEF Nodes, Scheduled
  <2>3. nodes \in [Servers -> Nodes]
    BY TypeParts DEF PoolInv
  <2>4. /\ nodes' \in [Servers -> Nodes] /\ nodes'[s] = Scheduled(pool)
        /\ \A t \in Servers : t # s => nodes'[t] = nodes[t]
    BY <1>3, <2>2, <2>3
  <2>5. \A t \in Servers : Shape(nodes'[t])
    BY <2>4 DEF PoolInv, Sound, Shape, Scheduled
  <2>6. CASE Fault
    <3>1. Return(TRUE) /\ events' \in 0..MaxEvents
      BY <2>6, EventLemma DEF PoolInv, Fault
    <3>2. creds' \in BOOLEAN
      BY <1>1, TypeParts DEF PoolInv
    <3> QED BY <1>1, <2>4, <2>5, <3>1, <3>2, ReturnLemma
  <2>7. CASE need' = need - 1 /\ UNCHANGED victims /\ Continue(need > 1)
    <3>1. /\ lpc' = IF need > 1 THEN "create" ELSE "pool"
          /\ UNCHANGED <<seen, todo, pool, reported, requeue, again, events, came, lost>>
      BY <1>1, <2>7 DEF Continue
    <3>2. need' \in 0..MaxSize /\ (lpc' = "create" => need' >= 1)
      BY <2>1, <2>7, <3>1, SizeAssumption
    <3>3. lpc' \in {"create", "pool"}
      BY <3>1
    <3>4. LocalTypeOK'
      BY <2>7, <3>1, <3>2, <3>3, TypeParts DEF PoolInv, LocalTypeOK
    <3>5. TypeOK'
      BY <1>1, <2>4, <3>1, <3>4, TypeParts, TypePartsNext DEF PoolInv
    <3>6. Sound' /\ NoUndershoot' /\ Visited' /\ QuietMeansSettled'
      BY <2>1, <2>5, <3>1, <3>2, <3>3 DEF Sound, NoUndershoot, Visited, QuietMeansSettled
    <3>7. ASSUME NoOvershoot, lpc' = "create"
          PROVE  Live(pool)' + need' <= seen'.spec[pool'] + came'
      <4> DEFINE A == {t \in Of(pool) : Serving(nodes[t])}
                 B == A'
      <4>1. A \subseteq Servers /\ B \subseteq Servers
        BY DEF Of
      <4>2. B \subseteq A \cup {s}
        BY <2>4, <3>1 DEF Of
      <4>3. Cardinality(A) + need <= seen.spec[pool] + came
        BY <1>1, <3>7 DEF NoOvershoot, Live
      <4>4. seen.spec[pool] \in Int /\ came \in Nat
        BY <2>1, SizeAssumption DEF PoolInv, TypeOK, Sizes, NoPool
      <4> HIDE DEF A, B
      <4>5. Cardinality(A) \in Nat /\ Cardinality(B) \in Nat
        BY <4>1, ServersLemma
      <4>6. Cardinality(B) <= Cardinality(A) + 1
        BY <4>1, <4>2, CountLemma
      <4>7. Cardinality(B) + need' <= seen.spec[pool] + came
        BY <2>1, <2>7, <4>3, <4>4, <4>5, <4>6
      <4> QED BY <3>1, <4>7 DEF A, B, Live
    <3> QED BY <3>5, <3>6, <3>7 DEF PoolInv, PageInv, NoOvershoot
  <2> QED BY <1>3, <2>6, <2>7
<1> QED BY <1>2, <1>3 DEF CreateNode, Refused

\* DeleteNode: a victim goes out of service, nothing else does.
LEMMA DeleteNodeStep ==
  ASSUME PoolInv, DeleteNode
  PROVE  PoolInv' /\ (PageInv => PageInv')
<1>1. ApiTypeOK' /\ UNCHANGED creds /\ lpc = "delete" /\ requeue /\ pool \in Pools
  BY TypeParts DEF PoolInv, DeleteNode, ApiTypeOK, apiVars, Sound
<1>2. CASE UNCHANGED nodes /\ (Failed \/ Fault)
  BY <1>1, <1>2, FailLemma
<1>3. ASSUME NEW s \in victims, nodes[s] # NoServer,
             nodes' = [nodes EXCEPT ![s] = Deleting(@)],
             Fault \/ (victims' = victims \ {s} /\ UNCHANGED need /\ Continue(victims # {s}))
      PROVE  PoolInv' /\ (PageInv => PageInv')
  <2>1. s \in Servers /\ victims \subseteq Servers
    BY TypeParts DEF PoolInv, LocalTypeOK
  <2>2. nodes \in [Servers -> Nodes]
    BY TypeParts DEF PoolInv
  <2>3. Deleting(nodes[s]) \in Nodes /\ Shape(Deleting(nodes[s]))
    BY <1>3, <2>1, <2>2 DEF PoolInv, Sound, Nodes, States, Deleting, Shape
  <2>4. /\ nodes' \in [Servers -> Nodes] /\ nodes'[s] = Deleting(nodes[s])
        /\ \A t \in Servers : t # s => nodes'[t] = nodes[t]
    BY <1>3, <2>1, <2>2, <2>3
  <2>5. \A t \in Servers : Shape(nodes'[t])
    BY <2>3, <2>4 DEF PoolInv, Sound
  <2>6. CASE Fault
    <3>1. Return(TRUE) /\ events' \in 0..MaxEvents
      BY <2>6, EventLemma DEF PoolInv, Fault
    <3>2. creds' \in BOOLEAN
      BY <1>1, TypeParts DEF PoolInv
    <3> QED BY <1>1, <2>4, <2>5, <3>1, <3>2, ReturnLemma
  <2>7. CASE victims' = victims \ {s} /\ UNCHANGED need /\ Continue(victims # {s})
    <3>1. /\ lpc' \in {"delete", "pool"}
          /\ UNCHANGED <<seen, todo, pool, reported, requeue, again, events, came, lost>>
      BY <1>1, <2>7 DEF Continue
    <3>2. LocalTypeOK'
      BY <2>1, <2>7, <3>1, TypeParts DEF PoolInv, LocalTypeOK
    <3>3. TypeOK'
      BY <1>1, <2>4, <3>1, <3>2, TypeParts, TypePartsNext DEF PoolInv
    <3>4. Sound' /\ PageInv'
      BY <1>1, <2>5, <3>1 DEF Sound, PageInv, NoOvershoot, Visited, QuietMeansSettled
    <3>5. ASSUME lpc' = "delete", seen'.phase = "Running"
          PROVE  Cardinality({t \in Of(pool) \ victims : Serving(nodes[t])}') + lost'
                   >= seen'.spec[pool']
      <4> DEFINE A == {t \in Of(pool) \ victims : Serving(nodes[t])}
                 B == A'
      <4>1. A \subseteq Servers /\ B \subseteq Servers
        BY DEF Of
      <4>2. A \subseteq B
        BY <1>3, <2>4, <2>7, <3>1 DEF Of
      <4>3. Cardinality(A) + lost >= seen.spec[pool]
        BY <1>1, <3>1, <3>5 DEF PoolInv, NoUndershoot
      <4>4. seen.spec[pool] \in Int /\ lost \in Nat
        BY <1>1, SizeAssumption DEF PoolInv, TypeOK, Sizes, NoPool
      <4> HIDE DEF A, B
      <4>5. Cardinality(A) \in Nat /\ Cardinality(B) \in Nat /\ Cardinality(A) <= Cardinality(B)
        BY <4>1, <4>2, ServersLemma, CountLemma
      <4>6. Cardinality(B) + lost >= seen.spec[pool]
        BY <4>3, <4>4, <4>5
      <4> QED BY <3>1, <4>6 DEF A, B
    <3> QED BY <3>3, <3>4, <3>5 DEF PoolInv, NoUndershoot
  <2> QED BY <1>3, <2>6, <2>7
<1> QED BY <1>2, <1>3 DEF DeleteNode, Refused

\* SetStatus: the loop over the pools goes on, with the nodes as they were.
LEMMA StatusLemma ==
  ASSUME PoolInv, ApiTypeOK', UNCHANGED <<nodes, creds, victims, need>>,
         lpc \in {"statusGet", "statusPut"}, lpc' \in {"statusPut", "pool"},
         UNCHANGED <<seen, todo, pool, reported, requeue, again, events, came, lost>>
  PROVE  PoolInv' /\ (PageInv => PageInv')
<1>1. LocalTypeOK'
  BY TypeParts DEF PoolInv, LocalTypeOK
<1>2. TypeOK'
  BY <1>1, TypeParts, TypePartsNext DEF PoolInv
<1>3. Sound' /\ NoUndershoot' /\ NoOvershoot' /\ QuietMeansSettled'
  BY DEF PoolInv, Sound, NoUndershoot, NoOvershoot, QuietMeansSettled
<1>4. Visited => Visited'
  BY DEF Visited, Of
<1> QED BY <1>2, <1>3, <1>4 DEF PoolInv, PageInv

\* SetStatus, with an answer or without.
LEMMA StatusStep ==
  ASSUME PoolInv, SetStatusGet \/ SetStatusPut
  PROVE  PoolInv' /\ (PageInv => PageInv')
<1>0. ApiTypeOK
  BY TypeParts DEF PoolInv
<1>1. CASE SetStatusGet
  <2>1. ApiTypeOK' /\ UNCHANGED <<nodes, creds>>
    BY <1>0, <1>1 DEF SetStatusGet, Read, ApiTypeOK
  <2>2. CASE Failed \/ Fault
    BY <2>1, <2>2, FailLemma
  <2>3. CASE ~ (Failed \/ Fault)
    <3>1. /\ lpc = "statusGet" /\ lpc' \in {"statusPut", "pool"} /\ UNCHANGED <<victims, need>>
          /\ UNCHANGED <<seen, todo, pool, reported, requeue, again, events, came, lost>>
      BY <1>1, <2>3 DEF SetStatusGet, Continue
    <3> QED BY <2>1, <3>1, StatusLemma
  <2> QED BY <2>2, <2>3
<1>2. CASE SetStatusPut
  <2>1. UNCHANGED <<cache, apiPc, requests, accepted, nodes, creds>> /\ lpc = "statusPut"
    BY <1>2 DEF SetStatusPut
  <2>2. CASE (Failed \/ Fault) /\ UNCHANGED <<store, fresh, watch>>
    <3>1. ApiTypeOK'
      BY <1>0, <2>1, <2>2 DEF ApiTypeOK
    <3> QED BY <2>1, <2>2, <3>1, FailLemma
  <2>3. CASE /\ Write([store EXCEPT !.status[pool] = reported])
             /\ Continue(FALSE) /\ UNCHANGED <<victims, need>>
    <3>1. pool \in Pools /\ reported \in Nat
      BY <2>1, TypeParts DEF PoolInv, Sound, LocalTypeOK
    <3>2. [store EXCEPT !.status[pool] = reported] \in Object
      BY <1>0, <3>1, ObjectLemma DEF ApiTypeOK
    <3>3. store' \in Object /\ fresh' \subseteq {"ground", "launch"} /\ watch' \in Seq(Object)
      BY <1>0, <2>3, <3>2, WriteType
    <3>4. ApiTypeOK'
      BY <1>0, <2>1, <3>3 DEF ApiTypeOK
    <3>5. /\ lpc' = "pool" /\ UNCHANGED <<victims, need>>
          /\ UNCHANGED <<seen, todo, pool, reported, requeue, again, events, came, lost>>
      BY <2>3 DEF Continue
    <3> QED BY <2>1, <3>4, <3>5, StatusLemma
  <2> QED BY <1>2, <2>2, <2>3 DEF SetStatusPut
<1> QED BY <1>1, <1>2

-----------------------------------------------------------------------------
(* reconcilePool: what it decides from a listing.                          *)

\* What stays in service in a pool without V.
Kept(p, V) == {s \in Of(p) \ V : Serving(nodes[s])}

\* With V deleted from a listing, what is in service in truth is at least what
\* the code counted less V.
LEMMA KeptLemma ==
  ASSUME PoolInv, NEW p, NEW S, S \subseteq Of(p), NEW V \in SUBSET S
  PROVE  Cardinality(Kept(p, V)) >= (running(S) + starting(S)) - Cardinality(V)
<1> DEFINE T == {s \in S : InService(nodes[s])}
           K == Kept(p, V)
<1>1. S \subseteq Servers /\ T \subseteq Servers /\ V \subseteq Servers /\ K \subseteq Servers
  BY DEF Of, Kept
<1>2. running(S) + starting(S) = Cardinality(T) /\ running(S) \in Nat /\ starting(S) \in Nat
  BY <1>1, ListingLemma DEF PoolInv
<1>3. \A s \in Servers : InService(nodes[s]) => Serving(nodes[s])
  BY ServingLemma, NodeLemma DEF PoolInv, Sound
<1>4. T \ V \subseteq K
  BY <1>1, <1>3 DEF Kept
<1> HIDE DEF T, K
<1>5. /\ IsFiniteSet(T) /\ Cardinality(T) \in Nat /\ Cardinality(V) \in Nat
      /\ Cardinality(T \cap V) \in Nat /\ Cardinality(T \ V) \in Nat /\ Cardinality(K) \in Nat
  BY <1>1, ServersLemma
<1>6. Cardinality(T \ V) = Cardinality(T) - Cardinality(T \cap V)
  BY <1>5, FS_Difference
<1>7. Cardinality(T \cap V) <= Cardinality(V) /\ Cardinality(T \ V) <= Cardinality(K)
  BY <1>1, <1>4, CountLemma
<1>8. Cardinality(K) >= Cardinality(T) - Cardinality(V)
  BY <1>5, <1>6, <1>7
<1> QED BY <1>2, <1>5, <1>8 DEF K

\* A complete listing counts everything that is in service.
LEMMA LiveLemma ==
  ASSUME PoolInv, NEW p
  PROVE  Live(p) <= running(Of(p)) + starting(Of(p)) /\ Live(p) \in Nat
<1> DEFINE T == {s \in Of(p) : InService(nodes[s])}
           L == {s \in Of(p) : Serving(nodes[s])}
<1>1. Of(p) \subseteq Servers /\ T \subseteq Servers /\ L \subseteq Servers
  BY DEF Of
<1>2. running(Of(p)) + starting(Of(p)) = Cardinality(T)
  BY <1>1, ListingLemma DEF PoolInv
<1>3. \A s \in Servers : Serving(nodes[s]) => InService(nodes[s])
  BY ServingLemma, NodeLemma DEF PoolInv
<1>4. L \subseteq T
  BY <1>1, <1>3
<1> HIDE DEF T, L
<1>5. Cardinality(L) <= Cardinality(T) /\ Cardinality(L) \in Nat
  BY <1>1, <1>4, CountLemma, ServersLemma
<1>6. Live(p) = Cardinality(L)
  BY DEF L, Live
<1> QED BY <1>2, <1>5, <1>6

\* reconcilePool with a listing of the pool.
LEMMA DecideStep ==
  ASSUME PoolInv, NEW p \in todo, NEW S \in LastPages(Of(p)), lpc = "pool",
         pool' = p, todo' = todo \ {p}, Decide(seen.spec[p], S), came' = 0, lost' = 0,
         UNCHANGED <<seen, again, events>>, UNCHANGED <<apiVars, nodes, creds>>
  PROVE  PoolInv' /\ (OnePage /\ PageInv => PageInv')
<1> DEFINE size == seen.spec[p]
           count == running(S) + starting(S)
<1>1. p \in Pools /\ todo' \subseteq Pools /\ size \in NoPool..MaxSize /\ size \in Int
  BY TypeParts, SizeAssumption DEF PoolInv, LocalTypeOK, Sizes, NoPool
<1>2. S \subseteq Of(p) /\ S \subseteq Servers /\ (OnePage => S = Of(p))
  BY PagesLemma
<1>3. /\ running(S) \in Nat /\ starting(S) \in Nat /\ stopping(S) \in Nat
      /\ count \in Nat /\ Cardinality(S) \in Nat /\ IsFiniteSet(S)
  BY <1>2, ListingLemma, ServersLemma DEF PoolInv
<1>4. ASSUME victims' \subseteq Servers, need' \in 0..MaxSize, reported' \in Nat,
             requeue' \in BOOLEAN, lpc' \in {"pool", "delete", "create", "statusGet"}
      PROVE  TypeOK'
  <2>1. LocalTypeOK'
    BY <1>1, <1>4, TypeParts DEF PoolInv, LocalTypeOK
  <2> QED BY <2>1, TypeParts, TypePartsNext DEF PoolInv, ApiTypeOK, apiVars
<1>5. /\ victims \subseteq Servers /\ need \in 0..MaxSize /\ reported \in Nat
      /\ requeue \in BOOLEAN
  BY TypeParts DEF PoolInv, LocalTypeOK
<1>6. \A s \in Servers : Shape(nodes'[s])
  BY DEF PoolInv, Sound
<1>7. ASSUME DeleteNodes(S, Cardinality(S)), seen.phase = "Terminating"
      PROVE  PoolInv' /\ (OnePage /\ PageInv => PageInv')
  <2>1. PICK V \in SUBSET S : victims' = V
    BY <1>7 DEF DeleteNodes
  <2>2. /\ need' = need /\ reported' = reported
        /\ lpc' = IF Cardinality(S) > 0 THEN "delete" ELSE "pool"
    BY <1>7 DEF DeleteNodes
  <2>3. requeue' \in BOOLEAN /\ (requeue' <=> requeue \/ Cardinality(S) > 0)
    BY <1>5, <1>7 DEF DeleteNodes
  <2>4. TypeOK'
    BY <1>2, <1>4, <1>5, <2>1, <2>2, <2>3
  <2>5. Sound' /\ NoUndershoot'
    BY <1>1, <1>6, <1>7, <2>2, <2>3 DEF Sound, NoUndershoot
  <2>6. NoOvershoot' /\ QuietMeansSettled'
    BY <2>2 DEF NoOvershoot, QuietMeansSettled
  <2>7. ASSUME OnePage, Visited PROVE Visited'
    <3>1. ~ requeue' => Of(p) = {} /\ ~ requeue
      BY <1>2, <1>3, <2>3, <2>7, FS_EmptySet
    <3> QED BY <2>7, <3>1 DEF Visited, Of
  <2> QED BY <2>4, <2>5, <2>6, <2>7 DEF PoolInv, PageInv
<1>8. ASSUME CreateNodes(Needed(size, S)), Needed(size, S) > 0
      PROVE  PoolInv' /\ (OnePage /\ PageInv => PageInv')
  <2>1. Needed(size, S) = size - count /\ size - count \in 1..MaxSize
    BY <1>1, <1>3, <1>8, SizeAssumption DEF Needed, NoPool
  <2>2. need' = size - count /\ lpc' = "create" /\ victims' = victims /\ reported' = reported
    BY <1>8, <2>1 DEF CreateNodes
  <2>3. requeue'
    BY <1>8 DEF CreateNodes
  <2>4. need' \in 0..MaxSize /\ need' >= 1
    BY <2>1, <2>2, SizeAssumption
  <2>5. requeue' \in BOOLEAN
    BY <1>8, Zenon DEF CreateNodes
  <2>6. TypeOK'
    BY <1>4, <1>5, <2>2, <2>4, <2>5
  <2>7. Sound' /\ NoUndershoot' /\ Visited' /\ QuietMeansSettled'
    BY <1>1, <1>6, <2>2, <2>3, <2>4 DEF Sound, NoUndershoot, Visited, QuietMeansSettled
  <2>8. ASSUME OnePage PROVE NoOvershoot'
    <3>1. Live(p) <= count /\ Live(p) \in Nat
      BY <1>2, <2>8, LiveLemma
    <3>2. Live(pool)' = Live(p)
      BY DEF Live, Of
    <3>3. Live(p) + need' <= size
      BY <1>1, <1>3, <2>2, <3>1
    <3> QED BY <1>1, <3>2, <3>3 DEF NoOvershoot
  <2> QED BY <2>6, <2>7, <2>8 DEF PoolInv, PageInv
<1>9. ASSUME DeleteNodes(S, UnNeeded(size, S)), UnNeeded(size, S) > 0
      PROVE  PoolInv' /\ (OnePage /\ PageInv => PageInv')
  <2>1. UnNeeded(size, S) = count - size
    BY <1>1, <1>3, <1>9 DEF UnNeeded
  <2>2. PICK V \in SUBSET S : Cardinality(V) = count - size /\ victims' = V
    BY <1>9, <2>1 DEF DeleteNodes
  <2>3. need' = need /\ reported' = reported /\ lpc' = "delete"
    BY <1>9 DEF DeleteNodes
  <2>4. requeue' \in BOOLEAN /\ requeue'
    BY <1>5, <1>9 DEF DeleteNodes
  <2>5. TypeOK'
    BY <1>2, <1>4, <1>5, <2>2, <2>3, <2>4
  <2>6. Sound' /\ PageInv'
    BY <1>1, <1>6, <2>3, <2>4 DEF Sound, PageInv, NoOvershoot, Visited, QuietMeansSettled
  <2>7. NoUndershoot'
    <3> DEFINE K == Kept(p, V)
    <3>1. K \subseteq Servers
      BY DEF Of, Kept
    <3>2. Cardinality(K) >= count - Cardinality(V)
      BY <1>2, KeptLemma
    <3>3. {s \in Of(pool) \ victims : Serving(nodes[s])}' = K
      BY <2>2 DEF Of, Kept
    <3> HIDE DEF K
    <3>4. Cardinality(K) \in Nat
      BY <3>1, ServersLemma
    <3>5. Cardinality(K) + 0 >= size
      BY <1>1, <1>3, <2>2, <3>2, <3>4
    <3> QED BY <3>3, <3>5 DEF NoUndershoot
  <2> QED BY <2>5, <2>6, <2>7 DEF PoolInv
<1>10. ASSUME ReportStatus(S)
       PROVE  PoolInv' /\ (OnePage /\ PageInv => PageInv')
  <2>1. victims' = victims /\ need' = need /\ lpc' = "statusGet" /\ reported' = count
    BY <1>10 DEF ReportStatus
  <2>2. requeue' \in BOOLEAN /\ (requeue' <=> requeue \/ starting(S) > 0 \/ stopping(S) > 0)
    BY <1>5, <1>10 DEF ReportStatus
  <2>3. TypeOK'
    BY <1>3, <1>4, <1>5, <2>1, <2>2
  <2>4. Sound' /\ NoUndershoot' /\ NoOvershoot' /\ QuietMeansSettled'
    BY <1>1, <1>6, <2>1 DEF Sound, NoUndershoot, NoOvershoot, QuietMeansSettled
  <2>5. ASSUME OnePage, Visited PROVE Visited'
    <3>1. ASSUME ~ requeue'
          PROVE  \A s \in S : ~ Starting(nodes[s]) /\ ~ Stopping(nodes[s])
      <4> DEFINE A == {s \in S : Starting(nodes[s])}
                 B == {s \in S : Stopping(nodes[s])}
      <4>1. starting(S) = 0 /\ stopping(S) = 0
        BY <1>3, <2>2, <3>1
      <4>2. Cardinality(A) = 0 /\ Cardinality(B) = 0
        BY <4>1 DEF starting, stopping
      <4>3. A \subseteq Servers /\ B \subseteq Servers
        BY <1>2
      <4> HIDE DEF A, B
      <4>4. A = {} /\ B = {}
        BY <4>2, <4>3, ServersLemma, FS_EmptySet
      <4> QED BY <4>4 DEF A, B
    <3>2. ~ requeue' => \A s \in Of(p) : Settled(nodes[s])
      BY <1>2, <2>5, <3>1, ServingLemma, NodeLemma DEF PoolInv
    <3> QED BY <2>2, <2>5, <3>2 DEF Visited, Of
  <2> QED BY <2>3, <2>4, <2>5 DEF PoolInv, PageInv
<1> QED BY <1>7, <1>8, <1>9, <1>10 DEF Decide

\* reconcilePool, with a listing or without.
LEMMA ReconcilePoolStep ==
  ASSUME PoolInv, ReconcilePool
  PROVE  PoolInv' /\ (OnePage /\ PageInv => PageInv')
<1>1. lpc = "pool" /\ UNCHANGED <<apiVars, nodes, creds>>
  BY DEF ReconcilePool
<1>2. CASE Refused
  <2>1. ApiTypeOK'
    BY <1>1, TypeParts DEF PoolInv, ApiTypeOK, apiVars
  <2> QED BY <1>1, <1>2, <2>1, FailLemma DEF Refused
<1>3. CASE ~ Refused
  <2>1. PICK p \in todo : /\ pool' = p /\ todo' = todo \ {p}
                          /\ \E S \in LastPages(Of(p)) : Decide(seen.spec[p], S)
                          /\ came' = 0 /\ lost' = 0 /\ UNCHANGED <<seen, again, events>>
    BY <1>3 DEF ReconcilePool
  <2>2. PICK S \in LastPages(Of(p)) : Decide(seen.spec[p], S)
    BY <2>1
  <2> QED BY <1>1, <2>1, <2>2, DecideStep
<1> QED BY <1>2, <1>3

-----------------------------------------------------------------------------
(* The invariants.                                                         *)

\* The invariants hold in the beginning.
LEMMA InitInv ==
  ASSUME Init
  PROVE  PoolInv /\ PageInv
<1>1. PICK spec \in [Pools -> Sizes] : store = Fresh(spec)
  BY DEF Init
<1>2. store \in Object
  <2>1. KlusterFor(TRUE, spec) \in Object
    BY KlusterForLemma
  <2> DEFINE o == KlusterFor(TRUE, spec)
  <2> HIDE DEF o
  <2>2. \A k \in Object : [k EXCEPT !.phase = "Running", !.url = TRUE] \in Object
    BY DEF Object, Phases
  <2> QED BY <1>1, <2>1, <2>2 DEF Fresh
<1>3. ApiTypeOK
  <2>1. <<>> \in Seq(Object)
    BY EmptySeq
  <2>2. store \in Object /\ cache \in Object /\ fresh = {} /\ watch = <<>>
    BY <1>2 DEF Init
  <2>3. apiPc = "idle" /\ requests \in 0..MaxRequests
    BY RequestsAssumption DEF Init
  <2>4. accepted \in BOOLEAN
    BY Zenon DEF Init
  <2> QED BY <2>1, <2>2, <2>3, <2>4 DEF ApiTypeOK
<1>4. LocalTypeOK
  <2>1. seen \in [phase : Phases \cup {"Absent"}, spec : [Pools -> Sizes]]
    BY <1>2 DEF Init, View, Object
  <2>2. /\ lpc = "idle" /\ todo = {} /\ pool = "none" /\ victims = {}
        /\ need = 0 /\ reported = 0 /\ came = 0 /\ lost = 0
    BY DEF Init
  <2>3. requeue \in BOOLEAN /\ again \in BOOLEAN
    BY Zenon DEF Init
  <2> QED BY <2>1, <2>2, <2>3, SizeAssumption DEF LocalTypeOK
<1>5. nodes \in [Servers -> Nodes] /\ \A s \in Servers : nodes[s] = NoServer
  BY DEF Init, Nodes
<1>6. creds \in BOOLEAN
  BY Zenon DEF Init
<1>7. TypeOK
  <2>1. events \in 0..MaxEvents
    BY LaunchBounds DEF Init
  <2> QED BY <1>3, <1>4, <1>5, <1>6, <2>1, TypeParts
<1>8. lpc = "idle" /\ again
  BY DEF Init
<1>9. Sound
  <2>1. Shape(NoServer)
    BY DEF Shape, NoServer
  <2> QED BY <1>5, <1>8, <2>1 DEF Sound
<1>10. NoUndershoot /\ PageInv
  BY <1>8 DEF NoUndershoot, PageInv, NoOvershoot, Visited, QuietMeansSettled
<1> QED BY <1>7, <1>9, <1>10 DEF PoolInv

\* Every step keeps them; the second one only with complete listings.
LEMMA NextInv ==
  ASSUME PoolInv, [Next]_vars
  PROVE  PoolInv' /\ (OnePage /\ PageInv => PageInv')
<1>1. CASE UNCHANGED vars
  <2>1. ApiTypeOK' /\ creds' \in BOOLEAN
    BY <1>1, TypeParts DEF PoolInv, ApiTypeOK, vars, apiVars
  <2> QED BY <1>1, <2>1, KeepLemma DEF vars, launchVars
<1>2. CASE Next
  BY <1>2, ApiStep, NovaStep, CrashStep, ReconcileStep, ReconcilePoolStep, ReconcileEndsStep,
     CreateNodeStep, DeleteNodeStep, StatusStep DEF Next, Worker
<1> QED BY <1>1, <1>2

\* The state keeps its type and Reconcile its bookkeeping, whatever the pages of
\* a listing are.
THEOREM PoolInvariant == Spec => []PoolInv
BY InitInv, NextInv, PTL DEF Spec

\* Every variable keeps its type.
THEOREM LaunchTypes == Spec => []TypeOK
BY PoolInvariant, PTL DEF PoolInv

\* Deleting surplus nodes never takes a pool of a running kluster below its
\* size, but for servers lost since the listing: even when the listing was cut
\* to a page (GetNodes), the nodes it leaves out are nodes that stay.
THEOREM PoolKept == Spec => []NoUndershoot
BY PoolInvariant, PTL DEF PoolInv

\* With listings that fit on one page, the invariant holds with its second part.
THEOREM PageInvariant ==
  ASSUME OnePage
  PROVE  Spec => [](PoolInv /\ PageInv)
<1>1. Init => PoolInv /\ PageInv
  BY InitInv
<1>2. (PoolInv /\ PageInv) /\ [Next]_vars => (PoolInv /\ PageInv)'
  BY OnePage, NextInv
<1> QED BY <1>1, <1>2, PTL DEF Spec

\* Then creating nodes never takes a pool over its size, but for servers that
\* came back into service since the listing.
THEOREM PoolNotExceeded ==
  ASSUME OnePage
  PROVE  Spec => []NoOvershoot
BY PageInvariant, PTL DEF PageInv

\* And Reconcile says that nothing is left to do only when no node of the
\* kluster it was called with is still being built or deleted.
THEOREM QuietSettled ==
  ASSUME OnePage
  PROVE  Spec => []QuietMeansSettled
BY PageInvariant, PTL DEF PageInv
=============================================================================
