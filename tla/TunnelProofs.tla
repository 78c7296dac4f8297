---------------------------- MODULE TunnelProofs ----------------------------
(***************************************************************************)
(* Proofs about Tunnel and the Iptables and Version modules it uses, for   *)
(* every set of nodes, CIDRs and hosts and any number of changes, errors   *)
(* and restarts.                                                           *)
(***************************************************************************)
EXTENDS Tunnel, WorkQueueProofs, WellFoundedInduction

-----------------------------------------------------------------------------
(* Versions.                                                               *)

\* A nonempty set of naturals has a least element, and Min is it.
LEMMA MinLemma ==
  ASSUME NEW S \in SUBSET Nat, S # {}
  PROVE  Min(S) \in S /\ \A y \in S : Min(S) <= y
<1>1. PICK x \in S : \A y \in S : ~ (<<y, x>> \in OpToRel(<, Nat))
  BY WFMin, NatLessThanWellFounded
<1>2. \A y \in S : ~ (y < x)
  BY <1>1 DEF OpToRel
<1>3. \E z \in S : \A y \in S : z <= y
  BY <1>2
<1> QED BY <1>3 DEF Min

\* The comparison of version.go is the order its comments promise, where the
\* other version has no more numbers than this one.
LEMMA CompareLemma ==
  ASSUME NEW v \in Seq(Nat), NEW other \in Seq(Nat), Len(other) <= Len(v)
  PROVE  CompareComponents(v, other) = "less" <=> Before(v, other)
<1> DEFINE differ == {i \in DOMAIN v : IF i > Len(other) THEN v[i] # 0 ELSE other[i] # v[i]}
<1>1. /\ Len(v) \in Nat /\ Len(other) \in Nat
      /\ DOMAIN v = 1..Len(v) /\ DOMAIN other = 1..Len(other)
      /\ \A i \in DOMAIN v : v[i] \in Nat
      /\ \A i \in DOMAIN other : other[i] \in Nat
  OBVIOUS
<1>2. /\ \A i \in DOMAIN v : Component(v, i) = v[i]
      /\ \A i \in DOMAIN v : Component(other, i) = IF i > Len(other) THEN 0 ELSE other[i]
  BY <1>1 DEF Component
<1>3. DOMAIN v \cup DOMAIN other = 1..Len(v)
  BY <1>1
<1>4. \A i \in 1..Len(v) : i \in differ <=> Component(v, i) # Component(other, i)
  BY <1>1, <1>2
<1>5. CASE differ = {}
  <2>1. CompareComponents(v, other) = "equal"
    BY <1>5 DEF CompareComponents
  <2>2. \A i \in 1..Len(v) : Component(v, i) = Component(other, i) /\ Component(v, i) \in Nat
    BY <1>1, <1>2, <1>4, <1>5
  <2>3. ~ Before(v, other)
    BY <1>3, <2>2 DEF Before
  <2> QED BY <2>1, <2>3
<1>6. CASE differ # {}
  <2> DEFINE i == Min(differ)
  <2>1. i \in differ /\ \A j \in differ : i <= j
    <3>1. differ \in SUBSET Nat
      BY <1>1
    <3> HIDE DEF differ
    <3> QED BY <1>6, <3>1, MinLemma
  <2>2. CompareComponents(v, other)
          = IF i > Len(other) \/ other[i] < v[i] THEN "greater" ELSE "less"
    BY <1>6 DEF CompareComponents
  <2> HIDE DEF differ, i
  <2>3. i \in 1..Len(v) /\ Component(v, i) # Component(other, i)
    BY <1>1, <1>4, <2>1 DEF differ
  <2>4. \A j \in 1..(i - 1) : Component(v, j) = Component(other, j)
    BY <1>1, <1>4, <2>1, <2>3
  <2>5. CompareComponents(v, other) = "less" <=> Component(v, i) < Component(other, i)
    BY <1>1, <1>2, <2>2, <2>3
  <2>6. Component(v, i) < Component(other, i) => Before(v, other)
    BY <1>3, <2>3, <2>4 DEF Before
  <2>7. ASSUME Before(v, other) PROVE Component(v, i) < Component(other, i)
    <3>1. PICK k \in 1..Len(v) : /\ Component(v, k) < Component(other, k)
                                 /\ \A j \in 1..(k - 1) : Component(v, j) = Component(other, j)
      BY <1>3, <2>7 DEF Before
    <3>2. Component(v, k) \in Nat /\ Component(other, k) \in Nat
      BY <1>1, <1>2
    <3>3. k \in differ
      BY <1>4, <3>1, <3>2
    <3>4. i = k
      BY <1>1, <2>1, <2>3, <3>1, <3>3
    <3> QED BY <3>1, <3>4
  <2> QED BY <2>5, <2>6, <2>7
<1> QED BY <1>5, <1>6

\* Versions that are parsed generically are compared by their numbers alone.
LEMMA GenericLemma ==
  ASSUME NEW s \in Seq(Nat), NEW t \in Seq(Nat), Len(t) >= 2, Len(s) >= Len(t)
  PROVE  /\ ParseGeneric(Text(s)).ok
         /\ AtLeast(ParseGeneric(Text(s)), ParseGeneric(Text(t))) <=> ~ Before(s, t)
         /\ LessThan(ParseGeneric(Text(s)), ParseGeneric(Text(t))) <=> Before(s, t)
<1>1. ASSUME NEW u \in Seq(Nat), Len(u) >= 2
      PROVE  ParseGeneric(Text(u)) = [ok |-> TRUE, components |-> u, semver |-> FALSE, pre |-> <<>>]
  BY <1>1 DEF ParseGeneric, Parse, Text
<1>2. Len(s) \in Nat /\ Len(t) \in Nat
  OBVIOUS
<1>3. /\ ParseGeneric(Text(s)) = [ok |-> TRUE, components |-> s, semver |-> FALSE, pre |-> <<>>]
      /\ ParseGeneric(Text(t)) = [ok |-> TRUE, components |-> t, semver |-> FALSE, pre |-> <<>>]
  BY <1>1, <1>2
<1>4. CompareInternal(ParseGeneric(Text(s)), ParseGeneric(Text(t))) = CompareComponents(s, t)
  BY <1>3 DEF CompareInternal
<1>5. CompareComponents(s, t) = "less" <=> Before(s, t)
  BY <1>2, CompareLemma
<1> QED BY <1>3, <1>4, <1>5 DEF AtLeast, LessThan

\* The flags newInternal finds are those the iptables of the host knows.
LEMMA FlagsLemma ==
  ASSUME NEW h \in Hosts, h.probe
  PROVE  /\ New(h).hasCheck <=> ~ Before(h.numbers, <<1, 4, 11>>)
         /\ New(h).waitFlag = IF Before(h.numbers, <<1, 4, 20>>) THEN "none"
                              ELSE IF Before(h.numbers, <<1, 4, 22>>) THEN "-w" ELSE "-w2"
<1>1. h.numbers \in Seq(Nat) /\ Len(h.numbers) >= 3
  BY HostsAssumption
<1>2. /\ <<1, 4, 11>> \in Seq(Nat) /\ Len(<<1, 4, 11>>) = 3
      /\ <<1, 4, 20>> \in Seq(Nat) /\ Len(<<1, 4, 20>>) = 3
      /\ <<1, 4, 22>> \in Seq(Nat) /\ Len(<<1, 4, 22>>) = 3
  OBVIOUS
<1>3. GetIPTablesVersionString(h) = Text(h.numbers)
  BY DEF GetIPTablesVersionString
<1> DEFINE v == ParseGeneric(Text(h.numbers))
<1>4. ASSUME NEW t \in Seq(Nat), Len(t) = 3
      PROVE  /\ v.ok
             /\ AtLeast(v, ParseGeneric(Text(t))) <=> ~ Before(h.numbers, t)
             /\ LessThan(v, ParseGeneric(Text(t))) <=> Before(h.numbers, t)
  <2>1. Len(t) >= 2 /\ Len(h.numbers) >= Len(t) /\ h.numbers \in Seq(Nat)
    BY <1>1, <1>4
  <2> QED BY <2>1, GenericLemma, Zenon
<1> HIDE DEF v
<1>5. /\ v.ok
      /\ AtLeast(v, MinCheckVersion) <=> ~ Before(h.numbers, <<1, 4, 11>>)
      /\ LessThan(v, MinWaitVersion) <=> Before(h.numbers, <<1, 4, 20>>)
      /\ LessThan(v, MinWait2Version) <=> Before(h.numbers, <<1, 4, 22>>)
  BY <1>2, <1>4 DEF MinCheckVersion, MinWaitVersion, MinWait2Version
<1>6. GetIPTablesHasCheckCommand(Text(h.numbers)) <=> ~ Before(h.numbers, <<1, 4, 11>>)
  BY <1>5 DEF GetIPTablesHasCheckCommand, v
<1>7. GetIPTablesWaitFlag(Text(h.numbers))
        = IF Before(h.numbers, <<1, 4, 20>>) THEN "none"
          ELSE IF Before(h.numbers, <<1, 4, 22>>) THEN "-w" ELSE "-w2"
  BY <1>5 DEF GetIPTablesWaitFlag, v
<1> QED BY <1>3, <1>6, <1>7 DEF New

-----------------------------------------------------------------------------
(* The inductive invariant.                                                *)

Destinations == Cidrs \cup Nodes \cup {ServiceCIDR}

\* The key the worker holds, and the lines it has collected.
Working ==
  /\ cur \in [key : Nodes \cup {Absent}, lines : SUBSET (Destinations \cup {Incomplete}),
              todo : SUBSET Nodes]
  /\ pc # "get" => cur.key \in q.processing

\* The chain of the tunnels: the jump is there once or not at all.
Table == nat \in [chain : BOOLEAN, jumps : {0, 1}, rules : SUBSET Destinations]

\* Which locks the runner holds where.
Locks ==
  /\ pc = "grab14" => lock16 = "runner" /\ lock14 # "runner"
  /\ pc = "restore" => lock16 = "runner" /\ lock14 = "runner"
  /\ pc \notin {"grab14", "restore"} => "runner" \notin {lock16, lock14}
  /\ runner.restoreWait => pc \notin {"grab14", "restore"}

\* Every route of the tunnel is in the map, and a deleted node whose deletion
\* the worker has taken up has none: also while the worker holds its key.
Routes ==
  /\ \A c \in Cidrs \cup Nodes, n \in Nodes : <<c, n>> \in client => c \in store[n]
  /\ \A n \in Nodes : ~ Present(n) /\ n \notin notify \cup q.dirty
       => \A c \in Cidrs \cup Nodes : <<c, n>> \notin client

TunnelInv ==
  /\ TypeOK /\ Working /\ Table /\ Locks /\ Routes
  /\ host \in Hosts /\ runner = New(host)

-----------------------------------------------------------------------------
(* The queue of the controller, which is never shut down and bounds the    *)
(* failures of a key.                                                      *)

Sound(r) ==
  /\ r \in QueueType(Nodes)
  /\ r.failures \in [Nodes -> 0..MaxRetries]
  /\ r.shuttingDown = FALSE

\* The type invariant's set of queues.
LEMMA SoundLemma ==
  ASSUME NEW r
  PROVE  Sound(r) <=> r \in [queue : Seq(Nodes), dirty : SUBSET Nodes, processing : SUBSET Nodes,
                             waiting : SUBSET Nodes, failures : [Nodes -> 0..MaxRetries],
                             shuttingDown : {FALSE}]
<1>1. [Nodes -> 0..MaxRetries] \subseteq [Nodes -> Nat]
  BY RetriesAssumption
<1> QED BY <1>1 DEF Sound, QueueType

\* Add keeps the queue sound and marks the key.
LEMMA AddSound ==
  ASSUME NEW r, Sound(r), NEW n \in Nodes
  PROVE  /\ Sound(Add(r, n)) /\ n \in Add(r, n).dirty
         /\ r.dirty \subseteq Add(r, n).dirty /\ Add(r, n).processing = r.processing
BY AddLemma DEF Sound

\* So does the end of a delay.
LEMMA WaitingLoopSound ==
  ASSUME NEW r, Sound(r), NEW n \in Nodes
  PROVE  /\ Sound(WaitingLoop(r, n))
         /\ r.dirty \subseteq WaitingLoop(r, n).dirty
         /\ WaitingLoop(r, n).processing = r.processing
BY WaitingLoopLemma DEF Sound

\* Get hands out a key and unmarks it.
LEMMA GetSound ==
  ASSUME NEW r, Sound(r), CanGet(r)
  PROVE  /\ Sound(Get(r)) /\ Head(r.queue) \in Nodes
         /\ Get(r).dirty = r.dirty \ {Head(r.queue)}
         /\ Head(r.queue) \in Get(r).processing
BY GetLemma DEF Sound

\* A new queue has no failures.
LEMMA NewSound == Sound(NewRateLimitingQueue(Nodes))
<1>1. [n \in Nodes |-> 0] \in [Nodes -> 0..MaxRetries]
  BY RetriesAssumption
<1>2. NewRateLimitingQueue(Nodes).shuttingDown = FALSE
  BY DEF NewRateLimitingQueue
<1> QED BY <1>1, <1>2, NewQueueLemma DEF Sound

\* Done of a queue that differs from w only in its delays.
LEMMA Released ==
  ASSUME NEW w, Sound(w), NEW n \in w.processing, NEW r \in QueueType(Nodes), SameQueue(w, r),
         r.shuttingDown = w.shuttingDown, r.failures \in [Nodes -> 0..MaxRetries]
  PROVE  Sound(Done(r, n)) /\ Done(r, n).dirty = w.dirty
<1>1. n \in r.processing /\ r.dirty = w.dirty
  BY DEF SameQueue
<1>2. /\ Done(r, n) \in QueueType(Nodes) /\ Done(r, n).dirty = r.dirty
      /\ Done(r, n).failures = r.failures /\ Done(r, n).shuttingDown = r.shuttingDown
  BY <1>1, DoneLemma
<1> QED BY <1>1, <1>2 DEF Sound

\* handleErr and Done: the failures of a key stay within the limit, and whether
\* it was marked again meanwhile is kept.
LEMMA HandleErrLemma ==
  ASSUME NEW w, Sound(w), NEW n \in w.processing, NEW err \in BOOLEAN, HandleErr(w, n, err)
  PROVE  /\ Sound(q') /\ q'.dirty = w.dirty
         /\ pc' = "get" /\ cur' = Idle
         /\ givenUp' \in SUBSET (givenUp \cup {n})
<1>1. w \in QueueType(Nodes) /\ n \in Nodes /\ w.failures \in [Nodes -> 0..MaxRetries]
  BY DEF Sound, QueueType
<1> DEFINE r == IF err /\ w.failures[n] < MaxRetries THEN AddRateLimited(w, n) ELSE Forget(w, n)
<1>2. /\ q' = Done(r, n)
      /\ \/ r = Forget(w, n)
         \/ r = AddRateLimited(w, n) /\ w.failures[n] < MaxRetries
  <2>1. q' = Done(r, n)
    BY Zenon DEF HandleErr, NumRequeues
  <2>2. r = Forget(w, n) \/ (r = AddRateLimited(w, n) /\ w.failures[n] < MaxRetries)
    BY Zenon
  <2> QED BY <2>1, <2>2
<1> HIDE DEF r
<1>3. pc' = "get" /\ cur' = Idle /\ givenUp' \in SUBSET (givenUp \cup {n})
  BY DEF HandleErr
<1>4. CASE r = Forget(w, n)
  <2>1. /\ r \in QueueType(Nodes) /\ SameQueue(w, r) /\ r.shuttingDown = w.shuttingDown
        /\ r.failures = [w.failures EXCEPT ![n] = 0]
    BY <1>1, <1>4, ForgetLemma
  <2>2. [w.failures EXCEPT ![n] = 0] \in [Nodes -> 0..MaxRetries]
    BY <1>1, RetriesAssumption
  <2> QED BY <1>2, <1>3, <2>1, <2>2, Released
<1>5. CASE r = AddRateLimited(w, n) /\ w.failures[n] < MaxRetries
  <2>1. /\ r \in QueueType(Nodes) /\ SameQueue(w, r) /\ r.shuttingDown = w.shuttingDown
        /\ r.failures = [w.failures EXCEPT ![n] = @ + 1]
    BY <1>1, <1>5, AddRateLimitedLemma
  <2>2. [w.failures EXCEPT ![n] = @ + 1] \in [Nodes -> 0..MaxRetries]
    BY <1>1, <1>5, RetriesAssumption
  <2> QED BY <1>2, <1>3, <2>1, <2>2, Released
<1> QED BY <1>2, <1>4, <1>5

-----------------------------------------------------------------------------
(* The steps.                                                              *)

Steps == {"get", "chain", "jump", "write", "grab14", "restore"}

Holders == {"free", "runner", "other"}

\* Steps that only queue keys: events, delays and the recheck.
LEMMA QueueStep ==
  ASSUME TunnelInv, UNCHANGED iptablesVars, UNCHANGED <<nodes, pc, cur, store, client, generic>>,
         Sound(q'), q.dirty \subseteq q'.dirty, q'.processing = q.processing,
         notify' \subseteq Nodes, notify \subseteq notify' \cup q'.dirty, givenUp' \subseteq Nodes
  PROVE  TunnelInv'
<1> USE DEF TunnelInv, iptablesVars
<1>1. TypeOK'
  BY SoundLemma DEF TypeOK
<1>2. Working' /\ Table' /\ Locks'
  BY DEF Working, Table, Locks
<1>3. Routes'
  BY DEF Routes, Present
<1> QED BY <1>1, <1>2, <1>3

\* Steps of the worker that leave nodes and routes alone.
LEMMA WorkerStep ==
  ASSUME TunnelInv, UNCHANGED <<nodes, notify, store, client, generic, host, runner>>,
         Sound(q'), q'.dirty = q.dirty, givenUp' \subseteq Nodes,
         pc' \in Steps, lock16' \in Holders, lock14' \in Holders, Working', Table', Locks'
  PROVE  TunnelInv'
<1> USE DEF TunnelInv
<1>1. TypeOK'
  <2>1. cur'.key \in Nodes \cup {Absent} /\ nat'.rules \subseteq Cidrs \cup Nodes \cup {ServiceCIDR}
    BY DEF Working, Table, Destinations
  <2> QED BY <2>1, SoundLemma DEF TypeOK, Steps, Holders
<1>2. Routes'
  BY DEF Routes, Present
<1> QED BY <1>1, <1>2

\* The worker fails or finishes with its key.
LEMMA EndStep ==
  ASSUME TunnelInv, UNCHANGED <<nodes, notify, store, client, generic, host, runner>>,
         pc # "get", NEW err \in BOOLEAN, HandleErr(q, cur.key, err),
         lock16' \in Holders \ {"runner"}, lock14' \in Holders \ {"runner"}, Table'
  PROVE  TunnelInv'
<1>1. Sound(q) /\ cur.key \in q.processing /\ cur.key \in Nodes /\ givenUp \subseteq Nodes
  BY SoundLemma DEF TunnelInv, TypeOK, Working
<1>2. /\ Sound(q') /\ q'.dirty = q.dirty /\ pc' = "get" /\ cur' = Idle
      /\ givenUp' \in SUBSET (givenUp \cup {cur.key})
  BY <1>1, HandleErrLemma
<1>3. Working'
  BY <1>2 DEF Working, Idle
<1>4. Locks'
  BY <1>2 DEF Locks
<1> QED BY <1>1, <1>2, <1>3, <1>4, WorkerStep DEF Steps

\* The worker goes on to another call, with the key it has.
LEMMA GoStep ==
  ASSUME TunnelInv, UNCHANGED <<nodes, notify, store, client, generic, host, runner>>,
         pc # "get", NEW step \in Steps, Goto(step), cur'.key = cur.key,
         cur' \in [key : Nodes \cup {Absent}, lines : SUBSET (Destinations \cup {Incomplete}),
                   todo : SUBSET Nodes],
         lock16' \in Holders, lock14' \in Holders, Table', Locks'
  PROVE  TunnelInv'
<1>1. Sound(q) /\ cur.key \in q.processing /\ givenUp \subseteq Nodes
  BY SoundLemma DEF TunnelInv, TypeOK, Working
<1>2. q' = q /\ givenUp' = givenUp /\ pc' = step
  BY DEF Goto
<1>3. Working'
  BY <1>1, <1>2 DEF Working
<1> QED BY <1>1, <1>2, <1>3, WorkerStep

\* The chain is created, or exists already.
LEMMA ChainStep ==
  ASSUME TunnelInv, NEW ok \in BOOLEAN, RedoEnsureChain(ok)
  PROVE  TunnelInv'
<1>1. /\ pc = "chain" /\ UNCHANGED <<nodes, notify, store, client, generic, host, runner, lock16, lock14>>
      /\ nat' \in {[nat EXCEPT !.chain = TRUE], nat}
      /\ (Goto("jump") /\ cur' = cur) \/ HandleErr(q, cur.key, TRUE)
  BY DEF RedoEnsureChain, EnsureChain, Fail
<1>2. lock16 \in Holders \ {"runner"} /\ lock14 \in Holders \ {"runner"}
  BY <1>1 DEF TunnelInv, TypeOK, Locks, Holders
<1>3. Table'
  BY <1>1 DEF TunnelInv, Table
<1>4. CASE HandleErr(q, cur.key, TRUE)
  BY <1>1, <1>2, <1>3, <1>4, EndStep
<1>5. CASE Goto("jump") /\ cur' = cur
  <2>1. Locks'
    BY <1>1, <1>2, <1>5 DEF Locks, Goto
  <2> QED BY <1>1, <1>2, <1>3, <1>5, <2>1, GoStep DEF TunnelInv, Working, Steps
<1> QED BY <1>1, <1>4, <1>5

\* The jump is added only when it is not there.
LEMMA JumpStep ==
  ASSUME TunnelInv, NEW ok \in BOOLEAN, RedoEnsureJump(ok)
  PROVE  TunnelInv'
<1>1. /\ pc = "jump" /\ UNCHANGED <<nodes, notify, store, client, generic, host, runner, lock16, lock14>>
      /\ nat' = nat \/ nat' = [nat EXCEPT !.jumps = 1]
      /\ \/ Goto("write") /\ cur' = [cur EXCEPT !.todo = Stored, !.lines = {ServiceCIDR}]
         \/ HandleErr(q, cur.key, TRUE)
  BY DEF RedoEnsureJump, EnsureRule, Fail
<1>2. lock16 \in Holders \ {"runner"} /\ lock14 \in Holders \ {"runner"}
  BY <1>1 DEF TunnelInv, TypeOK, Locks, Holders
<1>3. Table'
  BY <1>1 DEF TunnelInv, Table
<1>4. CASE HandleErr(q, cur.key, TRUE)
  BY <1>1, <1>2, <1>3, <1>4, EndStep
<1>5. CASE Goto("write") /\ cur' = [cur EXCEPT !.todo = Stored, !.lines = {ServiceCIDR}]
  <2>1. Locks'
    BY <1>1, <1>2, <1>5 DEF Locks, Goto
  <2>2. Stored \subseteq Nodes /\ {ServiceCIDR} \subseteq Destinations \cup {Incomplete}
    BY DEF Stored, Destinations
  <2> QED BY <1>1, <1>2, <1>3, <1>5, <2>1, <2>2, GoStep DEF TunnelInv, Working, Steps
<1> QED BY <1>1, <1>4, <1>5

\* Lines are collected for the nodes of the map.
LEMMA WriteStep ==
  ASSUME TunnelInv, NEW n \in Nodes, WriteTunnelRedirect(n)
  PROVE  TunnelInv'
<1>1. /\ pc = "write" /\ UNCHANGED <<nodes, notify, store, client, generic, host, runner, lock16, lock14>>
      /\ nat' = nat
      /\ \/ /\ Goto("write")
            /\ cur' = [cur EXCEPT !.todo = cur.todo \ {n},
                                  !.lines = IF Present(n) THEN cur.lines \cup {n, nodes[n]} ELSE cur.lines]
         \/ HandleErr(q, cur.key, TRUE)
  BY DEF WriteTunnelRedirect, Fail, iptablesVars
<1>2. lock16 \in Holders \ {"runner"} /\ lock14 \in Holders \ {"runner"}
  BY <1>1 DEF TunnelInv, TypeOK, Locks, Holders
<1>3. Table'
  BY <1>1 DEF TunnelInv, Table
<1>4. CASE HandleErr(q, cur.key, TRUE)
  BY <1>1, <1>2, <1>3, <1>4, EndStep
<1>5. CASE /\ Goto("write")
           /\ cur' = [cur EXCEPT !.todo = cur.todo \ {n},
                                 !.lines = IF Present(n) THEN cur.lines \cup {n, nodes[n]} ELSE cur.lines]
  <2>1. Locks'
    BY <1>1, <1>2, <1>5 DEF Locks, Goto
  <2>2. Present(n) => {n, nodes[n]} \subseteq Destinations \cup {Incomplete}
    BY DEF TunnelInv, TypeOK, Present, Destinations
  <2> QED BY <1>1, <1>2, <1>3, <1>5, <2>1, <2>2, GoStep DEF TunnelInv, Working, Steps
<1> QED BY <1>1, <1>4, <1>5

\* The file first, then the socket; a failure gives the file back.
LEMMA GrabStep ==
  ASSUME TunnelInv, NEW result \in {"grab14", "restore", "fail"}, GrabLock(result)
  PROVE  TunnelInv'
<1>1. /\ UNCHANGED <<nodes, notify, store, client, generic, host, runner>> /\ nat' = nat
      /\ \/ pc = "write" /\ ~ runner.restoreWait /\ result \in {"grab14", "fail"}
         \/ pc = "grab14" /\ result \in {"restore", "fail"}
      /\ GrabIptablesLocks(result)
      /\ \/ result = "fail" /\ HandleErr(q, cur.key, TRUE)
         \/ result # "fail" /\ Goto(result) /\ cur' = cur
  BY DEF GrabLock, GrabIptablesLocks, Fail
<1>2. Locks /\ lock16 \in Holders /\ lock14 \in Holders
  BY DEF TunnelInv, TypeOK, Holders
<1>3. Table'
  BY <1>1 DEF TunnelInv, Table
<1>4. CASE result = "fail" /\ HandleErr(q, cur.key, TRUE)
  <2>1. lock16' \in Holders \ {"runner"} /\ lock14' \in Holders \ {"runner"}
    BY <1>1, <1>2, <1>4 DEF Locks, GrabIptablesLocks, Holders
  <2> QED BY <1>1, <1>3, <1>4, <2>1, EndStep
<1>5. CASE result # "fail" /\ Goto(result) /\ cur' = cur
  <2>1. Locks' /\ lock16' \in Holders /\ lock14' \in Holders
    BY <1>1, <1>2, <1>5 DEF Locks, GrabIptablesLocks, Holders, Goto
  <2> QED BY <1>1, <1>3, <1>5, <2>1, GoStep DEF TunnelInv, Working, Steps
<1> QED BY <1>1, <1>4, <1>5

\* The restore fills the chain with well-formed lines, and gives the locks back.
LEMMA RestoreStep ==
  ASSUME TunnelInv, NEW ok \in BOOLEAN, Restore(ok)
  PROVE  TunnelInv'
<1>1. /\ UNCHANGED <<nodes, notify, store, client, generic, host, runner>>
      /\ pc \in {"write", "restore"} /\ HandleErr(q, cur.key, ~ ok) /\ CloseLocks
  BY DEF Restore, RestoreInternal
<1>2. lock16' \in Holders \ {"runner"} /\ lock14' \in Holders \ {"runner"}
  BY <1>1 DEF TunnelInv, TypeOK, CloseLocks, Holders
<1>3. Table'
  <2>1. nat' = nat \/ (Incomplete \notin cur.lines /\ nat' = [nat EXCEPT !.chain = TRUE, !.rules = cur.lines])
    BY DEF Restore, RestoreInternal
  <2> QED BY <2>1 DEF TunnelInv, Table, Working
<1>4. (~ ok) \in BOOLEAN
  OBVIOUS
<1> QED BY <1>1, <1>2, <1>3, <1>4, EndStep

\* The worker takes a key.
LEMMA ReconcileLemma ==
  ASSUME TunnelInv, pc = "get", CanGet(q), Reconcile, UNCHANGED iptablesVars
  PROVE  /\ Sound(q') /\ Item \in Nodes /\ q'.dirty = q.dirty \ {Item}
         /\ Working' /\ Table' /\ Locks' /\ pc' = "chain" /\ givenUp' = givenUp
<1>1. Sound(q)
  BY SoundLemma DEF TunnelInv, TypeOK
<1>2. /\ Sound(q') /\ Item \in Nodes /\ q'.dirty = q.dirty \ {Item} /\ Item \in q'.processing
      /\ pc' = "chain" /\ givenUp' = givenUp /\ cur' = [Idle EXCEPT !.key = Item]
  BY <1>1, GetSound DEF Reconcile, Item
<1>3. cur' = [key |-> Item, lines |-> {}, todo |-> {}]
  BY <1>2 DEF Idle
<1>4. Working'
  <2>1. cur'.key \in q'.processing
    BY <1>2, <1>3
  <2>2. cur' \in [key : Nodes \cup {Absent}, lines : SUBSET (Destinations \cup {Incomplete}),
                  todo : SUBSET Nodes]
    <3>1. Item \in Nodes
      BY <1>2
    <3> QED BY <1>3, <3>1, Zenon
  <2> QED BY <2>1, <2>2 DEF Working
<1>5. Table' /\ Locks'
  BY <1>2 DEF TunnelInv, Table, Locks, iptablesVars
<1> QED BY <1>2, <1>4, <1>5

\* addNode, or its error for an incomplete node.
LEMMA AddStep ==
  ASSUME TunnelInv, AddNode
  PROVE  TunnelInv'
<1>1. /\ pc = "get" /\ CanGet(q) /\ Present(Item) /\ UNCHANGED iptablesVars
      /\ UNCHANGED <<nodes, notify>>
  BY DEF AddNode
<1>2. CASE /\ Complete(Item) /\ Reconcile
           /\ store' = [store EXCEPT ![Item] = @ \cup {nodes[Item], Item}]
           /\ client' = client \cup {<<nodes[Item], Item>>, <<Item, Item>>}
           /\ generic' = generic \cup {nodes[Item], Item}
  <2>1. /\ Sound(q') /\ Item \in Nodes /\ q'.dirty = q.dirty \ {Item}
        /\ Working' /\ Table' /\ Locks' /\ pc' = "chain" /\ givenUp' = givenUp
    BY <1>1, <1>2, ReconcileLemma
  <2>2. nodes[Item] \in Cidrs
    BY <1>2 DEF Complete
  <2>3. /\ store' \in [Nodes -> SUBSET (Cidrs \cup Nodes)]
        /\ client' \subseteq (Cidrs \cup Nodes) \X Nodes /\ generic' \subseteq Cidrs \cup Nodes
    BY <1>2, <2>1, <2>2 DEF TunnelInv, TypeOK
  <2>4. TypeOK'
    <3>1. cur'.key \in Nodes \cup {Absent}
      BY <2>1 DEF Working
    <3> QED BY <1>1, <2>1, <2>3, <3>1, SoundLemma DEF TunnelInv, TypeOK, iptablesVars
  <2>5. ASSUME NEW c \in Cidrs \cup Nodes, NEW n \in Nodes, <<c, n>> \in client' PROVE c \in store'[n]
    BY <1>2, <2>1, <2>5 DEF TunnelInv, TypeOK, Routes
  <2>6. ASSUME NEW n \in Nodes, ~ Present(n)', n \notin notify' \cup q'.dirty, NEW c \in Cidrs \cup Nodes
        PROVE  <<c, n>> \notin client'
    BY <1>1, <1>2, <2>1, <2>6 DEF TunnelInv, Routes, Present
  <2>7. Routes'
    BY <2>5, <2>6 DEF Routes
  <2> QED BY <1>1, <2>1, <2>4, <2>7 DEF TunnelInv, iptablesVars
<1>3. CASE HandleErr(Get(q), Item, TRUE) /\ UNCHANGED <<store, client, generic>>
  <2>1. Sound(q)
    BY SoundLemma DEF TunnelInv, TypeOK
  <2>2. Sound(Get(q)) /\ Item \in Nodes /\ Get(q).dirty = q.dirty \ {Item} /\ Item \in Get(q).processing
    BY <1>1, <2>1, GetSound DEF Item
  <2>3. /\ Sound(q') /\ q'.dirty = q.dirty \ {Item} /\ pc' = "get" /\ cur' = Idle
        /\ givenUp' \in SUBSET (givenUp \cup {Item})
    BY <1>3, <2>2, HandleErrLemma
  <2>4. Working' /\ Table' /\ Locks'
    BY <1>1, <2>3 DEF TunnelInv, Working, Table, Locks, Idle, iptablesVars
  <2>5. TypeOK'
    BY <1>1, <1>3, <2>2, <2>3, SoundLemma DEF TunnelInv, TypeOK, iptablesVars, Idle
  <2>6. Routes'
    BY <1>1, <1>3, <2>3 DEF TunnelInv, Routes, Present
  <2> QED BY <1>1, <2>4, <2>5, <2>6 DEF TunnelInv, iptablesVars
<1> QED BY <1>2, <1>3 DEF AddNode

\* Every route of the node is in the map, so delNode removes them all.
LEMMA DelStep ==
  ASSUME TunnelInv, DelNode
  PROVE  TunnelInv'
<1>1. /\ pc = "get" /\ CanGet(q) /\ UNCHANGED iptablesVars /\ Reconcile
      /\ UNCHANGED <<nodes, notify, store>>
      /\ client' = client \ (store[Item] \X {Item})
      /\ generic' = generic \ store[Item]
  BY DEF DelNode
<1>2. /\ Sound(q') /\ Item \in Nodes /\ q'.dirty = q.dirty \ {Item}
      /\ Working' /\ Table' /\ Locks' /\ pc' = "chain" /\ givenUp' = givenUp
  BY <1>1, ReconcileLemma
<1>3. TypeOK'
  <2>1. cur'.key \in Nodes \cup {Absent}
    BY <1>2 DEF Working
  <2> QED BY <1>1, <1>2, <2>1, SoundLemma DEF TunnelInv, TypeOK, iptablesVars
<1>4. ASSUME NEW n \in Nodes, ~ Present(n)', n \notin notify' \cup q'.dirty, NEW c \in Cidrs \cup Nodes
      PROVE  <<c, n>> \notin client'
  <2>1. CASE n = Item
    <3>1. <<c, Item>> \in client => c \in store[Item]
      BY <1>2 DEF TunnelInv, Routes
    <3> QED BY <1>1, <2>1, <3>1
  <2>2. CASE n # Item
    <3>1. ~ Present(n) /\ n \notin notify \cup q.dirty
      BY <1>1, <1>2, <1>4, <2>2 DEF Present
    <3>2. <<c, n>> \notin client
      BY <3>1 DEF TunnelInv, Routes
    <3> QED BY <1>1, <3>2
  <2> QED BY <2>1, <2>2
<1>5. Routes'
  BY <1>1, <1>4 DEF TunnelInv, Routes
<1> QED BY <1>1, <1>2, <1>3, <1>5 DEF TunnelInv, iptablesVars

\* A node changes; its deletion is always notified.
LEMMA ChangeStep ==
  ASSUME TunnelInv, NEW n \in Nodes, NEW to \in Cidrs \cup {Absent, Incomplete}, NodeChanges(n, to)
  PROVE  TunnelInv'
<1>1. /\ to # nodes[n] /\ nodes' = [nodes EXCEPT ![n] = to]
      /\ notify' = IF Present(n) /\ to # Absent THEN notify ELSE notify \cup {n}
      /\ UNCHANGED <<iptablesVars, q, pc, cur, store, client, generic, givenUp>>
  BY DEF NodeChanges
<1>2. TypeOK'
  BY <1>1 DEF TunnelInv, TypeOK, iptablesVars
<1>3. Working' /\ Table' /\ Locks'
  BY <1>1 DEF TunnelInv, Working, Table, Locks, iptablesVars
<1>4. ASSUME NEW m \in Nodes, ~ Present(m)', m \notin notify' \cup q'.dirty
      PROVE  ~ Present(m) /\ m \notin notify \cup q.dirty
  BY <1>1, <1>4 DEF TunnelInv, TypeOK, Present
<1>5. Routes'
  BY <1>1, <1>4 DEF TunnelInv, Routes
<1> QED BY <1>1, <1>2, <1>3, <1>5 DEF TunnelInv, iptablesVars

\* A restart forgets the routes; the chain stays.
LEMMA CrashStep ==
  ASSUME TunnelInv, Crash
  PROVE  TunnelInv'
<1>1. /\ notify' \subseteq Nodes /\ q' = NewRateLimitingQueue(Nodes) /\ pc' = "get" /\ cur' = Idle
      /\ store' = [n \in Nodes |-> {}] /\ client' = {} /\ generic' = {} /\ givenUp' = {}
      /\ CloseLocks /\ UNCHANGED <<host, runner, nat, nodes>>
  BY DEF Crash
<1>2. Sound(q')
  BY <1>1, NewSound
<1>3. lock16' \in Holders \ {"runner"} /\ lock14' \in Holders \ {"runner"}
  BY <1>1 DEF TunnelInv, TypeOK, CloseLocks, Holders
<1>4. TypeOK'
  BY <1>1, <1>2, <1>3, SoundLemma DEF TunnelInv, TypeOK, Idle, Holders
<1>5. Working' /\ Table' /\ Locks' /\ Routes'
  BY <1>1, <1>3 DEF TunnelInv, Working, Table, Locks, Routes, Idle
<1> QED BY <1>1, <1>4, <1>5 DEF TunnelInv

\* Other programs only take a free lock and give back their own.
LEMMA OthersStep ==
  ASSUME TunnelInv, Others
  PROVE  TunnelInv'
<1>1. /\ UNCHANGED tunnelVars /\ UNCHANGED <<host, runner, nat>>
      /\ \/ lock16 = "free" /\ lock16' = "other" /\ lock14' = lock14
         \/ lock14 = "free" /\ lock14' = "other" /\ lock16' = lock16
         \/ /\ lock16' = IF lock16 = "other" THEN "free" ELSE lock16
            /\ lock14' = IF lock14 = "other" THEN "free" ELSE lock14
  BY DEF Others, OtherTakesLock, OtherReleasesLock
<1>2. lock16' \in Holders /\ lock14' \in Holders /\ Locks'
  BY <1>1 DEF TunnelInv, TypeOK, Locks, Holders, tunnelVars
<1>3. TypeOK' /\ Working' /\ Table' /\ Routes'
  BY <1>1, <1>2 DEF TunnelInv, TypeOK, Working, Table, Routes, Present, Holders, tunnelVars
<1> QED BY <1>1, <1>2, <1>3 DEF TunnelInv

\* Every step keeps TunnelInv.
LEMMA TunnelStep ==
  ASSUME TunnelInv, [Next]_vars
  PROVE  TunnelInv'
<1>1. Sound(q) /\ givenUp \subseteq Nodes /\ notify \subseteq Nodes
  BY SoundLemma DEF TunnelInv, TypeOK
<1>2. ASSUME NEW n \in Nodes, HandleEvent(n) PROVE TunnelInv'
  <2>1. /\ Sound(q') /\ n \in q'.dirty /\ q.dirty \subseteq q'.dirty /\ q'.processing = q.processing
    BY <1>1, <1>2, AddSound DEF HandleEvent
  <2> QED BY <1>1, <1>2, <2>1, QueueStep DEF HandleEvent
<1>3. ASSUME NEW n \in Nodes, DelayPasses(n) PROVE TunnelInv'
  <2>1. /\ Sound(q') /\ q.dirty \subseteq q'.dirty /\ q'.processing = q.processing
    BY <1>1, <1>3, WaitingLoopSound DEF DelayPasses
  <2> QED BY <1>1, <1>3, <2>1, QueueStep DEF DelayPasses
<1>4. ASSUME NEW n \in Nodes, Recheck(n) PROVE TunnelInv'
  <2>1. /\ Sound(q') /\ q.dirty \subseteq q'.dirty /\ q'.processing = q.processing
    BY <1>1, <1>4, AddSound DEF Recheck
  <2> QED BY <1>1, <1>4, <2>1, QueueStep DEF Recheck
<1>5. CASE Worker
  BY <1>5, AddStep, DelStep, ChainStep, JumpStep, WriteStep, GrabStep, RestoreStep DEF Worker
<1>6. CASE UNCHANGED vars
  BY <1>1, <1>6, QueueStep DEF vars, tunnelVars
<1> QED BY <1>2, <1>3, <1>4, <1>5, <1>6, ChangeStep, CrashStep, OthersStep DEF Next

\* The controller starts without nodes and routes.
LEMMA TunnelStart ==
  ASSUME Init
  PROVE  TunnelInv
<1>1. /\ host \in Hosts /\ runner = New(host) /\ nat = [chain |-> FALSE, jumps |-> 0, rules |-> {}]
      /\ lock16 = "free" /\ lock14 = "free" /\ nodes = [n \in Nodes |-> Absent]
      /\ notify = {} /\ q = NewRateLimitingQueue(Nodes) /\ pc = "get" /\ cur = Idle
      /\ store = [n \in Nodes |-> {}] /\ client = {} /\ generic = {} /\ givenUp = {}
  BY DEF Init, IptablesInit
<1>2. Sound(q)
  BY <1>1, NewSound
<1>3. TypeOK
  BY <1>1, <1>2, SoundLemma DEF TypeOK, Idle
<1>4. Working /\ Table /\ Locks /\ Routes
  BY <1>1 DEF Working, Table, Locks, Routes, Idle
<1> QED BY <1>1, <1>3, <1>4 DEF TunnelInv

\* TunnelInv holds of every reachable state.
THEOREM TunnelInvariant == Spec => []TunnelInv
<1>1. Init => TunnelInv
  BY TunnelStart
<1>2. TunnelInv /\ [Next]_vars => TunnelInv'
  BY TunnelStep
<1> QED BY <1>1, <1>2, PTL DEF Spec

\* The variables of the tunnel controller keep their types: the failures of a
\* key never exceed MaxRetries.
THEOREM TunnelTypes == Spec => []TypeOK
<1>1. TunnelInv => TypeOK
  BY DEF TunnelInv
<1> QED BY <1>1, TunnelInvariant, PTL

\* A deleted node leaves no route in the tunnel, whatever CIDRs it had and
\* whatever happened while the worker was busy.
THEOREM NoRouteLeft == Spec => []GoneLeavesNoRoute
<1>1. TunnelInv => GoneLeavesNoRoute
  BY DEF TunnelInv, Routes, GoneLeavesNoRoute
<1> QED BY <1>1, TunnelInvariant, PTL

\* The worker waits for its next key with both iptables locks given back.
THEOREM LocksBack == Spec => []LocksReturned
<1>1. TunnelInv => LocksReturned
  BY DEF TunnelInv, Locks, LocksReturned
<1> QED BY <1>1, TunnelInvariant, PTL

\* The jump to the chain of the tunnels is never there twice.
THEOREM OneJump == Spec => []JumpOnce
<1>1. TunnelInv => JumpOnce
  BY DEF TunnelInv, Table, JumpOnce
<1> QED BY <1>1, TunnelInvariant, PTL

\* The runner uses the flags that the iptables of its host knows, for every
\* version of three or more numbers.
THEOREM FlagsRight == Spec => []FlagsSupported
<1>1. TunnelInv => FlagsSupported
  BY FlagsLemma DEF TunnelInv, FlagsSupported, KnowsCheck
<1> QED BY <1>1, TunnelInvariant, PTL
=============================================================================
