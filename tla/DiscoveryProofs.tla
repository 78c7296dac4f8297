--------------------------- MODULE DiscoveryProofs ---------------------------
(***************************************************************************)
(* Proofs about Discovery: the selection of discoverOpenstackInfo is right *)
(* in every project, with any number of routers, interfaces and subnets.   *)
(***************************************************************************)
EXTENDS Discovery, FiniteSetTheorems, TLAPS

-----------------------------------------------------------------------------
(* What each selection returns.                                            *)

\* The interfaces of a router are a sequence of networks.
LEMMA PortsLemma ==
  ASSUME TypeOK, NEW r \in Routers
  PROVE  /\ NetworksOf(r) \in Seq(Networks)
         /\ Len(NetworksOf(r)) \in Nat
         /\ DOMAIN NetworksOf(r) = 1..Len(NetworksOf(r))
         /\ Range(NetworksOf(r)) \subseteq Networks
<1>1. project.ports \in [Routers -> UNION {[1..n -> Networks] : n \in 0..MaxPorts}]
  BY DEF TypeOK, Projects
<1>2. PICK n \in 0..MaxPorts : NetworksOf(r) \in [1..n -> Networks]
  BY <1>1 DEF NetworksOf
<1>3. n \in Nat
  BY <1>2, DiscoveryBounds
<1>4. NetworksOf(r) \in Seq(Networks)
  BY <1>2, <1>3
<1> QED BY <1>4 DEF Range

\* The router selected is the only one of the project that fits what was given.
LEMMA RouterLemma ==
  ASSUME TypeOK, SelectRouter # Fail
  PROVE  /\ SelectRouter \in project.routers /\ SelectRouter \in Routers
         /\ spec.router \in {None, SelectRouter}
         /\ \A r \in project.routers : spec.router \in {None, r} => r = SelectRouter
<1>1. /\ project.routers \subseteq Routers
      /\ spec.router \in Routers \cup {None}
  BY Zenon DEF TypeOK, Projects, Specs
<1>2. CASE spec.router \in project.routers
  <2>1. SelectRouter = spec.router
    BY <1>1, <1>2, IdsAssumption DEF SelectRouter
  <2> QED BY <1>1, <1>2, <2>1, IdsAssumption
<1>3. CASE spec.router \notin project.routers
  <2>1. /\ spec.router = None
        /\ Cardinality(project.routers) = 1
        /\ SelectRouter = TheOnly(project.routers)
    BY <1>3 DEF SelectRouter
  <2>2. IsFiniteSet(project.routers)
    BY <1>1, FiniteRouters, FS_Subset
  <2>3. PICK x : project.routers = {x}
    BY <2>1, <2>2, FS_Singleton
  <2>4. TheOnly(project.routers) = x
    BY <2>3 DEF TheOnly
  <2> QED BY <1>1, <2>1, <2>3, <2>4
<1> QED BY <1>2, <1>3

\* The same for the network among those the router has an interface in.
LEMMA NetworkLemma ==
  ASSUME TypeOK, NEW r \in Routers, SelectNetwork(r) # Fail
  PROVE  /\ SelectNetwork(r) \in Range(NetworksOf(r)) /\ SelectNetwork(r) \in Networks
         /\ spec.network \in {None, SelectNetwork(r)}
         /\ \A n \in Range(NetworksOf(r)) : spec.network \in {None, n} => n = SelectNetwork(r)
<1>1. spec.network \in Networks \cup {None}
  BY Zenon DEF TypeOK, Specs
<1>2. CASE spec.network \in Range(NetworksOf(r))
  <2>1. SelectNetwork(r) = spec.network
    BY <1>1, <1>2, PortsLemma, IdsAssumption DEF SelectNetwork
  <2> QED BY <1>2, <2>1, PortsLemma, IdsAssumption
<1>3. CASE spec.network \notin Range(NetworksOf(r))
  <2>1. /\ spec.network = None
        /\ Len(NetworksOf(r)) = 1
        /\ SelectNetwork(r) = NetworksOf(r)[1]
    BY <1>3 DEF SelectNetwork
  <2>2. Range(NetworksOf(r)) = {NetworksOf(r)[1]}
    BY <2>1, PortsLemma DEF Range
  <2> QED BY <2>1, <2>2, PortsLemma
<1> QED BY <1>2, <1>3

\* And for the subnet among those of the network.
LEMMA SubnetLemma ==
  ASSUME TypeOK, NEW n \in Networks, SelectSubnet(n) # <<Fail, 0>>
  PROVE  /\ SelectSubnet(n) \in SubnetsOf(n) /\ SelectSubnet(n) \in Subnets
         /\ SelectSubnet(n) # NoSubnet
         /\ spec.subnet \in {NoSubnet, SelectSubnet(n)}
         /\ \A s \in SubnetsOf(n) : spec.subnet \in {NoSubnet, s} => s = SelectSubnet(n)
<1>1. project.subnets[n] \in 0..MaxSubnets
  BY DEF TypeOK, Projects
<1>2. SubnetsOf(n) \subseteq Subnets /\ NoSubnet \notin SubnetsOf(n)
  <2>1. 1..project.subnets[n] \subseteq 1..MaxSubnets
    BY <1>1, DiscoveryBounds
  <2>2. n # None
    BY IdsAssumption
  <2> QED BY <2>1, <2>2 DEF SubnetsOf, Subnets, NoSubnet
<1>3. CASE spec.subnet \in SubnetsOf(n)
  <2>1. SelectSubnet(n) = spec.subnet
    BY <1>2, <1>3 DEF SelectSubnet
  <2> QED BY <1>2, <1>3, <2>1
<1>4. CASE spec.subnet \notin SubnetsOf(n)
  <2>1. /\ spec.subnet = NoSubnet
        /\ project.subnets[n] = 1
        /\ SelectSubnet(n) = <<n, 1>>
    BY <1>4 DEF SelectSubnet
  <2>2. SubnetsOf(n) = {<<n, 1>>}
    BY <2>1 DEF SubnetsOf
  <2> QED BY <1>2, <2>1, <2>2
<1> QED BY <1>3, <1>4

\* A discovery that succeeds stores what was selected.
LEMMA SelectionLemma ==
  ASSUME TypeOK, DiscoverOpenstackInfo, outcome' = "ok"
  PROVE  \E r \in Routers, n \in Networks, s \in Subnets :
           /\ r = SelectRouter /\ r # Fail
           /\ n = SelectNetwork(r) /\ n # Fail
           /\ s = SelectSubnet(n) /\ s # <<Fail, 0>>
           /\ SelectGroup # Fail
           /\ spec' = [project |-> IF spec.project = None THEN "account" ELSE spec.project,
                       router |-> r, network |-> n, subnet |-> s, group |-> SelectGroup]
<1> DEFINE r == SelectRouter
           n == IF r = Fail THEN Fail ELSE SelectNetwork(r)
           s == IF n = Fail THEN <<Fail, 0>> ELSE SelectSubnet(n)
<1>1. /\ s # <<Fail, 0>> /\ SelectGroup # Fail
      /\ spec' = [project |-> IF spec.project = None THEN "account" ELSE spec.project,
                  router |-> r, network |-> n, subnet |-> s, group |-> SelectGroup]
  BY DEF DiscoverOpenstackInfo
<1>2. n # Fail /\ s = SelectSubnet(n)
  BY <1>1
<1>3. r # Fail /\ n = SelectNetwork(r)
  BY <1>2
<1>4. r \in Routers
  BY <1>3, RouterLemma
<1>5. n \in Networks
  BY <1>2, <1>3, <1>4, NetworkLemma
<1>6. s \in Subnets
  BY <1>1, <1>2, <1>5, SubnetLemma
<1> QED BY <1>1, <1>2, <1>3, <1>4, <1>5, <1>6

-----------------------------------------------------------------------------
(* The invariant.  DiscoveredOnce is inductive with the types: a discovery  *)
(* that succeeded is never repeated, so nothing disturbs what it stored.   *)

DiscoveryInv == TypeOK /\ DiscoveredOnce

\* What a discovery stores is a spec, and asks for nothing more.
LEMMA StoredLemma ==
  ASSUME TypeOK, DiscoverOpenstackInfo, outcome' = "ok"
  PROVE  /\ spec' \in Specs({None, "given", "default"})
         /\ ~ RequiresOpenstackInfo(spec')
<1> PICK r \in Routers, n \in Networks, s \in Subnets :
      /\ s = SelectSubnet(n) /\ s # <<Fail, 0>>
      /\ SelectGroup # Fail
      /\ spec' = [project |-> IF spec.project = None THEN "account" ELSE spec.project,
                  router |-> r, network |-> n, subnet |-> s, group |-> SelectGroup]
  BY SelectionLemma
<1> DEFINE account == IF spec.project = None THEN "account" ELSE spec.project
<1>1. spec.project \in {None, "account"} /\ spec.group \in {None, "given", "default"}
  BY Zenon DEF TypeOK, Specs
<1>2. account = "account"
  BY <1>1
<1>3. SelectGroup \in {None, "given", "default"}
  <2>1. CASE spec.group # None
    BY <2>1, <1>1 DEF SelectGroup
  <2>2. CASE spec.group = None
    BY <2>2 DEF SelectGroup, Fail
  <2> QED BY <2>1, <2>2
<1>4. spec' \in Specs({None, "given", "default"})
  BY <1>2, <1>3, Zenon DEF Specs
<1>5. s # NoSubnet
  BY SubnetLemma
<1>6. r # None /\ n # None
  BY IdsAssumption
<1>7. /\ spec'.project = "account" /\ spec'.router = r
      /\ spec'.network = n /\ spec'.subnet = s
  BY <1>2
<1> QED BY <1>4, <1>5, <1>6, <1>7 DEF RequiresOpenstackInfo, None

\* A change of the project leaves a project.
LEMMA ProjectLemma ==
  ASSUME TypeOK, ProjectChanges
  PROVE  project' \in Projects
<1> USE DEF Projects
<1>1. /\ project \in Projects
      /\ project.routers \subseteq Routers
      /\ project.subnets \in [Networks -> 0..MaxSubnets]
  BY DEF TypeOK
<1>2. CASE \E r \in Routers :
             project' = [project EXCEPT !.routers = IF r \in @ THEN @ \ {r} ELSE @ \cup {r}]
  <2> PICK r \in Routers :
        project' = [project EXCEPT !.routers = IF r \in project.routers
                                               THEN project.routers \ {r} ELSE project.routers \cup {r}]
    BY <1>2
  <2>1. (IF r \in project.routers THEN project.routers \ {r} ELSE project.routers \cup {r})
          \in SUBSET Routers
    BY <1>1
  <2> QED BY <1>1, <2>1
<1>3. CASE \E n \in Networks, c \in 0..MaxSubnets :
             project' = [project EXCEPT !.subnets[n] = c]
  <2> PICK n \in Networks, c \in 0..MaxSubnets :
        project' = [project EXCEPT !.subnets = [project.subnets EXCEPT ![n] = c]]
    BY <1>3
  <2>1. [project.subnets EXCEPT ![n] = c] \in [Networks -> 0..MaxSubnets]
    BY <1>1
  <2> QED BY <1>1, <2>1
<1>4. CASE \E c \in 0..2 : project' = [project EXCEPT !.groups = c]
  BY <1>1, <1>4
<1> QED BY <1>2, <1>3, <1>4 DEF ProjectChanges

\* DiscoveryInv is an inductive invariant (discoverOpenstackInfo, handler).
THEOREM DiscoveryInvariant == Spec => []DiscoveryInv
<1>1. Init => DiscoveryInv
  <2> SUFFICES ASSUME Init PROVE DiscoveryInv
    OBVIOUS
  <2>1. spec \in Specs({None, "given", "default"})
    BY Zenon DEF Init, Specs
  <2> QED BY <2>1, DiscoveryBounds DEF Init, DiscoveryInv, TypeOK, DiscoveredOnce
<1>2. DiscoveryInv /\ [Next]_vars => DiscoveryInv'
  <2> SUFFICES ASSUME DiscoveryInv, [Next]_vars PROVE DiscoveryInv'
    OBVIOUS
  <2>1. TypeOK
    BY DEF DiscoveryInv
  <2>2. CASE DiscoverOpenstackInfo
    <3>1. CASE outcome' = "ok"
      BY <2>1, <2>2, <3>1, StoredLemma
         DEF DiscoverOpenstackInfo, DiscoveryInv, TypeOK, DiscoveredOnce
    <3>2. CASE outcome' # "ok"
      <4>1. outcome' = "error" /\ UNCHANGED <<spec, project, changes>>
        BY <2>2, <3>2 DEF DiscoverOpenstackInfo
      <4> QED BY <2>1, <4>1 DEF DiscoveryInv, TypeOK, DiscoveredOnce
    <3> QED BY <3>1, <3>2
  <2>3. CASE ProjectChanges
    <3>1. /\ changes' = changes + 1 /\ changes < MaxChanges
          /\ outcome = "error" /\ UNCHANGED <<spec, outcome>>
      BY <2>3 DEF ProjectChanges
    <3>2. project' \in Projects
      BY <2>1, <2>3, ProjectLemma
    <3>3. changes' \in 0..MaxChanges
      BY <2>1, <3>1, DiscoveryBounds DEF TypeOK
    <3> QED BY <2>1, <3>1, <3>2, <3>3 DEF DiscoveryInv, TypeOK, DiscoveredOnce
  <2>4. CASE UNCHANGED vars
    BY <2>4 DEF DiscoveryInv, TypeOK, DiscoveredOnce, RequiresOpenstackInfo, vars
  <2> QED BY <2>2, <2>3, <2>4 DEF Next
<1> QED BY <1>1, <1>2, PTL DEF Spec

\* A kluster is discovered at most once: what a discovery stores is all that
\* handler asks for.
THEOREM DiscoveryComplete == Spec => []DiscoveredOnce
BY DiscoveryInvariant, PTL DEF DiscoveryInv

\* A step that ends a discovery with success found exactly one completion.
LEMMA GuessLemma ==
  ASSUME TypeOK, DiscoverOpenstackInfo, outcome' = "ok"
  PROVE  Completions(spec) = {<<spec'.router, spec'.network, spec'.subnet>>}
<1> PICK r \in Routers, n \in Networks, s \in Subnets :
      /\ r = SelectRouter /\ r # Fail
      /\ n = SelectNetwork(r) /\ n # Fail
      /\ s = SelectSubnet(n) /\ s # <<Fail, 0>>
      /\ spec'.router = r /\ spec'.network = n /\ spec'.subnet = s
  BY SelectionLemma
<1>1. /\ r \in project.routers /\ spec.router \in {None, r}
      /\ \A x \in project.routers : spec.router \in {None, x} => x = r
  BY RouterLemma
<1>2. /\ n \in Range(NetworksOf(r)) /\ spec.network \in {None, n}
      /\ \A x \in Range(NetworksOf(r)) : spec.network \in {None, x} => x = n
  BY NetworkLemma
<1>3. /\ s \in SubnetsOf(n) /\ spec.subnet \in {NoSubnet, s}
      /\ \A x \in SubnetsOf(n) : spec.subnet \in {NoSubnet, x} => x = s
  BY SubnetLemma
<1>4. <<r, n, s>> \in Completions(spec)
  BY <1>1, <1>2, <1>3, Zenon DEF Completions, NetworksOf
<1>5. ASSUME NEW c \in Completions(spec) PROVE c = <<r, n, s>>
  <2>1. /\ c = <<c[1], c[2], c[3]>>
        /\ c[1] \in project.routers /\ spec.router \in {None, c[1]}
        /\ c[2] \in Range(NetworksOf(c[1])) /\ spec.network \in {None, c[2]}
        /\ c[3] \in SubnetsOf(c[2]) /\ spec.subnet \in {NoSubnet, c[3]}
    BY <1>5 DEF Completions, NetworksOf
  <2>2. c[1] = r
    BY <1>1, <2>1
  <2>3. c[2] = n
    BY <1>2, <2>1, <2>2
  <2>4. c[3] = s
    BY <1>3, <2>1, <2>3
  <2> QED BY <2>1, <2>2, <2>3, <2>4
<1> QED BY <1>4, <1>5

\* A discovery that succeeds has made no choice of its own, in any project: what
\* it stores is the only router, network and subnet that fit together and fit
\* what the user gave.
THEOREM NoGuess == Spec => NothingGuessed
<1>1. DiscoveryInv /\ [Next]_vars =>
        [outcome' = "ok" => Completions(spec) = {<<spec'.router, spec'.network, spec'.subnet>>}]_vars
  <2> SUFFICES ASSUME DiscoveryInv, Next, outcome' = "ok"
               PROVE  Completions(spec) = {<<spec'.router, spec'.network, spec'.subnet>>}
    OBVIOUS
  <2>1. DiscoverOpenstackInfo
    BY DEF Next, ProjectChanges
  <2> QED BY <2>1, GuessLemma DEF DiscoveryInv
<1> QED BY <1>1, DiscoveryInvariant, PTL DEF Spec, NothingGuessed
=============================================================================
