------------------------------ MODULE Discovery ------------------------------
(***************************************************************************)
(* discoverOpenstackInfo of pkg/controller/ground.go: completes the        *)
(* OpenStack parameters of a pending kluster from what it finds in the     *)
(* project.  In GroundControl this is the choice between osPut and failed; *)
(* here it is the selection itself, with the listings of the OpenStack     *)
(* client.  A discovery that fails is retried and may meet another project *)
(* then.                                                                   *)
(***************************************************************************)
EXTENDS Integers, Sequences, FiniteSets, Functions

CONSTANTS
  Routers,      \* router ids
  Networks,     \* network ids
  MaxPorts,     \* bound: interfaces of a router
  MaxSubnets,   \* bound: subnets of a network
  MaxChanges    \* bound: changes of the project between two attempts

ASSUME DiscoveryBounds ==
  MaxPorts \in Nat /\ MaxSubnets \in Nat /\ MaxChanges \in Nat
ASSUME FiniteRouters == IsFiniteSet(Routers)

VARIABLES
  project,   \* the project: its routers, their interfaces, subnets, groups
  spec,      \* kluster.Spec.Openstack
  outcome,   \* of the last discovery
  changes    \* changes of the project so far

vars == <<project, spec, outcome, changes>>

None == "none"
Fail == "fail"

\* No id is empty, and none is an error.
ASSUME IdsAssumption == {None, Fail} \cap (Routers \cup Networks) = {}

Subnets == Networks \X (1..MaxSubnets)

\* The default security groups of the project are counted: the client asks for
\* the name "default".
Projects ==
  [routers : SUBSET Routers,
   ports : [Routers -> UNION {[1..n -> Networks] : n \in 0..MaxPorts}],
   subnets : [Networks -> 0..MaxSubnets],
   groups : 0..2]

\* What the user gave; the rest is None.
NoSubnet == <<None, 0>>

Specs(groups) ==
  [project : {None, "account"}, router : Routers \cup {None},
   network : Networks \cup {None}, subnet : Subnets \cup {NoSubnet},
   group : groups]

SubnetsOf(n) == {n} \X (1..project.subnets[n])

\* getRouterNetworks: a network for every interface port, so a network with two
\* interfaces is listed twice.
NetworksOf(r) == project.ports[r]

TypeOK ==
  /\ project \in Projects
  /\ spec \in Specs({None, "given", "default"})
  /\ outcome \in {"none", "ok", "error"}
  /\ changes \in 0..MaxChanges

Init ==
  /\ project \in Projects
  /\ spec \in Specs({None, "given"})
  /\ outcome = "none"
  /\ changes = 0

-----------------------------------------------------------------------------
\* Mutant of RequiresOpenstackInfo: discovery goes on until there is a group.
RequiresGroupToo(s) ==
  s.project = None \/ s.router = None \/ s.network = None \/ s.subnet = NoSubnet
    \/ s.group = None

RequiresOpenstackInfo(s) ==
  s.project = None \/ s.router = None \/ s.network = None \/ s.subnet = NoSubnet

TheOnly(S) == CHOOSE x \in S : TRUE

\* Mutant of SelectRouter: the first router will do.
SelectFirstRouter ==
  CASE spec.router \in project.routers                      -> spec.router
    [] spec.router = None /\ project.routers # {}           -> TheOnly(project.routers)
    [] OTHER                                                -> Fail

\* The router given must exist; without one there must be exactly one.
SelectRouter ==
  CASE spec.router \in project.routers                      -> spec.router
    [] spec.router = None /\ Cardinality(project.routers) = 1 -> TheOnly(project.routers)
    [] OTHER                                                -> Fail

\* The same for the networks of that router, by the number of its interfaces.
SelectNetwork(r) ==
  CASE spec.network \in Range(NetworksOf(r))                -> spec.network
    [] spec.network = None /\ Len(NetworksOf(r)) = 1        -> NetworksOf(r)[1]
    [] OTHER                                                -> Fail

\* And for the subnets of that network.
SelectSubnet(n) ==
  CASE spec.subnet \in SubnetsOf(n)                         -> spec.subnet
    [] spec.subnet = NoSubnet /\ project.subnets[n] = 1     -> <<n, 1>>
    [] OTHER                                                -> <<Fail, 0>>

\* GetSecurityGroupID.  The pager does not call the handler for an empty page,
\* so a project without a default group yields the empty id and no error.
SelectGroup ==
  CASE spec.group # None    -> spec.group
    [] project.groups = 0   -> None
    [] project.groups = 1   -> "default"
    [] OTHER                -> Fail

DiscoverOpenstackInfo ==
  /\ RequiresOpenstackInfo(spec)
  /\ \/ LET r == SelectRouter
            n == IF r = Fail THEN Fail ELSE SelectNetwork(r)
            s == IF n = Fail THEN <<Fail, 0>> ELSE SelectSubnet(n)
        IN  IF s = <<Fail, 0>> \/ SelectGroup = Fail
            THEN outcome' = "error" /\ UNCHANGED spec
            ELSE /\ outcome' = "ok"
                 /\ spec' = [project |-> IF spec.project = None THEN "account" ELSE spec.project,
                             router |-> r, network |-> n, subnet |-> s,
                             group |-> SelectGroup]
     \/ outcome' = "error" /\ UNCHANGED spec    \* a call fails
  /\ UNCHANGED <<project, changes>>

\* The user creates or deletes a router, a subnet or a group before a retry.
ProjectChanges ==
  /\ outcome = "error"
  /\ changes < MaxChanges /\ changes' = changes + 1
  /\ \/ \E r \in Routers :
          project' = [project EXCEPT !.routers = IF r \in @ THEN @ \ {r} ELSE @ \cup {r}]
     \/ \E n \in Networks, c \in 0..MaxSubnets :
          project' = [project EXCEPT !.subnets[n] = c]
     \/ \E c \in 0..2 : project' = [project EXCEPT !.groups = c]
  /\ UNCHANGED <<spec, outcome>>

Next == DiscoverOpenstackInfo \/ ProjectChanges

Spec == Init /\ [][Next]_vars

-----------------------------------------------------------------------------
(* Properties.                                                             *)

\* Every way to complete a spec that the project allows.
Completions(s) ==
  {c \in Routers \X Networks \X Subnets :
     /\ c[1] \in project.routers
     /\ c[2] \in Range(project.ports[c[1]])
     /\ c[3] \in SubnetsOf(c[2])
     /\ s.router \in {None, c[1]}
     /\ s.network \in {None, c[2]}
     /\ s.subnet \in {NoSubnet, c[3]}}

\* A discovery that succeeds has made no choice of its own: what it stores is
\* the only router, network and subnet that fit together and fit what was given.
NothingGuessed ==
  [][outcome' = "ok" =>
       Completions(spec) = {<<spec'.router, spec'.network, spec'.subnet>>}]_vars

\* A kluster is discovered at most once: what a discovery stores is all that
\* handler asks for, so that the kluster goes on to its next step.
DiscoveredOnce == outcome = "ok" => ~ RequiresOpenstackInfo(spec)
=============================================================================
