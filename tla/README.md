# Kubernikus: TLA+ specifications, model checking and proofs

Kubernikus runs Kubernetes control planes as a service on OpenStack. A user
creates a *kluster* with a REST request; the operator installs its control plane
with Helm, and keeps pools of OpenStack servers as its nodes. This directory
models the parts of the repository (`src/`) that change the state of a kluster
and the ways to it (the API, the tunnel to its nodes, the files of its users),
checks them with TLC on small instances and proves their safety with TLAPS for
instances of any size.

- [The system](#the-system)
- [The modules](#the-modules)
- [The runs](#the-runs)
- [Findings](#findings)
- [The proofs](#the-proofs)
- [Bounds and fairness](#bounds-and-fairness)
- [Not modelled](#not-modelled)
- [Plan](#plan)

## The system

| Component | State it keeps | Operations | Talks to |
|---|---|---|---|
| REST handlers, `pkg/api/handlers` | none; the kluster object lives in the Kubernetes API server | POST, PUT, DELETE of a kluster; read-only requests | API server |
| Informers, `pkg/controller/operator.go` | a cache of klusters and pods that follows the API server | apply an event, notify the handlers | every controller |
| Work queue, client-go `workqueue` | queue, dirty, processing and waiting sets, failure counts | Add, Get, Done, AddAfter, AddRateLimited, Forget, ShutDown | controllers |
| Base controller, `pkg/controller/base` | its queue, its workers | event handlers, ticker, `processNextWorkItem` | informer, a reconciler |
| Ground controller, `pkg/controller/ground.go` | its queue; phase and parameters of the kluster | discover, create, seed, update phase, terminate | API server, OpenStack identity and network, Tiller |
| Launch controller, `pkg/controller/launch` | status of the node pools | `Reconcile`, `reconcilePool`, pool manager | API server, OpenStack compute |
| OpenStack client, `pkg/client/openstack` | provider clients by kluster UID, domain ids | users, roles, routers, servers | OpenStack |
| Generated API server and client, `pkg/api/rest`, `pkg/api/client` | token cache, links | route, authenticate, authorize, bind, respond; send, read | handlers, Keystone |
| Wormhole server, `pkg/wormhole/server` | routes per node, iptables rules | add and delete a node, periodic recheck | node informer, tunnel, iptables |
| iptables runner, `pkg/util/iptables` | flags of the installed iptables | EnsureChain, EnsureRule, RestoreAll | iptables, the xtables locks |
| Route garbage collector, `pkg/controller/routegc` | none | list servers, read and rewrite the router | OpenStack network |
| kubernikusctl, `pkg/cmd/kubernikusctl` | entries of kubeconfig files | auth init, auth refresh; create, get, delete | REST API, other tools |
| templates, charts, metrics | none that others read | | |

How they interact: a request changes the object in the API server; the change
reaches the informer's cache some time later and puts the key of the kluster in
the queue of the ground controller and of the launch controller. Both read the
*cache*, call OpenStack, Tiller and the API server, and write the object with a
Get and an Update that fails with a conflict when another write came first. The
two controllers and the API never talk to each other but through the phase and
the status in that object.

What is hard here, and what makes each part correct:

- **Base controller.** Several workers, event callbacks, a ticker and delayed
  retries share one queue. Correct: one worker per kluster, no change lost, a
  bounded number of retries, nothing left of a kluster that is gone.
- **Ground controller.** A step takes many calls, each of which may fail or
  succeed with its answer lost; the operator may restart between any two; the
  cache is stale; users change the object meanwhile. Correct: the phase never
  promises a control plane that is not there, the credentials of a running
  kluster work, a kluster that is gone leaves nothing, a kluster comes up and
  goes down in the end.
- **Launch controller.** It decides from a listing of servers that change while
  it acts. Correct: never more nodes than asked for, never fewer because of it,
  it rests only when there is nothing to wait for, pools reach their size.
- **Discovery.** Correct: it completes what the user gave only where there is
  exactly one possibility.
- **Wormhole.** A worker, an informer and a ticker share an unlocked map; the nat
  table outlives the process; other programs compete for the xtables lock; retries
  end. Correct: a node that is gone leaves no route and no redirect, a complete
  node is served in the end, locks are returned on every error path.
- **REST API.** Requests run concurrently with each other and with the operator;
  the caller may give up while the handler goes on; client and server each state
  the contract. Correct: a caller learns what happened, no write rolls another one
  back, only administrators of a project change its klusters.
- **kubernikusctl.** Long pauses lie between loading and writing a kubeconfig.
  Correct: the certificate ends where the command was told, other entries stay.
- **Route garbage collector.** Lists servers, then reads and rewrites the router
  (see [Plan](#plan)).

`PROJECT.json` lists all hazards with the line where each bites and the
properties that would show it.

## The modules

| Module | Models | Remarks |
|---|---|---|
| `WorkQueue` | the rate limited queue of client-go | operators on a queue value; used by three modules |
| `BaseController` | `base/controller.go` | any number of keys and workers |
| `MCBaseController` | | instances for TLC |
| `WorkQueueProofs`, `BaseControllerProofs` | | lemmas and theorems |
| `KlusterApi` | REST handlers, the kluster object, its informer cache | one kluster name; used by two modules |
| `GroundControl` | `ground.go`, service user calls, waiting for the cache | `EXTENDS KlusterApi, WorkQueue` |
| `GroundControlProofs` | | theorems, the refinement among them |
| `KlusterLifecycle` | what the ground controller promises: phase and control plane | abstract specification, implemented by `GroundControl` |
| `MCGroundControl` | | instances: which calls may fail |
| `Discovery`, `MCDiscovery` | `discoverOpenstackInfo` and the listings it uses | a selection algorithm, over all small projects |
| `DiscoveryProofs` | | theorems |
| `Launch`, `MCLaunch` | `launch/controller.go`, `launch/pool_manager.go`, node calls of the OpenStack client | `EXTENDS KlusterApi` |
| `LaunchProofs` | | theorems |
| `Version` | `pkg/util/version` | a pure algorithm; `Before` is what its comments promise |
| `Iptables` | `pkg/util/iptables` | operators and external programs; `EXTENDS Version` |
| `Tunnel`, `MCTunnel` | `pkg/wormhole/server/controller.go` | `EXTENDS Iptables, WorkQueue` |
| `TunnelProofs` | | theorems, about `Iptables` and `Version` too |
| `ApiProtocol` | one definition per generated file of `client/operations` and `rest/operations` | tables, no state |
| `RestApi`, `MCRestApi` | `pkg/api/auth`, `pkg/api/handlers`, routing and validation | `EXTENDS ApiProtocol` |
| `RestApiProofs` | | theorems, about `ApiProtocol` too |
| `Kubeconfig`, `MCKubeconfig` | `auth init`, `auth refresh` of kubernikusctl | |
| `KubeconfigProofs` | | theorems |

**WorkQueue.** A queue is a record of `queue` (sequence), `dirty`, `processing`
(sets), `waiting` (keys whose delay has not passed), `failures` (the rate
limiter) and `shuttingDown`. Every method is one critical section of the code and
one operator here. Delays have no length: a waiting key may become due any time.
Adding a key that already waits keeps one entry, because the second of two entries
only repeats `Add`.

**BaseController.** `indexer` is the set of existing klusters, `notify` the
notifications the informer has not delivered, `sweep` the klusters the ticker has
still to queue, `pc` and `item` the workers. `NumRequeues` and the call after it
are separate steps because they lock separately. `unseen` is history: klusters
changed since a worker last looked them up. `Reconcile` may return any outcome.

**KlusterApi.** `store` is the object in the API server, `watch` the versions not
yet delivered, `cache` the informer's copy. A resourceVersion is abstracted to
`fresh`, the clients whose last Get is still current: every write that changes the
object empties it, and the Update of a client outside it is a conflict. The DELETE
handler is two steps, its check of the status and its edit. Names, images, CIDRs
and DNS settings are left out; whether the OpenStack parameters and the URLs are
set is a Boolean each.

**GroundControl.** One step per call of `handler`: `pc` names the next call. The
secret of the release is `none`, `match` or `stale`, comparing its password with
that of the service user, since every attempt of `createKluster` sets a new
password. `Faulty` names the calls that may fail in a run; the ones ending in
`Late` take effect all the same, and only their answer is lost: an installation, an
update of the phase, the deletion of a release, the Delete of the kluster. `Crash` loses queue, cache and program counter.
`Wait` and `WaitGone` are the waits for the cache; `behind` says how far the cache
is behind the worker's own write, and `WaitTimesOut` whether it may lag longer than
the five seconds the code waits. Only one worker is modelled: `Exclusion` shows
that the queue hands a key to one worker at a time. `stranded` is history: the
release of this kluster was installed and its phase not updated, because of a
failure or a restart in between; `ComesUp` excepts it. `deletion` is history too:
the worker's own deletion is `seen`, or `unseen` when the worker went on without its
cache showing it (the answer of the Delete was lost, so that the code does not wait,
or the wait timed out), or `overtaken` when a retry then took up the deleted kluster
from the cache. From there on the worker may take a successor of the same name for
the kluster it was asked to terminate. `Trusted` says that this has not happened, and
the safety properties promise nothing once it has. Tiller and Keystone are
external: Tiller refuses an installed name, a half failed installation leaves the
release with or without its secret, a release that is purged takes its secret.

**KlusterLifecycle.** Three variables, `phase`, `plane` and `trusted`.
`GroundControl` implements it with `phase <- store.phase, plane <- release,
trusted <- Trusted` (`ImplementsLifecycle`). It also says what is *not* promised: a
termination that arrives while the controller is busy may be overwritten (`Created`
and `Booted` in phase Terminating), and the promise ends (`Overtake`, `Unpromised`)
when the controller takes up a kluster it has deleted; see [Findings](#findings).

**Discovery.** A project has routers, each with a list of interface ports, so a
network with two interfaces counts twice as in the code; networks have subnets;
default security groups are counted. The reference definition is `Completions`,
all ways to complete a spec.

**Launch.** A server is its pool, task state, VM state and whether its power state
is above 1; `Starting`, `Stopping` and `Running` are the code's. Compute moves
servers on its own (`Nova`) and lets them fail, stop, reboot and come back
(`NovaEvent`). `Reconcile` runs pool by pool, call by call; `seen` is the kluster
it was called with. The ground controller appears as the three changes that matter
here (`Ground`). `again` says whether the base controller was told to call again;
`came` and `lost` are history: servers that came into or fell out of service since
the pool was listed. `Serving` is what is in service in truth, stated without the
code's predicates.

**Version, Iptables.** The text of a version is a record (does it match, its
numbers, superfluous zeros, pre-release identifiers); `CompareInternal` walks the
components of its left argument only, as the code does. The nat table is the
chain, the number of jumps to it and its rules. `lock16` and `lock14` say who holds
the file lock and the abstract socket. iptables is external: which flags and which
lock a version has, how it exits under a held lock. A call fails for such a reason
or, as a fault, because a program (`iptables`, `iptables-save`, `iptables-restore`)
cannot be run or a lock file cannot be opened (`CallFails`).

**Tunnel.** A node is absent, incomplete, or has a CIDR (its address is its name).
`notify` are events not yet delivered, `q` the queue, `pc` and `cur` the worker
between two calls, `store` the unlocked map, `client` and `generic` the routes of
the tunnel. Adding or deleting the routes of a node is one step with `Get`: nobody
else touches them. `redoIPTablesSpratz` is one step per call, and one per line,
because the node may change between two lookups. `Recheck` queues one stored node
at a time: the ticker's goroutine ranges over the map while the worker runs. `Crash` keeps the nat table only;
it stands also for the fatal error of a map written while it is ranged over.
`givenUp` is history.

**ApiProtocol, RestApi.** go-swagger writes the contract of an operation into six
files: how the client submits it, its parameters, how the response is read; how the
server serves it, binds the parameters, responds. `ApiProtocol` has one definition
for each, `Operations` joins them; `NAME` in a path stands for its placeholder. In `RestApi` a request passes through all six: it
is submitted, routed with `HandlerFor`, refused by the first failing stage of
`ServeHTTP` or handed to its handler, and `ReadResponse` says what the caller makes
of the answer. Requests live in slots and run concurrently; a handler takes one
step per request to Kubernetes, so that the two Gets of DELETE and the Get and
Update of `editCluster` can be interleaved with everything else. `fresh` says that
the copy of a handler is the current version. Authentication is three steps, as in
`Validate` of the keystone library: the lookup in the token cache, the request to
Keystone, and the entry in the cache, which comes with the first step of the handler.
A token that is revoked between the second and the third is cached all the same and
accepted until the entry expires. A write to Kubernetes succeeds, fails, or takes
effect with its answer lost (`AnswerLost`), which the handler reports as a 500. `did`
and `got` are history: whether the request changed a kluster or made a change that
was not confirmed, and the account labels of the klusters it returned. A name is a
sequence of parts, ids of accounts among them; `QualifiedName` appends the caller's
account unless the name contains it anywhere. A name that contains another account
besides the caller's is therefore taken as it is and may be the kluster of another
project; `OwnKlustersOnly` and `ChangedByAdmin` promise the project only for names
without another account, and say of the others that the caller's account is in the
name. A body is reduced to what validation says of its parts and to its list of
pools. A panic of a handler is the status code 0: the connection is closed. The
operator is the few changes that matter here.

**Kubeconfig.** A file maps contexts to entries; an entry stands for cluster,
context and user of one name and is a number: no entry, one of another cluster, one
whose metadata cannot be read, or a certificate. A command loads a file, fetches a
certificate and writes; other commands and tools write in between. `ModifyConfig` is
the vendored clientcmd's: an entry that differs from the target's goes to the file it
was loaded from, a new one to the target, and what the configuration lacks is deleted
from the target. Its comparison includes the file an entry was loaded from, so that
with another target every entry is written back. `alone` is
history: nobody else changed the file the command is going to write.

## The runs

| Run | Checks | Instance | Shows |
|---|---|---|---|
| `base_safety` | `MutualExclusion`, `RetryBound`, `NoLostWakeup`, `HistoryHasAttempt`, `IndInv` | 2 klusters, 2 workers, 2.6 million states | the queue discipline holds under all interleavings; the invariant of the proofs holds |
| `base_live` | `EveryChangeSeen`, `DeletedKeyDrains` | the same, smaller | no kluster starves; a deleted kluster leaves the queue |
| `ground_safety` | `ReleaseBacksPhase`, `CredentialsMatch`, `NothingLeftBehind`, `OnlyRequestedDeleted`, `ImplementsLifecycle` | 4 requests, 2 failures or lost answers (but of a phase update), 1 restart, 2.8 million states | the lifecycle is safe when the cache keeps up within the wait, until the worker takes up a kluster whose deletion it could not see |
| `ground_faults` | `ReleaseUnlessTerminated`, `NothingLeftBehind`, `ComesUp`, `TerminationCompletes` | 3 requests, 1 failure of any call or of its answer, 1 restart, any lag of the cache; fairness | what remains without that assumption (as long as the worker is `Trusted`); no failure or restart stops a termination, and only a swallowed error stops a creation |
| `ground_accepted` | `AcceptedStaysTerminating` | violated | see Findings |
| `discovery` | `NothingGuessed`, `DiscoveredOnce` | 2 routers, 2 networks, up to 2 ports and 2 subnets each, all specs | discovery never guesses and never loops |
| `launch_safety` | `NoOvershoot`, `NoUndershoot`, `QuietMeansSettled` | 2 pools of up to 2 nodes, 3 servers, 1 request, 1 failure, 2.5 million states | pools are neither overfilled nor emptied by stale listings; no early rest with several pools |
| `launch_live` | `Converges` | 1 pool, 2 servers, 2 requests, 1 failure | pools reach their size after a resize, a failure, or a termination and a new kluster |
| `launch_orphans` | `NoOrphans` | violated | see Findings |
| `wormhole` | `TypeOK`, `GoneLeavesNoRoute`, `LocksReturned`, `JumpOnce`, `FlagsSupported`, `EventuallyServed`, `StaleRedirectGoes` | 2 nodes, 1 CIDR, 3 changes of nodes, 1 fault, 5 hosts; fairness; 329,000 states | routes, redirects and locks survive retries, restarts, competing programs and programs that cannot be run |
| `rest_api` | `TypeOK`, `OutcomeTruthful`, `ClientReadsServer`, `OwnKlustersOnly`, `LinksFetchedOnce`, `ChangedByAdmin`, `NoRollback`, `CallReturns`, `RevokedRefused` | 2 concurrent requests out of 17, 2 projects, 4 tokens, 2 steps of the operator or faults; fairness; 523,000 states | a caller is told of a success exactly when the change was confirmed, and only the right callers make changes |
| `kubeconfig_path` | `PathHonoured` | violated | see Findings |

Each property of a passing run has a mutant in `PROJECT.json`, a plausible bug of
the code that makes the run fail. Deadlock is checked in the runs of the base
controller. It is not in the others: requests and failures are bounded there, and
a system with no work left stops.

## Findings

1. `ground_accepted`: `updatePhase` writes its phase whatever the phase of its
   fresh copy is. A DELETE that arrives while the kluster is being created or
   seeded is answered with 202 and then overwritten.
2. `launch_orphans`: the DELETE handler looks for nodes in the status, which is set
   only when a pool is complete, and the ground controller does not wait for the
   launch controller. Nodes created around a DELETE stay without a kluster.
3. `kubeconfig_path`: `auth refresh --kubeconfig FILE` reads the context from FILE
   and writes the new certificate to the default file; `auth init` honours the flag.

More facts found while modelling are stated by the shape of properties or by notes
of the hazards:

- a success that asks for a requeue keeps the failure history, although the comment
  in `processNextWorkItem` says it is forgotten on every success;
- an error of `updatePhase` is logged and not returned: when the release is
  installed and the update fails, the kluster stays Pending, as every further
  attempt is refused by Tiller after it has changed the password of the service
  user (`stranded` in `ComesUp`);
- the pager does not call the handler for an empty page, so "Security group not
  found" is never reported and a kluster gets no group (`SelectGroup`);
- a node that became complete after five failures is not served before the tunnel
  controller restarts, and a stored node that is incomplete blocks the restore of
  all (`givenUp` and `Blocked` in `EventuallyServed`);
- a kluster whose release never got its secret leaves its service user behind
  (`NothingLeftBehind` speaks of klusters that had one);
- a cache that lags longer than five seconds may tear a control plane down while the
  phase is overwritten (`ReleaseUnlessTerminated` instead of `ReleaseBacksPhase`);
- a retry that takes up a kluster the worker has already deleted may cost a new
  kluster of the same name its user, its release or its resource: the worker
  terminates the old kluster once more, by name. It happens when the Delete takes
  effect and its answer is lost, because the code then does not wait for its cache
  (create, terminate and create are enough), or when the cache lags behind the
  deletion by more than the five seconds of the wait (`Trusted` names the case);
- a token that is revoked while a request with it is between its validation and its
  entry in the cache is accepted for the time of the cache (`RevokedRefused` speaks of
  tokens without such a request);
- a 500 of the API does not say that nothing was changed: the answer of Kubernetes may
  have been lost (`OutcomeTruthful` speaks of confirmed changes);
- a name that contains the accounts of two projects is one kluster for both
  (`OwnKlustersOnly`);
- node pools are not validated: `KlusterSpec.validateNodePools` looks at none, so the
  size of a pool is not limited to the 127 of `swagger.yml`, and a PUT may name two
  pools alike;
- a command of kubernikusctl overwrites what others wrote to the kubeconfig since it
  loaded it (`alone` in `OthersKept`).

## The proofs

Every safety property that a passing run checks is also proved, for every value of
the constants: any number of keys, workers, pools, servers, nodes, requests, failures
and restarts. Each module of proofs states an inductive invariant, checked with TLC
before it was proved; the properties follow from it, or from it and one step.

### Base controller and queue

`BaseControllerProofs` proves, for every finite or infinite set of klusters and
workers and every retry limit:

| Theorem | States |
|---|---|
| `Invariance` | `Spec => []IndInv` |
| `TypeCorrect` | `Spec => []TypeOK` |
| `Exclusion` | `Spec => []MutualExclusion` |
| `BoundedRetries` | `Spec => []RetryBound` |
| `WakeupsKept` | `Spec => []NoLostWakeup` |
| `HistoryNotLeaked` | `Spec => []HistoryHasAttempt` |

Assumptions: `RetriesAssumption` and `NotifyAssumption`, that the two bounds are
natural numbers. Nothing else is assumed of the constants.

Why an inductive invariant is needed: `MutualExclusion` says nothing of what the
queue will hand out next. `IndInv` adds that

- the queue is well formed (`WellFormed`): a key is in `queue` at most once, and
  exactly if it is dirty and not being processed;
- `processing` is the set of the items the workers hold (`WorkersHoldItems`).
  Then `Get` returns a key no worker holds;
- a worker about to retry has seen a count below the limit that is still valid
  (`RetryAllowed`), which needs exclusion: nobody else counts for that key;
- a change nobody looked at is undelivered, dirty, or about to be looked up
  (`ChangeIsPending`), from which `NoLostWakeup` follows by well-formedness;
- a worker that is done has scheduled what has a failure history
  (`FinishedIsScheduled`).

`WorkQueueProofs` has a lemma per operator that says what it does to the sets of the
queue and that it keeps it well formed; `BaseControllerProofs` has a lemma per group
of actions (informer, adding, workers moving, workers ending) and `NextLemma`
puts them together. The lemmas serve `GroundControl` and `Tunnel` as well.

### Ground controller

| Theorem | States | Under |
|---|---|---|
| `DeletionInvariant`, `TypeCorrect` | `Spec => []DeletionInv`, `[]TypeOK` | |
| `CleanDeletion` | `Spec => []NothingLeftBehind` | |
| `ReleaseKept` | `Spec => []ReleaseUnlessTerminated` | |
| `NoSuccessorDeleted` | `Spec => OnlyRequestedDeleted` | |
| `PhaseInvariant` | `Spec => []PhaseInv` | `Prompt` |
| `ReleaseThere` | `Spec => []ReleaseBacksPhase` | `Prompt` |
| `CredentialsGood` | `Spec => []CredentialsMatch` | `Prompt` |
| `Refinement` | `Spec => ImplementsLifecycle` | `Prompt` |

All of them speak of a `Trusted` worker, one that has not taken up a kluster it had
deleted; the answer of a Delete may be lost in all of them, and the theorems cover
what happens up to the retry on the stale cache.

`Prompt` says that the wait for the cache does not time out and that no answer to an
update of the phase is lost; it is how run `ground_safety` is set up, every other
call may fail in every way, the Delete included. Without it the last four do not hold: run
`ground_faults` therefore checks the weaker `ReleaseUnlessTerminated`, which needs no
such hypothesis.

The difficulty is that the worker acts on `cache` and the properties speak of
`store`. The invariants are about `Seen`, the phases the worker has yet to see: that
of the cache, then those of the versions in `watch`, the last of which is the store's
(`Latest`). `DeletionInv` says of this list that no deletion is in it but the one the
worker waits for or went on without (`OneDeletion`; `behind` is its place), that no version goes back to Pending
(`PendingFirst`), that Terminating stands only in versions of a kluster whose
termination was accepted (`Requested`), and that what has been torn down is not built
again (`Undone`). `PhaseInv` adds that only requests lie between two versions
(`InOrder`), that the phase the worker waits for is new to it (`Unseen`), that every
version in phase Creating or Running is backed by a control plane whose credentials
work (`BackedSeen`), and which phases the worker may meet at each of its calls
(`Progress`). Three lemmas say what happens to `Seen` (a version is appended, the
first is applied, the informer starts over), and each action is one of them. The
refinement needs both invariants: a step that removes the release must be one
`KlusterLifecycle` allows in the phase of the store.

### Launch controller

| Theorem | States | Under |
|---|---|---|
| `PoolInvariant`, `LaunchTypes` | `Spec => []PoolInv`, `[]TypeOK` | |
| `PoolKept` | `Spec => []NoUndershoot` | |
| `PageInvariant` | `Spec => [](PoolInv /\ PageInv)` | `OnePage` |
| `PoolNotExceeded` | `Spec => []NoOvershoot` | `OnePage` |
| `QuietSettled` | `Spec => []QuietMeansSettled` | `OnePage` |

`OnePage`: the servers fit on one page of a listing. It is needed, since every page
replaces the one before it and nodes on the lost pages are created again; `PoolKept`
does without it, as nodes that were not listed are not deleted.

`NoOvershoot` compares a count of the code with a count of the truth. `Sound` closes
the gap: a build is in service (`Shape`), so what `Running` and `Starting` count is
what is `Serving` (`ListingLemma`, `KeptLemma`, `LiveLemma`, with the cardinality
theorems of the library), and a loop that creates has at least one node to create. A
move of OpenStack changes the counts by at most one, which `came` and `lost` record
(`MoveLemma`). `QuietMeansSettled` needs `Visited`: the pools already looked at in
this Reconcile, unless another call was asked for, have settled, and OpenStack alone
never unsettles a node.

### Discovery

`DiscoveryProofs` shows that discovery makes no choice of its own
(`NoGuess`: `Spec => NothingGuessed`) and is complete (`DiscoveryComplete`:
`Spec => []DiscoveredOnce`), in projects of any size. There is a lemma for each of
`SelectRouter`, `SelectNetwork` and `SelectSubnet`: what it returns is the only one
that fits. Assumed: finitely many routers, and that the markers for "none" and
"failed" are not ids.

### Tunnel and iptables

| Theorem | States |
|---|---|
| `TunnelInvariant`, `TunnelTypes` | `Spec => []TunnelInv`, `[]TypeOK` |
| `NoRouteLeft` | `Spec => []GoneLeavesNoRoute` |
| `LocksBack` | `Spec => []LocksReturned` |
| `OneJump` | `Spec => []JumpOnce` |
| `FlagsRight` | `Spec => []FlagsSupported` |

`TunnelInv` adds which lock the runner holds at which of its calls (`Locks`), that
every route in the tunnel is in the map, from which the worker deletes it
(`Routes`), and that a key at work is in `processing` (`Working`).
`CompareLemma` is about `compareInternal`: it is the order its comments promise when
the other version has no more numbers than the receiver. `HostsAssumption` therefore
takes versions of three or more numbers, which is what iptables prints.

### REST API

| Theorem | States |
|---|---|
| `RestInvariant`, `RestTypes` | `Spec => []RestInv`, `[]TypeOK` |
| `TruthfulOutcome` | `Spec => []OutcomeTruthful` |
| `ClientServer` | `Spec => []ClientReadsServer` |
| `AccountsApart` | `Spec => []OwnKlustersOnly` |
| `LinksOnce` | `Spec => []LinksFetchedOnce` |
| `CopiesCurrent` | `Spec => NoRollback` |
| `OwnAdmins` | `Spec => ChangedByAdmin` |
| `RevokedStays` | `Spec => RevokedRefused` |

The properties speak of responses and writes; what makes them hold is decided when
the request is admitted, several steps earlier, and the token may be revoked in
between. `RestInv` keeps that decision with every step of a handler (`CallGood`: the
role of the caller, the stage of the handler, what a response says of a change that
was confirmed or not), relates the copy of a handler to the stored kluster while it
is fresh (`FreshInv`), and says that a kluster is labelled with an account its name
contains (`OwnedInv`). From the last, a name without another account leads only to
klusters of the caller's project. `RevokedStays` needs that a request reaches its
handler only through the cache or a confirmation (`Guards`, `DeadLemma`). The tables
of the generated client and server are compared once (`SubmitTable` and the lemmas
after it). Assumed: names are any sequences of parts (`RequestAssumption`), ids of
accounts are parts, and the markers for "none" and "free" are told apart from parts
and slots (`NamesAssumption`).

### Kubeconfig

`KubeconfigProofs` proves, for any number of commands, contexts, certificates and
changes by other tools, and assuming only that auth refresh is not started with a
path (`Parameters`; the finding `kubeconfig_path` shows what happens otherwise):

| Theorem | States |
|---|---|
| `TypeCorrect` | `Spec => []TypeOK` |
| `AloneKeepsOthers` | `Spec => OthersKept`: a command alone with its file changes one entry |
| `PathsHonoured` | `Spec => PathHonoured`: the certificate ends in the file it was meant for |

Both action properties rest on `CopiesCurrent`: while a command is alone with the
file it is going to write, its copy is what the file holds. It is inductive because
every write marks the commands with the same target (`PersistInv`, `OtherToolInv`).
With it `ModifyConfig` finds no difference but the entry of the command's context.

### Only model-checked

Liveness (`EveryChangeSeen`, `DeletedKeyDrains`, `ComesUp`, `TerminationCompletes`,
`Converges`, `EventuallyServed`, `StaleRedirectGoes`, `CallReturns`): it needs
fairness and ENABLED, which are outside what the prover does.

## Bounds and fairness

- Queue: two keys and two workers give every pair of actors that can meet at one
  key or compete for another. `MaxRetries` (5 in the code) and the number of
  undelivered notifications are small because the counter is only compared with the
  limit. The proofs remove these bounds.
- Ground: one kluster name, since keys are independent; four requests are create,
  terminate, create again and one more; two failures reach a failure while another
  is handled; one restart may hit any step. Node pools matter only to the DELETE
  check and are reduced to one pool of size zero.
- Launch: sizes up to two exercise both loops more than once, three servers leave
  room for one that is out of service or belongs to the other pool. Liveness is
  checked with one pool of size one, resized, terminated and created again. Pages
  hold all servers in the runs: a page of OpenStack has 1000 entries, more than the
  127 nodes the API documents for a pool.
- Wormhole: two nodes are enough for one to block or outlive the other and to take
  over its CIDR; three changes are register, complete, go, or go and come back; one
  retry instead of five reaches the giving up; the hosts are one iptables of every
  kind (old, old and silent, with -w, with locks taken by the runner, with --wait).
- REST: two requests in flight are every pair of operations that can meet; two steps
  of the operator, or one and a fault, fit between the Get and the Update of both
  (`MaxEvents` counts both, `MaxFaults` the faults among them). The requests are every
  operation, callers with and without the role, an administrator of a second project,
  an unscoped token, a body for every way a POST can fail, and three names: plain,
  with the account of the first project, and with both accounts. One token may be
  revoked (`Revocable`), since what a token can do does not depend on its name. A
  request takes the first free slot: slots are interchangeable.
- Kubeconfig: two commands, two contexts, two files; the proofs remove the bounds.
- Symmetry is used for klusters, workers, servers, pools, routers and networks in
  runs without liveness; the modules never compare or order them.

Fairness. `BaseController`: the goroutines of listener, queue and workers run on and
`Reconcile` returns. `GroundControl`: calls return, informer and queue deliver, pods
that start become ready. `Launch`: the base controller calls `Reconcile` at least
every five minutes (its ticker), calls return, compute finishes what it starts, the
ground controller acts. `Tunnel`: worker, informer, queue and ticker run on, and
another program gives the xtables lock back. `RestApi`: a caller reads its response
or its timeout fires; nothing is assumed of handlers, Kubernetes or GitHub. In no
module anything is assumed of requests, failures or
restarts, which are bounded in number.

## Not modelled

- Generated code other than the operations of the API: listeners and TLS of
  `pkg/api/rest/server.go`, URL builders, marshalling, `pkg/generated`; vendored code
  except the work queue, `Validate` of the keystone library and `ModifyConfig`.
- Text generation: ignition templates, Helm values, charts, the output of
  kubernikusctl.
- Certificates (cryptography), metrics, logging, event recording, the Helm client
  (port forwarding), the tunnel library.
- Operations of the iptables runner nobody calls (FlushChain, DeleteChain,
  DeleteRule, reload).
- Time: delays, tickers and timeouts fire any time; the wait for the cache is a
  switch.
- The bodies of the seeding calls: one call that may fail and be repeated.
- Names as text: a name is a sequence of parts, so that an account is in a name as a
  whole or not at all.
- Several klusters at once beyond the queue and the API: servers of klusters whose
  names collide as prefixes, see the hazards.
- The route garbage collector, the caches of clients, `EnsureCRD` and
  `GetIndexedIP`, see the plan.

## Plan

Done: `WorkQueue`, `BaseController`; `KlusterApi`, `GroundControl`,
`KlusterLifecycle`; `Discovery`; `Launch`; `Version`, `Iptables`, `Tunnel`;
`ApiProtocol`, `RestApi`; `Kubeconfig`; proofs of the safety properties of all of
them.

Next, in this order:

1. Theorems beyond the properties of the runs: that `RestApi` implements the abstract
   handlers of `KlusterApi` (a request is atomic for the controllers); the weaker
   promise of `KlusterLifecycle` that holds without `Prompt`; the lemmas about the
   kluster resource, now stated in `GroundControlProofs` and `LaunchProofs`, once.
2. `RouteGC`: list, read, write against a cloud provider that adds routes; which
   routes it may remove, and the update it may lose.
3. `KlusterSystem`: `GroundControl` and `Launch` composed over one `KlusterApi`,
   with launch's view of `Ground` replaced by the real steps.
4. `Clients`: the caches of OpenStack and Kubernetes clients by kluster UID against
   deletion events and late calls; `EnsureCRD`; `GetIndexedIP` over bounded widths;
   seeding as create-or-update.
5. Pools dropped from the spec, small pages, pods counted (exactly four ready) as
   extensions of `Launch` and `GroundControl`.
