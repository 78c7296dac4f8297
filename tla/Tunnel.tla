------------------------------- MODULE Tunnel -------------------------------
(***************************************************************************)
(* pkg/wormhole: the controller that gives every node of a kluster its     *)
(* routes through the tunnel and redirects traffic for nodes and pods into *)
(* it.  One worker drains the queue; the informer and the periodic recheck *)
(* fill it.  A node is absent, incomplete (it has no address or no pod     *)
(* CIDR yet, which fails the same calls) or has a pod CIDR and an address, *)
(* which is its name here.  There is no handler for updates.               *)
(***************************************************************************)
EXTENDS Iptables, WorkQueue

CONSTANTS Nodes, Cidrs, Absent, Incomplete,
          Watched,     \* a node, any: the one the liveness properties speak of
          MaxRetries,  \* 5 in handleErr
          MaxChanges   \* changes of nodes

ASSUME RetriesAssumption == MaxRetries \in Nat

VARIABLES nodes,    \* the indexer of the informer
          notify,   \* keys whose handler has not run yet
          q,        \* the work queue
          pc, cur,  \* the worker: its next step, and what it works on
          store,    \* routes per node; a node without any is not in the map
          client, generic, \* the routes of the tunnel server
          givenUp,  \* keys dropped after too many errors and not yet queued again
          changes

tunnelVars == <<nodes, notify, q, pc, cur, store, client, generic, givenUp,
                changes>>

vars == <<iptablesVars, tunnelVars>>

Complete(n) == nodes[n] \in Cidrs

Present(n) == nodes[n] # Absent

Stored == {n \in Nodes : store[n] # {}}

Idle == [key |-> Absent, lines |-> {}, todo |-> {}]

TypeOK ==
  /\ nodes \in [Nodes -> Cidrs \cup {Absent, Incomplete}]
  /\ notify \subseteq Nodes
  /\ q \in [queue : Seq(Nodes), dirty : SUBSET Nodes, processing : SUBSET Nodes,
            waiting : SUBSET Nodes, failures : [Nodes -> 0..MaxRetries],
            shuttingDown : {FALSE}]
  /\ pc \in {"get", "chain", "jump", "write", "grab14", "restore"}
  /\ cur.key \in Nodes \cup {Absent}
  /\ store \in [Nodes -> SUBSET (Cidrs \cup Nodes)]
  /\ client \subseteq (Cidrs \cup Nodes) \X Nodes
  /\ generic \subseteq Cidrs \cup Nodes
  /\ givenUp \subseteq Nodes
  /\ nat.rules \subseteq Cidrs \cup Nodes \cup {ServiceCIDR}
  /\ {lock16, lock14} \subseteq {"free", "runner", "other"}

\* NewController and Run on a kluster that has no nodes yet.
Init ==
  /\ IptablesInit
  /\ nodes = [n \in Nodes |-> Absent]
  /\ notify = {}
  /\ q = NewRateLimitingQueue(Nodes)
  /\ pc = "get" /\ cur = Idle
  /\ store = [n \in Nodes |-> {}]
  /\ client = {} /\ generic = {} /\ givenUp = {}
  /\ changes = 0

-----------------------------------------------------------------------------
\* The node as the cluster changes it (external): it registers, becomes complete
\* and goes.  No two nodes have the same CIDR at a time.
NodeChanges(n, to) ==
  /\ changes < MaxChanges
  /\ changes' = changes + 1
  /\ to # nodes[n]
  /\ to \in Cidrs => \A m \in Nodes : nodes[m] # to
  /\ Complete(n) => to = Absent
  /\ nodes' = [nodes EXCEPT ![n] = to]
  \* AddFunc and DeleteFunc are told, an update is not.
  /\ notify' = IF Present(n) /\ to # Absent THEN notify ELSE notify \cup {n}
  /\ UNCHANGED <<iptablesVars, q, pc, cur, store, client, generic, givenUp>>

\* The handlers of NewController.
HandleEvent(n) ==
  /\ n \in notify
  /\ notify' = notify \ {n}
  /\ q' = Add(q, n)
  /\ givenUp' = givenUp \ {n}
  /\ UNCHANGED <<iptablesVars, nodes, pc, cur, store, client, generic, changes>>

DelayPasses(n) ==
  /\ n \in q.waiting
  /\ q' = WaitingLoop(q, n)
  /\ UNCHANGED <<iptablesVars, nodes, notify, pc, cur, store, client, generic,
                 givenUp, changes>>

\* The recheck of Run queues every key of the map, one after the other and
\* without a lock: the worker goes on between two of them.
Recheck(n) ==
  /\ n \in Stored
  /\ q' = Add(q, n)
  /\ givenUp' = givenUp \ {n}
  /\ UNCHANGED <<iptablesVars, nodes, notify, pc, cur, store, client, generic, changes>>

-----------------------------------------------------------------------------
\* Mutant of HandleErr: a key is retried for ever.
HandleErrRetries(w, n, err) ==
  /\ q' = Done(IF err THEN AddRateLimited(w, n) ELSE Forget(w, n), n)
  /\ pc' = "get" /\ cur' = Idle
  /\ givenUp' = givenUp

\* Mutant of HandleErr: an error drops the key as success does.
HandleErrDrops(w, n, err) ==
  /\ q' = Done(Forget(w, n), n)
  /\ pc' = "get" /\ cur' = Idle
  /\ givenUp' = givenUp

\* handleErr and the deferred Done of processNextWorkItem, on a queue w: nothing
\* shared is touched between the last call of reconcile and these.
HandleErr(w, n, err) ==
  LET retry == err /\ NumRequeues(w, n) < MaxRetries IN
  /\ q' = Done(IF retry THEN AddRateLimited(w, n) ELSE Forget(w, n), n)
  /\ pc' = "get" /\ cur' = Idle
  /\ givenUp' = IF err /\ ~ retry /\ n \notin w.dirty THEN givenUp \cup {n} ELSE givenUp

Goto(step) == pc' = step /\ UNCHANGED <<q, givenUp>>

Fail == HandleErr(q, cur.key, TRUE)

\* processNextWorkItem up to the lookup of reconcile: Get blocks until there is
\* a key.  A change between Get and the lookup would queue the key again.
Item == Head(q.queue)

Reconcile ==
  /\ q' = Get(q)
  /\ cur' = [Idle EXCEPT !.key = Item]
  /\ pc' = "chain"
  /\ givenUp' = givenUp

\* addNode adds the routes of a node to those it had before.  A node without
\* address or with an unparsable (empty) pod CIDR is an error before that.
AddNode ==
  /\ pc = "get" /\ CanGet(q)
  /\ Present(Item)
  /\ \/ /\ Complete(Item)
        /\ store' = [store EXCEPT ![Item] = @ \cup {nodes[Item], Item}]
        /\ client' = client \cup {<<nodes[Item], Item>>, <<Item, Item>>}
        /\ generic' = generic \cup {nodes[Item], Item}
        /\ Reconcile
     \/ /\ ~ Complete(Item)
        /\ HandleErr(Get(q), Item, TRUE)
        /\ UNCHANGED <<store, client, generic>>
  /\ UNCHANGED <<iptablesVars, nodes, notify, changes>>

\* Mutant of DelNode: the route to the pods stays.
DelNodeKeepsPods ==
  /\ pc = "get" /\ CanGet(q)
  /\ ~ Present(Item)
  /\ client' = client \ {<<Item, Item>>}
  /\ generic' = generic \ {Item}
  /\ Reconcile
  /\ UNCHANGED <<iptablesVars, nodes, notify, store, changes>>

\* delNode removes every route the node ever had and keeps them in the map.
DelNode ==
  /\ pc = "get" /\ CanGet(q)
  /\ ~ Present(Item)
  /\ client' = client \ (store[Item] \X {Item})
  /\ generic' = generic \ store[Item]
  /\ Reconcile
  /\ UNCHANGED <<iptablesVars, nodes, notify, store, changes>>

\* redoIPTablesSpratz, call by call: the chain, the jump, the lines.
RedoEnsureChain(ok) ==
  /\ pc = "chain"
  /\ EnsureChain(ok)
  /\ IF ok THEN Goto("jump") /\ cur' = cur ELSE Fail
  /\ UNCHANGED <<nodes, notify, store, client, generic, changes>>

\* SaveInto only decides whether the line of the chain keeps its counters.
RedoEnsureJump(ok) ==
  /\ pc = "jump"
  /\ EnsureRule(ok)
  /\ IF ok THEN Goto("write") /\ cur' = [cur EXCEPT !.todo = Stored, !.lines = {ServiceCIDR}]
           ELSE Fail
  /\ UNCHANGED <<nodes, notify, store, client, generic, changes>>

\* Mutant of WriteTunnelRedirect: a node's address is kept when it is deleted.
WriteTunnelRedirectKeeps(n) ==
  /\ pc = "write" /\ n \in cur.todo
  /\ cur' = [cur EXCEPT !.todo = @ \ {n}, !.lines = @ \cup {n}]
  /\ Goto("write")
  /\ UNCHANGED <<iptablesVars, nodes, notify, store, client, generic, changes>>

\* writeTunnelRedirect, for one key of the map after the other, looks the node
\* up again; one that has no address by now fails the call, one that has no CIDR
\* makes a malformed line.
WriteTunnelRedirect(n) ==
  /\ pc = "write" /\ n \in cur.todo
  /\ \/ /\ cur' = [cur EXCEPT !.todo = @ \ {n},
                        !.lines = IF Present(n) THEN @ \cup {n, nodes[n]} ELSE @]
        /\ Goto("write")
     \/ Present(n) /\ ~ Complete(n) /\ Fail
  /\ UNCHANGED <<iptablesVars, nodes, notify, store, client, generic, changes>>

\* RestoreAll takes the locks itself when iptables-restore cannot wait.
GrabLock(result) ==
  /\ \/ pc = "write" /\ cur.todo = {} /\ ~ runner.restoreWait /\ result \in {"grab14", "fail"}
     \/ pc = "grab14" /\ result \in {"restore", "fail"}
  /\ GrabIptablesLocks(result)
  /\ IF result = "fail" THEN Fail ELSE Goto(result) /\ cur' = cur
  /\ UNCHANGED <<nodes, notify, store, client, generic, changes>>

\* A line with an empty destination is malformed.
Restore(ok) ==
  /\ IF runner.restoreWait THEN pc = "write" /\ cur.todo = {} ELSE pc = "restore"
  /\ RestoreInternal(cur.lines, Incomplete \notin cur.lines, ok)
  /\ HandleErr(q, cur.key, ~ ok)
  /\ UNCHANGED <<nodes, notify, store, client, generic, changes>>

-----------------------------------------------------------------------------
\* The process ends and is started again: the nat table stays, the kernel frees
\* the locks, the informer lists every node.  A fatal error of the runtime is
\* one way to end: a write to the map while the recheck ranges over it.
Crash ==
  /\ faults < MaxFaults
  /\ faults' = faults + 1
  /\ notify' = {n \in Nodes : Present(n)}
  /\ q' = NewRateLimitingQueue(Nodes)
  /\ pc' = "get" /\ cur' = Idle
  /\ store' = [n \in Nodes |-> {}]
  /\ client' = {} /\ generic' = {} /\ givenUp' = {}
  /\ CloseLocks
  /\ UNCHANGED <<host, runner, nat, nodes, changes>>

Others == (OtherTakesLock \/ OtherReleasesLock) /\ UNCHANGED tunnelVars

Worker ==
  \/ AddNode \/ DelNode
  \/ \E ok \in BOOLEAN : RedoEnsureChain(ok) \/ RedoEnsureJump(ok) \/ Restore(ok)
  \/ \E n \in Nodes : WriteTunnelRedirect(n)
  \/ \E result \in {"grab14", "restore", "fail"} : GrabLock(result)

Next ==
  \/ \E n \in Nodes, to \in Cidrs \cup {Absent, Incomplete} : NodeChanges(n, to)
  \/ \E n \in Nodes : HandleEvent(n) \/ DelayPasses(n) \/ Recheck(n)
  \/ Worker
  \/ Crash
  \/ Others

\* Goroutines that can run do run, delays and ticks end, and another program
\* does not keep the lock for good.
Fairness ==
  /\ WF_vars(Worker)
  /\ \A n \in Nodes :
       WF_vars(HandleEvent(n)) /\ WF_vars(DelayPasses(n)) /\ WF_vars(Recheck(n))
  /\ WF_vars(OtherReleasesLock /\ UNCHANGED tunnelVars)

Spec == Init /\ [][Next]_vars /\ Fairness

-----------------------------------------------------------------------------
\* A deleted node whose deletion has been worked off has no route of its own in
\* the tunnel, whatever CIDRs it had before: nobody who takes its name gets the
\* traffic of its old pods (addNode, delNode).
GoneLeavesNoRoute ==
  \A n \in Nodes :
    ~ Present(n) /\ n \notin notify \cup q.dirty \cup q.processing
      => ~ \E c \in Cidrs \cup Nodes : <<c, n>> \in client

\* The locks of iptables are back when the worker waits for its next key, on
\* every error path of grabIptablesLocks and restoreInternal.
LocksReturned == pc = "get" => "runner" \notin {lock16, lock14}

\* A stored node that is incomplete (it was deleted and came back under its
\* name) keeps every restore from succeeding, for all nodes.
Blocked == \E n \in Stored : nodes[n] = Incomplete

Served(n) == <<nodes[n], n>> \in client /\ {n, nodes[n]} \subseteq nat.rules

\* A node with a CIDR and an address is eventually routed and redirected, unless
\* the controller gave up on it while it was incomplete, another node blocks the
\* restore or the host's iptables does not know -C; the recheck makes up for
\* errors of iptables and for restarts.
EventuallyServed ==
  Complete(Watched) ~> \/ Served(Watched) \/ ~ Complete(Watched)
                       \/ (Watched \in givenUp /\ Watched \notin Stored)
                       \/ Blocked \/ (runner.hasCheck /\ ~ KnowsCheck)

\* The redirect of a deleted node eventually goes, even when its deletion was
\* given up on or fell into a restart, as long as some node is in the map.
StaleRedirectGoes ==
  Watched \in nat.rules /\ ~ Present(Watched)
    ~> Watched \notin nat.rules \/ Present(Watched) \/ Stored = {} \/ Blocked
=============================================================================
