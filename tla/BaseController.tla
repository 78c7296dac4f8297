---------------------------- MODULE BaseController ----------------------------
(***************************************************************************)
(* pkg/controller/base/controller.go: the reconciliation loop launch (and  *)
(* every controller built on base.NewController) runs.  An informer keeps  *)
(* an indexer of klusters and notifies the controller, a ticker re-queues  *)
(* every kluster, and a number of workers take keys from the work queue,   *)
(* look the kluster up and call Reconcile.                                 *)
(*                                                                         *)
(* Reconcile itself is open here: it may return (false, nil), (true, nil)  *)
(* or an error.  Module Launch gives the reconciler the operator runs.     *)
(***************************************************************************)
EXTENDS WorkQueue

CONSTANTS
  Keys,         \* kluster keys (namespace/name)
  Workers,      \* the threadiness goroutines that run runWorker
  MaxRetries,   \* the 5 of processNextWorkItem
  MaxNotify     \* bound: undelivered informer notifications

ASSUME RetriesAssumption == MaxRetries \in Nat /\ MaxRetries > 0
ASSUME NotifyAssumption == MaxNotify \in Nat

VARIABLES
  indexer,    \* keys the informer's indexer holds
  notify,     \* notifications distributed to this controller, not delivered
  sweep,      \* klusters requeueAllKlusters has listed and not yet queued
  q,          \* the rate-limited queue
  pc,         \* where each worker is in processNextWorkItem
  item,       \* the key each worker took last
  unseen      \* history: keys that changed since a worker last looked them up

vars == <<indexer, notify, sweep, q, pc, item, unseen>>

PCs == {"get", "lookup", "reconcile", "synced", "requeue", "failed",
        "retry", "giveup", "ok", "done", "quit"}

\* Program counters of a worker between Get and the deferred Done.
Holding == PCs \ {"get", "quit"}

TypeOK ==
  /\ indexer \in SUBSET Keys
  /\ notify \in Seq(Keys)
  /\ sweep \in SUBSET Keys
  /\ q \in QueueType(Keys)
  /\ pc \in [Workers -> PCs]
  /\ item \in [Workers -> Keys]
  /\ unseen \in SUBSET Keys

Init ==
  /\ indexer = {}
  /\ notify = <<>>
  /\ sweep = {}
  /\ q = NewRateLimitingQueue(Keys)
  /\ pc = [w \in Workers |-> "get"]
  /\ item \in [Workers -> Keys]
  /\ unseen = {}

-----------------------------------------------------------------------------
(* The informer: it changes the indexer and distributes a notification in  *)
(* one critical section; a goroutine of the listener delivers it later.    *)

\* A kluster is added to or updated in the indexer.
KlusterStored(k) ==
  /\ Len(notify) < MaxNotify
  /\ indexer' = indexer \cup {k}
  /\ notify' = Append(notify, k)
  /\ unseen' = unseen \cup {k}
  /\ UNCHANGED <<sweep, q, pc, item>>

\* A kluster is deleted from the indexer.
KlusterDeleted(k) ==
  /\ k \in indexer
  /\ Len(notify) < MaxNotify
  /\ indexer' = indexer \ {k}
  /\ notify' = Append(notify, k)
  /\ unseen' = unseen \cup {k}
  /\ UNCHANGED <<sweep, q, pc, item>>

\* AddFunc, UpdateFunc and DeleteFunc: each queues the key.
EventHandler ==
  /\ notify # <<>>
  /\ q' = Add(q, Head(notify))
  /\ notify' = Tail(notify)
  /\ UNCHANGED <<indexer, sweep, pc, item, unseen>>

\* The ticker fires: requeueAllKlusters lists the klusters ...
ListKlusters ==
  /\ ~ q.shuttingDown
  /\ sweep = {}
  /\ sweep' = indexer
  /\ UNCHANGED <<indexer, notify, q, pc, item, unseen>>

\* ... and queues them one by one (requeueKluster), in any order.
RequeueKluster(k) ==
  /\ k \in sweep
  /\ q' = Add(q, k)
  /\ sweep' = sweep \ {k}
  /\ UNCHANGED <<indexer, notify, pc, item, unseen>>

\* The delay of a key has passed.
DelayPassed(k) ==
  /\ k \in q.waiting
  /\ q' = WaitingLoop(q, k)
  /\ UNCHANGED <<indexer, notify, sweep, pc, item, unseen>>

\* stopCh is closed: Run returns and shuts the queue down.
Stop ==
  /\ ~ q.shuttingDown
  /\ q' = ShutDown(q)
  /\ UNCHANGED <<indexer, notify, sweep, pc, item, unseen>>

-----------------------------------------------------------------------------
(* processNextWorkItem.                                                    *)

GetItem(w) ==
  /\ pc[w] = "get"
  /\ CanGet(q)
  /\ item' = [item EXCEPT ![w] = Head(q.queue)]
  /\ q' = Get(q)
  /\ pc' = [pc EXCEPT ![w] = "lookup"]
  /\ UNCHANGED <<indexer, notify, sweep, unseen>>

Quit(w) ==
  /\ pc[w] = "get"
  /\ MustQuit(q)
  /\ pc' = [pc EXCEPT ![w] = "quit"]
  /\ UNCHANGED <<indexer, notify, sweep, q, item, unseen>>

\* GetByKey; a key that is gone is ErrUnkownKluster.
Lookup(w) ==
  /\ pc[w] = "lookup"
  /\ pc' = [pc EXCEPT ![w] = IF item[w] \in indexer
                             THEN "reconcile" ELSE "failed"]
  /\ unseen' = unseen \ {item[w]}
  /\ UNCHANGED <<indexer, notify, sweep, q, item>>

\* Reconcile returns: synced, a requeue is requested, or an error.
Reconcile(w) ==
  /\ pc[w] = "reconcile"
  /\ \E outcome \in {"synced", "requeue", "failed"} :
       pc' = [pc EXCEPT ![w] = outcome]
  /\ UNCHANGED <<indexer, notify, sweep, q, item, unseen>>

\* No error, no requeue: Forget.
Synced(w) ==
  /\ pc[w] = "synced"
  /\ q' = Forget(q, item[w])
  /\ pc' = [pc EXCEPT ![w] = "ok"]
  /\ UNCHANGED <<indexer, notify, sweep, item, unseen>>

\* No error, requeue requested: AddAfter(key, BASE_DELAY), no Forget.
RequeueRequested(w) ==
  /\ pc[w] = "requeue"
  /\ q' = AddAfter(q, item[w])
  /\ pc' = [pc EXCEPT ![w] = "ok"]
  /\ UNCHANGED <<indexer, notify, sweep, item, unseen>>

\* Mutant of CheckRetries: one retry too many.
CheckRetriesOffByOne(w) ==
  /\ pc[w] = "failed"
  /\ pc' = [pc EXCEPT ![w] = IF NumRequeues(q, item[w]) <= MaxRetries
                             THEN "retry" ELSE "giveup"]
  /\ UNCHANGED <<indexer, notify, sweep, q, item, unseen>>

\* An error: NumRequeues and the call that follows it lock separately.
CheckRetries(w) ==
  /\ pc[w] = "failed"
  /\ pc' = [pc EXCEPT ![w] = IF NumRequeues(q, item[w]) < MaxRetries
                             THEN "retry" ELSE "giveup"]
  /\ UNCHANGED <<indexer, notify, sweep, q, item, unseen>>

Retry(w) ==
  /\ pc[w] = "retry"
  /\ q' = AddRateLimited(q, item[w])
  /\ pc' = [pc EXCEPT ![w] = "done"]
  /\ UNCHANGED <<indexer, notify, sweep, item, unseen>>

\* Mutant of GiveUp: retries exceeded, but the history is kept.
GiveUpKeepsHistory(w) ==
  /\ pc[w] = "giveup"
  /\ pc' = [pc EXCEPT ![w] = "done"]
  /\ UNCHANGED <<indexer, notify, sweep, q, item, unseen>>

\* Mutant of GiveUp: the key is forgotten, but queued again.
GiveUpRequeues(w) ==
  /\ pc[w] = "giveup"
  /\ q' = AddAfter(Forget(q, item[w]), item[w])
  /\ pc' = [pc EXCEPT ![w] = "done"]
  /\ UNCHANGED <<indexer, notify, sweep, item, unseen>>

GiveUp(w) ==
  /\ pc[w] = "giveup"
  /\ q' = Forget(q, item[w])
  /\ pc' = [pc EXCEPT ![w] = "done"]
  /\ UNCHANGED <<indexer, notify, sweep, item, unseen>>

\* The deferred Done.
DoneItem(w) ==
  /\ pc[w] \in {"ok", "done"}
  /\ q' = Done(q, item[w])
  /\ pc' = [pc EXCEPT ![w] = "get"]
  /\ UNCHANGED <<indexer, notify, sweep, item, unseen>>

Worker(w) ==
  \/ GetItem(w) \/ Quit(w) \/ Lookup(w) \/ Reconcile(w) \/ Synced(w)
  \/ RequeueRequested(w) \/ CheckRetries(w) \/ Retry(w) \/ GiveUp(w)
  \/ DoneItem(w)

Next ==
  \/ \E k \in Keys : \/ KlusterStored(k) \/ KlusterDeleted(k)
                     \/ RequeueKluster(k) \/ DelayPassed(k)
  \/ EventHandler \/ ListKlusters \/ Stop
  \/ \E w \in Workers : Worker(w)

Spec == Init /\ [][Next]_vars

(***************************************************************************)
(* Fairness.  The goroutines of the queue and of the listener and the      *)
(* workers always run on, and Reconcile is assumed to return.  Nothing is  *)
(* assumed of the ticker, of the kluster objects or of Stop.               *)
(***************************************************************************)
Fairness ==
  /\ WF_vars(EventHandler)
  /\ \A k \in Keys : WF_vars(RequeueKluster(k)) /\ WF_vars(DelayPassed(k))
  /\ \A w \in Workers : WF_vars(Worker(w))

FairSpec == Spec /\ Fairness

-----------------------------------------------------------------------------
(* Properties.                                                             *)

\* Two workers never process the same kluster at the same time, however
\* events, ticks, delayed retries and Done calls interleave.
MutualExclusion ==
  \A v, w \in Workers :
    (v # w /\ pc[v] \in Holding /\ pc[w] \in Holding) => item[v] # item[w]

\* The failure count never exceeds the retry bound: check (NumRequeues) and
\* act (AddRateLimited) are two critical sections, so this needs that no
\* other worker counts a failure of the same key in between.
RetryBound ==
  \A k \in Keys : q.failures[k] <= MaxRetries

\* A change of a kluster is never lost: as long as no worker looked the
\* kluster up after the change, its key is still on its way to a worker: its
\* notification is undelivered, it is queued, a worker took it and has not
\* looked yet, or the worker that holds it will re-queue it when it is done
\* (or the controller has been stopped).
NoLostWakeup ==
  \A k \in unseen :
    \/ q.shuttingDown
    \/ \E i \in DOMAIN notify : notify[i] = k
    \/ Queued(q, k)
    \/ \E w \in Workers :
         /\ item[w] = k
         /\ \/ pc[w] = "lookup"
            \/ pc[w] \in Holding /\ k \in q.dirty

\* The rate limiter does not track a key for ever: a key with a failure
\* history has another attempt coming, which will count on or forget it.
HistoryHasAttempt ==
  \A k \in Keys :
    q.failures[k] > 0 =>
      \/ q.shuttingDown
      \/ k \in q.waiting \cup q.dirty \cup q.processing

\* Every change is eventually looked at by a worker, unless the controller is
\* stopped: no key starves, whatever the other keys do.
EveryChangeSeen ==
  \A k \in Keys : k \in unseen ~> (k \notin unseen \/ q.shuttingDown)

\* A kluster that is gone for good leaves the queue for good: ErrUnkownKluster
\* is retried a bounded number of times only.
DeletedKeyDrains ==
  \A k \in Keys :
    <>[](k \notin indexer) =>
      <>[](k \notin q.dirty \cup q.waiting \cup q.processing)

\* Strengthening of the invariants above into an inductive one.
WorkersHoldItems ==
  q.processing = {item[w] : w \in {v \in Workers : pc[v] \in Holding}}

RetryAllowed ==
  \A w \in Workers : pc[w] = "retry" => q.failures[item[w]] < MaxRetries

ChangeIsPending ==
  \A k \in unseen :
    \/ q.shuttingDown
    \/ \E i \in DOMAIN notify : notify[i] = k
    \/ k \in q.dirty
    \/ \E w \in Workers : pc[w] = "lookup" /\ item[w] = k

FinishedIsScheduled ==
  \A w \in Workers :
    pc[w] \in {"ok", "done"} =>
      \/ q.shuttingDown
      \/ q.failures[item[w]] = 0
      \/ item[w] \in q.waiting \cup q.dirty

\* The inductive invariant: the queue is well formed, what it calls
\* "processing" is what the workers hold, each item by one worker, and the
\* properties above.
IndInv ==
  /\ TypeOK
  /\ WellFormed(q)
  /\ WorkersHoldItems
  /\ MutualExclusion
  /\ RetryBound
  /\ RetryAllowed
  /\ ChangeIsPending
  /\ HistoryHasAttempt
  /\ FinishedIsScheduled
=============================================================================
