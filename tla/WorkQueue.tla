------------------------------ MODULE WorkQueue ------------------------------
(***************************************************************************)
(* The rate-limited work queue every controller of kubernikus drains       *)
(* (vendor/k8s.io/client-go/util/workqueue).  A queue is a record; each    *)
(* operator is what one call does while it holds the queue's lock, so one  *)
(* step of a controller that applies one operator is one critical section. *)
(*                                                                         *)
(* Time is abstracted: an item a delay was asked for sits in "waiting" and *)
(* may come back at any later moment.  The length of the delay (5s doubled *)
(* per failure up to 5 minutes) is not modelled, the failure count is.     *)
(***************************************************************************)
EXTENDS Naturals, Sequences

\* queue.go:33 type Type, delaying_queue.go waitingEntryByData (one entry
\* per item), ItemExponentialFailureRateLimiter.failures.
QueueType(Keys) ==
  [queue        : Seq(Keys),       \* the order in which items are handed out
   dirty        : SUBSET Keys,     \* items that need processing
   processing   : SUBSET Keys,     \* items a worker holds
   waiting      : SUBSET Keys,     \* items whose delay is running
   failures     : [Keys -> Nat],   \* the rate limiter's count per item
   shuttingDown : BOOLEAN]

NewRateLimitingQueue(Keys) ==
  [queue |-> <<>>, dirty |-> {}, processing |-> {}, waiting |-> {},
   failures |-> [k \in Keys |-> 0], shuttingDown |-> FALSE]

-----------------------------------------------------------------------------
\* Mutant of Add: the item is appended although a worker is processing it.
AddWhileProcessing(q, k) ==
  IF q.shuttingDown \/ k \in q.dirty
  THEN q
  ELSE [q EXCEPT !.dirty = @ \cup {k}, !.queue = Append(@, k)]

\* Mutant of Add: an item that is being processed is not marked dirty.
AddSkipsProcessing(q, k) ==
  IF q.shuttingDown \/ k \in q.dirty \cup q.processing
  THEN q
  ELSE [q EXCEPT !.dirty = @ \cup {k}, !.queue = Append(@, k)]

\* Mutant of Add: a new item goes to the front of the queue.
AddLIFO(q, k) ==
  IF q.shuttingDown \/ k \in q.dirty
  THEN q
  ELSE [q EXCEPT !.dirty = @ \cup {k},
                 !.queue = IF k \in q.processing THEN @ ELSE <<k>> \o @]

\* Add marks an item as needing processing.  An item that is being
\* processed is only marked; Done appends it.
Add(q, k) ==
  IF q.shuttingDown \/ k \in q.dirty
  THEN q
  ELSE [q EXCEPT !.dirty = @ \cup {k},
                 !.queue = IF k \in q.processing THEN @ ELSE Append(@, k)]

\* Get blocks until there is an item (CanGet) or until the queue is shutting
\* down and empty (MustQuit).
CanGet(q) == q.queue # <<>>

MustQuit(q) == q.queue = <<>> /\ q.shuttingDown

Get(q) ==
  [q EXCEPT !.queue      = Tail(@),
            !.processing = @ \cup {Head(q.queue)},
            !.dirty      = @ \ {Head(q.queue)}]

\* Mutant of Done: an item marked dirty while it was processed is dropped.
DoneForgetsDirty(q, k) ==
  [q EXCEPT !.processing = @ \ {k}, !.dirty = @ \ {k}]

\* Done releases an item and re-queues it when it was marked meanwhile.
Done(q, k) ==
  [q EXCEPT !.processing = @ \ {k},
            !.queue = IF k \in q.dirty THEN Append(@, k) ELSE @]

\* AddAfter with a positive delay: the waiting loop keeps one entry per item.
AddAfter(q, k) ==
  IF q.shuttingDown THEN q ELSE [q EXCEPT !.waiting = @ \cup {k}]

\* One pass of waitingLoop over an item whose delay has passed.
WaitingLoop(q, k) ==
  [Add(q, k) EXCEPT !.waiting = @ \ {k}]

\* When counts the failure, then AddAfter delays the item.
AddRateLimited(q, k) ==
  AddAfter([q EXCEPT !.failures[k] = @ + 1], k)

NumRequeues(q, k) == q.failures[k]

Forget(q, k) == [q EXCEPT !.failures[k] = 0]

\* ShutDown: later Adds are ignored and the waiting loop ends.
ShutDown(q) == [q EXCEPT !.shuttingDown = TRUE, !.waiting = {}]

-----------------------------------------------------------------------------
\* Item k is in line for a worker.
Queued(q, k) == \E i \in DOMAIN q.queue : q.queue[i] = k

\* What every operator preserves: no item is queued twice, the queued items
\* are exactly the dirty ones no worker holds.
WellFormed(q) ==
  /\ \A i, j \in DOMAIN q.queue : i # j => q.queue[i] # q.queue[j]
  /\ \A i \in DOMAIN q.queue : q.queue[i] \in q.dirty \ q.processing
  /\ \A k \in q.dirty \ q.processing : Queued(q, k)
=============================================================================
