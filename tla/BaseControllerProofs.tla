------------------------ MODULE BaseControllerProofs ------------------------
(***************************************************************************)
(* The invariants of BaseController for every set of keys, every set of  *)
(* workers and every retry bound.  IndInv is inductive; the theorems at    *)
(* the end read its consequences off.                                      *)
(***************************************************************************)
EXTENDS BaseController, WorkQueueProofs

\* In a well-formed queue an item is queued iff it is dirty and not held.
LEMMA QueuedLemma ==
  ASSUME NEW r, WellFormed(r), NEW k
  PROVE  Queued(r, k) <=> k \in r.dirty \ r.processing
BY DEF WellFormed, Queued

\* The initial state satisfies the inductive invariant.
LEMMA InitLemma == Init => IndInv
<1> SUFFICES ASSUME Init PROVE IndInv
  OBVIOUS
<1>0. q \in QueueType(Keys)
  BY NewQueueLemma DEF Init
<1>1. TypeOK
  BY <1>0 DEF Init, TypeOK, PCs
<1>2. WellFormed(q) /\ q.processing = {} /\ q.failures = [k \in Keys |-> 0]
  BY NewQueueLemma DEF Init
<1>3. \A w \in Workers : pc[w] = "get" /\ pc[w] \notin Holding
  BY DEF Init, Holding
<1>4. WorkersHoldItems
  BY <1>2, <1>3 DEF WorkersHoldItems
<1>5. MutualExclusion /\ RetryAllowed /\ FinishedIsScheduled
  BY <1>3 DEF MutualExclusion, RetryAllowed, FinishedIsScheduled
<1>6. RetryBound /\ HistoryHasAttempt
  BY <1>2, RetriesAssumption DEF RetryBound, HistoryHasAttempt
<1>7. ChangeIsPending
  BY DEF Init, ChangeIsPending
<1> QED BY <1>1, <1>2, <1>4, <1>5, <1>6, <1>7 DEF IndInv

\* Steps that leave the queue and the workers alone: the informer and the
\* list of the ticker.
LEMMA InformerLemma ==
  ASSUME IndInv, NEW k \in Keys, 
         KlusterStored(k) \/ KlusterDeleted(k) \/ ListKlusters
  PROVE  IndInv'
<1>1. q' = q /\ pc' = pc /\ item' = item
  BY DEF KlusterStored, KlusterDeleted, ListKlusters
<1>2. TypeOK'
  BY DEF IndInv, TypeOK, KlusterStored, KlusterDeleted, ListKlusters
<1>3. ChangeIsPending'
  <2>1. CASE ListKlusters
    BY <2>1 DEF IndInv, ChangeIsPending, ListKlusters
  <2>2. CASE KlusterStored(k) \/ KlusterDeleted(k)
    <3>1. notify' = Append(notify, k) /\ unseen' = unseen \cup {k} /\ notify \in Seq(Keys)
      BY <2>2 DEF KlusterStored, KlusterDeleted, IndInv, TypeOK
    <3>2. /\ \A i \in DOMAIN notify : i \in DOMAIN notify' /\ notify'[i] = notify[i]
          /\ \E i \in DOMAIN notify' : notify'[i] = k
      BY <3>1, AppendLemma
    <3> QED BY <1>1, <3>1, <3>2 DEF IndInv, ChangeIsPending
  <2> QED BY <2>1, <2>2
<1> QED BY <1>1, <1>2, <1>3
        DEF IndInv, WellFormed, Queued, WorkersHoldItems, MutualExclusion, RetryBound,
            RetryAllowed, HistoryHasAttempt, FinishedIsScheduled

\* Steps that add a key to the queue: the event handlers, the ticker and the
\* waiting loop.
LEMMA AddStepLemma ==
  ASSUME IndInv, NEW k \in Keys,
         EventHandler \/ RequeueKluster(k) \/ DelayPassed(k)
  PROVE  IndInv'
<1>1. TypeOK /\ q \in QueueType(Keys) /\ WellFormed(q)
  BY DEF IndInv, TypeOK
<1>2. pc' = pc /\ item' = item /\ unseen' = unseen
  BY DEF EventHandler, RequeueKluster, DelayPassed
<1>3. PICK x \in Keys : /\ q' = Add(q, x) \/ q' = WaitingLoop(q, x)
                        /\ \/ notify' = notify
                           \/ /\ notify # <<>> /\ x = Head(notify)
                              /\ notify' = Tail(notify)
  <2>1. CASE EventHandler
    <3>1. Head(notify) \in Keys
      BY <2>1, <1>1, TailLemma DEF EventHandler, TypeOK
    <3> QED BY <3>1, <2>1 DEF EventHandler
  <2>2. CASE RequeueKluster(k)
    BY <2>2 DEF RequeueKluster
  <2>3. CASE DelayPassed(k)
    BY <2>3 DEF DelayPassed
  <2> QED BY <2>1, <2>2, <2>3
<1>4. /\ q' \in QueueType(Keys) /\ WellFormed(q')
      /\ q'.processing = q.processing /\ q'.failures = q.failures
      /\ q'.shuttingDown = q.shuttingDown
      /\ q.dirty \subseteq q'.dirty
      /\ q.shuttingDown \/ x \in q'.dirty
      /\ q.waiting \subseteq q'.waiting \cup {x}
  <2>1. CASE q' = Add(q, x)
    BY <2>1, <1>1, AddLemma
  <2>2. CASE q' = WaitingLoop(q, x)
    BY <2>2, <1>1, WaitingLoopLemma
  <2> QED BY <1>3, <2>1, <2>2
<1>5. notify' \in Seq(Keys)
  BY <1>1, <1>3, TailLemma DEF TypeOK
<1>6. TypeOK'
  BY <1>1, <1>2, <1>4, <1>5
     DEF TypeOK, EventHandler, RequeueKluster, DelayPassed
<1>7. ChangeIsPending'
  <2>1. \A i \in DOMAIN notify :
          notify[i] = x \/ \E j \in DOMAIN notify' : notify'[j] = notify[i]
    <3>1. CASE notify' = notify
      BY <3>1
    <3>2. CASE notify # <<>> /\ x = Head(notify) /\ notify' = Tail(notify)
      <4>1. /\ x = notify[1] /\ DOMAIN notify = 1..Len(notify)
            /\ Len(notify) \in Nat \ {0}
            /\ DOMAIN notify' = 1..(Len(notify) - 1)
            /\ \A j \in DOMAIN notify' : notify'[j] = notify[j + 1]
        BY <3>2, <1>1, TailLemma DEF TypeOK
      <4>2. ASSUME NEW i \in DOMAIN notify, i # 1
            PROVE  i - 1 \in DOMAIN notify' /\ notify'[i - 1] = notify[i]
        BY <4>1, <4>2
      <4> QED BY <4>1, <4>2
    <3> QED BY <1>3, <3>1, <3>2
  <2> QED BY <1>2, <1>4, <2>1 DEF IndInv, ChangeIsPending
<1>8. WorkersHoldItems' /\ MutualExclusion'
  BY <1>2, <1>4 DEF IndInv, WorkersHoldItems, MutualExclusion
<1>9. RetryBound' /\ RetryAllowed'
  BY <1>2, <1>4 DEF IndInv, RetryBound, RetryAllowed
<1>10. HistoryHasAttempt' /\ FinishedIsScheduled'
  BY <1>2, <1>4 DEF IndInv, HistoryHasAttempt, FinishedIsScheduled
<1> QED BY <1>4, <1>6, <1>7, <1>8, <1>9, <1>10 DEF IndInv

\* stopCh is closed.
LEMMA StopLemma ==
  ASSUME IndInv, Stop
  PROVE  IndInv'
<1>1. TypeOK /\ q \in QueueType(Keys) /\ WellFormed(q)
  BY DEF IndInv, TypeOK
<1>2. /\ pc' = pc /\ item' = item /\ unseen' = unseen /\ notify' = notify
      /\ indexer' = indexer /\ sweep' = sweep /\ q' = ShutDown(q)
  BY DEF Stop
<1>3. /\ q' \in QueueType(Keys) /\ SameQueue(q, q')
      /\ q'.failures = q.failures /\ q'.shuttingDown
  BY <1>1, <1>2, ShutDownLemma
<1>4. WellFormed(q')
  BY <1>1, <1>3, SameQueueLemma
<1>5. TypeOK'
  BY <1>1, <1>2, <1>3 DEF TypeOK
<1>6. WorkersHoldItems' /\ MutualExclusion'
  BY <1>2, <1>3 DEF IndInv, WorkersHoldItems, MutualExclusion, SameQueue
<1>7. RetryBound' /\ RetryAllowed'
  BY <1>2, <1>3 DEF IndInv, RetryBound, RetryAllowed
<1>8. ChangeIsPending' /\ HistoryHasAttempt' /\ FinishedIsScheduled'
  BY <1>3 DEF ChangeIsPending, HistoryHasAttempt, FinishedIsScheduled
<1> QED BY <1>4, <1>5, <1>6, <1>7, <1>8 DEF IndInv

\* A worker takes the head of the queue: no other worker holds it.
LEMMA GetItemLemma ==
  ASSUME IndInv, NEW w \in Workers, GetItem(w)
  PROVE  IndInv'
<1> DEFINE h == Head(q.queue)
<1>1. /\ TypeOK /\ q \in QueueType(Keys) /\ WellFormed(q)
      /\ pc \in [Workers -> PCs] /\ item \in [Workers -> Keys]
  BY DEF IndInv, TypeOK
<1>2. /\ pc[w] = "get" /\ CanGet(q) /\ q' = Get(q)
      /\ item' = [item EXCEPT ![w] = h]
      /\ pc' = [pc EXCEPT ![w] = "lookup"]
      /\ indexer' = indexer /\ notify' = notify /\ sweep' = sweep /\ unseen' = unseen
  BY DEF GetItem
<1>3. /\ h \in Keys /\ h \in q.dirty \ q.processing
      /\ q' \in QueueType(Keys) /\ WellFormed(q')
      /\ q'.processing = q.processing \cup {h}
      /\ q'.dirty = q.dirty \ {h}
      /\ q'.waiting = q.waiting /\ q'.failures = q.failures
      /\ q'.shuttingDown = q.shuttingDown
  BY <1>1, <1>2, GetLemma
<1> HIDE DEF h
<1>4. /\ pc' \in [Workers -> PCs] /\ item' \in [Workers -> Keys]
      /\ pc'[w] = "lookup" /\ item'[w] = h
      /\ \A v \in Workers : v # w => pc'[v] = pc[v] /\ item'[v] = item[v]
  BY <1>1, <1>2, <1>3 DEF PCs
<1>5. TypeOK'
  BY <1>1, <1>2, <1>3, <1>4 DEF TypeOK
<1>6. "lookup" \in Holding /\ pc[w] \notin Holding
  BY <1>2 DEF Holding, PCs
<1>7. WorkersHoldItems'
  BY <1>3, <1>4, <1>6 DEF IndInv, WorkersHoldItems
<1>8. MutualExclusion'
  <2>1. \A v \in Workers : pc[v] \in Holding => item[v] # h
    BY <1>3 DEF IndInv, WorkersHoldItems
  <2> QED BY <1>4, <1>6, <2>1 DEF IndInv, MutualExclusion
<1>9. RetryBound' /\ RetryAllowed'
  BY <1>3, <1>4 DEF IndInv, RetryBound, RetryAllowed
<1>10. ChangeIsPending'
  BY <1>2, <1>3, <1>4 DEF IndInv, ChangeIsPending
<1>11. HistoryHasAttempt'
  BY <1>3 DEF IndInv, HistoryHasAttempt
<1>12. FinishedIsScheduled'
  <2>1. \A v \in Workers : pc[v] \in {"ok", "done"} => item[v] # h
    BY <1>3 DEF IndInv, WorkersHoldItems, Holding, PCs
  <2> QED BY <1>3, <1>4, <2>1 DEF IndInv, FinishedIsScheduled
<1> QED BY <1>3, <1>5, <1>7, <1>8, <1>9, <1>10, <1>11, <1>12 DEF IndInv

\* Steps of a worker that only move its program counter: Quit, Reconcile,
\* the check of the retry bound, and the lookup, which also counts the
\* change as seen.
LEMMA WorkerMoveLemma ==
  ASSUME IndInv, NEW w \in Workers,
         Quit(w) \/ Lookup(w) \/ Reconcile(w) \/ CheckRetries(w)
  PROVE  IndInv'
<1>1. /\ TypeOK /\ q \in QueueType(Keys) /\ WellFormed(q)
      /\ pc \in [Workers -> PCs] /\ item \in [Workers -> Keys]
  BY DEF IndInv, TypeOK
<1>2. /\ q' = q /\ item' = item /\ notify' = notify
      /\ indexer' = indexer /\ sweep' = sweep
  BY DEF Quit, Lookup, Reconcile, CheckRetries
<1>3. PICK c \in PCs :
        /\ pc' = [pc EXCEPT ![w] = c]
        /\ c \notin {"ok", "done", "lookup"}
        /\ c \in Holding <=> pc[w] \in Holding
        /\ c = "retry" => NumRequeues(q, item[w]) < MaxRetries
        /\ \/ unseen' = unseen /\ pc[w] # "lookup"
           \/ unseen' = unseen \ {item[w]}
  <2>1. CASE Quit(w)
    BY <2>1 DEF Quit, PCs, Holding
  <2>2. CASE Lookup(w)
    BY <2>2 DEF Lookup, PCs, Holding
  <2>3. CASE Reconcile(w)
    BY <2>3 DEF Reconcile, PCs, Holding
  <2>4. CASE CheckRetries(w)
    BY <2>4 DEF CheckRetries, PCs, Holding
  <2> QED BY <2>1, <2>2, <2>3, <2>4
<1>4. /\ pc' \in [Workers -> PCs] /\ pc'[w] = c
      /\ \A v \in Workers : v # w => pc'[v] = pc[v]
  BY <1>1, <1>3
<1>5. TypeOK'
  BY <1>1, <1>2, <1>3, <1>4 DEF TypeOK
<1>6. WellFormed(q')
  BY <1>1, <1>2
<1>7. \A v \in Workers : pc'[v] \in Holding <=> pc[v] \in Holding
  BY <1>3, <1>4
<1>8. WorkersHoldItems' /\ MutualExclusion'
  BY <1>2, <1>7 DEF IndInv, WorkersHoldItems, MutualExclusion
<1>9. RetryBound' /\ RetryAllowed'
  BY <1>2, <1>3, <1>4 DEF IndInv, RetryBound, RetryAllowed, NumRequeues
<1>10. ChangeIsPending'
  BY <1>2, <1>3, <1>4 DEF IndInv, ChangeIsPending
<1>11. HistoryHasAttempt' /\ FinishedIsScheduled'
  BY <1>2, <1>3, <1>4 DEF IndInv, HistoryHasAttempt, FinishedIsScheduled
<1> QED BY <1>5, <1>6, <1>8, <1>9, <1>10, <1>11 DEF IndInv

\* Steps of a worker that end a synchronization: Forget, AddAfter or
\* AddRateLimited.
LEMMA WorkerEndLemma ==
  ASSUME IndInv, NEW w \in Workers,
         Synced(w) \/ RequeueRequested(w) \/ Retry(w) \/ GiveUp(w)
  PROVE  IndInv'
<1> DEFINE k == item[w]
<1>1. /\ TypeOK /\ q \in QueueType(Keys) /\ WellFormed(q)
      /\ pc \in [Workers -> PCs] /\ item \in [Workers -> Keys]
      /\ k \in Keys /\ q.failures \in [Keys -> Nat]
  BY DEF IndInv, TypeOK, QueueType
<1>2. /\ item' = item /\ notify' = notify /\ unseen' = unseen
      /\ indexer' = indexer /\ sweep' = sweep
  BY DEF Synced, RequeueRequested, Retry, GiveUp
<1>3. PICK c \in {"ok", "done"} : pc' = [pc EXCEPT ![w] = c]
  BY DEF Synced, RequeueRequested, Retry, GiveUp
<1>4. pc[w] \in {"synced", "requeue", "retry", "giveup"}
  BY DEF Synced, RequeueRequested, Retry, GiveUp
<1>5. /\ q' \in QueueType(Keys) /\ SameQueue(q, q')
      /\ q.waiting \subseteq q'.waiting
      /\ q'.shuttingDown = q.shuttingDown
      /\ \/ q'.failures = [q.failures EXCEPT ![k] = 0]
         \/ /\ q'.failures = q.failures
            /\ q.shuttingDown \/ k \in q'.waiting
         \/ /\ q'.failures = [q.failures EXCEPT ![k] = @ + 1]
            /\ q.shuttingDown \/ k \in q'.waiting
            /\ pc[w] = "retry"
  <2> HIDE DEF k
  <2>1. CASE q' = Forget(q, k)
    BY <2>1, <1>1, ForgetLemma
  <2>2. CASE q' = AddAfter(q, k)
    BY <2>2, <1>1, AddAfterLemma
  <2>3. CASE q' = AddRateLimited(q, k) /\ pc[w] = "retry"
    BY <2>3, <1>1, AddRateLimitedLemma
  <2> QED BY <2>1, <2>2, <2>3 DEF Synced, RequeueRequested, Retry, GiveUp, k
<1>6. /\ pc' \in [Workers -> PCs] /\ pc'[w] = c
      /\ \A v \in Workers : v # w => pc'[v] = pc[v]
      /\ c \in Holding /\ pc[w] \in Holding
  BY <1>1, <1>3, <1>4 DEF PCs, Holding
<1>7. TypeOK'
  BY <1>1, <1>2, <1>5, <1>6 DEF TypeOK
<1>8. WellFormed(q')
  BY <1>1, <1>5, SameQueueLemma
<1>9. \A v \in Workers : pc'[v] \in Holding <=> pc[v] \in Holding
  BY <1>6
<1>10. WorkersHoldItems' /\ MutualExclusion'
  BY <1>2, <1>5, <1>9 DEF IndInv, WorkersHoldItems, MutualExclusion, SameQueue
<1>11. \A x \in Keys : x # k => q'.failures[x] = q.failures[x]
  BY <1>1, <1>5
<1>12. pc[w] = "retry" => q.failures[k] < MaxRetries
  BY DEF IndInv, RetryAllowed
<1>13. /\ q'.failures[k] <= MaxRetries
       /\ q.shuttingDown \/ q'.failures[k] = 0 \/ k \in q'.waiting
  <2>1. q.failures[k] \in Nat /\ q.failures[k] <= MaxRetries
    BY <1>1 DEF IndInv, RetryBound
  <2>2. CASE q'.failures = [q.failures EXCEPT ![k] = 0]
    BY <2>2, <1>1, RetriesAssumption
  <2>3. CASE q'.failures = q.failures /\ (q.shuttingDown \/ k \in q'.waiting)
    BY <2>1, <2>3
  <2>4. CASE /\ q'.failures = [q.failures EXCEPT ![k] = @ + 1]
             /\ q.shuttingDown \/ k \in q'.waiting
             /\ pc[w] = "retry"
    BY <2>1, <2>4, <1>1, <1>12, RetriesAssumption
  <2> QED BY <1>5, <2>2, <2>3, <2>4
<1>14. RetryBound'
  BY <1>11, <1>13 DEF IndInv, RetryBound
<1>15. RetryAllowed'
  <2>1. \A v \in Workers : v # w /\ pc[v] = "retry" => item[v] # k
    BY <1>6 DEF IndInv, MutualExclusion, Holding, PCs
  <2> QED BY <1>1, <1>2, <1>3, <1>6, <1>11, <2>1 DEF IndInv, RetryAllowed
<1>16. ChangeIsPending'
  BY <1>2, <1>4, <1>5, <1>6 DEF IndInv, ChangeIsPending, SameQueue
<1>17. k \in q.processing
  BY <1>6 DEF IndInv, WorkersHoldItems
<1>18. HistoryHasAttempt'
  BY <1>5, <1>11, <1>17 DEF IndInv, HistoryHasAttempt, SameQueue
<1>19. FinishedIsScheduled'
  <2>1. \A v \in Workers : v # w /\ pc[v] \in {"ok", "done"} => item[v] # k
    BY <1>6 DEF IndInv, MutualExclusion, Holding, PCs
  <2> QED BY <1>1, <1>2, <1>5, <1>6, <1>11, <1>13, <2>1
          DEF IndInv, FinishedIsScheduled, SameQueue
<1> QED BY <1>7, <1>8, <1>10, <1>14, <1>15, <1>16, <1>18, <1>19 DEF IndInv

\* The deferred Done: the worker lets go of its item.
LEMMA DoneItemLemma ==
  ASSUME IndInv, NEW w \in Workers, DoneItem(w)
  PROVE  IndInv'
<1> DEFINE k == item[w]
<1>1. /\ TypeOK /\ q \in QueueType(Keys) /\ WellFormed(q)
      /\ pc \in [Workers -> PCs] /\ item \in [Workers -> Keys]
  BY DEF IndInv, TypeOK
<1>2. /\ pc[w] \in {"ok", "done"} /\ q' = Done(q, k)
      /\ pc' = [pc EXCEPT ![w] = "get"]
      /\ item' = item /\ notify' = notify /\ unseen' = unseen
      /\ indexer' = indexer /\ sweep' = sweep
  BY DEF DoneItem
<1>3. pc[w] \in Holding /\ k \in q.processing
  BY <1>2 DEF IndInv, WorkersHoldItems, Holding, PCs
<1>4. /\ q' \in QueueType(Keys) /\ WellFormed(q')
      /\ q'.processing = q.processing \ {k} /\ q'.dirty = q.dirty
      /\ q'.waiting = q.waiting /\ q'.failures = q.failures
      /\ q'.shuttingDown = q.shuttingDown
  BY <1>1, <1>2, <1>3, DoneLemma
<1>5. /\ pc' \in [Workers -> PCs] /\ pc'[w] = "get" /\ "get" \notin Holding
      /\ \A v \in Workers : v # w => pc'[v] = pc[v]
  BY <1>1, <1>2 DEF PCs, Holding
<1>6. TypeOK'
  BY <1>1, <1>2, <1>4, <1>5 DEF TypeOK
<1>7. MutualExclusion'
  BY <1>2, <1>5 DEF IndInv, MutualExclusion
<1>8. WorkersHoldItems'
  <2>1. \A v \in Workers : pc'[v] \in Holding => v # w /\ item[v] # k
    BY <1>3, <1>5 DEF IndInv, MutualExclusion
  <2> QED BY <1>2, <1>4, <1>5, <2>1 DEF IndInv, WorkersHoldItems
<1>9. RetryBound' /\ RetryAllowed'
  BY <1>2, <1>4, <1>5 DEF IndInv, RetryBound, RetryAllowed
<1>10. ChangeIsPending'
  BY <1>2, <1>4, <1>5 DEF IndInv, ChangeIsPending
<1>11. HistoryHasAttempt'
  BY <1>1, <1>2, <1>4 DEF IndInv, HistoryHasAttempt, FinishedIsScheduled
<1>12. FinishedIsScheduled'
  BY <1>2, <1>4, <1>5 DEF IndInv, FinishedIsScheduled
<1> QED BY <1>4, <1>6, <1>7, <1>8, <1>9, <1>10, <1>11, <1>12 DEF IndInv

-----------------------------------------------------------------------------
\* IndInv is inductive.
LEMMA NextLemma == IndInv /\ [Next]_vars => IndInv'
<1> SUFFICES ASSUME IndInv, [Next]_vars PROVE IndInv'
  OBVIOUS
<1>1. CASE UNCHANGED vars
  BY <1>1 DEF IndInv, vars, TypeOK, WellFormed, Queued, WorkersHoldItems,
     MutualExclusion, RetryBound, RetryAllowed, ChangeIsPending,
     HistoryHasAttempt, FinishedIsScheduled
<1>2. ASSUME NEW k \in Keys,
             KlusterStored(k) \/ KlusterDeleted(k)
      PROVE  IndInv'
  BY <1>2, InformerLemma
<1>3. ASSUME NEW k \in Keys, RequeueKluster(k) \/ DelayPassed(k)
      PROVE  IndInv'
  BY <1>3, AddStepLemma
<1>4. CASE EventHandler
  <2>1. Head(notify) \in Keys
    BY <1>4, TailLemma DEF EventHandler, IndInv, TypeOK
  <2> QED BY <1>4, <2>1, AddStepLemma
<1>5. CASE ListKlusters
  <2>1. CASE \E k \in Keys : TRUE
    BY <1>5, <2>1, InformerLemma
  <2>2. CASE ~ \E k \in Keys : TRUE
    <3>1. indexer = {} /\ sweep = {}
      BY <2>2 DEF IndInv, TypeOK
    <3>2. UNCHANGED vars
      BY <1>5, <3>1 DEF ListKlusters, vars
    <3> QED BY <1>1, <3>2
  <2> QED BY <2>1, <2>2
<1>6. CASE Stop
  BY <1>6, StopLemma
<1>7. ASSUME NEW w \in Workers, Worker(w)
      PROVE  IndInv'
  BY <1>7, GetItemLemma, WorkerMoveLemma, WorkerEndLemma, DoneItemLemma
     DEF Worker
<1> QED BY <1>1, <1>2, <1>3, <1>4, <1>5, <1>6, <1>7 DEF Next

\* IndInv holds in every state of the base controller.
THEOREM Invariance == Spec => []IndInv
BY InitLemma, NextLemma, PTL DEF Spec

\* Type correctness of the base controller.
THEOREM TypeCorrect == Spec => []TypeOK
<1>1. IndInv => TypeOK
  BY DEF IndInv
<1> QED BY <1>1, Invariance, PTL

\* processNextWorkItem never runs twice at once for one kluster, for every
\* number of klusters and workers.
THEOREM Exclusion == Spec => []MutualExclusion
<1>1. IndInv => MutualExclusion
  BY DEF IndInv
<1> QED BY <1>1, Invariance, PTL

\* The check-then-act of the retry bound is safe although NumRequeues and
\* AddRateLimited are separate critical sections.
THEOREM BoundedRetries == Spec => []RetryBound
<1>1. IndInv => RetryBound
  BY DEF IndInv
<1> QED BY <1>1, Invariance, PTL

\* A change of a kluster is on its way to a worker until one looked at it.
THEOREM WakeupsKept == Spec => []NoLostWakeup
<1>1. IndInv => NoLostWakeup
  <2> SUFFICES ASSUME IndInv, NEW k \in unseen, ~ q.shuttingDown,
                      ~ \E i \in DOMAIN notify : notify[i] = k,
                      k \in q.dirty, k \in q.processing
               PROVE  \E w \in Workers :
                        item[w] = k /\ pc[w] \in Holding /\ k \in q.dirty
    BY QueuedLemma DEF IndInv, ChangeIsPending, NoLostWakeup
  <2> QED BY DEF IndInv, WorkersHoldItems
<1> QED BY <1>1, Invariance, PTL

\* The failure history of a key never outlives its last attempt.
THEOREM HistoryNotLeaked == Spec => []HistoryHasAttempt
<1>1. IndInv => HistoryHasAttempt
  BY DEF IndInv
<1> QED BY <1>1, Invariance, PTL
=============================================================================
