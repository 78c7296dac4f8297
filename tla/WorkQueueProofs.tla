--------------------------- MODULE WorkQueueProofs ---------------------------
(***************************************************************************)
(* What the operators of WorkQueue return and preserve, for every set of   *)
(* keys and every queue.  The controllers' proofs cite these lemmas and    *)
(* never expand an operator of the queue themselves.                       *)
(***************************************************************************)
EXTENDS WorkQueue, TLAPS

\* Append, as the provers need it: the new element is last.
LEMMA AppendLemma ==
  ASSUME NEW Keys, NEW s \in Seq(Keys), NEW k \in Keys
  PROVE  /\ Append(s, k) \in Seq(Keys)
         /\ DOMAIN s = 1..Len(s) /\ Len(s) \in Nat
         /\ DOMAIN Append(s, k) = 1..(Len(s) + 1)
         /\ Append(s, k)[Len(s) + 1] = k
         /\ \A i \in DOMAIN s : Append(s, k)[i] = s[i]
OBVIOUS

\* Head and Tail of a sequence that is not empty.
LEMMA TailLemma ==
  ASSUME NEW Keys, NEW s \in Seq(Keys), s # <<>>
  PROVE  /\ Tail(s) \in Seq(Keys) /\ Head(s) \in Keys
         /\ Head(s) = s[1] /\ 1 \in DOMAIN s
         /\ DOMAIN s = 1..Len(s) /\ Len(s) \in Nat \ {0}
         /\ DOMAIN Tail(s) = 1..(Len(s) - 1)
         /\ \A i \in DOMAIN Tail(s) : Tail(s)[i] = s[i + 1]
OBVIOUS

\* The types of a queue's fields.
LEMMA TypesLemma ==
  ASSUME NEW Keys, NEW q \in QueueType(Keys)
  PROVE  /\ q.queue \in Seq(Keys)
         /\ q.dirty \in SUBSET Keys
         /\ q.processing \in SUBSET Keys
         /\ q.waiting \in SUBSET Keys
         /\ q.failures \in [Keys -> Nat]
         /\ q.shuttingDown \in BOOLEAN
         /\ q = [q EXCEPT !.queue = q.queue, !.dirty = q.dirty,
                          !.processing = q.processing]
BY DEF QueueType

-----------------------------------------------------------------------------
\* Add (queue.go): only dirty and queue change; a live queue has the item
\* dirty afterwards, and a well-formed queue stays well formed.
LEMMA AddLemma ==
  ASSUME NEW Keys, NEW q \in QueueType(Keys), NEW k \in Keys
  PROVE  /\ Add(q, k) \in QueueType(Keys)
         /\ Add(q, k).processing = q.processing
         /\ Add(q, k).waiting = q.waiting
         /\ Add(q, k).failures = q.failures
         /\ Add(q, k).shuttingDown = q.shuttingDown
         /\ q.dirty \subseteq Add(q, k).dirty
         /\ Add(q, k).dirty \subseteq q.dirty \cup {k}
         /\ q.shuttingDown \/ k \in Add(q, k).dirty
         /\ WellFormed(q) => WellFormed(Add(q, k))
<1> DEFINE s == IF k \in q.processing THEN q.queue ELSE Append(q.queue, k)
           d == q.dirty \cup {k}
           r == [q EXCEPT !.queue = s, !.dirty = d, !.processing = q.processing]
<1>1. CASE q.shuttingDown \/ k \in q.dirty
  BY <1>1 DEF Add
<1>2. CASE ~ q.shuttingDown /\ k \notin q.dirty
  <2>1. q.queue \in Seq(Keys) /\ d \in SUBSET Keys /\ q.processing \in SUBSET Keys
    BY TypesLemma
  <2>2. s \in Seq(Keys)
    BY <2>1, AppendLemma
  <2>3. Add(q, k) = r
    BY <1>2 DEF Add, QueueType
  <2> HIDE DEF s, d
  <2>r. r = [q EXCEPT !.queue = s, !.dirty = d, !.processing = q.processing]
    OBVIOUS
  <2> HIDE DEF r
  <2>4. /\ r \in QueueType(Keys)
        /\ r.queue = s /\ r.dirty = d /\ r.processing = q.processing
        /\ r.waiting = q.waiting
        /\ r.failures = q.failures
        /\ r.shuttingDown = q.shuttingDown
    BY <2>1, <2>2, <2>r DEF QueueType
  <2>5. ASSUME WellFormed(q) PROVE WellFormed(r)
    <3>1. CASE k \in q.processing
      <4>1. s = q.queue
        BY <3>1 DEF s
      <4> QED BY <4>1, <3>1, <2>4, <2>5 DEF WellFormed, Queued, d
    <3>2. CASE k \notin q.processing
      <4>1. /\ DOMAIN s = 1..(Len(q.queue) + 1)
            /\ DOMAIN q.queue = 1..Len(q.queue)
            /\ Len(q.queue) \in Nat
            /\ s[Len(q.queue) + 1] = k
            /\ \A i \in DOMAIN q.queue : s[i] = q.queue[i]
        BY <3>2, <2>1, AppendLemma DEF s
      <4>2. \A i \in DOMAIN q.queue : q.queue[i] # k
        BY <2>5, <1>2 DEF WellFormed
      <4>3. \A i, j \in DOMAIN s : i # j => s[i] # s[j]
        BY <4>1, <4>2, <2>5 DEF WellFormed
      <4>4. \A i \in DOMAIN s : s[i] \in d \ q.processing
        BY <4>1, <2>5, <3>2 DEF WellFormed, d
      <4>5. \A x \in d \ q.processing : \E i \in DOMAIN s : s[i] = x
        BY <4>1, <2>5 DEF WellFormed, Queued, d
      <4> QED BY <2>4, <4>3, <4>4, <4>5 DEF WellFormed, Queued
    <3> QED BY <3>1, <3>2
  <2> QED BY <2>3, <2>4, <2>5 DEF d
<1> QED BY <1>1, <1>2, TypesLemma

\* Get: the head of the queue moves from dirty to processing.  In a
\* well-formed queue no worker held it.
LEMMA GetLemma ==
  ASSUME NEW Keys, NEW q \in QueueType(Keys), CanGet(q)
  PROVE  /\ Head(q.queue) \in Keys
         /\ Get(q) \in QueueType(Keys)
         /\ Get(q).processing = q.processing \cup {Head(q.queue)}
         /\ Get(q).dirty = q.dirty \ {Head(q.queue)}
         /\ Get(q).waiting = q.waiting
         /\ Get(q).failures = q.failures
         /\ Get(q).shuttingDown = q.shuttingDown
         /\ WellFormed(q) => /\ WellFormed(Get(q))
                             /\ Head(q.queue) \in q.dirty \ q.processing
<1> DEFINE h == Head(q.queue)
           s == Tail(q.queue)
           d == q.dirty \ {h}
           p == q.processing \cup {h}
           r == [q EXCEPT !.queue = s, !.dirty = d, !.processing = p]
<1>1. q.queue \in Seq(Keys) /\ q.queue # <<>>
  BY TypesLemma DEF CanGet
<1>2. /\ s \in Seq(Keys) /\ h \in Keys
      /\ h = q.queue[1] /\ 1 \in DOMAIN q.queue
      /\ DOMAIN q.queue = 1..Len(q.queue) /\ Len(q.queue) \in Nat \ {0}
      /\ DOMAIN s = 1..(Len(q.queue) - 1)
      /\ \A i \in DOMAIN s : s[i] = q.queue[i + 1]
  BY <1>1, TailLemma
<1>3. Get(q) = r
  BY DEF Get, QueueType
<1> HIDE DEF h, s
<1>4. d \in SUBSET Keys /\ p \in SUBSET Keys
  BY <1>2, TypesLemma
<1> HIDE DEF d, p
<1>r. r = [q EXCEPT !.queue = s, !.dirty = d, !.processing = p]
  OBVIOUS
<1> HIDE DEF r
<1>5. /\ r \in QueueType(Keys)
      /\ r.queue = s /\ r.dirty = d /\ r.processing = p
      /\ r.waiting = q.waiting
      /\ r.failures = q.failures
      /\ r.shuttingDown = q.shuttingDown
  BY <1>2, <1>4, <1>r DEF QueueType
<1>6. ASSUME WellFormed(q)
      PROVE  WellFormed(r) /\ h \in q.dirty \ q.processing
  <2>1. h \in q.dirty \ q.processing
    BY <1>2, <1>6 DEF WellFormed
  <2>2. \A i \in DOMAIN s : i + 1 \in DOMAIN q.queue /\ i + 1 # 1 /\ s[i] # h
    BY <1>2, <1>6 DEF WellFormed
  <2>3. \A i, j \in DOMAIN s : i # j => s[i] # s[j]
    BY <1>2, <1>6, <2>2 DEF WellFormed
  <2>4. \A i \in DOMAIN s : s[i] \in d \ p
    BY <1>2, <1>6, <2>2 DEF WellFormed, d, p
  <2>5. ASSUME NEW x \in d \ p PROVE \E i \in DOMAIN s : s[i] = x
    <3>1. PICK i \in DOMAIN q.queue : q.queue[i] = x
      BY <2>5, <1>6 DEF WellFormed, Queued, d, p
    <3>2. i # 1
      BY <3>1, <1>2 DEF d
    <3>3. i - 1 \in DOMAIN s /\ s[i - 1] = x
      BY <3>1, <3>2, <1>2
    <3> QED BY <3>3
  <2> QED BY <1>5, <2>1, <2>3, <2>4, <2>5 DEF WellFormed, Queued
<1> QED BY <1>2, <1>3, <1>5, <1>6 DEF h, d, p

\* Done: the item leaves processing, and is queued again when it was marked
\* dirty meanwhile.
LEMMA DoneLemma ==
  ASSUME NEW Keys, NEW q \in QueueType(Keys), NEW k \in q.processing
  PROVE  /\ Done(q, k) \in QueueType(Keys)
         /\ Done(q, k).processing = q.processing \ {k}
         /\ Done(q, k).dirty = q.dirty
         /\ Done(q, k).waiting = q.waiting
         /\ Done(q, k).failures = q.failures
         /\ Done(q, k).shuttingDown = q.shuttingDown
         /\ WellFormed(q) => WellFormed(Done(q, k))
<1> DEFINE s == IF k \in q.dirty THEN Append(q.queue, k) ELSE q.queue
           p == q.processing \ {k}
           r == [q EXCEPT !.queue = s, !.dirty = q.dirty, !.processing = p]
<1>1. /\ q.queue \in Seq(Keys) /\ q.dirty \in SUBSET Keys
      /\ p \in SUBSET Keys /\ k \in Keys
  BY TypesLemma
<1>2. s \in Seq(Keys)
  BY <1>1, AppendLemma
<1>3. Done(q, k) = r
  BY DEF Done, QueueType
<1> HIDE DEF s, p
<1>r. r = [q EXCEPT !.queue = s, !.dirty = q.dirty, !.processing = p]
  OBVIOUS
<1> HIDE DEF r
<1>4. /\ r \in QueueType(Keys)
      /\ r.queue = s /\ r.dirty = q.dirty /\ r.processing = p
      /\ r.waiting = q.waiting
      /\ r.failures = q.failures
      /\ r.shuttingDown = q.shuttingDown
  BY <1>1, <1>2, <1>r DEF QueueType
<1>5. ASSUME WellFormed(q) PROVE WellFormed(r)
  <2>1. CASE k \notin q.dirty
    <3>1. s = q.queue
      BY <2>1 DEF s
    <3> QED BY <3>1, <2>1, <1>4, <1>5 DEF WellFormed, Queued, p
  <2>2. CASE k \in q.dirty
    <3>1. /\ DOMAIN s = 1..(Len(q.queue) + 1)
          /\ DOMAIN q.queue = 1..Len(q.queue)
          /\ Len(q.queue) \in Nat
          /\ s[Len(q.queue) + 1] = k
          /\ \A i \in DOMAIN q.queue : s[i] = q.queue[i]
      BY <2>2, <1>1, AppendLemma DEF s
    <3>2. \A i \in DOMAIN q.queue : q.queue[i] # k
      BY <1>5 DEF WellFormed
    <3>3. \A i, j \in DOMAIN s : i # j => s[i] # s[j]
      BY <3>1, <3>2, <1>5 DEF WellFormed
    <3>4. \A i \in DOMAIN s : s[i] \in q.dirty \ p
      BY <3>1, <1>5, <2>2 DEF WellFormed, p
    <3>5. \A x \in q.dirty \ p : \E i \in DOMAIN s : s[i] = x
      BY <3>1, <1>5 DEF WellFormed, Queued, p
    <3> QED BY <1>4, <3>3, <3>4, <3>5 DEF WellFormed, Queued
  <2> QED BY <2>1, <2>2
<1> QED BY <1>3, <1>4, <1>5 DEF p

-----------------------------------------------------------------------------
\* The operators that leave queue, dirty and processing alone.
SameQueue(q, r) ==
  r.queue = q.queue /\ r.dirty = q.dirty /\ r.processing = q.processing

\* Well-formedness is about those three fields only.
LEMMA SameQueueLemma ==
  ASSUME NEW q, NEW r, SameQueue(q, r)
  PROVE  WellFormed(q) => WellFormed(r)
BY DEF SameQueue, WellFormed, Queued

\* AddAfter only delays.
LEMMA AddAfterLemma ==
  ASSUME NEW Keys, NEW q \in QueueType(Keys), NEW k \in Keys
  PROVE  /\ AddAfter(q, k) \in QueueType(Keys)
         /\ SameQueue(q, AddAfter(q, k))
         /\ q.waiting \subseteq AddAfter(q, k).waiting
         /\ q.shuttingDown \/ k \in AddAfter(q, k).waiting
         /\ AddAfter(q, k).failures = q.failures
         /\ AddAfter(q, k).shuttingDown = q.shuttingDown
BY DEF AddAfter, QueueType, SameQueue

\* Forget only resets the count of failures.
LEMMA ForgetLemma ==
  ASSUME NEW Keys, NEW q \in QueueType(Keys), NEW k \in Keys
  PROVE  /\ Forget(q, k) \in QueueType(Keys)
         /\ SameQueue(q, Forget(q, k))
         /\ Forget(q, k).waiting = q.waiting
         /\ Forget(q, k).failures = [q.failures EXCEPT ![k] = 0]
         /\ Forget(q, k).shuttingDown = q.shuttingDown
BY DEF Forget, QueueType, SameQueue

\* AddRateLimited counts a failure and delays.
LEMMA AddRateLimitedLemma ==
  ASSUME NEW Keys, NEW q \in QueueType(Keys), NEW k \in Keys
  PROVE  /\ AddRateLimited(q, k) \in QueueType(Keys)
         /\ SameQueue(q, AddRateLimited(q, k))
         /\ q.waiting \subseteq AddRateLimited(q, k).waiting
         /\ q.shuttingDown \/ k \in AddRateLimited(q, k).waiting
         /\ AddRateLimited(q, k).failures = [q.failures EXCEPT ![k] = @ + 1]
         /\ AddRateLimited(q, k).shuttingDown = q.shuttingDown
<1> DEFINE f == [q.failures EXCEPT ![k] = @ + 1]
           r == [q EXCEPT !.failures = f]
<1>1. f \in [Keys -> Nat]
  BY DEF QueueType
<1>2. AddRateLimited(q, k) = AddAfter(r, k)
  BY DEF AddRateLimited
<1> HIDE DEF f
<1>3. /\ r \in QueueType(Keys) /\ SameQueue(q, r) /\ r.waiting = q.waiting
      /\ r.failures = f /\ r.shuttingDown = q.shuttingDown
  BY <1>1 DEF QueueType, SameQueue
<1> HIDE DEF r
<1>4. /\ AddAfter(r, k) \in QueueType(Keys)
      /\ SameQueue(r, AddAfter(r, k))
      /\ r.waiting \subseteq AddAfter(r, k).waiting
      /\ r.shuttingDown \/ k \in AddAfter(r, k).waiting
      /\ AddAfter(r, k).failures = r.failures
      /\ AddAfter(r, k).shuttingDown = r.shuttingDown
  BY <1>3, AddAfterLemma
<1> QED BY <1>2, <1>3, <1>4 DEF SameQueue, f

\* ShutDown drops what was waiting.
LEMMA ShutDownLemma ==
  ASSUME NEW Keys, NEW q \in QueueType(Keys)
  PROVE  /\ ShutDown(q) \in QueueType(Keys)
         /\ SameQueue(q, ShutDown(q))
         /\ ShutDown(q).failures = q.failures
         /\ ShutDown(q).shuttingDown
BY DEF ShutDown, QueueType, SameQueue

\* The waiting loop adds a delayed item and no longer waits for it.
LEMMA WaitingLoopLemma ==
  ASSUME NEW Keys, NEW q \in QueueType(Keys), NEW k \in Keys
  PROVE  /\ WaitingLoop(q, k) \in QueueType(Keys)
         /\ WaitingLoop(q, k).processing = q.processing
         /\ WaitingLoop(q, k).waiting = q.waiting \ {k}
         /\ WaitingLoop(q, k).failures = q.failures
         /\ WaitingLoop(q, k).shuttingDown = q.shuttingDown
         /\ q.dirty \subseteq WaitingLoop(q, k).dirty
         /\ q.shuttingDown \/ k \in WaitingLoop(q, k).dirty
         /\ WellFormed(q) => WellFormed(WaitingLoop(q, k))
<1> DEFINE a == Add(q, k)
           r == WaitingLoop(q, k)
<1>1. /\ a \in QueueType(Keys)
      /\ a.processing = q.processing /\ a.waiting = q.waiting
      /\ a.failures = q.failures /\ a.shuttingDown = q.shuttingDown
      /\ q.dirty \subseteq a.dirty /\ (q.shuttingDown \/ k \in a.dirty)
      /\ WellFormed(q) => WellFormed(a)
  BY AddLemma
<1>2. r = [a EXCEPT !.waiting = a.waiting \ {k}]
  BY DEF WaitingLoop
<1> HIDE DEF a, r
<1>3. r \in QueueType(Keys) /\ SameQueue(a, r)
  BY <1>1, <1>2 DEF QueueType, SameQueue
<1>4. r.waiting = a.waiting \ {k} /\ r.failures = a.failures /\ r.shuttingDown = a.shuttingDown
  BY <1>1, <1>2 DEF QueueType
<1>5. WellFormed(a) => WellFormed(r)
  BY <1>3, SameQueueLemma
<1> QED BY <1>1, <1>3, <1>4, <1>5 DEF r, SameQueue

\* A new queue is well formed and empty.
LEMMA NewQueueLemma ==
  ASSUME NEW Keys
  PROVE  /\ NewRateLimitingQueue(Keys) \in QueueType(Keys)
         /\ WellFormed(NewRateLimitingQueue(Keys))
         /\ NewRateLimitingQueue(Keys).processing = {}
         /\ NewRateLimitingQueue(Keys).failures = [k \in Keys |-> 0]
BY DEF NewRateLimitingQueue, QueueType, WellFormed, Queued
=============================================================================
