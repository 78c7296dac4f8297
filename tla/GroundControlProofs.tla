------------------------- MODULE GroundControlProofs -------------------------
(***************************************************************************)
(* Proofs about GroundControl, for every number of requests, failures and  *)
(* restarts.  The arguments are about the versions of the kluster the      *)
(* worker has yet to see: the one in its cache and those the watch has not *)
(* delivered, the last of which is the one in the API server.              *)
(***************************************************************************)
EXTENDS GroundControl, WorkQueueProofs, TLAPS

-----------------------------------------------------------------------------
(* Types.                                                                  *)

\* Done of a key gives a queue, whether or not the key is being processed.
LEMMA DoneType ==
  ASSUME NEW r \in QueueType({Key})
  PROVE  Done(r, Key) \in QueueType({Key})
<1> DEFINE s == IF Key \in r.dirty THEN Append(r.queue, Key) ELSE r.queue
           p == r.processing \ {Key}
<1>1. s \in Seq({Key}) /\ p \in SUBSET {Key}
  BY AppendLemma DEF QueueType
<1>2. [r EXCEPT !.processing = p, !.queue = s] \in QueueType({Key})
  <2> HIDE DEF s, p
  <2> QED BY <1>1 DEF QueueType
<1> QED BY <1>2 DEF Done

\* Objects with one field replaced are objects.
LEMMA ObjectLemma ==
  ASSUME NEW o \in Object
  PROVE  /\ \A ph \in Phases : [o EXCEPT !.phase = ph] \in Object
         /\ [o EXCEPT !.os = TRUE] \in Object
         /\ [o EXCEPT !.url = TRUE] \in Object
         /\ \A sp \in [Pools -> Sizes] : [o EXCEPT !.spec = sp] \in Object
         /\ \A ph : [o EXCEPT !.phase = ph].phase = ph
         /\ [o EXCEPT !.os = TRUE].phase = o.phase
         /\ [o EXCEPT !.url = TRUE].phase = o.phase
         /\ \A sp : [o EXCEPT !.spec = sp].phase = o.phase
BY DEF Object

\* No kluster is an object like the others.
LEMMA AbsentLemma == Absent \in Object /\ Absent.phase = "Absent"
<1>1. [p \in Pools |-> NoPool] \in [Pools -> Sizes]
  BY SizeAssumption DEF Sizes, NoPool
<1>2. [p \in Pools |-> NoPool] \in [Pools -> Nat \cup {NoPool}]
  OBVIOUS
<1> QED BY <1>1, <1>2 DEF Absent, Object

\* POST creates a Pending object.
LEMMA KlusterForLemma ==
  ASSUME NEW os \in BOOLEAN, NEW spec \in [Pools -> Sizes]
  PROVE  KlusterFor(os, spec) \in Object /\ KlusterFor(os, spec).phase = "Pending"
<1>1. [p \in Pools |-> IF spec[p] = NoPool THEN NoPool ELSE 0] \in [Pools -> Nat \cup {NoPool}]
  OBVIOUS
<1> QED BY <1>1 DEF KlusterFor, Object, Phases

\* A write of an object keeps the types of the API server's state.
LEMMA WriteType ==
  ASSUME ApiTypeOK, NEW o \in Object, Write(o)
  PROVE  store' \in Object /\ fresh' \subseteq {"ground", "launch"} /\ watch' \in Seq(Object)
<1>1. Append(watch, o) \in Seq(Object)
  BY AppendLemma DEF ApiTypeOK
<1> QED BY <1>1 DEF ApiTypeOK, Write

\* The REST handlers.
LEMMA ApiType ==
  ASSUME ApiTypeOK, ApiNext
  PROVE  ApiTypeOK'
<1>1. CASE CreateCluster
  <2>1. store' \in Object /\ fresh' \subseteq {"ground", "launch"} /\ watch' \in Seq(Object)
    <3>1. PICK os \in BOOLEAN, spec \in [Pools -> Sizes] : Write(KlusterFor(os, spec))
      BY <1>1 DEF CreateCluster
    <3>2. KlusterFor(os, spec) \in Object
      BY KlusterForLemma
    <3> QED BY <3>1, <3>2, WriteType
  <2>2. requests' \in 0..MaxRequests
    BY <1>1, RequestsAssumption DEF ApiTypeOK, CreateCluster, Request
  <2>3. cache' = cache /\ apiPc' = apiPc /\ accepted' \in BOOLEAN
    BY <1>1 DEF CreateCluster
  <2> QED BY <2>1, <2>2, <2>3 DEF ApiTypeOK
<1>2. CASE UpdateCluster
  <2>1. store' \in Object /\ fresh' \subseteq {"ground", "launch"} /\ watch' \in Seq(Object)
    BY <1>2, WriteType, ObjectLemma DEF ApiTypeOK, UpdateCluster, EditCluster
  <2> QED BY <1>2, <2>1, RequestsAssumption DEF ApiTypeOK, UpdateCluster, Request
<1>3. CASE TerminateCheck
  BY <1>3, RequestsAssumption DEF ApiTypeOK, TerminateCheck, Request
<1>4. CASE TerminateEdit
  <2>1. store' \in Object /\ fresh' \subseteq {"ground", "launch"} /\ watch' \in Seq(Object)
    BY <1>4, WriteType, ObjectLemma DEF ApiTypeOK, TerminateEdit, EditCluster, Phases
  <2> QED BY <1>4, <2>1 DEF ApiTypeOK, TerminateEdit
<1> QED BY <1>1, <1>2, <1>3, <1>4 DEF ApiNext

\* Every step keeps the types.
LEMMA TypeLemma ==
  ASSUME TypeOK, [Next]_vars
  PROVE  TypeOK'
<1> USE GroundBounds, RequestsAssumption DEF TypeOK, PCs, Goto, At, Fault, qVars, local, external, ghost, apiVars
<1>1. CASE Api
  <2>1. ApiTypeOK'
    BY <1>1, ApiType DEF Api
  <2>2. hadSecret' \in BOOLEAN /\ stranded' \in BOOLEAN
    BY <1>1 DEF Api
  <2> QED BY <1>1, <2>1, <2>2 DEF Api
<1>2. CASE CacheEvent
  <2>1. ApiTypeOK'
    BY <1>2, TailLemma DEF CacheEvent, CacheNext, ApiTypeOK
  <2>2. deletion' \in {"seen", "unseen", "overtaken"}
    BY <1>2 DEF CacheEvent
  <2> QED BY <1>2, <2>1, <2>2 DEF CacheEvent
<1>3. CASE Deliver \/ PodEvent \/ PodRestart \/ DelayPassed \/ GetItem \/ Finish \/ DoneItem
  <2>1. ApiTypeOK'
    BY <1>3 DEF Deliver, PodEvent, PodRestart, DelayPassed, GetItem, Finish, DoneItem, ApiTypeOK
  <2>2. q' \in QueueType({Key})
    <3>1. CASE Deliver \/ PodEvent \/ PodRestart
      BY <3>1, AddLemma DEF Deliver, PodEvent, PodRestart
    <3>2. CASE DelayPassed
      BY <3>2, WaitingLoopLemma DEF DelayPassed
    <3>3. CASE GetItem
      BY <3>3, GetLemma DEF GetItem
    <3>4. CASE Finish
      <4>1. Forget(q, Key) \in QueueType({Key}) /\ AddAfter(q, Key) \in QueueType({Key})
        BY ForgetLemma, AddAfterLemma
      <4> QED BY <3>4, <4>1 DEF Finish
    <3>5. CASE DoneItem
      BY <3>5, DoneType DEF DoneItem
    <3> QED BY <1>3, <3>1, <3>2, <3>3, <3>4, <3>5
  <2> QED BY <1>3, <2>1, <2>2 DEF Deliver, PodEvent, PodRestart, DelayPassed, GetItem, Finish, DoneItem
<1>4. CASE Crash
  <2>1. ApiTypeOK'
    BY <1>4 DEF Crash, ApiTypeOK
  <2>2. q' \in QueueType({Key})
    BY <1>4, NewQueueLemma DEF Crash
  <2>3. stranded' \in BOOLEAN
    BY <1>4 DEF Crash
  <2>4. deletion' \in {"seen", "unseen", "overtaken"}
    BY <1>4 DEF Crash
  <2> QED BY <1>4, <2>1, <2>2, <2>3, <2>4 DEF Crash
<1>5. CASE Handle \/ DiscoverSelect \/ Prepare \/ Seed \/ Wait \/ WaitGone \/ GetSecret
  <2>1. ApiTypeOK'
    BY <1>5 DEF Handle, DiscoverSelect, Prepare, Seed, Wait, WaitGone, GetSecret, ApiTypeOK
  <2>2. CASE Handle
    BY <2>2, <2>1 DEF Handle, FirstCall
  <2>3. CASE DiscoverSelect
    BY <2>3, <2>1 DEF DiscoverSelect
  <2>4. CASE Prepare
    BY <2>4, <2>1 DEF Prepare
  <2>5. CASE Seed
    BY <2>5, <2>1 DEF Seed
  <2>6. CASE Wait
    BY <2>6, <2>1 DEF Wait
  <2>7. CASE WaitGone
    BY <2>7, <2>1 DEF WaitGone, DeletionUnseen
  <2>8. CASE GetSecret
    BY <2>8, <2>1 DEF GetSecret
  <2> QED BY <1>5, <2>2, <2>3, <2>4, <2>5, <2>6, <2>7, <2>8
<1>6. CASE ServiceUser \/ UserRoles \/ InstallRelease \/ DeleteUser \/ DeleteRelease
  <2>1. ApiTypeOK'
    BY <1>6 DEF ServiceUser, UserRoles, InstallRelease, DeleteUser, DeleteRelease, ApiTypeOK
  <2>2. /\ q' \in QueueType({Key}) /\ notify' \in 0..MaxNotify /\ pc' \in PCs
        /\ target' \in {"Creating", "Running"} /\ behind' \in Nat
        /\ faults' \in 0..MaxFaults /\ crashes' \in 0..MaxCrashes
    BY <1>6 DEF ServiceUser, UserRoles, InstallRelease, DeleteUser, DeleteRelease
  <2>3. /\ secret' \in {"none", "match", "stale"}
        /\ pods' \in {"none", "starting", "ready", "leaving"}
    BY <1>6 DEF ServiceUser, UserRoles, InstallRelease, DeleteUser, DeleteRelease
  <2>4. user' \in BOOLEAN /\ roles' \in BOOLEAN /\ release' \in BOOLEAN
    BY <1>6, Zenon DEF ServiceUser, UserRoles, InstallRelease, DeleteUser, DeleteRelease
  <2>5. hadSecret' \in BOOLEAN /\ stranded' \in BOOLEAN /\ deletion' = deletion
    BY <1>6, Zenon DEF ServiceUser, UserRoles, InstallRelease, DeleteUser, DeleteRelease
  <2> QED BY <2>1, <2>2, <2>3, <2>4, <2>5, Zenon
<1>7. CASE DiscoverGet \/ UrlGet \/ PhaseGet
  <2>1. ApiTypeOK'
    BY <1>7 DEF DiscoverGet, UrlGet, PhaseGet, ApiTypeOK, Read
  <2>2. CASE DiscoverGet
    BY <2>2, <2>1 DEF DiscoverGet
  <2>3. CASE UrlGet
    BY <2>3, <2>1 DEF UrlGet
  <2>4. CASE PhaseGet
    <3>1. stranded' \in BOOLEAN
      BY <2>4, Zenon DEF PhaseGet
    <3>2. /\ pc' \in PCs /\ target' = target /\ behind' = behind
          /\ faults' \in 0..MaxFaults
      BY <2>4 DEF PhaseGet
    <3> QED BY <2>4, <2>1, <3>1, <3>2, Zenon DEF PhaseGet
  <2> QED BY <1>7, <2>2, <2>3, <2>4
<1>8. CASE DiscoverPut \/ UrlPut \/ PhasePut
  <2>1. /\ [store EXCEPT !.os = TRUE] \in Object
        /\ [store EXCEPT !.url = TRUE] \in Object
        /\ [store EXCEPT !.phase = target] \in Object
    BY ObjectLemma DEF ApiTypeOK, Phases
  <2>2. \/ UNCHANGED <<store, fresh, watch>>
        \/ Write([store EXCEPT !.os = TRUE])
        \/ Write([store EXCEPT !.url = TRUE])
        \/ Write([store EXCEPT !.phase = target])
    BY <1>8 DEF DiscoverPut, UrlPut, PhasePut, Update
  <2>3. store' \in Object /\ fresh' \subseteq {"ground", "launch"} /\ watch' \in Seq(Object)
    BY <2>1, <2>2, WriteType DEF ApiTypeOK
  <2>4. ApiTypeOK'
    BY <1>8, <2>3 DEF DiscoverPut, UrlPut, PhasePut, Update, ApiTypeOK
  <2>5. Len(watch') \in Nat
    BY <2>3
  <2>6. /\ pc' \in PCs /\ target' = target /\ behind' \in Nat
        /\ faults' \in 0..MaxFaults /\ crashes' = crashes /\ q' = q /\ notify' = notify
    BY <1>8, <2>5 DEF DiscoverPut, UrlPut, PhasePut, Update, StartWait
  <2>7. stranded' \in BOOLEAN
    BY <1>8, Zenon DEF DiscoverPut, UrlPut, PhasePut, Update
  <2>8. UNCHANGED <<external, hadSecret, deletion>>
    BY <1>8, Zenon DEF DiscoverPut, UrlPut, PhasePut, Update
  <2> QED BY <2>4, <2>6, <2>7, <2>8, Zenon
<1>9. CASE DeleteKluster
  <2>1. store' \in Object /\ fresh' \subseteq {"ground", "launch"} /\ watch' \in Seq(Object)
    BY <1>9, AbsentLemma, WriteType DEF DeleteKluster, ApiTypeOK
  <2>2. ApiTypeOK'
    BY <1>9, <2>1 DEF DeleteKluster, ApiTypeOK
  <2>3. Len(watch') \in Nat
    BY <2>1
  <2>4. deletion' \in {"seen", "unseen", "overtaken"}
    BY <1>9 DEF DeleteKluster, DeletionUnseen
  <2> QED BY <1>9, <2>2, <2>3, <2>4 DEF DeleteKluster
<1>10. CASE UNCHANGED vars
  BY <1>10 DEF vars, ApiTypeOK
<1> QED BY <1>1, <1>2, <1>3, <1>4, <1>5, <1>6, <1>7, <1>8, <1>9, <1>10 DEF Next, Worker

-----------------------------------------------------------------------------
(* The versions the worker has yet to see.                                 *)

\* The phase in the cache (0) and the phases of the undelivered versions.
Seen == [i \in 0..Len(watch) |-> IF i = 0 THEN cache.phase ELSE watch[i].phase]

\* What a step does to them: nothing, a write appends one, the informer takes
\* the first one off, a restart leaves the last one only.
Same == Len(watch') = Len(watch) /\ Seen' = Seen /\ store'.phase = store.phase

Grows(phase) ==
  /\ Len(watch') = Len(watch) + 1
  /\ store'.phase = phase /\ Seen'[Len(watch) + 1] = phase
  /\ \A i \in 0..Len(watch) : Seen'[i] = Seen[i]

Shrinks ==
  /\ Len(watch') = Len(watch) - 1 /\ Len(watch) > 0
  /\ store'.phase = store.phase
  /\ \A i \in 0..(Len(watch) - 1) : Seen'[i] = Seen[i + 1]

Restarts ==
  /\ Len(watch') = 0
  /\ store'.phase = store.phase /\ Seen'[0] = store.phase

\* Nothing is written and nothing is delivered.
LEMMA SameLemma ==
  ASSUME UNCHANGED <<store, watch, cache>>
  PROVE  Same
BY DEF Same, Seen

\* A write changes nothing, or adds the version it writes.
LEMMA GrowsLemma ==
  ASSUME ApiTypeOK, NEW o \in Object, Write(o), cache' = cache
  PROVE  (Same /\ o.phase = store.phase) \/ Grows(o.phase)
<1>1. CASE o = store
  BY <1>1, SameLemma DEF Write
<1>2. CASE o # store
  <2>1. watch' = Append(watch, o) /\ store' = o
    BY <1>2 DEF Write
  <2>2. /\ Len(watch) \in Nat /\ Len(watch') = Len(watch) + 1
        /\ watch'[Len(watch) + 1] = o
        /\ \A i \in 1..Len(watch) : watch'[i] = watch[i]
    BY <2>1, AppendLemma DEF ApiTypeOK
  <2> QED BY <2>1, <2>2 DEF Grows, Seen
<1> QED BY <1>1, <1>2

\* The informer takes the oldest version off the watch.
LEMMA ShrinksLemma ==
  ASSUME ApiTypeOK, CacheNext, store' = store
  PROVE  Shrinks
<1>1. /\ Len(watch) \in Nat \ {0} /\ watch' \in Seq(Object)
      /\ Len(watch') = Len(watch) - 1
      /\ cache' = watch[1]
      /\ \A i \in 1..(Len(watch) - 1) : watch'[i] = watch[i + 1]
  BY TailLemma DEF ApiTypeOK, CacheNext
<1> QED BY <1>1 DEF Shrinks, Seen

\* A restarted informer lists what the API server has.
LEMMA RestartsLemma ==
  ASSUME watch' = <<>>, cache' = store, store' = store
  PROVE  Restarts
BY DEF Restarts, Seen

\* The number of versions is a number, version 0 is the one in the cache.
LEMMA SeenLemma ==
  ASSUME ApiTypeOK
  PROVE  Len(watch) \in Nat /\ Seen[0] = cache.phase
BY DEF ApiTypeOK, Seen

-----------------------------------------------------------------------------
(* The invariant about deletions.                                          *)

TermPcs == {"secret", "deleteUser", "deleteRelease", "deleteKluster"}

StartPcs == {"prepare", "user", "roles", "install"}

PhasePcs == {"phaseGet", "phasePut"}

\* Where the worker relies on the kluster it found in the cache.
Busy == TermPcs \cup StartPcs \cup PhasePcs \cup
        {"routers", "discover", "osPut", "urlGet", "urlPut", "seed", "wait"}

\* The places from which the worker goes on without relying on anything.
Resting == {"get", "handle", "ok", "failed", "done"}

\* The cache has yet to see a deletion of the worker, which waits for it or not.
Awaited == pc = "waitGone" \/ deletion = "unseen"

\* The versions of the next kluster of the name start at the awaited deletion.
Deletion == IF Awaited THEN behind ELSE 0

\* This kluster had a control plane, which has been torn down.
Torn == hadSecret /\ secret = "none"

\* The last version is the one in the API server; the worker's own write is
\* among them while the worker waits for it, or has a deletion to see.
Latest ==
  /\ Seen[Len(watch)] = store.phase
  /\ pc \in {"wait", "waitGone"} \/ deletion = "unseen" => behind <= Len(watch)
  /\ deletion = "unseen" => pc \in Resting /\ behind > 0

\* The cache never has to catch up with a deletion but the last one.
OneDeletion ==
  /\ \A i \in 1..Len(watch) : Seen[i] # "Absent" \/ (Awaited /\ i = behind)
  /\ pc \in Busy => Seen[0] # "Absent"
  /\ Awaited /\ behind > 0 => Seen[0] # "Absent"

\* A kluster that was past Pending is never seen as Pending again.
PendingFirst ==
  \A i, j \in Deletion..Len(watch) :
    i <= j /\ Seen[i] \notin {"Absent", "Pending"} => Seen[j] # "Pending"

\* A kluster that is seen as Terminating is one whose termination was accepted.
Requested ==
  /\ \A i \in Deletion..Len(watch) : Seen[i] = "Terminating" => accepted
  /\ pc \in TermPcs => accepted /\ \A i \in 0..Len(watch) : Seen[i] # "Pending"

\* A control plane that has been torn down is not built again.
Undone ==
  /\ Torn => ~ user /\ \A i \in Deletion..Len(watch) : Seen[i] # "Pending"
  /\ pc \in StartPcs => ~ Torn
  /\ pc = "deleteRelease" => (hadSecret => ~ user)
  /\ pc = "deleteKluster" => ~ release

\* What exists only together with the release.
Plane ==
  /\ secret # "none" => release
  /\ pods \in {"starting", "ready"} => release
  /\ pc \in PhasePcs \cup {"seed"} => release

Safe == OneDeletion /\ PendingFirst /\ Requested /\ Undone

DeletionInv ==
  /\ TypeOK /\ Latest /\ Plane
  /\ Trusted => Safe /\ ReleaseUnlessTerminated /\ NothingLeftBehind

\* Steps that leave the versions, the control plane and the history alone and
\* do not enter the waits.
LEMMA MoveLemma ==
  ASSUME DeletionInv, Same, UNCHANGED <<accepted, behind, external, hadSecret>>,
         GetItem \/ Handle \/ DiscoverGet \/ DiscoverSelect \/ UrlGet \/ Prepare
         \/ Seed \/ PhaseGet \/ Wait \/ GetSecret \/ Finish \/ DoneItem
  PROVE  (Latest /\ Plane)' /\ (Trusted' => (Safe /\ ReleaseUnlessTerminated /\ NothingLeftBehind)')
<1> USE DEF DeletionInv, Same, external
<1>1. Len(watch) \in Nat /\ Seen[0] = cache.phase /\ deletion \in {"seen", "unseen", "overtaken"}
  BY SeenLemma DEF TypeOK
<1>2. /\ pc # "waitGone" /\ pc' \notin {"wait", "waitGone", "deleteKluster"}
      /\ pc' \in Busy => pc \in Busy \/ cache.phase # "Absent"
      /\ pc' \in TermPcs => pc \in TermPcs \/ cache.phase = "Terminating"
      /\ pc' \in StartPcs => pc \in StartPcs \/ cache.phase = "Pending"
      /\ pc' \in PhasePcs => pc \in PhasePcs \cup {"seed"}
      /\ pc' = "seed" => pods = "ready"
      /\ pc' = "deleteRelease" => secret = "none"
  BY DEF GetItem, Handle, DiscoverGet, DiscoverSelect, UrlGet, Prepare, Seed, PhaseGet, Wait,
         GetSecret, Finish, DoneItem, At, Goto, Fault, FirstCall, Busy, TermPcs, StartPcs, PhasePcs
<1>3. \/ deletion' = deletion /\ (pc \in Resting => pc' \in Resting)
      \/ deletion = "unseen" /\ deletion' = "overtaken"
      \/ deletion = deletion' /\ deletion # "unseen"
  BY <1>1 DEF GetItem, Handle, DiscoverGet, DiscoverSelect, UrlGet, Prepare, Seed, PhaseGet, Wait,
         GetSecret, Finish, DoneItem, At, Goto, Resting, ghost
<1>4. (Latest /\ Plane)'
  BY <1>1, <1>2, <1>3 DEF Latest, Plane
<1>5. ASSUME Trusted' PROVE (Safe /\ ReleaseUnlessTerminated /\ NothingLeftBehind)'
  <2>1. deletion' = deletion /\ Trusted /\ (deletion = "unseen" => pc' \in Resting)
    BY <1>3, <1>5 DEF Trusted, Latest
  <2>2. pc' \in Busy \cup TermPcs \cup StartPcs => deletion # "unseen"
    BY <2>1 DEF Resting, Busy, TermPcs, StartPcs, PhasePcs
  <2>3. (Awaited <=> deletion = "unseen") /\ (Awaited' <=> deletion = "unseen") /\ Deletion' = Deletion
    BY <1>2, <2>1 DEF Awaited, Deletion
  <2>4. Safe /\ ReleaseUnlessTerminated /\ NothingLeftBehind
    BY <2>1
  <2>5. OneDeletion'
    BY <1>1, <1>2, <2>1, <2>2, <2>3, <2>4 DEF Safe, OneDeletion
  <2>6. PendingFirst'
    BY <2>3, <2>4 DEF Safe, PendingFirst
  <2>7. pc' \in TermPcs \cup StartPcs => Deletion = 0
    BY <2>2, <2>3 DEF Deletion
  <2>8. Requested'
    BY <1>1, <1>2, <2>3, <2>4, <2>7 DEF Safe, PendingFirst, Requested
  <2>9. Undone'
    BY <1>1, <1>2, <2>3, <2>4, <2>7 DEF Safe, Undone, Torn
  <2> QED BY <2>1, <2>4, <2>5, <2>6, <2>8, <2>9
          DEF Safe, ReleaseUnlessTerminated, NothingLeftBehind, Exists, Trusted
<1> QED BY <1>4, <1>5

\* Steps that leave the worker where it is: the queue and the pods.
LEMMA AsideLemma ==
  ASSUME DeletionInv, Same, pc' = pc, secret' = secret, user' = user, release' = release,
         UNCHANGED <<accepted, behind, hadSecret, deletion>>,
         pods' \in {"starting", "ready"} => pods \in {"starting", "ready"}
  PROVE  (Latest /\ Plane)' /\ (Trusted' => (Safe /\ ReleaseUnlessTerminated /\ NothingLeftBehind)')
<1> USE DEF DeletionInv, Same
<1>1. (Latest /\ Plane)'
  BY DEF Latest, Plane
<1>2. ASSUME Trusted' PROVE (Safe /\ ReleaseUnlessTerminated /\ NothingLeftBehind)'
  BY <1>2 DEF Trusted, Awaited, Safe, OneDeletion, PendingFirst, Requested, Undone, Torn, Deletion,
              ReleaseUnlessTerminated, NothingLeftBehind, Exists
<1> QED BY <1>1, <1>2

\* The calls to OpenStack and Helm that change something.
LEMMA CallLemma ==
  ASSUME DeletionInv, Same, UNCHANGED <<accepted, behind, deletion>>,
         ServiceUser \/ UserRoles \/ InstallRelease \/ DeleteUser \/ DeleteRelease
  PROVE  (Latest /\ Plane)' /\ (Trusted' => (Safe /\ ReleaseUnlessTerminated /\ NothingLeftBehind)')
<1> USE DEF DeletionInv, Same
<1>1. Len(watch) \in Nat /\ Seen[0] = cache.phase
  BY SeenLemma DEF TypeOK
<1>2. /\ pc # "waitGone" /\ pc' \notin {"wait", "waitGone", "seed"}
      /\ pc \in Busy
      /\ pc' \in TermPcs => pc \in TermPcs
      /\ pc' \in StartPcs => pc \in StartPcs
      /\ pc' \in PhasePcs => release'
      /\ deletion # "unseen"
  BY DEF Latest, Resting, ServiceUser, UserRoles, InstallRelease, DeleteUser, DeleteRelease, At, Goto, Fault,
         Busy, TermPcs, StartPcs, PhasePcs
<1>3. (Latest /\ Plane)'
  BY <1>1, <1>2 DEF Latest, Plane, ServiceUser, UserRoles, InstallRelease, DeleteUser, DeleteRelease
<1>4. ASSUME Trusted' PROVE (Safe /\ ReleaseUnlessTerminated /\ NothingLeftBehind)'
  <2>0. Trusted /\ ~ Awaited /\ ~ Awaited'
    BY <1>2, <1>4 DEF Trusted, Awaited
  <2>1. OneDeletion'
    BY <1>1, <1>2, <2>0 DEF Safe, OneDeletion
  <2>2. PendingFirst'
    BY <1>1, <1>2, <2>0 DEF Safe, PendingFirst, Deletion
  <2>3. Requested'
    BY <1>1, <1>2, <2>0 DEF Safe, PendingFirst, Requested, Deletion
  <2>4. store.phase # "Absent"
    BY <1>1, <1>2, <2>0 DEF Safe, OneDeletion, Latest
  <2>5. CASE ServiceUser \/ UserRoles
    BY <1>1, <1>2, <2>0, <2>1, <2>2, <2>3, <2>4, <2>5
       DEF Safe, Undone, Torn, Deletion, ServiceUser, UserRoles, At, Goto, Fault, StartPcs,
           ReleaseUnlessTerminated, NothingLeftBehind, Exists
  <2>6. CASE InstallRelease
    BY <1>1, <1>2, <2>0, <2>1, <2>2, <2>3, <2>4, <2>6
       DEF Safe, Undone, Torn, Deletion, InstallRelease, At, Goto, Fault, StartPcs, Plane,
           ReleaseUnlessTerminated, NothingLeftBehind, Exists
  <2>7. CASE DeleteUser \/ DeleteRelease
    <3>1. /\ pc \in TermPcs /\ accepted /\ pc' \notin StartPcs /\ Deletion' = 0
          /\ \A i \in 0..Len(watch) : Seen[i] # "Pending"
      BY <1>2, <2>0, <2>7
         DEF Safe, Requested, DeleteUser, DeleteRelease, At, Goto, Fault, StartPcs, TermPcs, Deletion
    <3>2. /\ hadSecret' = hadSecret
          /\ user' => user
          /\ pc' \in {"deleteRelease", "deleteKluster"} => (hadSecret => ~ user')
          /\ pc' = "deleteKluster" => ~ release'
      BY <2>0, <2>7 DEF Safe, Undone, DeleteUser, DeleteRelease, At, Goto, Fault
    <3>3. Torn' => Torn \/ (hadSecret => ~ user')
      BY <2>0, <2>7 DEF Safe, Undone, Torn, DeleteUser, DeleteRelease, At, Goto, Fault
    <3>4. Undone'
      BY <2>0, <3>1, <3>2, <3>3 DEF Safe, Undone, Torn
    <3> QED BY <2>0, <2>1, <2>2, <2>3, <2>4, <3>1, <3>4
            DEF Safe, ReleaseUnlessTerminated, NothingLeftBehind, Exists
  <2> QED BY <2>5, <2>6, <2>7
<1> QED BY <1>3, <1>4

\* The end of the wait for a deletion.
LEMMA WaitGoneLemma ==
  ASSUME DeletionInv, Same, WaitGone
  PROVE  (Latest /\ Plane)' /\ (Trusted' => (Safe /\ ReleaseUnlessTerminated /\ NothingLeftBehind)')
<1> USE DEF DeletionInv, Same
<1>1. Len(watch) \in Nat /\ Seen[0] = cache.phase /\ behind \in Nat
      /\ deletion \in {"seen", "unseen", "overtaken"}
  BY SeenLemma DEF TypeOK
<1>2. pc = "waitGone" /\ pc' = "ok" /\ UNCHANGED <<accepted, behind, external, hadSecret>>
  BY DEF WaitGone, At, Goto, apiVars
<1>3. behind <= Len(watch) /\ deletion # "unseen"
  BY <1>2 DEF Latest, Resting
<1>4. /\ deletion' \in {deletion, "unseen"}
      /\ deletion' = "unseen" => Exists(cache) /\ behind > 0
      /\ Exists(cache) /\ behind > 0 /\ deletion = "seen" => deletion' = "unseen"
      /\ deletion = "overtaken" => deletion' = "overtaken"
  BY <1>1, <1>3 DEF WaitGone, DeletionUnseen
<1>5. (Latest /\ Plane)'
  BY <1>1, <1>2, <1>3, <1>4 DEF Latest, Plane, external, PhasePcs, Resting
<1>6. ASSUME Trusted' PROVE (Safe /\ ReleaseUnlessTerminated /\ NothingLeftBehind)'
  <2>1. Trusted /\ deletion = "seen"
    BY <1>1, <1>3, <1>4, <1>6 DEF Trusted
  <2>2. Safe /\ ReleaseUnlessTerminated /\ NothingLeftBehind
    BY <2>1
  <2>3. pc' \notin TermPcs \cup StartPcs \cup Busy
    BY <1>2 DEF TermPcs, StartPcs, Busy, PhasePcs
  <2>4. Awaited /\ (behind > 0 => Awaited') /\ (behind = 0 => ~ Awaited')
    BY <1>1, <1>2, <1>4, <2>1, <2>2 DEF Safe, OneDeletion, Exists, Awaited
  <2>5. Deletion' = Deletion
    BY <1>1, <1>2, <2>4 DEF Deletion
  <2> QED BY <1>1, <1>2, <2>1, <2>2, <2>3, <2>4, <2>5
          DEF Safe, OneDeletion, PendingFirst, Requested, Undone, Torn, external,
              ReleaseUnlessTerminated, NothingLeftBehind, Exists, Trusted
<1> QED BY <1>5, <1>6

\* The informer hands over the next version.
LEMMA CacheLemma ==
  ASSUME DeletionInv, CacheEvent
  PROVE  (Latest /\ Plane)' /\ (Trusted' => (Safe /\ ReleaseUnlessTerminated /\ NothingLeftBehind)')
<1> DEFINE n == Len(watch)
<1>1. n \in Nat \ {0} /\ behind \in Nat
  BY SeenLemma, ShrinksLemma DEF DeletionInv, TypeOK, CacheEvent, Shrinks
<1>2. /\ Len(watch') = n - 1 /\ store' = store
      /\ \A i \in 0..(n - 1) : Seen'[i] = Seen[i + 1]
  BY ShrinksLemma DEF DeletionInv, TypeOK, CacheEvent, Shrinks
<1>3. /\ behind' = IF behind > 0 THEN behind - 1 ELSE 0
      /\ deletion' = IF deletion = "unseen" /\ behind = 1 THEN "seen" ELSE deletion
      /\ UNCHANGED <<accepted, pc, user, secret, release, pods, hadSecret>>
  BY DEF CacheEvent, external, ghost
<1>4. /\ Seen[n] = store.phase /\ Plane
      /\ pc \in {"wait", "waitGone"} \/ deletion = "unseen" => behind <= n
      /\ deletion = "unseen" => pc \in Resting /\ behind > 0
  BY DEF DeletionInv, Latest
<1>5. (Latest /\ Plane)'
  BY <1>1, <1>2, <1>3, <1>4 DEF Latest, Plane
<1>6. ASSUME Trusted' PROVE (Safe /\ ReleaseUnlessTerminated /\ NothingLeftBehind)'
  <2>1. Safe /\ ReleaseUnlessTerminated /\ NothingLeftBehind
    BY <1>3, <1>6 DEF DeletionInv, Trusted
  <2>2. \A i \in Deletion'..(n - 1) : i + 1 \in Deletion..n /\ i \in 0..(n - 1) /\ Seen'[i] = Seen[i + 1]
    BY <1>1, <1>2, <1>3, <1>4 DEF Deletion, Awaited
  <2>3. OneDeletion'
    BY <1>1, <1>2, <1>3, <1>4, <2>1 DEF Safe, OneDeletion, Awaited, Resting, Busy, TermPcs, StartPcs, PhasePcs
  <2>4. PendingFirst'
    BY <1>1, <1>2, <2>1, <2>2 DEF Safe, PendingFirst
  <2>5. Requested'
    BY <1>1, <1>2, <1>3, <2>1, <2>2 DEF Safe, Requested
  <2>6. Undone'
    BY <1>1, <1>2, <1>3, <2>1, <2>2 DEF Safe, Undone, Torn
  <2> QED BY <1>2, <1>3, <1>6, <2>1, <2>3, <2>4, <2>5, <2>6
          DEF Trusted, Safe, ReleaseUnlessTerminated, NothingLeftBehind, Exists
<1> QED BY <1>5, <1>6

\* The operator restarts: its cache is the API server's version.
LEMMA CrashLemma ==
  ASSUME DeletionInv, Crash
  PROVE  (Latest /\ Plane)' /\ (Trusted' => (Safe /\ ReleaseUnlessTerminated /\ NothingLeftBehind)')
<1> USE DEF DeletionInv
<1>1. /\ Len(watch') = 0 /\ store' = store /\ Seen'[0] = store.phase
  BY RestartsLemma DEF Crash, Restarts
<1>2. /\ pc' = "get"
      /\ UNCHANGED <<accepted, user, secret, release, pods, hadSecret>>
      /\ deletion' = IF deletion = "unseen" THEN "seen" ELSE deletion
  BY DEF Crash, external
<1>3. pc' \notin TermPcs \cup StartPcs \cup PhasePcs \cup Busy
  BY <1>2 DEF TermPcs, StartPcs, PhasePcs, Busy
<1>4. Len(watch) \in Nat /\ Seen[Len(watch)] = store.phase /\ behind \in Nat
      /\ (Awaited => behind <= Len(watch))
  BY SeenLemma DEF TypeOK, Latest, Awaited
<1>5. (Latest /\ Plane)'
  BY <1>1, <1>2, <1>3 DEF Latest, Plane
<1>6. ASSUME Trusted' PROVE (Safe /\ ReleaseUnlessTerminated /\ NothingLeftBehind)'
  <2>1. Len(watch) \in Deletion..Len(watch) /\ ~ Awaited' /\ Deletion' = 0
    BY <1>2, <1>4 DEF Deletion, Awaited
  <2>2. Trusted /\ Safe /\ ReleaseUnlessTerminated /\ NothingLeftBehind
    BY <1>2, <1>6 DEF Trusted
  <2> QED BY <1>1, <1>2, <1>3, <1>4, <2>1, <2>2
          DEF Safe, OneDeletion, PendingFirst, Requested, Undone, Torn,
              ReleaseUnlessTerminated, NothingLeftBehind, Exists
<1> QED BY <1>5, <1>6

\* A write to a kluster that exists, by a request or by the worker, which then
\* waits for it (phase) or not.
LEMMA GrowLemma ==
  ASSUME DeletionInv, NEW phase, Grows(phase), accepted => accepted',
         Trusted =>
           /\ store.phase # "Absent" /\ phase # "Absent"
           /\ phase = "Pending" => store.phase = "Pending"
           /\ phase = "Terminating" => accepted' \/ store.phase = "Terminating"
           /\ phase \in {"Creating", "Running"} => store.phase = phase \/ release,
         secret' = secret, user' = user, release' = release, pods' = pods,
         hadSecret' = hadSecret, deletion' = deletion,
         \/ pc' = pc /\ behind' = behind
         \/ pc \in Busy /\ pc' = "ok"
         \/ pc \in Busy /\ pc' = "wait" /\ behind' = Len(watch')
  PROVE  (Latest /\ Plane)' /\ (Trusted' => (Safe /\ ReleaseUnlessTerminated /\ NothingLeftBehind)')
<1> DEFINE n == Len(watch)
<1>1. n \in Nat /\ behind \in Nat /\ Seen[n] = store.phase /\ Plane
      /\ (pc \in {"wait", "waitGone"} \/ deletion = "unseen" => behind <= n)
      /\ (deletion = "unseen" => pc \in Resting /\ behind > 0)
  BY SeenLemma DEF DeletionInv, TypeOK, Latest
<1>2. /\ Len(watch') = n + 1 /\ store'.phase = phase /\ Seen'[n + 1] = phase
      /\ \A i \in 0..n : Seen'[i] = Seen[i]
  BY DEF Grows
<1>3. /\ pc' \in TermPcs => pc \in TermPcs
      /\ pc' \in StartPcs => pc \in StartPcs
      /\ pc' \in Busy => pc \in Busy
      /\ pc' \in {"deleteRelease", "deleteKluster", "seed"} \cup PhasePcs => pc' = pc
      /\ Busy \cap ({"waitGone"} \cup Resting) = {}
      /\ pc' = "waitGone" => pc = "waitGone" /\ behind' = behind
  BY DEF TermPcs, StartPcs, Busy, PhasePcs, Resting
<1>4. (Latest /\ Plane)'
  BY <1>1, <1>2, <1>3 DEF Latest, Plane
<1>5. ASSUME Trusted' PROVE (Safe /\ ReleaseUnlessTerminated /\ NothingLeftBehind)'
  <2>1. Safe /\ ReleaseUnlessTerminated /\ NothingLeftBehind
    BY <1>5 DEF DeletionInv, Trusted
  <2>0. /\ store.phase # "Absent" /\ phase # "Absent"
        /\ phase = "Pending" => store.phase = "Pending"
        /\ phase = "Terminating" => accepted' \/ store.phase = "Terminating"
        /\ phase \in {"Creating", "Running"} => store.phase = phase \/ release
    BY <1>5 DEF Trusted
  <2>2. Deletion' = Deletion /\ Deletion \in 0..n
    <3>1. (Awaited <=> Awaited') /\ (Awaited => behind' = behind)
      BY <1>1, <1>3 DEF Awaited
    <3> QED BY <1>1, <3>1 DEF Deletion, Awaited
  <2>3. OneDeletion'
    BY <1>1, <1>2, <1>3, <2>0, <2>1, <2>2 DEF Safe, OneDeletion, Awaited
  <2>4. PendingFirst'
    <3> SUFFICES ASSUME NEW i \in Deletion..(n + 1), NEW j \in Deletion..(n + 1), i <= j,
                        Seen'[i] \notin {"Absent", "Pending"}
                 PROVE  Seen'[j] # "Pending"
      BY <1>2, <2>2 DEF PendingFirst
    <3>1. CASE j \in Deletion..n
      BY <1>1, <1>2, <2>1, <2>2, <3>1 DEF Safe, PendingFirst
    <3>2. CASE j = n + 1 /\ i \in Deletion..n
      BY <1>1, <1>2, <2>0, <2>1, <2>2, <3>2 DEF Safe, PendingFirst
    <3>3. CASE i = n + 1 /\ j = n + 1
      BY <1>2, <3>3
    <3> QED BY <1>1, <2>2, <3>1, <3>2, <3>3
  <2>5. Requested'
    BY <1>1, <1>2, <1>3, <2>0, <2>1, <2>2 DEF Safe, Requested
  <2>6. Undone'
    BY <1>1, <1>2, <1>3, <2>0, <2>1, <2>2 DEF Safe, Undone, Torn
  <2> QED BY <1>1, <1>2, <1>3, <2>0, <2>1, <2>3, <2>4, <2>5, <2>6
          DEF Trusted, Safe, ReleaseUnlessTerminated, NothingLeftBehind, Exists
<1> QED BY <1>4, <1>5

\* POST creates a kluster, whose versions start with the deletion of the last.
LEMMA CreateLemma ==
  ASSUME DeletionInv, Grows("Pending"), store.phase = "Absent",
         secret' = secret, user' = user, release' = release, pods' = pods,
         ~ hadSecret', deletion' = deletion, pc' = pc, behind' = behind
  PROVE  (Latest /\ Plane)' /\ (Trusted' => (Safe /\ ReleaseUnlessTerminated /\ NothingLeftBehind)')
<1> DEFINE n == Len(watch)
<1>1. n \in Nat /\ behind \in Nat /\ Seen[n] = store.phase /\ Plane
      /\ (pc \in {"wait", "waitGone"} \/ deletion = "unseen" => behind <= n)
      /\ (deletion = "unseen" => pc \in Resting /\ behind > 0)
  BY SeenLemma DEF DeletionInv, TypeOK, Latest
<1>2. /\ Len(watch') = n + 1 /\ store'.phase = "Pending" /\ Seen'[n + 1] = "Pending"
      /\ \A i \in 0..n : Seen'[i] = Seen[i]
  BY DEF Grows
<1>3. (Latest /\ Plane)'
  BY <1>1, <1>2 DEF Latest, Plane
<1>4. ASSUME Trusted' PROVE (Safe /\ ReleaseUnlessTerminated /\ NothingLeftBehind)'
  <2>1. Safe
    BY <1>4 DEF DeletionInv, Trusted
  <2>2. Deletion' = Deletion /\ Deletion = n
    BY <1>1, <2>1 DEF Safe, OneDeletion, Deletion, Awaited
  <2>3. pc \notin Busy
    BY <1>1, <2>1, <2>2 DEF Safe, OneDeletion, Deletion, Awaited, Resting, Busy, TermPcs, StartPcs, PhasePcs
  <2>4. OneDeletion'
    BY <1>1, <1>2, <2>1, <2>3 DEF Safe, OneDeletion, Awaited
  <2>5. PendingFirst'
    BY <1>1, <1>2, <2>2 DEF PendingFirst
  <2>6. Requested'
    BY <1>1, <1>2, <2>2, <2>3 DEF Requested, Busy
  <2>7. Undone'
    BY <1>1, <1>2, <2>3 DEF Undone, Torn, Busy, TermPcs
  <2> QED BY <1>2, <2>4, <2>5, <2>6, <2>7
          DEF Safe, ReleaseUnlessTerminated, NothingLeftBehind, Exists
<1> QED BY <1>3, <1>4

\* terminateKluster deletes the resource and waits for its cache.
LEMMA DeleteLemma ==
  ASSUME DeletionInv, Grows("Absent"), pc = "deleteKluster",
         \/ pc' = "waitGone" /\ deletion' = deletion
         \/ pc' = "failed" /\ deletion' = DeletionUnseen,
         behind' = Len(watch'), secret' = secret, user' = user, release' = release,
         pods' = pods, hadSecret' = hadSecret, accepted' = accepted
  PROVE  (Latest /\ Plane)' /\ (Trusted' => (Safe /\ ReleaseUnlessTerminated /\ NothingLeftBehind)')
<1> DEFINE n == Len(watch)
<1>1. n \in Nat /\ behind \in Nat /\ Seen[n] = store.phase /\ Plane
  BY SeenLemma DEF DeletionInv, TypeOK, Latest
<1>2. /\ Len(watch') = n + 1 /\ store'.phase = "Absent" /\ Seen'[n + 1] = "Absent"
      /\ \A i \in 0..n : Seen'[i] = Seen[i]
  BY DEF Grows
<1>3. deletion \in {"seen", "overtaken"}
  BY DEF DeletionInv, TypeOK, Latest, Resting
<1>0. (Latest /\ Plane)'
  BY <1>1, <1>2, <1>3 DEF Latest, Plane, PhasePcs, Resting, DeletionUnseen
<1>4. ASSUME Trusted' PROVE (Safe /\ ReleaseUnlessTerminated /\ NothingLeftBehind)'
  <2>1. Safe
    BY <1>3, <1>4 DEF DeletionInv, Trusted, DeletionUnseen
  <2>0. Awaited' /\ ~ Awaited
    BY <1>3, <1>4 DEF Awaited, DeletionUnseen, Trusted
  <2>2. Deletion' = n + 1 /\ pc \in Busy /\ pc \in TermPcs /\ pc' \notin Busy \cup TermPcs \cup StartPcs
    BY <1>2, <2>0 DEF Deletion, Busy, TermPcs, StartPcs, PhasePcs
  <2>3. OneDeletion'
    BY <1>1, <1>2, <2>0, <2>1, <2>2 DEF Safe, OneDeletion
  <2>4. PendingFirst' /\ Requested'
    BY <1>1, <1>2, <2>2 DEF PendingFirst, Requested
  <2>5. hadSecret /\ secret = "none" => ~ user
    BY <2>1 DEF Safe, Undone, Torn
  <2>6. Undone'
    BY <1>1, <1>2, <2>2, <2>5 DEF Undone, Torn
  <2>7. ~ release /\ secret = "none"
    BY <1>1, <2>1 DEF Safe, Undone, Plane
  <2> QED BY <1>2, <2>3, <2>4, <2>5, <2>6, <2>7
          DEF Safe, ReleaseUnlessTerminated, NothingLeftBehind, Exists
<1> QED BY <1>0, <1>4

\* A second DELETE of a kluster that is Terminating writes nothing.
LEMMA AcceptLemma ==
  ASSUME DeletionInv, Same, store.phase = "Terminating", accepted', pc' = pc, behind' = behind,
         secret' = secret, user' = user, release' = release, pods' = pods,
         hadSecret' = hadSecret, deletion' = deletion
  PROVE  (Latest /\ Plane)' /\ (Trusted' => (Safe /\ ReleaseUnlessTerminated /\ NothingLeftBehind)')
<1> USE DEF DeletionInv, Same
<1>1. (Latest /\ Plane)'
  BY DEF Latest, Plane
<1>2. ASSUME Trusted' PROVE (Safe /\ ReleaseUnlessTerminated /\ NothingLeftBehind)'
  BY <1>2 DEF Trusted, Awaited, Safe, OneDeletion, PendingFirst, Requested, Undone, Torn, Deletion,
              ReleaseUnlessTerminated, NothingLeftBehind, Exists
<1> QED BY <1>1, <1>2

\* A write that failed, or changed nothing.
LEMMA StayLemma ==
  ASSUME DeletionInv, Same, pc \in Busy,
         pc' \in {"ok", "failed"} \/ (pc' = "wait" /\ behind' = Len(watch')),
         secret' = secret, user' = user, release' = release, pods' = pods,
         hadSecret' = hadSecret, deletion' = deletion, accepted' = accepted
  PROVE  (Latest /\ Plane)' /\ (Trusted' => (Safe /\ ReleaseUnlessTerminated /\ NothingLeftBehind)')
<1> USE DEF DeletionInv, Same
<1>1. Len(watch) \in Nat
  BY SeenLemma DEF TypeOK
<1>2. /\ pc # "waitGone" /\ pc' # "waitGone" /\ deletion # "unseen" /\ pc' \notin TermPcs \cup StartPcs \cup PhasePcs \cup {"seed"}
      /\ pc' \in Busy => pc \in Busy
  BY DEF TermPcs, StartPcs, PhasePcs, Busy, Resting, Latest
<1>3. (Latest /\ Plane)'
  BY <1>1, <1>2 DEF Latest, Plane
<1>4. ASSUME Trusted' PROVE (Safe /\ ReleaseUnlessTerminated /\ NothingLeftBehind)'
  <2>1. Trusted /\ ~ Awaited /\ ~ Awaited' /\ Deletion' = 0 /\ Deletion = 0
    BY <1>2, <1>4 DEF Deletion, Awaited, Trusted
  <2> QED BY <1>2, <2>1 DEF Safe, OneDeletion, PendingFirst, Requested, Undone, Torn, TermPcs,
              ReleaseUnlessTerminated, NothingLeftBehind, Exists
<1> QED BY <1>3, <1>4

\* The Updates of the worker.
LEMMA PutLemma ==
  ASSUME DeletionInv, DiscoverPut \/ UrlPut \/ PhasePut
  PROVE  (Latest /\ Plane)' /\ (Trusted' => (Safe /\ ReleaseUnlessTerminated /\ NothingLeftBehind)')
<1>1. ApiTypeOK /\ store \in Object /\ target \in {"Creating", "Running"} /\ Len(watch) \in Nat
  BY SeenLemma DEF DeletionInv, TypeOK, ApiTypeOK
<1>2. /\ cache' = cache /\ accepted' = accepted
      /\ secret' = secret /\ user' = user /\ release' = release /\ pods' = pods
      /\ hadSecret' = hadSecret /\ deletion' = deletion
      /\ pc \in Busy /\ pc # "waitGone"
  BY DEF DiscoverPut, UrlPut, PhasePut, Update, At, external, Busy, PhasePcs
<1>3. Trusted => store.phase # "Absent"
  BY <1>1, <1>2 DEF DeletionInv, Safe, OneDeletion, Latest, Awaited, Resting, Busy, TermPcs, StartPcs, PhasePcs
<1>4. CASE pc' \in {"ok", "failed"} /\ UNCHANGED <<store, fresh, watch>>
  <2>1. Same
    BY <1>2, <1>4, SameLemma
  <2> QED BY <1>2, <1>4, <2>1, StayLemma
<1>5. ASSUME NEW o \in Object, o.phase = store.phase, Write(o), pc' = "ok"
      PROVE  (Latest /\ Plane)' /\ (Trusted' => (Safe /\ ReleaseUnlessTerminated /\ NothingLeftBehind)')
  <2>1. Same \/ Grows(store.phase)
    BY <1>1, <1>2, <1>5, GrowsLemma
  <2>2. CASE Same
    BY <1>2, <1>5, <2>2, StayLemma
  <2>3. CASE Grows(store.phase)
    BY <1>2, <1>3, <1>5, <2>3, GrowLemma
  <2> QED BY <2>1, <2>2, <2>3
<1>6. CASE /\ pc = "phasePut" /\ Write([store EXCEPT !.phase = target])
           /\ pc' = "ok" \/ (pc' = "wait" /\ behind' = Len(watch'))
  <2>1. /\ [store EXCEPT !.phase = target] \in Object
        /\ [store EXCEPT !.phase = target].phase = target
    BY <1>1, ObjectLemma DEF Phases
  <2>2. Same \/ Grows(target)
    BY <1>1, <1>2, <1>6, <2>1, GrowsLemma
  <2>3. CASE Same
    BY <1>2, <1>6, <2>3, StayLemma
  <2>4. CASE Grows(target)
    <3>1. release
      BY <1>6 DEF DeletionInv, Plane, PhasePcs
    <3> QED BY <1>1, <1>2, <1>3, <1>6, <2>4, <3>1, GrowLemma
  <2> QED BY <2>2, <2>3, <2>4
<1>7. /\ [store EXCEPT !.os = TRUE] \in Object /\ [store EXCEPT !.os = TRUE].phase = store.phase
      /\ [store EXCEPT !.url = TRUE] \in Object /\ [store EXCEPT !.url = TRUE].phase = store.phase
  BY <1>1, ObjectLemma
<1>8. \/ pc' \in {"ok", "failed"} /\ UNCHANGED <<store, fresh, watch>>
      \/ pc' = "ok" /\ Write([store EXCEPT !.os = TRUE])
      \/ pc' = "ok" /\ Write([store EXCEPT !.url = TRUE])
      \/ /\ pc = "phasePut" /\ Write([store EXCEPT !.phase = target])
         /\ pc' = "ok" \/ (pc' = "wait" /\ behind' = Len(watch'))
  BY DEF DiscoverPut, UrlPut, PhasePut, Update, At, Goto, Fault, StartWait
<1> QED BY <1>4, <1>5, <1>6, <1>7, <1>8

\* Every step keeps DeletionInv.
LEMMA DeletionStep ==
  ASSUME DeletionInv, [Next]_vars
  PROVE  DeletionInv'
<1> DEFINE Goal == (Latest /\ Plane)' /\ (Trusted' => (Safe /\ ReleaseUnlessTerminated /\ NothingLeftBehind)')
<1>1. TypeOK /\ ApiTypeOK /\ TypeOK' /\ store \in Object /\ Len(watch) \in Nat
  BY TypeLemma, SeenLemma DEF DeletionInv, TypeOK, ApiTypeOK
<1> SUFFICES Goal
  BY <1>1 DEF DeletionInv
<1>2. CASE Api
  <2>1. /\ pc' = pc /\ behind' = behind /\ secret' = secret /\ user' = user
        /\ release' = release /\ pods' = pods /\ deletion' = deletion
    BY <1>2 DEF Api, local, external
  <2>2. CASE CreateCluster
    <3>1. PICK os \in BOOLEAN, spec \in [Pools -> Sizes] : Write(KlusterFor(os, spec))
      BY <2>2 DEF CreateCluster
    <3>2. store.phase = "Absent" /\ cache' = cache
      BY <2>2 DEF CreateCluster, Exists
    <3>3. KlusterFor(os, spec) \in Object /\ KlusterFor(os, spec).phase = "Pending"
      BY KlusterForLemma
    <3>4. Grows("Pending")
      BY <1>1, <3>1, <3>2, <3>3, GrowsLemma
    <3>5. ~ Exists(store) /\ Exists(store')
      BY <3>2, <3>4 DEF Grows, Exists
    <3>6. ~ hadSecret'
      BY <1>2, <3>5 DEF Api
    <3> QED BY <2>1, <3>2, <3>4, <3>6, CreateLemma
  <2>3. ASSUME Exists(store) PROVE hadSecret' = hadSecret
    BY <1>1, <1>2, <2>3, Zenon DEF Api, TypeOK
  <2>4. CASE UpdateCluster
    <3>1. PICK spec \in [Pools -> Sizes] : EditCluster([store EXCEPT !.spec = spec])
      BY <2>4 DEF UpdateCluster
    <3>2. Exists(store) /\ Write([store EXCEPT !.spec = spec]) /\ cache' = cache /\ accepted' = accepted
      BY <2>4, <3>1 DEF UpdateCluster, EditCluster
    <3>3. [store EXCEPT !.spec = spec] \in Object /\ [store EXCEPT !.spec = spec].phase = store.phase
      BY <1>1, ObjectLemma
    <3>4. Same \/ Grows(store.phase)
      BY <1>1, <3>2, <3>3, GrowsLemma
    <3>5. CASE Same
      BY <2>1, <2>3, <3>2, <3>5, AsideLemma
    <3>6. CASE Grows(store.phase)
      BY <2>1, <2>3, <3>2, <3>6, GrowLemma DEF Exists
    <3> QED BY <3>4, <3>5, <3>6
  <2>5. CASE TerminateCheck
    <3>1. Exists(store) /\ accepted' = accepted /\ Same
      BY <2>5, SameLemma DEF TerminateCheck
    <3> QED BY <2>1, <2>3, <3>1, AsideLemma
  <2>6. CASE TerminateEdit /\ EditCluster([store EXCEPT !.phase = "Terminating"]) /\ accepted'
    <3>1. Exists(store) /\ Write([store EXCEPT !.phase = "Terminating"]) /\ cache' = cache
      BY <2>6 DEF TerminateEdit, EditCluster
    <3>2. /\ [store EXCEPT !.phase = "Terminating"] \in Object
          /\ [store EXCEPT !.phase = "Terminating"].phase = "Terminating"
      BY <1>1, ObjectLemma DEF Phases
    <3>3. (Same /\ store.phase = "Terminating") \/ Grows("Terminating")
      BY <1>1, <3>1, <3>2, GrowsLemma
    <3>4. CASE Same /\ store.phase = "Terminating"
      BY <2>1, <2>3, <2>6, <3>1, <3>4, AcceptLemma DEF Exists
    <3>5. CASE Grows("Terminating")
      BY <2>1, <2>3, <2>6, <3>1, <3>5, GrowLemma DEF Exists
    <3> QED BY <3>3, <3>4, <3>5
  <2>7. CASE TerminateEdit /\ UNCHANGED <<store, fresh, watch, accepted>>
    <3>1. Same
      BY <2>7, SameLemma DEF TerminateEdit
    <3>2. hadSecret' = hadSecret
      BY <1>1, <1>2, <2>7, Zenon DEF Api, TypeOK
    <3> QED BY <2>1, <2>7, <3>1, <3>2, AsideLemma
  <2> QED BY <1>2, <2>2, <2>4, <2>5, <2>6, <2>7 DEF Api, ApiNext, TerminateEdit
<1>3. CASE CacheEvent
  BY <1>3, CacheLemma
<1>4. CASE Crash
  BY <1>4, CrashLemma
<1>5. CASE Deliver \/ PodEvent \/ PodRestart \/ DelayPassed \/ UNCHANGED vars
  <2>1. /\ UNCHANGED <<store, watch, cache>> /\ UNCHANGED <<accepted, behind, hadSecret, deletion>>
        /\ pc' = pc /\ secret' = secret /\ user' = user /\ release' = release
        /\ pods' \in {"starting", "ready"} => pods \in {"starting", "ready"}
    BY <1>5 DEF Deliver, PodEvent, PodRestart, DelayPassed, vars, apiVars, local, external, ghost
  <2> QED BY <2>1, SameLemma, AsideLemma
<1>6. CASE GetItem \/ Handle \/ DiscoverGet \/ DiscoverSelect \/ UrlGet \/ Prepare
           \/ Seed \/ PhaseGet \/ Wait \/ GetSecret \/ Finish \/ DoneItem
  <2>1. /\ UNCHANGED <<store, watch, cache>>
        /\ UNCHANGED <<accepted, behind, external, hadSecret>>
    BY <1>6 DEF GetItem, Handle, DiscoverGet, DiscoverSelect, UrlGet, Prepare, Seed, PhaseGet,
                Wait, GetSecret, Finish, DoneItem, Goto, Fault, apiVars, ghost, external
  <2> QED BY <1>6, <2>1, SameLemma, MoveLemma
<1>7. CASE ServiceUser \/ UserRoles \/ InstallRelease \/ DeleteUser \/ DeleteRelease
  <2>1. UNCHANGED <<store, watch, cache>> /\ UNCHANGED <<accepted, behind, deletion>>
    BY <1>7 DEF ServiceUser, UserRoles, InstallRelease, DeleteUser, DeleteRelease, Goto, Fault, apiVars
  <2> QED BY <1>7, <2>1, SameLemma, CallLemma
<1>8. CASE WaitGone
  BY <1>8, SameLemma, WaitGoneLemma DEF WaitGone, apiVars
<1>9. CASE DiscoverPut \/ UrlPut \/ PhasePut
  BY <1>1, <1>9, PutLemma
<1>10. CASE DeleteKluster
  <2>1. /\ pc = "deleteKluster" /\ cache' = cache /\ accepted' = accepted
        /\ secret' = secret /\ user' = user /\ release' = release /\ pods' = pods
        /\ hadSecret' = hadSecret /\ pc \in Busy
    BY <1>10 DEF DeleteKluster, At, external, Busy, TermPcs
  <2>2. CASE /\ Exists(store) /\ Write(Absent) /\ behind' = Len(watch')
             /\ \/ pc' = "waitGone" /\ deletion' = deletion
                \/ pc' = "failed" /\ deletion' = DeletionUnseen
    <3>1. Grows("Absent")
      BY <1>1, <2>1, <2>2, AbsentLemma, GrowsLemma DEF Exists
    <3> QED BY <2>1, <2>2, <3>1, DeleteLemma
  <2>3. CASE pc' = "failed" /\ UNCHANGED <<store, fresh, watch, deletion>>
    <3>1. Same
      BY <2>1, <2>3, SameLemma
    <3> QED BY <2>1, <2>3, <3>1, StayLemma
  <2> QED BY <1>10, <2>2, <2>3 DEF DeleteKluster, Goto, Fault
<1> QED BY <1>2, <1>3, <1>4, <1>5, <1>6, <1>7, <1>8, <1>9, <1>10 DEF Next, Worker

\* The operator starts with no kluster and an empty watch.
LEMMA DeletionStart ==
  ASSUME Init
  PROVE  DeletionInv
<1>1. TypeOK
  <2>1. NewRateLimitingQueue({Key}) \in QueueType({Key})
    BY NewQueueLemma
  <2>2. ApiTypeOK
    <3>1. accepted \in BOOLEAN
      BY Zenon DEF Init, ApiInit
    <3> QED BY <3>1, AbsentLemma, RequestsAssumption DEF Init, ApiInit, ApiTypeOK
  <2>3. pc \in PCs /\ notify \in 0..MaxNotify /\ behind \in Nat
        /\ faults \in 0..MaxFaults /\ crashes \in 0..MaxCrashes /\ q \in QueueType({Key})
    BY <2>1, GroundBounds DEF Init, PCs
  <2>4. user \in BOOLEAN /\ roles \in BOOLEAN /\ release \in BOOLEAN
        /\ hadSecret \in BOOLEAN /\ stranded \in BOOLEAN /\ deletion \in {"seen", "unseen", "overtaken"}
        /\ target \in {"Creating", "Running"} /\ secret \in {"none", "match", "stale"}
        /\ pods \in {"none", "starting", "ready", "leaving"}
    BY Zenon DEF Init
  <2> QED BY <2>2, <2>3, <2>4, Zenon DEF TypeOK
<1>2. Len(watch) = 0 /\ Seen[0] = "Absent" /\ store.phase = "Absent"
  BY AbsentLemma DEF Init, ApiInit, Seen
<1>3. pc \notin TermPcs \cup StartPcs \cup PhasePcs \cup Busy /\ pc = "get"
  BY DEF Init, TermPcs, StartPcs, PhasePcs, Busy
<1>4. secret = "none" /\ pods = "none" /\ ~ release /\ ~ hadSecret /\ deletion = "seen"
  BY DEF Init
<1> QED BY <1>1, <1>2, <1>3, <1>4
        DEF DeletionInv, Latest, Plane, Safe, OneDeletion, PendingFirst, Requested, Undone, Torn,
            Deletion, Awaited, ReleaseUnlessTerminated, NothingLeftBehind, Exists

\* DeletionInv holds of every reachable state, for every set of failing calls,
\* any number of requests, restarts and pending notifications, and with waits
\* that time out.
THEOREM DeletionInvariant == Spec => []DeletionInv
<1>1. Init => DeletionInv
  BY DeletionStart
<1>2. DeletionInv /\ [Next]_vars => DeletionInv'
  BY DeletionStep
<1> QED BY <1>1, <1>2, PTL DEF Spec

\* The variables of the ground controller keep their types.
THEOREM TypeCorrect == Spec => []TypeOK
<1>1. DeletionInv => TypeOK
  BY DEF DeletionInv
<1> QED BY <1>1, DeletionInvariant, PTL

\* terminateKluster leaves no release and no service user behind, whichever of
\* its calls fail or lose their answer and wherever the operator dies, unless
\* the worker was overtaken.
THEOREM CleanDeletion == Spec => []NothingLeftBehind
<1>1. DeletionInv => NothingLeftBehind
  BY DEF DeletionInv, NothingLeftBehind
<1> QED BY <1>1, DeletionInvariant, PTL

\* A Creating or Running kluster without its release is one whose termination
\* was accepted.
THEOREM ReleaseKept == Spec => []ReleaseUnlessTerminated
<1>1. DeletionInv => ReleaseUnlessTerminated
  BY DEF DeletionInv, ReleaseUnlessTerminated
<1> QED BY <1>1, DeletionInvariant, PTL

\* What a step may do to the phase: requests create and terminate klusters, the
\* worker writes the phase it carries and deletes.
LEMMA PhaseSteps ==
  ASSUME TypeOK, [Next]_vars
  PROVE  \/ store'.phase = store.phase
         \/ store.phase = "Absent" /\ store'.phase = "Pending" /\ release' = release
         \/ store.phase # "Absent" /\ store'.phase = "Terminating" /\ release' = release
         \/ pc = "phasePut" /\ store'.phase = target /\ release' = release
         \/ pc = "deleteKluster" /\ store.phase # "Absent" /\ store'.phase = "Absent" /\ release' = release
<1>1. store \in Object /\ target \in Phases
  BY DEF TypeOK, ApiTypeOK, Phases
<1>2. CASE UNCHANGED store
  BY <1>2
<1>3. CASE Api
  <2>1. release' = release
    BY <1>3 DEF Api, external
  <2>2. CASE CreateCluster
    <3>1. PICK os \in BOOLEAN, spec \in [Pools -> Sizes] : Write(KlusterFor(os, spec))
      BY <2>2 DEF CreateCluster
    <3> QED BY <2>1, <2>2, <3>1, KlusterForLemma DEF CreateCluster, Write, Exists
  <2>3. CASE UpdateCluster
    <3>1. PICK spec \in [Pools -> Sizes] : EditCluster([store EXCEPT !.spec = spec])
      BY <2>3 DEF UpdateCluster
    <3> QED BY <1>1, <3>1, ObjectLemma DEF EditCluster, Write
  <2>4. CASE TerminateEdit
    BY <1>1, <2>1, <2>4, ObjectLemma DEF TerminateEdit, EditCluster, Write, Exists
  <2> QED BY <1>3, <2>2, <2>3, <2>4 DEF Api, ApiNext, TerminateCheck
<1>4. CASE DiscoverPut \/ UrlPut
  BY <1>1, <1>4, ObjectLemma DEF DiscoverPut, UrlPut, Update, Write
<1>5. CASE PhasePut
  BY <1>1, <1>5, ObjectLemma DEF PhasePut, Update, Write, At, external
<1>6. CASE DeleteKluster
  BY <1>6, AbsentLemma DEF DeleteKluster, Write, At, Exists, external
<1>7. \/ UNCHANGED store \/ Api \/ DiscoverPut \/ UrlPut \/ PhasePut \/ DeleteKluster
  BY DEF Next, Worker, CacheEvent, Deliver, PodEvent, PodRestart, DelayPassed, Crash, GetItem, Handle,
         DiscoverGet, DiscoverSelect, UrlGet, Prepare, ServiceUser, UserRoles, InstallRelease, Seed,
         PhaseGet, Wait, GetSecret, DeleteUser, DeleteRelease, WaitGone, Finish, DoneItem, vars, apiVars
<1> QED BY <1>2, <1>3, <1>4, <1>5, <1>6, <1>7

\* A step that removes the kluster is terminateKluster's, and the worker is
\* there only for a kluster whose termination was accepted.
LEMMA RemovedLemma ==
  ASSUME DeletionInv, [Next]_vars
  PROVE  Trusted /\ Exists(store) /\ ~ Exists(store') => accepted
<1>1. TypeOK /\ target \in {"Creating", "Running"}
  BY DEF DeletionInv, TypeOK
<1>2. Trusted /\ pc = "deleteKluster" => accepted
  BY DEF DeletionInv, Safe, Requested, TermPcs
<1>3. Exists(store) /\ pc # "deleteKluster" => Exists(store')
  BY PhaseSteps, <1>1 DEF Exists
<1> QED BY <1>2, <1>3

\* terminateKluster, which deletes by name, never deletes the successor of the
\* kluster whose termination was accepted, unless the worker was overtaken.
THEOREM NoSuccessorDeleted == Spec => OnlyRequestedDeleted
<1>1. DeletionInv /\ [Next]_vars => [Trusted /\ Exists(store) /\ ~ Exists(store') => accepted]_vars
  BY RemovedLemma
<1> QED BY <1>1, DeletionInvariant, PTL DEF Spec, OnlyRequestedDeleted

-----------------------------------------------------------------------------
(* The invariant about phases.  It holds where a wait ends only when the   *)
(* cache has seen the write that is waited for, and where no answer to an  *)
(* update of the phase is lost: Prompt.  Otherwise the worker may work on  *)
(* a phase that it has itself replaced.                                    *)

Prompt == ~ WaitTimesOut /\ "phasePutLate" \notin Faulty

\* While the cache has yet to see a write of the worker, only the versions since
\* that write count.
OwnWrite == IF pc \in {"wait", "waitGone"} \/ deletion = "unseen" THEN behind ELSE 0

\* What requests can make of a phase.
ApiOrder(a, b) == b \in {a, "Terminating"} \/ (a = "Absent" /\ b = "Pending")

\* Between two versions that the worker has yet to see lie only requests.
InOrder ==
  \A i, j \in OwnWrite..Len(watch) : i <= j => ApiOrder(Seen[i], Seen[j])

\* The phase that is waited for is new.
Unseen == pc = "wait" => \A i \in 0..(behind - 1) : Seen[i] # target

\* The control plane with credentials that work.
Backed == release /\ user /\ roles /\ secret = "match"

BackedSeen ==
  \A i \in OwnWrite..Len(watch) : Seen[i] \in {"Creating", "Running"} => Backed

AllSeen(phases) == \A i \in 0..Len(watch) : Seen[i] \in phases

\* What the worker knows where it is: which phases it may meet, and which of
\* its calls have succeeded.
Progress ==
  /\ pc \in StartPcs => AllSeen({"Pending", "Terminating"})
  /\ pc \in {"roles", "install"} => user
  /\ pc = "install" => roles
  /\ pc \in PhasePcs \cup {"seed"} => Backed
  /\ pc \in PhasePcs /\ target = "Creating" => AllSeen({"Pending", "Terminating"})
  /\ pc \in PhasePcs /\ target = "Running" => AllSeen({"Creating", "Terminating"})
  /\ pc = "seed" => AllSeen({"Creating", "Terminating"})
  /\ pc \in TermPcs => AllSeen({"Terminating"})

Ordered == InOrder /\ Unseen /\ BackedSeen /\ Progress

PhaseInv == Trusted => Ordered

\* The places where the worker knows nothing of the phases.
Idle == {"get", "handle", "routers", "discover", "osPut", "urlGet", "urlPut", "ok", "failed", "done"}

\* Steps that leave the versions, the credentials and the worker alone, or take
\* the worker to where it knows nothing.
LEMMA PhaseStay ==
  ASSUME DeletionInv, Ordered, Same, deletion' = deletion, target' = target, behind' = behind,
         release' = release, user' = user, roles' = roles, secret' = secret,
         pc' = pc \/ (pc' \in Idle /\ (pc \in {"wait", "waitGone"} => behind = 0))
  PROVE  Ordered'
<1> USE DEF Ordered, Same
<1>1. CASE pc' = pc
  BY <1>1 DEF InOrder, Unseen, BackedSeen, Backed, Progress, AllSeen, OwnWrite
<1>2. CASE pc' \in Idle /\ (pc \in {"wait", "waitGone"} => behind = 0)
  <2>1. pc' \notin {"wait", "waitGone", "seed"} \cup TermPcs \cup StartPcs \cup PhasePcs
    BY <1>2 DEF Idle, TermPcs, StartPcs, PhasePcs
  <2>2. OwnWrite' = OwnWrite
    BY <1>2, <2>1 DEF OwnWrite
  <2>3. Unseen' /\ Progress'
    BY <2>1 DEF Unseen, Progress, StartPcs, TermPcs
  <2> QED BY <2>2, <2>3 DEF InOrder, BackedSeen, Backed
<1> QED BY <1>1, <1>2

\* Handle: what the cache shows bounds what can come.
LEMMA PhaseHandle ==
  ASSUME DeletionInv, Trusted, Trusted', Ordered, Same, Handle
  PROVE  Ordered'
<1> USE DEF Ordered, Same
<1>1. Len(watch) \in Nat /\ Seen[0] = cache.phase
  BY SeenLemma DEF DeletionInv, TypeOK
<1>2. /\ pc = "handle" /\ pc' = FirstCall(cache)
      /\ deletion # "unseen" /\ deletion' = deletion /\ target' = target
      /\ release' = release /\ user' = user /\ roles' = roles /\ secret' = secret
  BY DEF Handle, At, Goto, external, Trusted
<1>3. /\ pc' \in {"routers", "urlGet", "prepare", "seed", "secret", "ok"}
      /\ pc' = "prepare" => cache.phase = "Pending"
      /\ pc' = "seed" => cache.phase = "Creating"
      /\ pc' = "secret" => cache.phase = "Terminating"
  BY <1>2 DEF FirstCall
<1>4. OwnWrite = 0 /\ OwnWrite' = 0
  BY <1>2, <1>3 DEF OwnWrite
<1>5. \A j \in 0..Len(watch) : ApiOrder(cache.phase, Seen[j])
  BY <1>1, <1>4 DEF InOrder
<1>6. cache.phase = "Creating" => Backed
  BY <1>1, <1>4 DEF BackedSeen
<1>7. Progress'
  BY <1>2, <1>3, <1>5, <1>6 DEF Progress, AllSeen, ApiOrder, Backed, StartPcs, PhasePcs, TermPcs
<1> QED BY <1>2, <1>3, <1>4, <1>7 DEF InOrder, Unseen, BackedSeen, Backed

\* The steps of createKluster, of the seeding and of terminateKluster: none of
\* them is taken for a kluster that shows a control plane, and the release is
\* installed with the password the user has.
LEMMA PhaseCall ==
  ASSUME DeletionInv, Trusted, Trusted', Ordered, Same, deletion' = deletion,
         Prepare \/ ServiceUser \/ UserRoles \/ InstallRelease \/ Seed \/ PhaseGet
         \/ GetSecret \/ DeleteUser \/ DeleteRelease
  PROVE  Ordered'
<1> USE DEF Ordered, Same
<1>1. Len(watch) \in Nat
  BY SeenLemma DEF DeletionInv, TypeOK
<1>2. pc \notin {"wait", "waitGone"} /\ pc' \notin {"wait", "waitGone"} /\ deletion # "unseen"
  BY DEF DeletionInv, Latest, Resting, Prepare, ServiceUser, UserRoles, InstallRelease, Seed, PhaseGet, GetSecret, DeleteUser,
         DeleteRelease, At, Goto, Fault
<1>3. OwnWrite = 0 /\ OwnWrite' = 0 /\ InOrder' /\ Unseen'
  BY <1>2 DEF OwnWrite, InOrder, Unseen
<1>4. CASE Prepare \/ ServiceUser \/ UserRoles \/ InstallRelease
  <2>1. pc \in StartPcs /\ AllSeen({"Pending", "Terminating"})
    BY <1>4 DEF Prepare, ServiceUser, UserRoles, InstallRelease, At, StartPcs, Progress
  <2>2. BackedSeen'
    BY <1>3, <2>1 DEF AllSeen, BackedSeen
  <2>3. /\ pc' \in StartPcs \cup {"failed", "phaseGet"}
        /\ pc' = "phaseGet" => target' = "Creating"
        /\ pc' \in {"roles", "install"} => user'
        /\ pc' = "install" => roles'
        /\ pc' = "phaseGet" => Backed'
    BY <1>4, <2>1 DEF Prepare, ServiceUser, UserRoles, InstallRelease, At, Goto, Fault, StartPcs,
                      Progress, Backed, external
  <2>4. Progress'
    BY <2>1, <2>3 DEF Progress, AllSeen, StartPcs, PhasePcs, TermPcs
  <2> QED BY <1>3, <2>2, <2>4
<1>5. CASE Seed \/ PhaseGet
  <2>1. /\ release' = release /\ user' = user /\ roles' = roles /\ secret' = secret
        /\ pc' \in PhasePcs \cup {"ok", "failed"}
        /\ pc' \in PhasePcs => \/ pc = "seed" /\ target' = "Running"
                               \/ pc \in PhasePcs /\ target' = target
    BY <1>5 DEF Seed, PhaseGet, At, Goto, Fault, PhasePcs, external
  <2>2. BackedSeen'
    BY <1>3, <2>1 DEF BackedSeen, Backed
  <2>3. Progress'
    BY <2>1 DEF Progress, AllSeen, Backed, StartPcs, PhasePcs, TermPcs
  <2> QED BY <1>3, <2>2, <2>3
<1>6. CASE GetSecret \/ DeleteUser \/ DeleteRelease
  <2>1. pc \in TermPcs /\ pc' \in TermPcs \cup {"failed"}
    BY <1>6 DEF GetSecret, DeleteUser, DeleteRelease, At, Goto, Fault, TermPcs
  <2>2. AllSeen({"Terminating"})
    BY <2>1 DEF Progress
  <2>3. BackedSeen'
    BY <1>3, <2>2 DEF AllSeen, BackedSeen
  <2>4. Progress'
    BY <2>1, <2>2 DEF Progress, AllSeen, StartPcs, PhasePcs, TermPcs
  <2> QED BY <1>3, <2>3, <2>4
<1> QED BY <1>4, <1>5, <1>6

\* The informer hands over the next version.
LEMMA PhaseCache ==
  ASSUME DeletionInv, Trusted, Trusted', Ordered, CacheEvent
  PROVE  Ordered'
<1> DEFINE n == Len(watch)
<1>1. n \in Nat \ {0} /\ behind \in Nat
  BY SeenLemma, ShrinksLemma DEF DeletionInv, TypeOK, CacheEvent, Shrinks
<1>2. Len(watch') = n - 1 /\ \A i \in 0..(n - 1) : Seen'[i] = Seen[i + 1]
  BY ShrinksLemma DEF DeletionInv, TypeOK, CacheEvent, Shrinks
<1>3. /\ behind' = IF behind > 0 THEN behind - 1 ELSE 0
      /\ deletion' = IF deletion = "unseen" /\ behind = 1 THEN "seen" ELSE deletion
      /\ UNCHANGED <<pc, target, user, roles, secret, release>>
  BY DEF CacheEvent, external
<1>0. deletion = "unseen" => pc \notin {"wait", "waitGone"} /\ behind > 0
  BY DEF DeletionInv, Latest, Resting
<1>4. \A i \in OwnWrite'..(n - 1) : i + 1 \in OwnWrite..n /\ Seen'[i] = Seen[i + 1]
  BY <1>0, <1>1, <1>2, <1>3 DEF OwnWrite
<1>5. InOrder'
  BY <1>1, <1>2, <1>4 DEF Ordered, InOrder
<1>6. Unseen'
  BY <1>1, <1>2, <1>3 DEF Ordered, Unseen, DeletionInv, Latest
<1>7. BackedSeen'
  BY <1>1, <1>2, <1>3, <1>4 DEF Ordered, BackedSeen, Backed
<1>8. \A phases : AllSeen(phases) => AllSeen(phases)'
  BY <1>1, <1>2 DEF AllSeen
<1>9. Progress'
  BY <1>3, <1>8 DEF Ordered, Progress, Backed
<1> QED BY <1>3, <1>5, <1>6, <1>7, <1>9 DEF Ordered

\* The operator restarts.
LEMMA PhaseCrash ==
  ASSUME DeletionInv, Trusted, Trusted', Ordered, Crash
  PROVE  Ordered'
<1>1. Len(watch') = 0 /\ Seen'[0] = store.phase
  BY RestartsLemma DEF Crash, Restarts
<1>2. pc' = "get" /\ UNCHANGED <<user, roles, secret, release>> /\ deletion' # "unseen"
  BY DEF Crash, external
<1>3. /\ Len(watch) \in Nat /\ behind \in Nat /\ Seen[Len(watch)] = store.phase
      /\ pc \in {"wait", "waitGone"} \/ deletion = "unseen" => behind <= Len(watch)
  BY SeenLemma DEF DeletionInv, TypeOK, Latest
<1>4. Len(watch) \in OwnWrite..Len(watch)
  BY <1>3 DEF OwnWrite
<1>5. OwnWrite' = 0
  BY <1>2 DEF OwnWrite
<1> QED BY <1>1, <1>2, <1>3, <1>4, <1>5
        DEF Ordered, InOrder, ApiOrder, Unseen, BackedSeen, Backed, Progress, StartPcs, PhasePcs, TermPcs

\* A request, or an update of the worker that keeps the phase.
LEMMA PhaseGrow ==
  ASSUME DeletionInv, Trusted, Trusted', Ordered, NEW phase, Grows(phase), ApiOrder(store.phase, phase),
         deletion' = deletion, target' = target, behind' = behind,
         release' = release, user' = user, roles' = roles, secret' = secret,
         pc' = pc \/ (pc \notin {"wait", "waitGone"} /\ pc' \in Idle)
  PROVE  Ordered'
<1> DEFINE n == Len(watch)
<1>1. n \in Nat /\ behind \in Nat /\ Seen[n] = store.phase
      /\ (pc \in {"wait", "waitGone"} \/ deletion = "unseen" => behind <= n)
  BY SeenLemma DEF DeletionInv, TypeOK, Latest
<1>2. /\ Len(watch') = n + 1 /\ Seen'[n + 1] = phase
      /\ \A i \in 0..n : Seen'[i] = Seen[i]
  BY DEF Grows
<1>3. OwnWrite' = OwnWrite /\ OwnWrite \in 0..n
  BY <1>1 DEF OwnWrite, Idle
<1>4. InOrder'
  <2> SUFFICES ASSUME NEW i \in OwnWrite..(n + 1), NEW j \in OwnWrite..(n + 1), i <= j
               PROVE  ApiOrder(Seen'[i], Seen'[j])
    BY <1>2, <1>3 DEF InOrder, ApiOrder
  <2>1. CASE j \in OwnWrite..n
    BY <1>1, <1>2, <1>3, <2>1 DEF Ordered, InOrder
  <2>2. CASE j = n + 1 /\ i \in OwnWrite..n
    <3>1. ApiOrder(Seen[i], Seen[n])
      BY <1>1, <1>3, <2>2 DEF Ordered, InOrder
    <3> QED BY <1>1, <1>2, <1>3, <2>2, <3>1 DEF ApiOrder
  <2>3. CASE i = n + 1 /\ j = n + 1
    BY <2>3 DEF ApiOrder
  <2> QED BY <1>1, <1>3, <2>1, <2>2, <2>3
<1>5. Unseen'
  BY <1>1, <1>2 DEF Ordered, Unseen, Idle
<1>6. BackedSeen'
  <2>1. phase \in {"Creating", "Running"} => Backed
    BY <1>1, <1>3 DEF ApiOrder, Ordered, BackedSeen
  <2> QED BY <1>1, <1>2, <1>3, <2>1 DEF Ordered, BackedSeen, Backed
<1>7. ASSUME NEW phases, "Terminating" \in phases, "Absent" \notin phases, AllSeen(phases)
      PROVE  AllSeen(phases)'
  BY <1>1, <1>2, <1>7 DEF AllSeen, ApiOrder
<1>8. /\ AllSeen({"Pending", "Terminating"}) => AllSeen({"Pending", "Terminating"})'
      /\ AllSeen({"Creating", "Terminating"}) => AllSeen({"Creating", "Terminating"})'
      /\ AllSeen({"Terminating"}) => AllSeen({"Terminating"})'
  BY <1>7
<1>9. Progress'
  BY <1>8 DEF Ordered, Progress, Backed, Idle, StartPcs, PhasePcs, TermPcs
<1> QED BY <1>4, <1>5, <1>6, <1>9 DEF Ordered

\* A write that the cache has to see: updatePhase and terminateKluster.
LEMMA PhaseWrite ==
  ASSUME DeletionInv, Trusted, Trusted', Ordered, NEW phase, Grows(phase), behind' = Len(watch'),
         target' = target,
         release' = release, user' = user, roles' = roles, secret' = secret,
         \/ pc = "phasePut" /\ pc' = "wait" /\ phase = target
         \/ pc = "deleteKluster" /\ pc' = "waitGone" /\ phase = "Absent"
         \/ pc = "deleteKluster" /\ pc' = "failed" /\ deletion' = "unseen" /\ phase = "Absent"
  PROVE  Ordered'
<1> DEFINE n == Len(watch)
<1>1. n \in Nat /\ target \in {"Creating", "Running"}
  BY SeenLemma DEF DeletionInv, TypeOK
<1>2. /\ Len(watch') = n + 1 /\ Seen'[n + 1] = phase
      /\ \A i \in 0..n : Seen'[i] = Seen[i]
  BY DEF Grows
<1>3. OwnWrite' = n + 1
  BY <1>2 DEF OwnWrite
<1>4. InOrder'
  BY <1>1, <1>2, <1>3 DEF InOrder, ApiOrder
<1>5. Unseen'
  BY <1>1, <1>2 DEF Ordered, Progress, AllSeen, Unseen, PhasePcs
<1>6. BackedSeen'
  BY <1>1, <1>2, <1>3 DEF Ordered, Progress, BackedSeen, Backed, PhasePcs
<1>7. Progress'
  BY DEF Progress, StartPcs, PhasePcs, TermPcs
<1> QED BY <1>4, <1>5, <1>6, <1>7 DEF Ordered

\* Requests.
LEMMA PhaseApi ==
  ASSUME DeletionInv, Trusted, Trusted', Ordered, Api
  PROVE  Ordered'
<1>1. ApiTypeOK /\ store \in Object
  BY DEF DeletionInv, TypeOK, ApiTypeOK
<1>2. /\ pc' = pc /\ behind' = behind /\ target' = target /\ secret' = secret /\ user' = user
      /\ roles' = roles /\ release' = release /\ deletion' = deletion /\ cache' = cache
  BY DEF Api, local, external, ApiNext, CreateCluster, UpdateCluster, TerminateCheck, TerminateEdit
<1>3. ASSUME NEW o \in Object, Write(o), ApiOrder(store.phase, o.phase) PROVE Ordered'
  <2>1. Same \/ Grows(o.phase)
    BY <1>1, <1>2, <1>3, GrowsLemma
  <2> QED BY <1>2, <1>3, <2>1, PhaseStay, PhaseGrow
<1>4. CASE UNCHANGED <<store, watch>>
  <2>1. Same
    BY <1>2, <1>4, SameLemma
  <2> QED BY <1>2, <2>1, PhaseStay
<1>5. CASE CreateCluster
  <2>1. PICK os \in BOOLEAN, spec \in [Pools -> Sizes] : Write(KlusterFor(os, spec))
    BY <1>5 DEF CreateCluster
  <2>2. KlusterFor(os, spec) \in Object /\ KlusterFor(os, spec).phase = "Pending"
    BY KlusterForLemma
  <2>3. ApiOrder(store.phase, KlusterFor(os, spec).phase)
    BY <1>5, <2>2 DEF CreateCluster, Exists, ApiOrder
  <2> QED BY <1>3, <2>1, <2>2, <2>3
<1>6. CASE UpdateCluster
  <2>1. PICK spec \in [Pools -> Sizes] : EditCluster([store EXCEPT !.spec = spec])
    BY <1>6 DEF UpdateCluster
  <2>2. [store EXCEPT !.spec = spec] \in Object /\ [store EXCEPT !.spec = spec].phase = store.phase
    BY <1>1, ObjectLemma
  <2> QED BY <1>3, <2>1, <2>2 DEF EditCluster, ApiOrder
<1>7. CASE EditCluster([store EXCEPT !.phase = "Terminating"])
  <2>1. /\ [store EXCEPT !.phase = "Terminating"] \in Object
        /\ [store EXCEPT !.phase = "Terminating"].phase = "Terminating"
    BY <1>1, ObjectLemma DEF Phases
  <2> QED BY <1>3, <1>7, <2>1 DEF EditCluster, ApiOrder
<1> QED BY <1>4, <1>5, <1>6, <1>7 DEF Api, ApiNext, TerminateCheck, TerminateEdit

\* The worker's updates and its deletion.
LEMMA PhaseUpdates ==
  ASSUME Prompt, DeletionInv, Trusted, Trusted', Ordered, DiscoverPut \/ UrlPut \/ PhasePut \/ DeleteKluster
  PROVE  Ordered'
<1>1. /\ ApiTypeOK /\ store \in Object /\ target \in {"Creating", "Running"} /\ Len(watch) \in Nat
      /\ Seen[Len(watch)] = store.phase
  BY SeenLemma DEF DeletionInv, TypeOK, ApiTypeOK, Latest
<1>2. /\ cache' = cache /\ target' = target /\ secret' = secret /\ user' = user /\ roles' = roles
      /\ release' = release /\ pc \notin {"wait", "waitGone"}
      /\ deletion = "seen" /\ (deletion' # deletion => pc = "deleteKluster" /\ pc' = "failed")
  BY DEF DeletionInv, TypeOK, Latest, Resting, Trusted, DiscoverPut, UrlPut, PhasePut, DeleteKluster, Update, At, Goto, Fault, StartWait, external
<1>3. CASE pc' \in {"ok", "failed"} /\ behind' = behind /\ UNCHANGED <<store, watch, deletion>>
  <2>1. Same
    BY <1>2, <1>3, SameLemma
  <2> QED BY <1>2, <1>3, <2>1, PhaseStay DEF Idle
<1>4. ASSUME NEW o \in Object, o.phase = store.phase, Write(o), pc' = "ok", behind' = behind
      PROVE  Ordered'
  <2>1. Same \/ Grows(o.phase)
    BY <1>1, <1>2, <1>4, GrowsLemma
  <2> QED BY <1>2, <1>4, <2>1, PhaseStay, PhaseGrow DEF Idle, ApiOrder
<1>5. CASE /\ pc = "phasePut" /\ Write([store EXCEPT !.phase = target])
           /\ pc' = "wait" /\ behind' = Len(watch')
  <2>1. /\ [store EXCEPT !.phase = target] \in Object
        /\ [store EXCEPT !.phase = target].phase = target
    BY <1>1, ObjectLemma DEF Phases
  <2>2. store.phase # target
    BY <1>1, <1>5 DEF Ordered, Progress, AllSeen, PhasePcs
  <2>3. Grows(target)
    BY <1>1, <1>2, <1>5, <2>1, <2>2, GrowsLemma
  <2> QED BY <1>2, <1>5, <2>3, PhaseWrite
<1>6. CASE /\ pc = "deleteKluster" /\ Write(Absent) /\ Exists(store)
           /\ pc' = "waitGone" /\ behind' = Len(watch')
  <2>1. Grows("Absent")
    BY <1>1, <1>2, <1>6, AbsentLemma, GrowsLemma DEF Exists
  <2> QED BY <1>2, <1>6, <2>1, PhaseWrite
<1>9. CASE /\ pc = "deleteKluster" /\ Write(Absent) /\ Exists(store)
           /\ pc' = "failed" /\ behind' = Len(watch') /\ deletion' = DeletionUnseen
  <2>1. Grows("Absent")
    BY <1>1, <1>2, <1>9, AbsentLemma, GrowsLemma DEF Exists
  <2> QED BY <1>2, <1>9, <2>1, PhaseWrite DEF DeletionUnseen
<1>7. /\ [store EXCEPT !.os = TRUE] \in Object /\ [store EXCEPT !.os = TRUE].phase = store.phase
      /\ [store EXCEPT !.url = TRUE] \in Object /\ [store EXCEPT !.url = TRUE].phase = store.phase
  BY <1>1, ObjectLemma
<1>8. \/ pc' \in {"ok", "failed"} /\ behind' = behind /\ UNCHANGED <<store, watch, deletion>>
      \/ pc' = "ok" /\ behind' = behind /\ Write([store EXCEPT !.os = TRUE])
      \/ pc' = "ok" /\ behind' = behind /\ Write([store EXCEPT !.url = TRUE])
      \/ /\ pc = "phasePut" /\ Write([store EXCEPT !.phase = target])
         /\ pc' = "wait" /\ behind' = Len(watch')
      \/ /\ pc = "deleteKluster" /\ Write(Absent) /\ Exists(store)
         /\ pc' = "waitGone" /\ behind' = Len(watch')
      \/ /\ pc = "deleteKluster" /\ Write(Absent) /\ Exists(store)
         /\ pc' = "failed" /\ behind' = Len(watch') /\ deletion' = DeletionUnseen
  BY DEF Prompt, DiscoverPut, UrlPut, PhasePut, DeleteKluster, Update, At, Goto, Fault, StartWait
<1> QED BY <1>3, <1>4, <1>5, <1>6, <1>7, <1>8, <1>9

\* The waits end when the cache is at the write they wait for, or past it.
LEMMA PhaseWaits ==
  ASSUME Prompt, DeletionInv, Trusted, Trusted', Ordered, Wait \/ WaitGone
  PROVE  Ordered'
<1>1. /\ pc \in {"wait", "waitGone"} /\ pc' = "ok" /\ target' = target /\ behind' = behind
      /\ release' = release /\ user' = user /\ roles' = roles /\ secret' = secret
      /\ UNCHANGED <<store, watch, cache>>
  BY DEF Wait, WaitGone, At, Goto, apiVars, external
<1>2. behind \in Nat /\ Seen[0] = cache.phase
  BY SeenLemma DEF DeletionInv, TypeOK
<1>3. OneDeletion
  BY DEF DeletionInv, Safe
<1>4. behind = 0
  <2>1. CASE Wait
    <3>1. pc = "wait" /\ (cache.phase = target \/ cache.phase = "Absent" \/ behind = 0)
      BY <2>1 DEF Prompt, Wait, At, Exists
    <3> QED BY <1>2, <1>3, <3>1 DEF Ordered, Unseen, OneDeletion, Busy, Awaited
  <2>2. CASE WaitGone
    <3>1. pc = "waitGone" /\ (cache.phase = "Absent" \/ behind = 0)
      BY <2>2 DEF Prompt, WaitGone, At, Exists
    <3> QED BY <1>2, <1>3, <3>1 DEF OneDeletion, Awaited
  <2> QED BY <2>1, <2>2
<1>5. deletion' = deletion
  BY <1>4 DEF Wait, WaitGone, ghost
<1> QED BY <1>1, <1>4, <1>5, SameLemma, PhaseStay DEF Idle

\* Trust is lost where the worker takes up a kluster, and is not regained.
LEMMA TrustSteps ==
  ASSUME TypeOK, [Next]_vars
  PROVE  (Trusted' => Trusted) /\ (Trusted /\ ~ Trusted' => Handle)
<1>1. CASE CacheEvent \/ Crash \/ DeleteKluster \/ WaitGone
  BY <1>1 DEF CacheEvent, Crash, DeleteKluster, WaitGone, DeletionUnseen, Trusted
<1>2. CASE Handle
  BY <1>2 DEF Handle, Trusted
<1>3. deletion' = deletion \/ CacheEvent \/ Crash \/ DeleteKluster \/ WaitGone \/ Handle
  BY DEF Next, Worker, Api, Deliver, PodEvent, PodRestart, DelayPassed, GetItem,
         DiscoverGet, DiscoverSelect, DiscoverPut, UrlGet, UrlPut, Prepare, ServiceUser, UserRoles,
         InstallRelease, Seed, PhaseGet, PhasePut, Wait, GetSecret, DeleteUser, DeleteRelease, Finish,
         DoneItem, Update, vars, ghost
<1> QED BY <1>1, <1>2, <1>3 DEF Trusted

\* Every step keeps PhaseInv.
LEMMA PhaseStep ==
  ASSUME Prompt, DeletionInv, PhaseInv, [Next]_vars
  PROVE  PhaseInv'
<1> SUFFICES ASSUME Trusted' PROVE Ordered'
  BY DEF PhaseInv
<1>0. Trusted /\ Ordered
  BY TrustSteps DEF DeletionInv, PhaseInv
<1>1. CASE Deliver \/ PodEvent \/ PodRestart \/ DelayPassed \/ UNCHANGED vars
           \/ GetItem \/ DiscoverGet \/ DiscoverSelect \/ UrlGet \/ Finish \/ DoneItem
  <2>1. /\ UNCHANGED <<store, watch, cache>> /\ deletion' = deletion /\ target' = target
        /\ behind' = behind /\ release' = release /\ user' = user /\ roles' = roles
        /\ secret' = secret
    BY <1>1 DEF Deliver, PodEvent, PodRestart, DelayPassed, GetItem, DiscoverGet, DiscoverSelect,
                UrlGet, Finish, DoneItem, Goto, Fault, vars, apiVars, local, external, ghost
  <2>2. pc' = pc \/ (pc \notin {"wait", "waitGone"} /\ pc' \in Idle)
    BY <1>1 DEF Deliver, PodEvent, PodRestart, DelayPassed, GetItem, DiscoverGet, DiscoverSelect,
                UrlGet, Finish, DoneItem, At, Goto, Fault, vars, local, Idle
  <2> QED BY <1>0, <2>1, <2>2, SameLemma, PhaseStay
<1>2. CASE Handle
  BY <1>0, <1>2, SameLemma, PhaseHandle DEF Handle, apiVars
<1>3. CASE Prepare \/ ServiceUser \/ UserRoles \/ InstallRelease \/ Seed \/ PhaseGet
           \/ GetSecret \/ DeleteUser \/ DeleteRelease
  <2>1. UNCHANGED <<store, watch, cache>> /\ deletion' = deletion
    BY <1>3 DEF Prepare, ServiceUser, UserRoles, InstallRelease, Seed, PhaseGet, GetSecret,
                DeleteUser, DeleteRelease, apiVars
  <2> QED BY <1>0, <1>3, <2>1, SameLemma, PhaseCall
<1> QED BY <1>0, <1>1, <1>2, <1>3, PhaseApi, PhaseCache, PhaseCrash, PhaseUpdates, PhaseWaits
        DEF Next, Worker

\* The operator starts without versions to see.
LEMMA PhaseStart ==
  ASSUME Init
  PROVE  PhaseInv
<1>1. Len(watch) = 0 /\ Seen[0] = "Absent" /\ pc = "get" /\ deletion = "seen"
  BY AbsentLemma DEF Init, ApiInit, Seen
<1> QED BY <1>1 DEF PhaseInv, Ordered, InOrder, ApiOrder, Unseen, BackedSeen, Progress, OwnWrite,
                    StartPcs, PhasePcs, TermPcs

\* The phases the worker has yet to see differ only by requests, and what the
\* worker knows of them holds; for prompt caches and answered phase updates.
THEOREM PhaseInvariant ==
  ASSUME Prompt
  PROVE  Spec => []PhaseInv
<1>1. Init => PhaseInv
  BY PhaseStart
<1>2. DeletionInv /\ PhaseInv /\ [Next]_vars => PhaseInv'
  BY PhaseStep
<1> QED BY <1>1, <1>2, DeletionInvariant, PTL DEF Spec

\* The last version is in reach of BackedSeen: what the API server reports as
\* Creating or Running has its control plane and credentials.
LEMMA StoreBacked ==
  ASSUME DeletionInv, PhaseInv, Trusted, store.phase \in {"Creating", "Running"}
  PROVE  Backed
<1>1. /\ Len(watch) \in Nat /\ behind \in Nat /\ Seen[Len(watch)] = store.phase
      /\ pc \in {"wait", "waitGone"} \/ deletion = "unseen" => behind <= Len(watch)
  BY SeenLemma DEF DeletionInv, TypeOK, Latest
<1>2. Len(watch) \in OwnWrite..Len(watch)
  BY <1>1 DEF OwnWrite
<1> QED BY <1>1, <1>2 DEF PhaseInv, Ordered, BackedSeen

\* A kluster reported as Creating or Running has its helm release.
THEOREM ReleaseThere ==
  ASSUME Prompt
  PROVE  Spec => []ReleaseBacksPhase
<1>1. DeletionInv /\ PhaseInv => ReleaseBacksPhase
  BY StoreBacked DEF ReleaseBacksPhase, Backed
<1> QED BY <1>1, DeletionInvariant, PhaseInvariant, PTL

\* A running kluster has a service user with its roles, whose password is the
\* one in the secret of the release.
THEOREM CredentialsGood ==
  ASSUME Prompt
  PROVE  Spec => []CredentialsMatch
<1>1. DeletionInv /\ PhaseInv => CredentialsMatch
  BY StoreBacked DEF CredentialsMatch, Backed
<1> QED BY <1>1, DeletionInvariant, PhaseInvariant, PTL

-----------------------------------------------------------------------------
(* The refinement: the phase and the release follow KlusterLifecycle.      *)

\* What a step may do to the control plane.
LEMMA ReleaseSteps ==
  ASSUME TypeOK, [Next]_vars
  PROVE  \/ release' = release
         \/ pc = "install" /\ ~ release /\ release' = TRUE /\ store' = store
         \/ pc = "deleteRelease" /\ release' = FALSE /\ store' = store
<1>1. CASE InstallRelease
  BY <1>1 DEF InstallRelease, At, apiVars
<1>2. CASE DeleteRelease
  BY <1>2 DEF DeleteRelease, At, apiVars
<1>3. \/ release' = release \/ InstallRelease \/ DeleteRelease
  BY DEF Next, Worker, Api, CacheEvent, Deliver, PodEvent, PodRestart, DelayPassed, Crash, GetItem, Handle,
         DiscoverGet, DiscoverSelect, DiscoverPut, UrlGet, UrlPut, Prepare, ServiceUser, UserRoles, Seed,
         PhaseGet, PhasePut, Wait, GetSecret, DeleteUser, DeleteKluster, WaitGone, Finish, DoneItem,
         Update, vars, external
<1> QED BY <1>1, <1>2, <1>3

\* Every step of the controller is a step of the lifecycle or leaves it alone.
LEMMA LifecycleStep ==
  ASSUME DeletionInv, PhaseInv, [Next]_vars
  PROVE  [Lifecycle!Next]_(Lifecycle!lifecycleVars)
<1>1. /\ TypeOK /\ release \in BOOLEAN /\ target \in {"Creating", "Running"} /\ Len(watch) \in Nat
      /\ Seen[Len(watch)] = store.phase /\ store.phase \in Phases \cup {"Absent"}
  BY SeenLemma DEF DeletionInv, TypeOK, ApiTypeOK, Latest, Object
<1>2. CASE ~ Trusted
  <2>1. ~ Trusted'
    BY <1>1, <1>2, TrustSteps
  <2>2. Trusted \in BOOLEAN /\ Trusted' \in BOOLEAN
    BY DEF Trusted
  <2>3. Trusted' = Trusted
    BY <1>2, <2>1, <2>2
  <2> QED BY <1>2, <2>3 DEF Lifecycle!Next, Lifecycle!Unpromised
<1>3. CASE Trusted /\ ~ Trusted'
  <2>1. store' = store /\ release' = release
    BY <1>1, <1>3, TrustSteps DEF Handle, apiVars, external
  <2> QED BY <1>3, <2>1 DEF Lifecycle!Next, Lifecycle!Overtake
<1>4. CASE Trusted /\ Trusted'
  <2>0. Trusted' = Trusted
    BY <1>4
  <2>1. /\ pc = "install" => store.phase \in {"Pending", "Terminating"}
        /\ pc = "phasePut" /\ target = "Creating" => store.phase \in {"Pending", "Terminating"}
        /\ pc = "phasePut" /\ target = "Running" => store.phase \in {"Creating", "Terminating"}
        /\ pc \in {"deleteRelease", "deleteKluster"} => store.phase = "Terminating"
        /\ pc = "phasePut" => release
    BY <1>1, <1>4 DEF PhaseInv, Ordered, Progress, AllSeen, Backed, StartPcs, PhasePcs, TermPcs
  <2>2. pc = "deleteKluster" => ~ release
    BY <1>4 DEF DeletionInv, Safe, Undone
  <2>3. CASE release' = release
    <3>1. \/ Lifecycle!Create \/ Lifecycle!Created \/ Lifecycle!Booted \/ Lifecycle!Terminate
          \/ Lifecycle!Remove \/ store'.phase = store.phase
      BY <1>1, <2>1, <2>2, <2>3, PhaseSteps
         DEF Lifecycle!Create, Lifecycle!Created, Lifecycle!Booted, Lifecycle!Terminate,
             Lifecycle!Remove, Phases
    <3> QED BY <1>4, <2>0, <2>3, <3>1, Zenon
            DEF Lifecycle!Next, Lifecycle!Promised, Lifecycle!lifecycleVars
  <2>4. CASE pc = "install" /\ ~ release /\ release' = TRUE /\ store' = store
    <3>1. Lifecycle!Build
      BY <2>1, <2>4 DEF Lifecycle!Build
    <3> QED BY <1>4, <2>0, <3>1 DEF Lifecycle!Next, Lifecycle!Promised
  <2>5. CASE pc = "deleteRelease" /\ release' = FALSE /\ store' = store
    <3>1. CASE release
      <4>1. Lifecycle!TearDown
        BY <2>1, <2>5, <3>1 DEF Lifecycle!TearDown
      <4> QED BY <1>4, <2>0, <4>1 DEF Lifecycle!Next, Lifecycle!Promised
    <3>2. CASE ~ release
      <4>1. release = FALSE
        BY <1>1, <3>2
      <4> QED BY <2>0, <2>5, <4>1, Zenon DEF Lifecycle!lifecycleVars
    <3> QED BY <3>1, <3>2
  <2> QED BY <1>1, <2>3, <2>4, <2>5, ReleaseSteps
<1> QED BY <1>2, <1>3, <1>4

\* The ground controller implements the lifecycle of a kluster, which promises
\* nothing once the worker has taken up a kluster that it had deleted.
THEOREM Refinement ==
  ASSUME Prompt
  PROVE  Spec => ImplementsLifecycle
<1>1. Init => Lifecycle!Init
  <2>1. ASSUME Init PROVE Trusted = TRUE
    BY <2>1 DEF Init, Trusted
  <2> QED BY <2>1, AbsentLemma DEF Init, ApiInit, Lifecycle!Init
<1>2. DeletionInv /\ PhaseInv /\ [Next]_vars => [Lifecycle!Next]_(Lifecycle!lifecycleVars)
  BY LifecycleStep
<1> QED BY <1>1, <1>2, DeletionInvariant, PhaseInvariant, PTL
        DEF Spec, ImplementsLifecycle, Lifecycle!Spec
=============================================================================
