---------------------------- MODULE GroundControl ----------------------------
(***************************************************************************)
(* pkg/controller/ground.go: the controller that takes a kluster through   *)
(* its phases.  One kluster name is modelled, with the REST handlers and   *)
(* the informer of KlusterApi.  The work queue hands a key to one worker   *)
(* at a time (BaseControllerProofs!Exclusion is about the same queue), so  *)
(* one worker stands for the ten of the operator.                          *)
(*                                                                         *)
(* Every call to OpenStack, Helm or Kubernetes is a step of its own: it    *)
(* can fail, REST requests and informer events interleave with it, and the *)
(* operator may crash and restart before or after it.                      *)
(***************************************************************************)
EXTENDS KlusterApi, WorkQueue

CONSTANTS
  Faulty,       \* the calls that may fail (see Calls)
  MaxFaults,    \* bound: failing calls
  MaxCrashes,   \* bound: restarts of the operator
  MaxNotify,    \* bound: undelivered notifications
  WaitTimesOut  \* may the cache lag more than the 5s that WaitForKluster waits?

\* The calls of handler that can fail.  The "Late" ones take effect although
\* the caller sees an error (a lost answer, or a release that failed half way).
\* A lost answer of another call is that call followed by a failure of the next.
Calls == {"discover", "osPut", "urlPut", "prepare", "user", "roles",
          "install", "installLate", "seed", "phaseGet", "phasePut",
          "phasePutLate", "secret", "deleteUser", "deleteRelease",
          "deleteReleaseLate", "deleteKluster", "deleteKlusterLate"}

ASSUME FaultyAssumption == Faulty \subseteq Calls
ASSUME GroundBounds ==
  MaxFaults \in Nat /\ MaxCrashes \in Nat /\ MaxNotify \in Nat
ASSUME WaitAssumption == WaitTimesOut \in BOOLEAN

VARIABLES
  q,          \* the controller's queue, of one key
  notify,     \* notifications of the informer not yet delivered
  pc,         \* the call the worker makes next
  target,     \* the phase updatePhase writes
  behind,     \* events the cache is behind the worker's own last write
  user,       \* the service user exists in OpenStack
  roles,      \* ... and has its roles in the project
  secret,     \* the secret of the release: none, or its password against the user's
  release,    \* the helm release exists
  pods,       \* the pods of the release
  faults, crashes,
  hadSecret,  \* history: this kluster's release had its secret
  stranded,   \* history: its release was installed, its phase not updated
  deletion    \* history: has the cache seen the worker's own last deletion?

qVars    == <<q, notify>>
local    == <<pc, target, behind>>
external == <<user, roles, secret, release, pods>>
ghost    == <<faults, crashes, hadSecret, stranded, deletion>>
vars     == <<apiVars, qVars, local, external, ghost>>

Key == "kluster"

PCs == {"get", "handle", "routers", "discover", "osPut", "urlGet", "urlPut",
        "prepare", "user", "roles", "install", "seed", "phaseGet", "phasePut",
        "wait", "secret", "deleteUser", "deleteRelease", "deleteKluster",
        "waitGone", "ok", "failed", "done"}

TypeOK ==
  /\ ApiTypeOK
  /\ q \in QueueType({Key})
  /\ notify \in 0..MaxNotify
  /\ pc \in PCs
  /\ target \in {"Creating", "Running"}
  /\ behind \in Nat
  /\ user \in BOOLEAN /\ roles \in BOOLEAN /\ release \in BOOLEAN
  /\ secret \in {"none", "match", "stale"}
  /\ pods \in {"none", "starting", "ready", "leaving"}
  /\ faults \in 0..MaxFaults /\ crashes \in 0..MaxCrashes
  /\ hadSecret \in BOOLEAN /\ stranded \in BOOLEAN
  /\ deletion \in {"seen", "unseen", "overtaken"}

Init ==
  /\ ApiInit
  /\ q = NewRateLimitingQueue({Key})
  /\ notify = 0
  /\ pc = "get" /\ target = "Creating" /\ behind = 0
  /\ user = FALSE /\ roles = FALSE /\ secret = "none"
  /\ release = FALSE /\ pods = "none"
  /\ faults = 0 /\ crashes = 0 /\ hadSecret = FALSE /\ stranded = FALSE
  /\ deletion = "seen"

-----------------------------------------------------------------------------
(* The environment of the worker.                                          *)

\* A REST request.  A new kluster has no history.
Api ==
  /\ ApiNext
  /\ LET same == Exists(store) \/ ~ Exists(store')
     IN  hadSecret' = (hadSecret /\ same) /\ stranded' = (stranded /\ same)
  /\ UNCHANGED <<qVars, local, external, faults, crashes, deletion>>

\* The informer applies an event and notifies klusterAdd, klusterUpdate or
\* klusterTerminate.  (A resync raises updates whose old and new objects are
\* equal; klusterUpdate drops them.)
CacheEvent ==
  /\ notify < MaxNotify
  /\ CacheNext
  /\ notify' = notify + 1
  /\ behind' = IF behind > 0 THEN behind - 1 ELSE 0
  /\ deletion' = IF deletion = "unseen" /\ behind = 1 THEN "seen" ELSE deletion
  /\ UNCHANGED <<store, fresh, apiPc, requests, accepted, q, pc, target, external,
                 faults, crashes, hadSecret, stranded>>

\* klusterAdd, klusterUpdate and klusterTerminate queue the key.
Deliver ==
  /\ notify > 0
  /\ notify' = notify - 1
  /\ q' = Add(q, Key)
  /\ UNCHANGED <<apiVars, local, external, ghost>>

\* The pods of the release change; podAdd, podUpdate and podDelete queue the
\* key of the kluster whose name the "release" label holds.  "ready" stands
\* for exactly four ready pods.
PodEvent ==
  /\ \/ pods = "starting" /\ pods' = "ready"
     \/ pods = "leaving" /\ pods' = "none"
  /\ q' = Add(q, Key)
  /\ UNCHANGED <<apiVars, notify, local, user, roles, secret, release, ghost>>

\* A pod restarts: the four are not ready for a while.
PodRestart ==
  /\ pods = "ready"
  /\ faults < MaxFaults /\ faults' = faults + 1
  /\ pods' = "starting"
  /\ q' = Add(q, Key)
  /\ UNCHANGED <<apiVars, notify, local, user, roles, secret, release, crashes, deletion, hadSecret, stranded>>

\* The delay of a retry has passed.
DelayPassed ==
  /\ Key \in q.waiting
  /\ q' = WaitingLoop(q, Key)
  /\ UNCHANGED <<apiVars, notify, local, external, ghost>>

\* The operator dies and starts anew: what it kept in memory is gone, the
\* informers list klusters and pods and raise an add for each.
Crash ==
  /\ crashes < MaxCrashes /\ crashes' = crashes + 1
  /\ q' = NewRateLimitingQueue({Key})
  /\ cache' = store /\ watch' = <<>> /\ fresh' = fresh \ {"ground"}
  /\ notify' = IF MaxNotify > 0 /\ (Exists(store) \/ pods # "none") THEN 1 ELSE 0
  /\ pc' = "get" /\ behind' = 0
  /\ stranded' = (stranded \/ pc \in {"phaseGet", "phasePut"})
  /\ deletion' = IF deletion = "unseen" THEN "seen" ELSE deletion
  /\ UNCHANGED <<store, apiPc, requests, accepted, target, external, faults, hadSecret>>

-----------------------------------------------------------------------------
(* The worker.                                                             *)

At(here) == pc = here

Goto(there) == pc' = there /\ UNCHANGED <<target, behind>>

\* A call of handler fails: the error is returned ("failed"), or, for
\* updatePhase, only logged ("ok").
Fault(call, there) ==
  /\ call \in Faulty
  /\ faults < MaxFaults /\ faults' = faults + 1
  /\ Goto(there)

GetItem ==
  /\ At("get") /\ CanGet(q)
  /\ q' = Get(q)
  /\ Goto("handle")
  /\ UNCHANGED <<apiVars, notify, external, ghost>>

\* What handler does first for the kluster it finds in the cache.
FirstCall(o) ==
  CASE o.phase = "Pending" /\ ~ o.os              -> "routers"
    [] o.phase = "Pending" /\ o.os /\ ~ o.url     -> "urlGet"
    [] o.phase = "Pending" /\ o.os /\ o.url       -> "prepare"
    [] o.phase = "Creating" /\ pods = "ready"     -> "seed"
    [] o.phase = "Terminating"                    -> "secret"
    [] OTHER                                      -> "ok"

\* The worker takes up the kluster of its cache.  When its last deletion is not
\* in there it takes a kluster for alive that it has deleted: it is overtaken.
Handle ==
  /\ At("handle")
  /\ Goto(FirstCall(cache))
  /\ deletion' = IF deletion = "unseen" THEN "overtaken" ELSE deletion
  /\ UNCHANGED <<apiVars, qVars, external, faults, crashes, hadSecret, stranded>>

\* discoverOpenstackInfo lists the routers and then gets a fresh copy ...
DiscoverGet ==
  /\ At("routers")
  /\ IF Exists(store)
     THEN Read("ground") /\ Goto("discover")
     ELSE Goto("failed") /\ UNCHANGED fresh
  /\ UNCHANGED <<store, watch, cache, apiPc, requests, accepted, qVars, external, ghost>>

\* ... selects router, network, subnet and security group (module Discovery),
\* or returns an error ...
DiscoverSelect ==
  /\ At("discover")
  /\ \/ Goto("osPut") /\ UNCHANGED faults
     \/ Fault("discover", "failed")
  /\ UNCHANGED <<apiVars, qVars, external, crashes, deletion, hadSecret, stranded>>

\* An Update of the worker's fresh copy, "change" applied to the current
\* object: conflict or not found when something was written since the Get.
Update(call, change, succeeded, failed) ==
  /\ At(call)
  /\ \/ /\ "ground" \in fresh
        /\ Write(change)
        /\ succeeded
        /\ UNCHANGED faults
     \/ /\ "ground" \notin fresh
        /\ Goto(failed)
        /\ UNCHANGED <<store, fresh, watch, faults>>
     \/ /\ Fault(call, failed)
        /\ UNCHANGED <<store, fresh, watch>>
  /\ stranded' = (stranded \/ (call = "phasePut" /\ pc' = failed))
  /\ UNCHANGED <<cache, apiPc, requests, accepted, qVars, external, crashes, deletion, hadSecret>>

\* ... and updates the spec of its copy, nothing else.
DiscoverPut == Update("osPut", [store EXCEPT !.os = TRUE], Goto("ok"), "failed")

\* discoverKubernikusInfo: the URLs, into the status of a fresh copy.
UrlGet ==
  /\ At("urlGet")
  /\ IF Exists(store)
     THEN Read("ground") /\ Goto("urlPut")
     ELSE Goto("failed") /\ UNCHANGED fresh
  /\ UNCHANGED <<store, watch, cache, apiPc, requests, accepted, qVars, external, ghost>>

UrlPut == Update("urlPut", [store EXCEPT !.url = TRUE], Goto("ok"), "failed")

-----------------------------------------------------------------------------
(* createKluster.                                                          *)

\* Access mode, catalog entry, certificates, password, region.
Prepare ==
  /\ At("prepare")
  /\ \/ Goto("user") /\ UNCHANGED faults
     \/ Fault("prepare", "failed")
  /\ UNCHANGED <<apiVars, qVars, external, crashes, deletion, hadSecret, stranded>>

\* CreateKlusterServiceUser creates the user or updates its password to the
\* one just generated, which no existing secret holds ...
ServiceUser ==
  /\ At("user")
  /\ \/ /\ user' = TRUE
        /\ secret' = IF secret = "match" THEN "stale" ELSE secret
        /\ Goto("roles") /\ UNCHANGED <<roles, faults>>
     \/ /\ Fault("user", "failed")
        /\ UNCHANGED <<user, secret, roles>>
  /\ UNCHANGED <<apiVars, qVars, release, pods, crashes, deletion, hadSecret, stranded>>

\* ... and assigns the roles.
UserRoles ==
  /\ At("roles")
  /\ \/ roles' = TRUE /\ Goto("install") /\ UNCHANGED faults
     \/ Fault("roles", "failed") /\ UNCHANGED roles
  /\ UNCHANGED <<apiVars, qVars, user, secret, release, pods, crashes, deletion, hadSecret, stranded>>

\* Mutant of InstallRelease: an error of Tiller is not returned.
InstallErrorIgnored ==
  /\ At("install")
  /\ \/ UNCHANGED <<release, secret, pods, hadSecret>>
     \/ /\ release' = TRUE /\ secret' = "match" /\ pods' = "starting"
        /\ hadSecret' = TRUE
  /\ pc' = "phaseGet" /\ target' = "Creating"
  /\ UNCHANGED <<apiVars, qVars, behind, user, roles, faults, crashes, deletion, stranded>>

\* Tiller refuses a name that is in use.  An installation that fails half way
\* ("installLate") leaves the release, with or without its secret.
InstallRelease ==
  /\ At("install")
  /\ \/ /\ release
        /\ Goto("failed")
        /\ UNCHANGED <<release, secret, pods, faults, hadSecret, stranded>>
     \/ /\ ~ release
        /\ release' = TRUE /\ secret' = "match" /\ pods' = "starting"
        /\ hadSecret' = TRUE
        /\ pc' = "phaseGet" /\ target' = "Creating"
        /\ UNCHANGED <<behind, faults, stranded>>
     \/ /\ ~ release
        /\ Fault("install", "failed")
        /\ UNCHANGED <<release, secret, pods, hadSecret, stranded>>
     \/ /\ ~ release
        /\ Fault("installLate", "failed")
        /\ release' = TRUE /\ pods' = "starting" /\ stranded' = TRUE
        /\ \/ secret' = "match" /\ hadSecret' = TRUE
           \/ secret' = "none" /\ UNCHANGED hadSecret
  /\ UNCHANGED <<apiVars, qVars, user, roles, crashes, deletion>>

\* Phase Creating, four pods ready: ClientFor and SeedKluster.
Seed ==
  /\ At("seed")
  /\ \/ pc' = "phaseGet" /\ target' = "Running" /\ UNCHANGED <<behind, faults>>
     \/ Fault("seed", "failed")
  /\ UNCHANGED <<apiVars, qVars, external, crashes, deletion, hadSecret, stranded>>

-----------------------------------------------------------------------------
(* updatePhase.  The caller logs its error and returns nil.                *)

PhaseGet ==
  /\ At("phaseGet")
  /\ \/ /\ Exists(store) /\ store.phase # target
        /\ Read("ground") /\ Goto("phasePut") /\ UNCHANGED <<faults, stranded>>
     \/ /\ ~ Exists(store) \/ store.phase = target
        /\ Goto("ok") /\ UNCHANGED <<fresh, faults, stranded>>
     \/ /\ Fault("phaseGet", "ok") /\ stranded' = TRUE /\ UNCHANGED fresh
  /\ UNCHANGED <<store, watch, cache, apiPc, requests, accepted, qVars, external,
                 crashes, deletion, hadSecret>>

\* A successful write is followed by WaitForKluster.
StartWait == pc' = "wait" /\ behind' = Len(watch') /\ UNCHANGED target

\* The phase is written whatever the phase of the fresh copy is.
PhasePut ==
  \/ Update("phasePut", [store EXCEPT !.phase = target], StartWait, "ok")
  \/ /\ At("phasePut") /\ "ground" \in fresh
     /\ Fault("phasePutLate", "ok")
     /\ Write([store EXCEPT !.phase = target])
     /\ UNCHANGED <<cache, apiPc, requests, accepted, qVars, external, crashes, deletion, hadSecret, stranded>>

\* Mutant of Wait: the worker does not wait for its cache.
NoWait ==
  /\ At("wait")
  /\ Goto("ok")
  /\ UNCHANGED <<apiVars, qVars, external, ghost>>

\* WaitForKluster: the cache shows the phase, or no kluster; or 5s pass.  The
\* cache may have skipped the phase when it is past the write (behind = 0).
Wait ==
  /\ At("wait")
  /\ \/ cache.phase = target
     \/ ~ Exists(cache)
     \/ behind = 0
     \/ WaitTimesOut
  /\ Goto("ok")
  /\ UNCHANGED <<apiVars, qVars, external, ghost>>

-----------------------------------------------------------------------------
(* terminateKluster.                                                       *)

\* Mutant of GetSecret: the release is deleted first.
GetSecretAfterRelease ==
  /\ At("secret")
  /\ release' = FALSE /\ secret' = "none"
  /\ pods' = IF pods = "none" THEN pods ELSE "leaving"
  /\ Goto(IF secret = "none" THEN "deleteKluster" ELSE "deleteUser")
  /\ UNCHANGED <<apiVars, qVars, user, roles, ghost>>

\* The secret of the release names the user; without it no user is deleted.
GetSecret ==
  /\ At("secret")
  /\ \/ /\ Goto(IF secret = "none" THEN "deleteRelease" ELSE "deleteUser")
        /\ UNCHANGED faults
     \/ Fault("secret", "failed")
  /\ UNCHANGED <<apiVars, qVars, external, crashes, deletion, hadSecret, stranded>>

DeleteUser ==
  /\ At("deleteUser")
  /\ \/ user' = FALSE /\ roles' = FALSE /\ Goto("deleteRelease") /\ UNCHANGED faults
     \/ Fault("deleteUser", "failed") /\ UNCHANGED <<user, roles>>
  /\ UNCHANGED <<apiVars, qVars, secret, release, pods, crashes, deletion, hadSecret, stranded>>

\* Mutant of DeleteRelease: every error is taken for "release not found".
DeleteReleaseErrorIgnored ==
  /\ At("deleteRelease")
  /\ \/ /\ release' = FALSE /\ secret' = "none"
        /\ pods' = IF pods = "none" THEN pods ELSE "leaving"
     \/ UNCHANGED <<release, secret, pods>>
  /\ Goto("deleteKluster")
  /\ UNCHANGED <<apiVars, qVars, user, roles, ghost>>

\* "release not found" is no error.
DeleteRelease ==
  /\ At("deleteRelease")
  /\ \/ /\ \/ Goto("deleteKluster") /\ UNCHANGED faults
           \/ Fault("deleteReleaseLate", "failed")
        /\ release' = FALSE /\ secret' = "none"
        /\ pods' = IF pods = "none" THEN pods ELSE "leaving"
     \/ /\ Fault("deleteRelease", "failed")
        /\ UNCHANGED <<release, secret, pods>>
  /\ UNCHANGED <<apiVars, qVars, user, roles, crashes, deletion, hadSecret, stranded>>

\* The worker goes on although its cache has not seen its deletion.
DeletionUnseen == IF deletion = "seen" THEN "unseen" ELSE deletion

\* The resource is deleted by name; a kluster that is gone is an error here.
\* The worker waits for its cache only when the Delete returned no error.
DeleteKluster ==
  /\ At("deleteKluster")
  /\ \/ /\ Exists(store)
        /\ Write(Absent)
        /\ pc' = "waitGone" /\ behind' = Len(watch') /\ UNCHANGED <<target, faults, deletion>>
     \/ /\ Exists(store)
        /\ "deleteKlusterLate" \in Faulty
        /\ faults < MaxFaults /\ faults' = faults + 1
        /\ Write(Absent)
        /\ pc' = "failed" /\ behind' = Len(watch') /\ UNCHANGED target
        /\ deletion' = DeletionUnseen
     \/ /\ ~ Exists(store)
        /\ Goto("failed")
        /\ UNCHANGED <<store, fresh, watch, faults, deletion>>
     \/ /\ Fault("deleteKluster", "failed")
        /\ UNCHANGED <<store, fresh, watch, deletion>>
  /\ UNCHANGED <<cache, apiPc, requests, accepted, qVars, external, crashes, hadSecret, stranded>>

\* Mutant of WaitGone: the worker does not wait for its cache.
NoWaitGone ==
  /\ At("waitGone")
  /\ Goto("ok")
  /\ UNCHANGED <<apiVars, qVars, external, ghost>>

\* WaitForKlusterDeletion: as Wait, for a cache without the kluster.
WaitGone ==
  /\ At("waitGone")
  /\ ~ Exists(cache) \/ behind = 0 \/ WaitTimesOut
  /\ deletion' = IF Exists(cache) /\ behind > 0 THEN DeletionUnseen ELSE deletion
  /\ Goto("ok")
  /\ UNCHANGED <<apiVars, qVars, external, faults, crashes, hadSecret, stranded>>

-----------------------------------------------------------------------------
(* The end of processNextWorkItem.  The failure count only sets the delay, *)
(* which is not modelled, and is not bounded: it is left out here.         *)

\* Mutant of Finish: a failed key is not queued again.
FinishDropsFailed ==
  /\ pc \in {"ok", "failed"}
  /\ q' = Forget(q, Key)
  /\ Goto("done")
  /\ UNCHANGED <<apiVars, notify, external, ghost>>

Finish ==
  /\ \/ At("ok") /\ q' = Forget(q, Key)
     \/ At("failed") /\ q' = AddAfter(q, Key)
  /\ Goto("done")
  /\ UNCHANGED <<apiVars, notify, external, ghost>>

DoneItem ==
  /\ At("done")
  /\ q' = Done(q, Key)
  /\ Goto("get")
  /\ UNCHANGED <<apiVars, notify, external, ghost>>

Worker ==
  \/ GetItem \/ Handle \/ DiscoverGet \/ DiscoverSelect \/ DiscoverPut
  \/ UrlGet \/ UrlPut \/ Prepare \/ ServiceUser \/ UserRoles \/ InstallRelease
  \/ Seed \/ PhaseGet \/ PhasePut \/ Wait \/ GetSecret \/ DeleteUser
  \/ DeleteRelease \/ DeleteKluster \/ WaitGone \/ Finish \/ DoneItem

Next ==
  \/ Api \/ CacheEvent \/ Deliver \/ PodEvent \/ PodRestart \/ DelayPassed \/ Crash
  \/ Worker

Spec == Init /\ [][Next]_vars

(***************************************************************************)
(* Fairness.  Every call of the worker returns, the goroutines of the      *)
(* informer and of the queue run on, a DELETE request that passed its      *)
(* check is finished, and pods that start become ready.  Nothing is        *)
(* assumed of requests, failures, pod restarts and crashes.                *)
(***************************************************************************)
Fairness ==
  /\ WF_vars(Worker) /\ WF_vars(CacheEvent) /\ WF_vars(Deliver)
  /\ WF_vars(DelayPassed) /\ WF_vars(PodEvent)
  /\ WF_vars(TerminateEdit /\ UNCHANGED <<qVars, local, external, ghost>>)

FairSpec == Spec /\ Fairness

-----------------------------------------------------------------------------
(* Properties.                                                             *)

\* The worker never took up a kluster that it had deleted.  It does when the
\* answer of its Delete was lost, so that it does not wait, or when the wait for
\* the cache timed out, and the retry comes before the event of the deletion.
Trusted == deletion # "overtaken"

\* A kluster is never reported as Creating or Running without its control
\* plane: whatever REST requests, failing calls and restarts come in between,
\* the helm release exists.  It takes caches that show a phase update within the
\* 5s of the wait, and answers to phase updates that are not lost.
ReleaseBacksPhase ==
  Trusted /\ store.phase \in {"Creating", "Running"} => release

\* Whatever answers are lost and however long the waits for the cache take, the
\* control plane is gone while the phase says otherwise only of a kluster whose
\* termination was accepted.
ReleaseUnlessTerminated ==
  Trusted /\ store.phase \in {"Creating", "Running"} => release \/ accepted

\* The control plane of a running kluster can use OpenStack: the service user
\* exists, has its roles, and its password is the one in the secret of the
\* release.  createKluster generates a new password on every attempt.
CredentialsMatch ==
  Trusted /\ store.phase = "Running" => user /\ roles /\ secret = "match"

\* A kluster that is gone leaves nothing behind: no release, and no service
\* user once the release had its secret, although terminateKluster may fail,
\* die or lose an answer between any two of its steps.
NothingLeftBehind ==
  Trusted /\ ~ Exists(store) => ~ release /\ (hadSecret => ~ user)

\* terminateKluster deletes by name: it only ever deletes the kluster whose
\* termination was requested, never its successor of the same name.
OnlyRequestedDeleted ==
  [][Trusted /\ Exists(store) /\ ~ Exists(store') => accepted]_vars

\* The phases and the control plane follow the lifecycle the abstract
\* specification describes, as long as the worker is not overtaken.
Lifecycle == INSTANCE KlusterLifecycle
             WITH phase <- store.phase, plane <- release, trusted <- Trusted

ImplementsLifecycle == Lifecycle!Spec

\* A kluster that was asked for comes up, or is terminated, whichever calls fail
\* and whenever the operator restarts; unless it is stranded: its release is
\* there, but the update of the phase that must follow was lost.
ComesUp ==
  store.phase = "Pending" ~>
    store.phase \in {"Running", "Terminating", "Absent"} \/ stranded

\* A termination that was accepted does not get stuck half way, whichever calls
\* fail and whenever the operator restarts.  (It may be overwritten: see
\* AcceptedStaysTerminating.)
TerminationCompletes ==
  store.phase = "Terminating" ~> store.phase # "Terminating"

\* A DELETE that was answered with 202 stays in force until the kluster is gone.
AcceptedStaysTerminating ==
  accepted => store.phase \in {"Terminating", "Absent"}
=============================================================================
