------------------------------- MODULE RestApi -------------------------------
(***************************************************************************)
(* The REST API of Kubernikus end to end: a caller sends a request with    *)
(* the generated client, the server routes it, authenticates the token     *)
(* with Keystone, asks the policy, binds the parameters and runs a handler *)
(* of pkg/api/handlers, and the caller reads the response.  Requests are   *)
(* served concurrently, each in a slot; a handler takes one step for every *)
(* request it makes to the Kubernetes API server.                          *)
(***************************************************************************)
EXTENDS ApiProtocol, FiniteSets, SequencesExt

CONSTANTS
  Slots,       \* bound: requests in flight at a time
  Parts,       \* what the name of a kluster is made of, ids of accounts among it
  Accounts,    \* OpenStack projects
  Tokens,      \* Keystone tokens
  Revocable,   \* the tokens among them Keystone may stop to accept
  Principal,   \* what Keystone says of a token: its project and its roles
  Requests,    \* what callers send: the operation, the token, the name and the body
  MaxCalls,    \* bound: requests sent
  MaxEvents,   \* bound: steps of the operator and faults
  MaxFaults    \* bound: faults, which are failing requests and revoked tokens

ASSUME PrincipalAssumption ==
  Principal \in [Tokens -> [project : Accounts \cup {"none"}, roles : SUBSET STRING]]
\* A caller may send any name: alone, or with the ids of any accounts in it.
ASSUME RequestAssumption ==
  /\ Requests # {}
  /\ \A r \in Requests : r.op \in Ops /\ r.token \in Tokens /\ r.name \in Seq(Parts)
ASSUME NamesAssumption == Accounts \subseteq Parts /\ "none" \notin Parts /\ "free" \notin Slots
ASSUME BoundsAssumption == {MaxCalls, MaxEvents, MaxFaults} \subseteq Nat

VARIABLES
  klusters,   \* the kluster objects, by qualified name
  secrets,    \* qualified names with a secret of certificates
  valid,      \* tokens Keystone accepts
  cached,     \* tokens in the token cache
  calls,      \* the request in every slot
  links,      \* getClusterInfo.links is filled in
  linkMutex,  \* the slot that holds getClusterInfo.linkMutex, or "free"
  sent,       \* requests sent so far
  events,     \* steps of the operator so far
  faults      \* faults so far

vars == <<klusters, secrets, valid, cached, calls, links, linkMutex, sent, events, faults>>

\* Mutant of QualifiedName: the name alone.
QualifiedNameBare(name, account) == name

\* util.go: the account is appended unless the name has it, anywhere.
QualifiedName(name, account) == IF Contains(name, account) THEN name ELSE Append(name, account)

Names == {r.name : r \in Requests}
\* The qualified names the requests come to.
Keys == {QualifiedName(r.name, Principal[r.token].project) :
           r \in {x \in Requests : Principal[x.token].project # "none"}}

Bodies == {r.body : r \in Requests}
Pools == {b.pools : b \in Bodies}
Object == [phase : {"Absent", "Pending", "Creating", "Running", "Terminating"},
           pools : Pools \cup {<<>>}, running : 0..1, account : Accounts \cup {"none"}]
Absent == [phase |-> "Absent", pools |-> <<>>, running |-> 0, account |-> "none"]

Payloads == {"none", "Error"} \cup {Operations[op].respond.payload : op \in Ops}

\* A request: where it is, what was sent, the copy of the kluster the handler
\* holds and whether it is the current version, the status code, and for the
\* properties whether it changed a kluster, or might have without an answer of
\* Kubernetes, and the account labels of the klusters it returns.
Call == [pc : {"idle", "sent", "validate", "confirmed", "links",
               "fetch", "secret", "checked", "edit", "replied"},
         op : Ops, token : Tokens, name : Names, body : Bodies,
         seen : Object, fresh : BOOLEAN, code : Nat, payload : Payloads,
         did : {"nothing", "changed", "unanswered"}, got : SUBSET Accounts, waiting : BOOLEAN]

Idle == [pc |-> "idle", op |-> "Info", token |-> CHOOSE t \in Tokens : TRUE,
         name |-> CHOOSE n \in Names : TRUE, body |-> CHOOSE b \in Bodies : TRUE,
         seen |-> Absent, fresh |-> FALSE, code |-> 0, payload |-> "none",
         did |-> "nothing", got |-> {}, waiting |-> FALSE]

TypeOK ==
  /\ klusters \in [Keys -> Object]
  /\ secrets \subseteq Keys
  /\ valid \subseteq Tokens
  /\ cached \subseteq Tokens
  /\ calls \in [Slots -> Call]
  /\ links \in BOOLEAN
  /\ linkMutex \in Slots \cup {"free"}
  /\ sent \in 0..MaxCalls
  /\ events \in 0..MaxEvents
  /\ faults \in 0..MaxFaults

\* The API server starts over what is in Kubernetes: no kluster, or one running
\* with its secret under every name an account can create.
Init ==
  /\ \E a \in Accounts \cup {"none"} :
       klusters = [k \in Keys |-> IF Contains(k, a)
                                  THEN [Absent EXCEPT !.phase = "Running", !.account = a] ELSE Absent]
  /\ secrets = {k \in Keys : klusters[k].phase = "Running"}
  /\ valid = Tokens
  /\ cached = {}
  /\ calls = [s \in Slots |-> Idle]
  /\ links = FALSE
  /\ linkMutex = "free"
  /\ sent = 0
  /\ events = 0
  /\ faults = 0

-----------------------------------------------------------------------------
(* Authentication, authorization and validation.                           *)

Roles(rule) == IF rule = "kubernetes_admin" THEN {"kubernetes_admin"}
               ELSE {"kubernetes_member", "kubernetes_admin"}
\* Mutant of Policy: any user of the project updates a kluster.
PolicyUsersUpdate ==
  [op \in Ops \ {"Info", "ListAPIVersions"} |->
     IF op \in {"GetOpenstackMetadata", "CreateCluster", "TerminateCluster"}
     THEN "kubernetes_admin" ELSE "kubernetes_user"]

\* etc/policy.json.
Policy ==
  [op \in Ops \ {"Info", "ListAPIVersions"} |->
     IF op \in {"GetOpenstackMetadata", "CreateCluster", "TerminateCluster", "UpdateCluster"}
     THEN "kubernetes_admin" ELSE "kubernetes_user"]

\* Authorize: an operation without a rule is refused.
Authorize(op, t) ==
  op \in DOMAIN Policy /\ Principal[t].roles \cap Roles(Policy[op]) # {}

\* Validation of a body.  The node pools are not looked at.
KlusterStatusValidate(body) == body.status
KlusterSpecValidate(body) == body.spec
KlusterValidate(body) ==
  body.name /\ KlusterSpecValidate(body) /\ KlusterStatusValidate(body)

\* The handlers Configure registers; any other operation answers 501.
Configured ==
  {"Info", "ListAPIVersions", "ListClusters", "CreateCluster", "ShowCluster", "TerminateCluster",
   "UpdateCluster", "GetClusterCredentials", "GetClusterInfo", "GetOpenstackMetadata", "GetClusterEvents"}

\* The operation the router selects for a request.
Routes ==
  [op \in Ops |-> HandlerFor(Operations[op].submit.method, Operations[op].submit.path)]
Routed(c) == Routes[c.op]

\* The request needs a token (AuthenticatorsFor).
Guarded(c) == Routed(c) # "none" /\ Operations[Routed(c)].serve = Secured

\* The stages of ServeHTTP once Keystone has accepted the token, which must be
\* scoped to a project: what refuses a request, and with which code.
Fails(c, op, stage) ==
  CASE stage = "authenticate" -> Principal[c.token].project = "none"
    [] stage = "authorize" -> ~ Authorize(op, c.token)
    [] stage = "bind" ->
         \/ ~ (Operations[op].bind.requires \subseteq Operations[c.op].params.params)
         \/ "body" \in Operations[op].bind.requires /\ ~ KlusterValidate(c.body)
Code(stage) == CASE stage = "authenticate" -> 401 [] stage = "authorize" -> 403 [] stage = "bind" -> 422

\* The code a request is refused with before its handler runs, or 0.
Refusal(c) ==
  LET op     == Routed(c)
      serve  == Operations[op].serve
      failed == {i \in DOMAIN serve : Fails(c, op, serve[i])}
  IN IF op = "none" THEN 404
     ELSE IF failed # {} THEN Code(serve[Min(failed)])
     ELSE IF op \notin Configured THEN 501 ELSE 0

Project(s) == Principal[calls[s].token].project
KeyOf(s) == QualifiedName(calls[s].name, Project(s))

-----------------------------------------------------------------------------
(* The caller.                                                             *)

\* A caller sends a request with the generated client.  Any free slot will do.
Submit(s) ==
  /\ calls[s].pc = "idle"
  /\ s = CHOOSE x \in Slots : calls[x].pc = "idle"
  /\ sent < MaxCalls
  /\ sent' = sent + 1
  /\ \E r \in Requests :
       calls' = [calls EXCEPT ![s] = [Idle EXCEPT !.pc = "sent", !.waiting = TRUE, !.op = r.op,
                                        !.token = r.token, !.name = r.name, !.body = r.body]]
  /\ UNCHANGED <<klusters, secrets, valid, cached, links, linkMutex, events, faults>>

\* The caller reads the response.
Receive(s) ==
  /\ calls[s].pc = "replied"
  /\ calls' = [calls EXCEPT ![s] = Idle]
  /\ UNCHANGED <<klusters, secrets, valid, cached, links, linkMutex, sent, events, faults>>

\* The timeout of the request parameters ends the wait; the handler goes on.
Timeout(s) ==
  /\ calls[s].waiting
  /\ calls[s].pc # "replied"
  /\ Operations[calls[s].op].params.timeout
  /\ calls' = [calls EXCEPT ![s].waiting = FALSE]
  /\ UNCHANGED <<klusters, secrets, valid, cached, links, linkMutex, sent, events, faults>>

\* The connection is lost before the request reaches the server.
Lost(s) ==
  /\ calls[s].pc = "sent"
  /\ calls' = [calls EXCEPT ![s] = Idle]
  /\ UNCHANGED <<klusters, secrets, valid, cached, links, linkMutex, sent, events, faults>>

-----------------------------------------------------------------------------
(* The server.                                                             *)

\* The response of a handler.  Nobody reads it when the caller has given up.
Response(s, code, did, got) ==
  LET c == calls[s]
      respond == Operations[Routed(c)].respond
  IN IF c.waiting
     THEN [Idle EXCEPT !.pc = "replied", !.op = c.op, !.token = c.token, !.name = c.name,
                       !.waiting = TRUE, !.code = code, !.did = did, !.got = got,
                       !.payload = IF code = respond.success THEN respond.payload ELSE "Error"]
     ELSE Idle
Success(s) == Operations[Routed(calls[s])].respond.success

Respond(s, code, got) == calls' = [calls EXCEPT ![s] = Response(s, code, "nothing", got)]
Continue(s, pc) == calls' = [calls EXCEPT ![s].pc = pc]

unserved == <<secrets, valid, links, linkMutex, sent, events, faults>>

\* Mutant of LookupToken: the token is cached before it is validated.
LookupTokenCachesFirst(s) ==
  /\ calls[s].pc = "sent"
  /\ Guarded(calls[s])
  /\ calls[s].token \notin cached
  /\ Continue(s, "validate")
  /\ cached' = cached \cup {calls[s].token}
  /\ UNCHANGED klusters /\ UNCHANGED unserved

\* Validate of the keystone library: the token is looked up in the cache; a token
\* that is not there is validated by Keystone; and its answer is cached.
LookupToken(s) ==
  /\ calls[s].pc = "sent"
  /\ Guarded(calls[s])
  /\ calls[s].token \notin cached
  /\ Continue(s, "validate")
  /\ UNCHANGED <<klusters, cached>> /\ UNCHANGED unserved
ValidateToken(s) ==
  /\ calls[s].pc = "validate"
  /\ IF calls[s].token \in valid THEN Continue(s, "confirmed") ELSE Respond(s, 401, {})
  /\ UNCHANGED <<klusters, cached>> /\ UNCHANGED unserved
Authenticated(s) ==
  \/ /\ calls[s].pc = "sent"
     /\ Guarded(calls[s]) => calls[s].token \in cached
     /\ UNCHANGED cached
  \/ /\ calls[s].pc = "confirmed"
     /\ cached' = cached \cup {calls[s].token}

\* The request passes every stage before the handler of op.
Serve(s, op) ==
  /\ Authenticated(s)
  /\ Routed(calls[s]) = op
  /\ Refusal(calls[s]) = 0

\* The request is refused before any handler runs.
Refuse(s) ==
  /\ Authenticated(s)
  /\ Refusal(calls[s]) # 0
  /\ Respond(s, Refusal(calls[s]), {})
  /\ UNCHANGED klusters /\ UNCHANGED unserved

\* A kluster is written in Kubernetes: copies of it are no longer current.
WriteKluster(key, object, answered) ==
  /\ klusters' = [klusters EXCEPT ![key] = object]
  /\ calls' = [s \in Slots |-> IF KeyOf(s) = key THEN [answered[s] EXCEPT !.fresh = FALSE] ELSE answered[s]]
WriteAndRespond(s, object) ==
  WriteKluster(KeyOf(s), object,
               [calls EXCEPT ![s] = Response(s, Success(s), "changed", {object.account})])
\* The same, but the answer of Kubernetes is lost: the handler takes it for a failure.
WriteUnanswered(s, object) ==
  WriteKluster(KeyOf(s), object, [calls EXCEPT ![s] = Response(s, 500, "unanswered", {})])

\* The account labels of the klusters there are under some names.
Labels(keys) == {klusters[k].account : k \in {x \in keys : klusters[x].phase # "Absent"}}

\* A kluster can be created: the items of its node pools are not equal as a
\* whole, the service CIDR has an address for DNS, and its name is free.
Creatable(s) ==
  IsInjective(calls[s].body.pools) /\ calls[s].body.dns /\ klusters[KeyOf(s)].phase = "Absent"
Created(s) ==
  [phase |-> "Pending", pools |-> calls[s].body.pools, running |-> 0, account |-> Project(s)]

\* Mutant of CreateCluster: the status has no phase.
CreateClusterWithoutPhase(s) ==
  /\ Serve(s, "CreateCluster")
  /\ klusters[KeyOf(s)].phase = "Absent"
  /\ WriteAndRespond(s, [Created(s) EXCEPT !.phase = ""])
  /\ UNCHANGED unserved

\* POST: items of the node pools that are equal as a whole are refused; without
\* an address for DNS in the service CIDR the handler panics on a nil kluster
\* and the connection is closed; Kubernetes refuses a name that exists.
CreateCluster(s) ==
  /\ Serve(s, "CreateCluster")
  /\ IF Creatable(s)
     THEN WriteAndRespond(s, Created(s))
     ELSE /\ Respond(s, IF ~ IsInjective(calls[s].body.pools) THEN 422
                        ELSE IF ~ calls[s].body.dns THEN 0 ELSE 409, {})
          /\ UNCHANGED klusters
  /\ UNCHANGED unserved

\* editCluster: a Get, the change, and an Update that Kubernetes refuses when the
\* kluster was written after the Get.
EditGet(s, absent) ==
  /\ IF klusters[KeyOf(s)].phase = "Absent"
     THEN Respond(s, absent, {})
     ELSE calls' = [calls EXCEPT ![s] = [@ EXCEPT !.pc = "edit", !.seen = klusters[KeyOf(s)], !.fresh = TRUE]]
  /\ UNCHANGED klusters

\* What updateFunc makes of the copy: PUT replaces the node pools, DELETE the phase.
Edited(s) ==
  IF Routed(calls[s]) = "UpdateCluster"
  THEN [calls[s].seen EXCEPT !.pools = calls[s].body.pools]
  ELSE [calls[s].seen EXCEPT !.phase = "Terminating"]

\* Mutant of EditPut: the Update carries no resource version.
EditPutUnconditional(s, absent) ==
  IF klusters[KeyOf(s)].phase # "Absent"
  THEN WriteAndRespond(s, Edited(s))
  ELSE Respond(s, absent, {}) /\ UNCHANGED klusters

\* Mutant of EditPut: the error of the Update is dropped.
EditPutUnchecked(s, absent) ==
  IF calls[s].fresh
  THEN WriteAndRespond(s, Edited(s))
  ELSE Respond(s, Success(s), {}) /\ UNCHANGED klusters

EditPut(s, absent) ==
  IF calls[s].fresh
  THEN WriteAndRespond(s, Edited(s))
  ELSE /\ Respond(s, IF klusters[KeyOf(s)].phase = "Absent" THEN absent ELSE 500, {})
       /\ UNCHANGED klusters

\* PUT.
UpdateCluster(s) ==
  /\ \/ Serve(s, "UpdateCluster") /\ EditGet(s, 404)
     \/ /\ calls[s].pc = "edit" /\ Routed(calls[s]) = "UpdateCluster"
        /\ EditPut(s, 404)
        /\ UNCHANGED cached
  /\ UNCHANGED unserved

\* DELETE: a Get that looks for running nodes, then editCluster with its own Get.
TerminateCheck(s) ==
  /\ Serve(s, "TerminateCluster")
  /\ LET kluster == klusters[KeyOf(s)]
     IN IF kluster.phase = "Absent" THEN Respond(s, 404, {})
        ELSE IF kluster.running > 0 THEN Respond(s, 409, {})
        ELSE Continue(s, "checked")
  /\ UNCHANGED klusters
TerminateCluster(s) ==
  /\ \/ TerminateCheck(s)
     \/ calls[s].pc = "checked" /\ EditGet(s, 500) /\ UNCHANGED cached
     \/ /\ calls[s].pc = "edit" /\ Routed(calls[s]) = "TerminateCluster"
        /\ EditPut(s, 500)
        /\ UNCHANGED cached
  /\ UNCHANGED unserved

ShowCluster(s) ==
  /\ Serve(s, "ShowCluster")
  /\ IF klusters[KeyOf(s)].phase = "Absent" THEN Respond(s, 404, {})
     ELSE Respond(s, Success(s), Labels({KeyOf(s)}))
  /\ UNCHANGED klusters /\ UNCHANGED unserved

\* The list is selected by the account label.
ListClusters(s) ==
  /\ Serve(s, "ListClusters")
  /\ Respond(s, Success(s), Labels({k \in Keys : klusters[k].account = Project(s)}))
  /\ UNCHANGED klusters /\ UNCHANGED unserved

\* The secret is read first, then the kluster.
GetClusterCredentials(s) ==
  /\ \/ /\ Serve(s, "GetClusterCredentials")
        /\ IF KeyOf(s) \in secrets THEN Continue(s, "secret") ELSE Respond(s, 404, {})
     \/ /\ calls[s].pc = "secret"
        /\ IF klusters[KeyOf(s)].phase = "Absent" THEN Respond(s, 404, {})
           ELSE Respond(s, Success(s), Labels({KeyOf(s)}))
        /\ UNCHANGED cached
  /\ UNCHANGED klusters /\ UNCHANGED unserved

GetClusterEvents(s) ==
  /\ Serve(s, "GetClusterEvents")
  /\ Respond(s, Success(s), Labels({KeyOf(s)}))
  /\ UNCHANGED klusters /\ UNCHANGED unserved

GetOpenstackMetadata(s) ==
  /\ Serve(s, "GetOpenstackMetadata")
  /\ Respond(s, Success(s), {})
  /\ UNCHANGED klusters /\ UNCHANGED unserved

\* The handlers without a principal: Info and ListAPIVersions.
Unsecured(s) ==
  /\ Serve(s, "Info") \/ Serve(s, "ListAPIVersions")
  /\ Respond(s, Success(s), {})
  /\ UNCHANGED klusters /\ UNCHANGED unserved

\* getLinks: the mutex is held over the request to GitHub, which has no timeout.
GetClusterInfo(s) ==
  /\ Serve(s, "GetClusterInfo")
  /\ Continue(s, "links")
  /\ UNCHANGED klusters /\ UNCHANGED unserved

\* Mutant of GetLinks: the mutex is released before GitHub is asked.
GetLinksUnlocked(s) ==
  /\ calls[s].pc = "links"
  /\ IF links THEN Respond(s, Success(s), {}) /\ UNCHANGED linkMutex
     ELSE Continue(s, "fetch") /\ linkMutex' = s
  /\ UNCHANGED <<klusters, secrets, valid, cached, links, sent, events, faults>>

GetLinks(s) ==
  /\ calls[s].pc = "links"
  /\ linkMutex = "free"
  /\ IF links THEN Respond(s, Success(s), {}) /\ UNCHANGED linkMutex
     ELSE Continue(s, "fetch") /\ linkMutex' = s
  /\ UNCHANGED <<klusters, secrets, valid, cached, links, sent, events, faults>>
GithubAnswers(s) ==
  /\ calls[s].pc = "fetch"
  /\ \/ Respond(s, Success(s), {}) /\ links' = TRUE
     \/ Respond(s, 500, {}) /\ UNCHANGED links
  /\ linkMutex' = "free"
  /\ UNCHANGED <<klusters, secrets, valid, cached, sent, events, faults>>

\* A request to Keystone fails: 401; one of a handler to Kubernetes or OpenStack: 500.
RequestFails(s) ==
  /\ faults < MaxFaults /\ events + faults < MaxEvents
  /\ faults' = faults + 1
  /\ \/ calls[s].pc = "validate" /\ Respond(s, 401, {}) /\ UNCHANGED cached
     \/ /\ \/ calls[s].pc \in {"secret", "checked", "edit"} /\ UNCHANGED cached
           \/ \E op \in Configured \ {"Info", "ListAPIVersions", "GetClusterInfo"} : Serve(s, op)
        /\ Respond(s, 500, {})
  /\ UNCHANGED <<klusters, secrets, valid, links, linkMutex, sent, events>>

\* Kubernetes makes the change and its answer to the Create or the Update is lost.
AnswerLost(s) ==
  /\ faults < MaxFaults /\ events + faults < MaxEvents
  /\ faults' = faults + 1
  /\ \/ Serve(s, "CreateCluster") /\ Creatable(s) /\ WriteUnanswered(s, Created(s))
     \/ calls[s].pc = "edit" /\ calls[s].fresh /\ WriteUnanswered(s, Edited(s)) /\ UNCHANGED cached
  /\ UNCHANGED <<secrets, valid, links, linkMutex, sent, events>>

Handle(s) ==
  \/ LookupToken(s) \/ ValidateToken(s)
  \/ Refuse(s) \/ CreateCluster(s) \/ UpdateCluster(s) \/ TerminateCluster(s) \/ ShowCluster(s)
  \/ ListClusters(s) \/ GetClusterCredentials(s) \/ GetClusterEvents(s)
  \/ GetOpenstackMetadata(s) \/ Unsecured(s) \/ GetClusterInfo(s) \/ GetLinks(s)

-----------------------------------------------------------------------------
(* The environment: the operator (in detail in GroundControl and Launch),  *)
(* Keystone and the clock.                                                 *)

\* The operator brings a kluster up, reports its nodes and takes it down: the
\* release with the secret goes before the kluster does.
Operator(k) ==
  /\ events + faults < MaxEvents
  /\ events' = events + 1
  /\ LET o == klusters[k]
     IN \/ /\ o.phase = "Pending"
           /\ WriteKluster(k, [o EXCEPT !.phase = "Creating"], calls)
           /\ secrets' = secrets \cup {k}
        \/ /\ o.phase = "Creating"
           /\ WriteKluster(k, [o EXCEPT !.phase = "Running"], calls)
           /\ UNCHANGED secrets
        \/ /\ o.phase = "Running"
           /\ WriteKluster(k, [o EXCEPT !.running = 1 - @], calls)
           /\ UNCHANGED secrets
        \/ /\ o.phase = "Terminating" /\ k \in secrets
           /\ secrets' = secrets \ {k}
           /\ UNCHANGED <<klusters, calls>>
        \/ /\ o.phase = "Terminating" /\ k \notin secrets
           /\ WriteKluster(k, Absent, calls)
           /\ UNCHANGED secrets
  /\ UNCHANGED <<valid, cached, links, linkMutex, sent, faults>>

\* Keystone stops accepting a token, and the cache forgets one after its time.
Revoke(t) ==
  /\ t \in valid
  /\ faults < MaxFaults /\ events + faults < MaxEvents
  /\ faults' = faults + 1
  /\ valid' = valid \ {t}
  /\ UNCHANGED <<klusters, secrets, cached, calls, links, linkMutex, sent, events>>
Expire(t) ==
  /\ t \in cached
  /\ cached' = cached \ {t}
  /\ UNCHANGED <<klusters, secrets, valid, calls, links, linkMutex, sent, events, faults>>

Next ==
  \/ \E s \in Slots : Submit(s) \/ Receive(s) \/ Timeout(s) \/ Lost(s) \/ Handle(s)
                        \/ GithubAnswers(s) \/ RequestFails(s) \/ AnswerLost(s)
  \/ \E k \in Keys : Operator(k)
  \/ \E t \in Tokens \cap Revocable : Revoke(t)
  \/ \E t \in Tokens : Expire(t)

\* A caller reads its response, and its clock goes on.  Nothing is assumed of the
\* handlers, of Kubernetes or of GitHub.
Fairness == \A s \in Slots : WF_vars(Receive(s) \/ Timeout(s))

Spec == Init /\ [][Next]_vars /\ Fairness

-----------------------------------------------------------------------------
Mutating == {"CreateCluster", "UpdateCluster", "TerminateCluster"}
Outcome(c) == ReadResponse(c.op, c.code, c.payload)

\* A caller whose request changes klusters is told of a success exactly when the
\* request changed one and Kubernetes confirmed it: a conflict with the operator,
\* a handler that panics or any other error leaves everything as it was, except
\* that a change whose confirmation was lost is reported as a 500 (handlers/*.go).
OutcomeTruthful ==
  \A s \in Slots : calls[s].pc = "replied" /\ calls[s].op \in Mutating =>
    (Outcome(calls[s]) = "ok" <=> calls[s].did = "changed")

\* No response of the server makes the generated client panic on its type
\* assertion, and none that should decode is rejected (client/operations).
ClientReadsServer ==
  \A s \in Slots : calls[s].pc = "replied" =>
    /\ Outcome(calls[s]) # "panic"
    /\ calls[s].code \in 200..299 => Outcome(calls[s]) = "ok"

\* The name does not have the id of another account in it.
ForeignFree(name, account) == \A a \in Accounts \ {account} : ~ Contains(name, a)

\* Unless the name that was sent has the id of another account in it, a response
\* only shows klusters created by the project the token is scoped to, whatever
\* the other projects create: their qualified names do not collide with it
\* (util.go, create_cluster.go, list_clusters.go).
OwnKlustersOnly ==
  \A s \in Slots : calls[s].pc = "replied" /\ ForeignFree(calls[s].name, Project(s)) =>
    calls[s].got \subseteq {Project(s)}

\* A kluster is only changed through the API by the request of an administrator
\* of a project its name has in it, and of the project that created it unless
\* the name that was sent has the id of another (policy.json, util.go).
ChangedByAdmin ==
  [][\A k \in Keys : klusters'[k] # klusters[k] /\ UNCHANGED events =>
       \E s \in Slots : /\ calls'[s].pc # calls[s].pc
                        /\ "kubernetes_admin" \in Principal[calls[s].token].roles
                        /\ Contains(k, Project(s))
                        /\ ForeignFree(calls[s].name, Project(s)) =>
                             klusters'[k].account = Project(s)]_vars

\* A handler that works on a copy of a kluster never rolls back what others
\* wrote since: the nodes the operator reported, a phase it set, a termination
\* that was accepted; and a POST never replaces a kluster (editCluster).
NoRollback ==
  [][\A k \in Keys : klusters[k].phase # "Absent" /\ UNCHANGED events =>
       /\ klusters'[k].phase \in {klusters[k].phase, "Terminating"}
       /\ klusters'[k].running = klusters[k].running]_vars

\* GitHub is asked by the one handler that holds the mutex, by none once the links
\* are known, and no handler returns with the mutex (getLinks).
LinksFetchedOnce ==
  /\ \A s \in Slots : linkMutex = s <=> calls[s].pc = "fetch"
  /\ links => linkMutex = "free"

\* Every call of the generated client returns, also while GitHub never answers
\* and its handler holds up every other request for the links (the timeout of the Params).
CallReturns == \A s \in Slots : calls[s].waiting ~> ~ calls[s].waiting

\* Nothing is left of a revoked token: it is not in the cache, and no request
\* that Keystone has confirmed is about to put it there.
Dead(t) == t \notin valid \cup cached /\ \A s \in Slots : calls[s].token = t => calls[s].pc # "confirmed"

\* A revoked token is usable only through a validation made before, in the cache
\* or on its way there: once those are gone, no request puts it back, and one that
\* comes with it gets a 401 (keystone_auth.go, Validate of the keystone library).
RevokedRefused ==
  [][\A t \in Tokens : Dead(t) =>
       /\ Dead(t)'
       /\ \A s \in Slots :
            calls[s].token = t /\ calls[s].pc \in {"sent", "validate"} /\ Guarded(calls[s]) =>
              calls'[s].pc \in {"sent", "validate", "idle"} \/ calls'[s].code = 401]_vars
=============================================================================
