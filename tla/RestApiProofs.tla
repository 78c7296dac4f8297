---------------------------- MODULE RestApiProofs ----------------------------
(***************************************************************************)
(* Proofs about RestApi and ApiProtocol, for any number of concurrent      *)
(* requests, accounts, tokens and faults.                                  *)
(***************************************************************************)
EXTENDS RestApi, SequenceTheorems, TLAPS

\* The codes of every response that is not a success.
ErrorCodes == {0, 401, 403, 404, 409, 422, 500, 501}

Unsecure == {"Info", "ListAPIVersions"}

-----------------------------------------------------------------------------
(* The two halves of the generated code.                                   *)

\* What the client submits for each operation.
LEMMA SubmitTable ==
  /\ Operations["CreateCluster"].submit = SubmitCreateCluster
  /\ Operations["GetClusterCredentials"].submit = SubmitGetClusterCredentials
  /\ Operations["GetClusterEvents"].submit = SubmitGetClusterEvents
  /\ Operations["GetClusterInfo"].submit = SubmitGetClusterInfo
  /\ Operations["GetOpenstackMetadata"].submit = SubmitGetOpenstackMetadata
  /\ Operations["Info"].submit = SubmitInfo
  /\ Operations["ListAPIVersions"].submit = SubmitListAPIVersions
  /\ Operations["ListClusters"].submit = SubmitListClusters
  /\ Operations["ShowCluster"].submit = SubmitShowCluster
  /\ Operations["TerminateCluster"].submit = SubmitTerminateCluster
  /\ Operations["UpdateCluster"].submit = SubmitUpdateCluster
BY DEF Operations, Ops, Operation

\* How it reads the response.
LEMMA ReaderTable ==
  /\ Operations["CreateCluster"].reader = CreateClusterReader
  /\ Operations["GetClusterCredentials"].reader = GetClusterCredentialsReader
  /\ Operations["GetClusterEvents"].reader = GetClusterEventsReader
  /\ Operations["GetClusterInfo"].reader = GetClusterInfoReader
  /\ Operations["GetOpenstackMetadata"].reader = GetOpenstackMetadataReader
  /\ Operations["Info"].reader = InfoReader
  /\ Operations["ListAPIVersions"].reader = ListAPIVersionsReader
  /\ Operations["ListClusters"].reader = ListClustersReader
  /\ Operations["ShowCluster"].reader = ShowClusterReader
  /\ Operations["TerminateCluster"].reader = TerminateClusterReader
  /\ Operations["UpdateCluster"].reader = UpdateClusterReader
BY DEF Operations, Ops, Operation

\* And what the server responds.
LEMMA RespondTable ==
  /\ Operations["CreateCluster"].respond = RespondCreateCluster
  /\ Operations["GetClusterCredentials"].respond = RespondGetClusterCredentials
  /\ Operations["GetClusterEvents"].respond = RespondGetClusterEvents
  /\ Operations["GetClusterInfo"].respond = RespondGetClusterInfo
  /\ Operations["GetOpenstackMetadata"].respond = RespondGetOpenstackMetadata
  /\ Operations["Info"].respond = RespondInfo
  /\ Operations["ListAPIVersions"].respond = RespondListAPIVersions
  /\ Operations["ListClusters"].respond = RespondListClusters
  /\ Operations["ShowCluster"].respond = RespondShowCluster
  /\ Operations["TerminateCluster"].respond = RespondTerminateCluster
  /\ Operations["UpdateCluster"].respond = RespondUpdateCluster
BY DEF Operations, Ops, Operation

\* Every request of the generated client reaches the handler it was made for.
LEMMA RoutedLemma ==
  ASSUME NEW c, c.op \in Ops
  PROVE  Routed(c) = c.op
<1>0. Routed(c) = HandlerFor(Operations[c.op].submit.method, Operations[c.op].submit.path)
  BY DEF Routed, Routes
<1>1. CASE c.op = "CreateCluster"
  BY <1>0, <1>1, SubmitTable DEF HandlerFor, Submits, SubmitCreateCluster
<1>2. CASE c.op = "GetClusterCredentials"
  BY <1>0, <1>2, SubmitTable DEF HandlerFor, Submits, SubmitGetClusterCredentials
<1>3. CASE c.op = "GetClusterEvents"
  BY <1>0, <1>3, SubmitTable DEF HandlerFor, Submits, SubmitGetClusterEvents
<1>4. CASE c.op = "GetClusterInfo"
  BY <1>0, <1>4, SubmitTable DEF HandlerFor, Submits, SubmitGetClusterInfo
<1>5. CASE c.op = "GetOpenstackMetadata"
  BY <1>0, <1>5, SubmitTable DEF HandlerFor, Submits, SubmitGetOpenstackMetadata
<1>6. CASE c.op = "Info"
  BY <1>0, <1>6, SubmitTable DEF HandlerFor, Submits, SubmitInfo
<1>7. CASE c.op = "ListAPIVersions"
  BY <1>0, <1>7, SubmitTable DEF HandlerFor, Submits, SubmitListAPIVersions
<1>8. CASE c.op = "ListClusters"
  BY <1>0, <1>8, SubmitTable DEF HandlerFor, Submits, SubmitListClusters
<1>9. CASE c.op = "ShowCluster"
  BY <1>0, <1>9, SubmitTable DEF HandlerFor, Submits, SubmitShowCluster
<1>10. CASE c.op = "TerminateCluster"
  BY <1>0, <1>10, SubmitTable DEF HandlerFor, Submits, SubmitTerminateCluster
<1>11. CASE c.op = "UpdateCluster"
  BY <1>0, <1>11, SubmitTable DEF HandlerFor, Submits, SubmitUpdateCluster
<1> QED BY <1>1, <1>2, <1>3, <1>4, <1>5, <1>6, <1>7, <1>8, <1>9, <1>10, <1>11 DEF Ops

\* The success response of the server is the one the client reads and asserts.
LEMMA ResponseTable ==
  ASSUME NEW op \in Ops
  PROVE  /\ Operations[op].respond.success \in {200, 201, 202}
         /\ Operations[op].reader.code = Operations[op].respond.success
         /\ Operations[op].reader.payload = Operations[op].respond.payload
         /\ Operations[op].reader.type = Operations[op].submit.asserts
<1>1. CASE op = "CreateCluster"
  BY <1>1, SubmitTable, ReaderTable, RespondTable DEF Submits, Reads, SubmitCreateCluster, CreateClusterReader, RespondCreateCluster
<1>2. CASE op = "GetClusterCredentials"
  BY <1>2, SubmitTable, ReaderTable, RespondTable DEF Submits, Reads, SubmitGetClusterCredentials, GetClusterCredentialsReader, RespondGetClusterCredentials
<1>3. CASE op = "GetClusterEvents"
  BY <1>3, SubmitTable, ReaderTable, RespondTable DEF Submits, Reads, SubmitGetClusterEvents, GetClusterEventsReader, RespondGetClusterEvents
<1>4. CASE op = "GetClusterInfo"
  BY <1>4, SubmitTable, ReaderTable, RespondTable DEF Submits, Reads, SubmitGetClusterInfo, GetClusterInfoReader, RespondGetClusterInfo
<1>5. CASE op = "GetOpenstackMetadata"
  BY <1>5, SubmitTable, ReaderTable, RespondTable DEF Submits, Reads, SubmitGetOpenstackMetadata, GetOpenstackMetadataReader, RespondGetOpenstackMetadata
<1>6. CASE op = "Info"
  BY <1>6, SubmitTable, ReaderTable, RespondTable DEF Submits, Reads, SubmitInfo, InfoReader, RespondInfo
<1>7. CASE op = "ListAPIVersions"
  BY <1>7, SubmitTable, ReaderTable, RespondTable DEF Submits, Reads, SubmitListAPIVersions, ListAPIVersionsReader, RespondListAPIVersions
<1>8. CASE op = "ListClusters"
  BY <1>8, SubmitTable, ReaderTable, RespondTable DEF Submits, Reads, SubmitListClusters, ListClustersReader, RespondListClusters
<1>9. CASE op = "ShowCluster"
  BY <1>9, SubmitTable, ReaderTable, RespondTable DEF Submits, Reads, SubmitShowCluster, ShowClusterReader, RespondShowCluster
<1>10. CASE op = "TerminateCluster"
  BY <1>10, SubmitTable, ReaderTable, RespondTable DEF Submits, Reads, SubmitTerminateCluster, TerminateClusterReader, RespondTerminateCluster
<1>11. CASE op = "UpdateCluster"
  BY <1>11, SubmitTable, ReaderTable, RespondTable DEF Submits, Reads, SubmitUpdateCluster, UpdateClusterReader, RespondUpdateCluster
<1> QED BY <1>1, <1>2, <1>3, <1>4, <1>5, <1>6, <1>7, <1>8, <1>9, <1>10, <1>11 DEF Ops

\* Every operation with a principal is authenticated and then authorized.
LEMMA ServeTable ==
  ASSUME NEW op \in Ops
  PROVE  Operations[op].serve = IF op \in Unsecure THEN Open ELSE Secured
BY DEF Operations, Ops, Operation, Unsecure,
       ServeCreateCluster, ServeGetClusterCredentials, ServeGetClusterEvents, ServeGetClusterInfo,
       ServeGetOpenstackMetadata, ServeInfo, ServeListAPIVersions, ServeListClusters,
       ServeShowCluster, ServeTerminateCluster, ServeUpdateCluster

\* The client reads a success as one, and every other response as an error.
LEMMA ReadLemma ==
  ASSUME NEW op \in Ops
  PROVE  /\ ReadResponse(op, Operations[op].respond.success, Operations[op].respond.payload) = "ok"
         /\ \A code \in ErrorCodes : \A payload : ReadResponse(op, code, payload) = "error"
<1>1. ReadResponse(op, Operations[op].respond.success, Operations[op].respond.payload) = "ok"
  BY ResponseTable DEF ReadResponse
<1>2. ASSUME NEW code \in ErrorCodes, NEW payload
      PROVE  ReadResponse(op, code, payload) = "error"
  <2>1. code # Operations[op].reader.code
    BY ResponseTable DEF ErrorCodes
  <2>2. code \div 100 # 2
    BY DEF ErrorCodes
  <2> QED BY <2>1, <2>2 DEF ReadResponse
<1> QED BY <1>1, <1>2

ProjectOf(c) == Principal[c.token].project

\* A request that is not refused is scoped to a project and passed the policy.
LEMMA RefusalLemma ==
  ASSUME NEW c, c.op \in Ops
  PROVE  /\ Refusal(c) \in ErrorCodes
         /\ Refusal(c) = 0 /\ c.op \notin Unsecure =>
              ProjectOf(c) # "none" /\ Authorize(c.op, c.token)
<1> DEFINE serve == Operations[c.op].serve
           failed == {i \in DOMAIN serve : Fails(c, c.op, serve[i])}
<1>1. serve = IF c.op \in Unsecure THEN <<"bind">> ELSE <<"authenticate", "authorize", "bind">>
  BY ServeTable DEF Open, Secured
<1>2. Refusal(c) = IF c.op = "none" THEN 404
                   ELSE IF failed # {} THEN Code(serve[Min(failed)])
                   ELSE IF c.op \notin Configured THEN 501 ELSE 0
  <2>1. Routed(c) = c.op
    BY RoutedLemma
  <2> QED BY <2>1 DEF Refusal
<1>3. c.op # "none"
  BY DEF Ops
<1>4. ASSUME failed # {} PROVE Code(serve[Min(failed)]) \in {401, 403, 422}
  <2>1. failed \subseteq {1, 2, 3} /\ failed \subseteq DOMAIN serve
    BY <1>1
  <2>2. Min(failed) \in failed
    <3> HIDE DEF failed
    <3>1. \E x \in failed : \A y \in failed : x <= y
      <4>1. CASE 1 \in failed
        BY <4>1, <2>1
      <4>2. CASE 1 \notin failed /\ 2 \in failed
        BY <4>2, <2>1
      <4>3. CASE 1 \notin failed /\ 2 \notin failed
        <5>1. failed = {3}
          BY <4>3, <1>4, <2>1
        <5> QED BY <5>1
      <4> QED BY <4>1, <4>2, <4>3
    <3> QED BY <3>1 DEF Min
  <2>3. serve[Min(failed)] \in {"authenticate", "authorize", "bind"}
    BY <1>1, <2>1, <2>2
  <2> QED BY <2>3 DEF Code
<1>5. Refusal(c) \in ErrorCodes
  BY <1>2, <1>3, <1>4 DEF ErrorCodes
<1>6. ASSUME Refusal(c) = 0, c.op \notin Unsecure
      PROVE  ProjectOf(c) # "none" /\ Authorize(c.op, c.token)
  <2>1. failed = {}
    BY <1>2, <1>3, <1>4, <1>6
  <2>2. ~ Fails(c, c.op, "authenticate") /\ ~ Fails(c, c.op, "authorize")
    BY <1>1, <1>6, <2>1
  <2> QED BY <2>2 DEF Fails, ProjectOf
<1> QED BY <1>5, <1>6

-----------------------------------------------------------------------------
(* The inductive invariant.  The properties speak of responses and of       *)
(* writes; what makes them hold is decided earlier, when the request is    *)
(* admitted.  CallGood keeps that decision with every step of a handler,   *)
(* and FreshInv keeps the copy of a kluster the handler works on.          *)

KeyFor(c) == QualifiedName(c.name, ProjectOf(c))

\* A response is a success that did what was asked, or an error and not known to
\* have done anything.
Accords(op, code, did) ==
  \/ code = Operations[op].respond.success /\ (op \in Mutating => did = "changed")
  \/ code \in ErrorCodes /\ did # "changed"

\* What was sent, and what a response to it may show.
Asked(c) == \E r \in Requests : c.name = r.name /\ c.token = r.token
Showable(c, got) == ForeignFree(c.name, ProjectOf(c)) => got \subseteq {ProjectOf(c)}

Stage(c) ==
  /\ c.pc = "secret" => c.op = "GetClusterCredentials"
  /\ c.pc \in {"links", "fetch"} => c.op = "GetClusterInfo"
  /\ c.pc = "checked" => c.op = "TerminateCluster"
  /\ c.pc = "edit" => c.op \in {"UpdateCluster", "TerminateCluster"}
Admitted(c) ==
  /\ c.pc \in {"secret", "checked", "edit"} => ProjectOf(c) \in Accounts
  /\ c.pc \in {"checked", "edit"} => "kubernetes_admin" \in Principal[c.token].roles
Answered(c) ==
  c.pc = "replied" =>
    /\ Accords(c.op, c.code, c.did)
    /\ c.code = Operations[c.op].respond.success => c.payload = Operations[c.op].respond.payload
CallGood(c) ==
  (c.pc # "idle" => Asked(c)) /\ Stage(c) /\ Admitted(c) /\ Answered(c) /\ Showable(c, c.got)

FreshInv ==
  \A s \in Slots : calls[s].fresh =>
    /\ calls[s].pc = "edit"
    /\ calls[s].seen = klusters[KeyOf(s)]
    /\ calls[s].seen.phase # "Absent"

CallsInv ==
  /\ calls \in [Slots -> Call]
  /\ \A s \in Slots : CallGood(calls[s])
  /\ FreshInv
  /\ LinksFetchedOnce

\* A kluster is labelled with an account its name has in it.
Owned(key, object) ==
  object.phase # "Absent" => object.account \in Accounts /\ Contains(key, object.account)
OwnedInv == \A k \in Keys : Owned(k, klusters[k])

RestInv == TypeOK /\ CallsInv /\ OwnedInv

\* A step of one request leaves the others where they are; a response ends it.
Local(s) == \A x \in Slots \ {s} : calls'[x].pc = calls[x].pc /\ calls'[x].token = calls[x].token
Ends(s) == Local(s) /\ calls'[s].pc \in {"idle", "replied"}

-----------------------------------------------------------------------------
(* What the steps of a request are made of.                                *)

\* An idle slot.
LEMMA IdleLemma ==
  /\ Idle \in Call /\ CallGood(Idle)
  /\ Idle.pc = "idle" /\ Idle.fresh = FALSE
<1>1. (CHOOSE t \in Tokens : TRUE) \in Tokens
  BY RequestAssumption
<1>2. (CHOOSE b \in Bodies : TRUE) \in Bodies
  BY RequestAssumption DEF Bodies
<1>3. Absent \in Object
  BY DEF Absent, Object
<1>4. "Info" \in Ops /\ "none" \in Payloads
  BY DEF Ops, Payloads
<1>5. Idle \in Call
  <2>1. (CHOOSE n \in Names : TRUE) \in Names
    BY RequestAssumption DEF Names
  <2> QED BY <1>1, <1>2, <1>3, <1>4, <2>1 DEF Idle, Call
<1>6. Idle.pc = "idle" /\ Idle.fresh = FALSE /\ Idle.got = {}
  BY DEF Idle
<1>7. CallGood(Idle)
  BY <1>6 DEF CallGood, Stage, Admitted, Answered, Showable
<1> QED BY <1>5, <1>6, <1>7

\* The qualified name of a request has the account of the caller in it, and no
\* other that was not sent.
LEMMA KeyLemma ==
  ASSUME NEW c, Asked(c), ProjectOf(c) \in Accounts
  PROVE  /\ KeyFor(c) \in Keys
         /\ Contains(KeyFor(c), ProjectOf(c))
         /\ \A x : Contains(KeyFor(c), x) => x = ProjectOf(c) \/ Contains(c.name, x)
<1> DEFINE a == ProjectOf(c)
           n == c.name
<1>1. PICK r \in Requests : c.name = r.name /\ c.token = r.token
  BY DEF Asked
<1>2. n \in Seq(Parts) /\ a \in Parts /\ a # "none"
  BY <1>1, RequestAssumption, NamesAssumption
<1>3. KeyFor(c) \in Keys
  BY <1>1, <1>2 DEF Keys, KeyFor, ProjectOf
<1>4. KeyFor(c) = IF Contains(n, a) THEN n ELSE Append(n, a)
  BY DEF KeyFor, QualifiedName
<1> HIDE DEF a, n
<1>5. CASE Contains(n, a)
  BY <1>3, <1>4, <1>5 DEF a, n
<1>6. CASE ~ Contains(n, a)
  <2> DEFINE q == Append(n, a)
  <2>1. /\ q \in Seq(Parts) /\ Len(q) = Len(n) + 1 /\ q[Len(n) + 1] = a
        /\ \A i \in 1..Len(n) : q[i] = n[i]
        /\ Len(n) \in Nat
    BY <1>2, AppendProperties, LenProperties
  <2> HIDE DEF q
  <2>2. Contains(q, a)
    BY <2>1 DEF Contains
  <2>3. ASSUME NEW x, Contains(q, x) PROVE x = a \/ Contains(n, x)
    <3>1. PICK i \in 1..Len(q) : q[i] = x
      BY <2>3 DEF Contains
    <3>2. CASE i = Len(n) + 1
      BY <2>1, <3>1, <3>2
    <3>3. CASE i # Len(n) + 1
      <4>1. i \in 1..Len(n)
        BY <2>1, <3>1, <3>3
      <4> QED BY <2>1, <3>1, <4>1 DEF Contains
    <3> QED BY <3>2, <3>3
  <2>4. KeyFor(c) = q
    BY <1>4, <1>6 DEF q
  <2> QED BY <1>3, <2>2, <2>3, <2>4 DEF a, n
<1> QED BY <1>5, <1>6

\* So a response about that kluster may be shown.
LEMMA LabelsLemma ==
  ASSUME RestInv, NEW s \in Slots, Asked(calls[s]), ProjectOf(calls[s]) \in Accounts
  PROVE  /\ KeyOf(s) = KeyFor(calls[s]) /\ KeyOf(s) \in Keys
         /\ Labels({KeyOf(s)}) \in SUBSET Accounts
         /\ Showable(calls[s], Labels({KeyOf(s)}))
<1> DEFINE c == calls[s]
           k == KeyOf(s)
<1>1. k = KeyFor(c)
  BY DEF KeyOf, KeyFor, Project, ProjectOf
<1>2. k \in Keys /\ \A x : Contains(k, x) => x = ProjectOf(c) \/ Contains(c.name, x)
  BY <1>1, KeyLemma
<1>3. ASSUME NEW x \in Labels({k})
      PROVE  x \in Accounts /\ Contains(k, x)
  <2>1. x = klusters[k].account /\ klusters[k].phase # "Absent"
    BY <1>3 DEF Labels
  <2> QED BY <1>2, <2>1 DEF RestInv, OwnedInv, Owned
<1> HIDE DEF k, c
<1>4. Showable(c, Labels({k}))
  <2> SUFFICES ASSUME ForeignFree(c.name, ProjectOf(c)), NEW x \in Labels({k})
               PROVE  x = ProjectOf(c)
    BY DEF Showable
  <2>1. x \in Accounts /\ (x = ProjectOf(c) \/ Contains(c.name, x))
    BY <1>2, <1>3
  <2> QED BY <2>1 DEF ForeignFree
<1>5. Labels({k}) \in SUBSET Accounts
  BY <1>3
<1> QED BY <1>1, <1>2, <1>4, <1>5 DEF k, c

\* The response to a request.
LEMMA ResponseLemma ==
  ASSUME calls \in [Slots -> Call], NEW s \in Slots,
         NEW code \in Nat, NEW did \in {"nothing", "changed", "unanswered"},
         NEW got \in SUBSET Accounts,
         Accords(calls[s].op, code, did), Asked(calls[s]), Showable(calls[s], got)
  PROVE  /\ Response(s, code, did, got) \in Call
         /\ CallGood(Response(s, code, did, got))
         /\ Response(s, code, did, got).pc \in {"idle", "replied"}
         /\ Response(s, code, did, got).fresh = FALSE
<1> DEFINE c == calls[s]
           respond == Operations[c.op].respond
           payload == IF code = respond.success THEN respond.payload ELSE "Error"
           r == [Idle EXCEPT !.pc = "replied", !.op = c.op, !.token = c.token, !.name = c.name,
                             !.waiting = TRUE, !.code = code, !.did = did, !.got = got, !.payload = payload]
<1>1. c \in Call
  OBVIOUS
<1>2. c.op \in Ops /\ c.token \in Tokens /\ c.name \in Names
  BY <1>1 DEF Call
<1>3. Routed(c) = c.op
  BY <1>2, RoutedLemma
<1>4. Response(s, code, did, got) = IF c.waiting THEN r ELSE Idle
  BY <1>3 DEF Response
<1>5. payload \in Payloads
  BY <1>2 DEF Payloads
<1> HIDE DEF payload, c
<1>6. r \in Call
  BY <1>2, <1>5, IdleLemma DEF Call
<1>7. /\ r.pc = "replied" /\ r.fresh = FALSE /\ r.op = c.op /\ r.token = c.token
      /\ r.name = c.name /\ r.got = got /\ r.code = code /\ r.did = did /\ r.payload = payload
  BY IdleLemma DEF Idle
<1>8. CallGood(r)
  <2> HIDE DEF r
  <2>1. Asked(r) /\ Stage(r) /\ Admitted(r)
    BY <1>7 DEF Asked, Stage, Admitted, c
  <2>2. ProjectOf(r) = ProjectOf(c)
    BY <1>7 DEF ProjectOf
  <2>3. Showable(r, r.got)
    BY <1>7, <2>2 DEF Showable, c
  <2>4. Accords(r.op, r.code, r.did)
    BY <1>7, Zenon DEF c
  <2>5. Answered(r)
    BY <1>7, <2>4 DEF Answered, payload
  <2> QED BY <2>1, <2>3, <2>5 DEF CallGood
<1> HIDE DEF r
<1>9. Response(s, code, did, got) \in {r, Idle}
  BY <1>4
<1> QED BY <1>6, <1>7, <1>8, <1>9, IdleLemma

\* A request that reaches a handler was made for it, is scoped to a project and,
\* where the policy says so, comes from an administrator.
LEMMA ServeLemma ==
  ASSUME RestInv, NEW s \in Slots, NEW op, Serve(s, op)
  PROVE  /\ calls[s].op = op /\ op \in Ops /\ calls[s].pc \in {"sent", "confirmed"} /\ Asked(calls[s])
         /\ op \notin Unsecure => /\ ProjectOf(calls[s]) \in Accounts
                                  /\ KeyOf(s) = KeyFor(calls[s])
                                  /\ KeyOf(s) \in Keys
         /\ op \in Mutating => "kubernetes_admin" \in Principal[calls[s].token].roles
<1>1. /\ calls[s] \in Call /\ CallGood(calls[s])
  BY DEF RestInv, CallsInv
<1>2. calls[s].op \in Ops /\ calls[s].token \in Tokens
  BY <1>1 DEF Call
<1>3. calls[s].op = op /\ calls[s].pc \in {"sent", "confirmed"} /\ Refusal(calls[s]) = 0
  BY <1>2, RoutedLemma DEF Serve, Authenticated
<1>4. op \notin Unsecure => ProjectOf(calls[s]) # "none" /\ Authorize(op, calls[s].token)
  BY <1>2, <1>3, RefusalLemma
<1>5. op \notin Unsecure => ProjectOf(calls[s]) \in Accounts
  BY <1>2, <1>4, PrincipalAssumption DEF ProjectOf
<1>6. Asked(calls[s]) /\ KeyOf(s) = KeyFor(calls[s])
  BY <1>1, <1>3 DEF CallGood, KeyOf, KeyFor, Project, ProjectOf
<1>7. op \notin Unsecure => KeyOf(s) \in Keys
  BY <1>5, <1>6, KeyLemma
<1>8. ASSUME op \in Mutating PROVE "kubernetes_admin" \in Principal[calls[s].token].roles
  <2>1. op \notin Unsecure
    BY <1>8 DEF Mutating, Unsecure
  <2>2. Policy[op] = "kubernetes_admin"
    BY <1>8 DEF Policy, Mutating, Ops
  <2> QED BY <1>4, <2>1, <2>2 DEF Authorize, Roles
<1> QED BY <1>2, <1>3, <1>5, <1>6, <1>7, <1>8

\* Authentication only fills the cache with a token Keystone has confirmed.
LEMMA CacheLemma ==
  ASSUME calls \in [Slots -> Call], cached \subseteq Tokens, NEW s \in Slots, Authenticated(s)
  PROVE  /\ cached' \subseteq Tokens
         /\ \A t \in cached' : t \in cached \/ (calls[s].token = t /\ calls[s].pc = "confirmed")
<1>1. calls[s].token \in Tokens
  BY DEF Call
<1> QED BY <1>1 DEF Authenticated

\* One slot changes and no kluster does.
LEMMA ChangeLemma ==
  ASSUME CallsInv, NEW s \in Slots, NEW c \in Call, CallGood(c),
         c.fresh => /\ c.pc = "edit"
                    /\ c.seen = klusters[KeyFor(c)]
                    /\ c.seen.phase # "Absent",
         calls' = [calls EXCEPT ![s] = c],
         UNCHANGED klusters
  PROVE  /\ calls' \in [Slots -> Call]
         /\ \A x \in Slots : CallGood(calls'[x])
         /\ \A x \in Slots : calls'[x] = IF x = s THEN c ELSE calls[x]
         /\ FreshInv'
<1>1. calls \in [Slots -> Call] /\ calls' \in [Slots -> Call]
  BY DEF CallsInv
<1>2. \A x \in Slots : calls'[x] = IF x = s THEN c ELSE calls[x]
  BY <1>1
<1>3. \A x \in Slots : CallGood(calls'[x])
  BY <1>2 DEF CallsInv
<1>4. FreshInv'
  <2> SUFFICES ASSUME NEW x \in Slots, calls'[x].fresh
               PROVE  /\ calls'[x].pc = "edit"
                      /\ calls'[x].seen = klusters'[KeyOf(x)']
                      /\ calls'[x].seen.phase # "Absent"
    BY DEF FreshInv
  <2>1. KeyOf(x)' = KeyFor(calls'[x])
    BY DEF KeyOf, KeyFor, Project, ProjectOf
  <2>2. CASE x = s
    BY <1>2, <2>1, <2>2
  <2>3. CASE x # s
    <3>1. calls'[x] = calls[x] /\ KeyFor(calls[x]) = KeyOf(x)
      BY <1>2, <2>3 DEF KeyOf, KeyFor, Project, ProjectOf
    <3> QED BY <2>1, <3>1 DEF CallsInv, FreshInv
  <2> QED BY <2>2, <2>3
<1> QED BY <1>1, <1>2, <1>3, <1>4

\* The same, away from the links.
LEMMA SlotLemma ==
  ASSUME CallsInv, NEW s \in Slots, NEW c \in Call, CallGood(c),
         calls[s].pc = "fetch" <=> c.pc = "fetch",
         c.fresh => /\ c.pc = "edit"
                    /\ c.seen = klusters[KeyFor(c)]
                    /\ c.seen.phase # "Absent",
         calls' = [calls EXCEPT ![s] = c],
         UNCHANGED <<klusters, links, linkMutex>>
  PROVE  CallsInv'
<1>1. /\ calls' \in [Slots -> Call]
      /\ \A x \in Slots : CallGood(calls'[x])
      /\ \A x \in Slots : calls'[x] = IF x = s THEN c ELSE calls[x]
      /\ FreshInv'
  BY ChangeLemma
<1>2. LinksFetchedOnce'
  BY <1>1 DEF CallsInv, LinksFetchedOnce
<1> QED BY <1>1, <1>2 DEF CallsInv

\* A handler responds and no kluster changes.
LEMMA ReplyLemma ==
  ASSUME CallsInv, NEW s \in Slots,
         NEW code \in Nat, NEW got \in SUBSET Accounts, Respond(s, code, got),
         Accords(calls[s].op, code, "nothing"),
         Asked(calls[s]), Showable(calls[s], got),
         UNCHANGED klusters
  PROVE  /\ calls' \in [Slots -> Call]
         /\ \A x \in Slots : CallGood(calls'[x])
         /\ calls'[s].pc \in {"idle", "replied"}
         /\ \A x \in Slots : x # s => calls'[x] = calls[x]
         /\ FreshInv'
<1> DEFINE r == Response(s, code, "nothing", got)
<1>1. r \in Call /\ CallGood(r) /\ r.pc \in {"idle", "replied"} /\ r.fresh = FALSE
  BY ResponseLemma DEF CallsInv
<1>2. calls' = [calls EXCEPT ![s] = r]
  BY DEF Respond
<1> HIDE DEF r
<1>3. /\ calls' \in [Slots -> Call]
      /\ \A x \in Slots : CallGood(calls'[x])
      /\ \A x \in Slots : calls'[x] = IF x = s THEN r ELSE calls[x]
      /\ FreshInv'
  BY <1>1, <1>2, ChangeLemma
<1> QED BY <1>1, <1>3

\* The same, away from the links.
LEMMA RespondLemma ==
  ASSUME CallsInv, NEW s \in Slots, calls[s].pc # "fetch",
         NEW code \in Nat, NEW got \in SUBSET Accounts, Respond(s, code, got),
         Accords(calls[s].op, code, "nothing"),
         Asked(calls[s]), Showable(calls[s], got),
         UNCHANGED <<klusters, links, linkMutex>>
  PROVE  CallsInv'
<1>1. /\ calls' \in [Slots -> Call]
      /\ \A x \in Slots : CallGood(calls'[x])
      /\ calls'[s].pc \in {"idle", "replied"}
      /\ \A x \in Slots : x # s => calls'[x] = calls[x]
      /\ FreshInv'
  BY ReplyLemma
<1>2. LinksFetchedOnce'
  BY <1>1 DEF CallsInv, LinksFetchedOnce
<1> QED BY <1>1, <1>2 DEF CallsInv

\* A handler goes on to its next request.
LEMMA ContinueLemma ==
  ASSUME CallsInv, NEW s \in Slots, NEW pc \in {"validate", "confirmed", "links", "secret", "checked"},
         Continue(s, pc), calls[s].pc \in {"sent", "validate", "confirmed"},
         pc = "links" => calls[s].op = "GetClusterInfo",
         pc = "secret" => calls[s].op = "GetClusterCredentials",
         pc = "checked" => calls[s].op = "TerminateCluster",
         pc \in {"secret", "checked"} => ProjectOf(calls[s]) \in Accounts,
         pc = "checked" => "kubernetes_admin" \in Principal[calls[s].token].roles,
         UNCHANGED <<klusters, links, linkMutex>>
  PROVE  CallsInv'
<1> DEFINE c == [calls[s] EXCEPT !.pc = pc]
<1>1. calls[s] \in Call /\ CallGood(calls[s]) /\ ~ calls[s].fresh
  BY DEF CallsInv, FreshInv
<1>2. c \in Call
  BY <1>1 DEF Call
<1>3. /\ c.pc = pc /\ c.op = calls[s].op /\ c.token = calls[s].token /\ c.name = calls[s].name
      /\ c.got = calls[s].got /\ c.fresh = calls[s].fresh
  BY <1>1 DEF Call
<1>4. calls' = [calls EXCEPT ![s] = c]
  BY DEF Continue, CallsInv
<1> HIDE DEF c
<1>5. ProjectOf(c) = ProjectOf(calls[s])
  BY <1>3 DEF ProjectOf
<1>6. CallGood(c)
  BY <1>1, <1>3, <1>5 DEF CallGood, Asked, Stage, Admitted, Answered, Showable
<1>7. c.pc # "fetch" /\ ~ c.fresh
  BY <1>1, <1>3
<1> QED BY <1>2, <1>4, <1>6, <1>7, SlotLemma

\* A copy that is no longer current.
LEMMA StaleLemma ==
  ASSUME NEW c \in Call
  PROVE  LET d == [c EXCEPT !.fresh = FALSE]
         IN  /\ d \in Call /\ d.fresh = FALSE /\ d.pc = c.pc
             /\ d.op = c.op /\ d.token = c.token /\ d.name = c.name /\ d.got = c.got
             /\ d.code = c.code /\ d.payload = c.payload /\ d.did = c.did
<1> DEFINE d == [c EXCEPT !.fresh = FALSE]
<1>1. d \in Call
  BY DEF Call
<1>2. d.fresh = FALSE
  BY DEF Call
<1>3. d.pc = c.pc /\ d.op = c.op /\ d.token = c.token /\ d.name = c.name /\ d.got = c.got
  BY DEF Call
<1>4. d.code = c.code /\ d.payload = c.payload
  BY DEF Call
<1>5. d.did = c.did
  BY Zenon DEF Call
<1> QED BY <1>1, <1>2, <1>3, <1>4, <1>5, Zenon

\* A kluster is written: the copies of it are no longer current.
LEMMA WriteLemma ==
  ASSUME CallsInv, OwnedInv, klusters \in [Keys -> Object],
         NEW key \in Keys, NEW object \in Object, Owned(key, object),
         NEW answered \in [Slots -> Call],
         \A x \in Slots : /\ CallGood(answered[x])
                          /\ answered[x].pc = "fetch" <=> calls[x].pc = "fetch"
                          /\ answered[x].fresh => answered[x] = calls[x],
         WriteKluster(key, object, answered), UNCHANGED <<links, linkMutex>>
  PROVE  /\ CallsInv' /\ OwnedInv' /\ klusters' \in [Keys -> Object]
         /\ \A x \in Slots : calls'[x].pc = answered[x].pc /\ calls'[x].token = answered[x].token
<1> DEFINE stale(x) == [answered[x] EXCEPT !.fresh = FALSE]
<1>1. calls \in [Slots -> Call] /\ \A x \in Slots : calls[x] \in Call /\ answered[x] \in Call
  BY DEF CallsInv
<1>2. \A x \in Slots : calls'[x] = IF KeyOf(x) = key THEN stale(x) ELSE answered[x]
  BY DEF WriteKluster
<1>3. \A x \in Slots :
        /\ stale(x) \in Call /\ stale(x).fresh = FALSE /\ stale(x).pc = answered[x].pc
        /\ stale(x).op = answered[x].op /\ stale(x).token = answered[x].token
        /\ stale(x).name = answered[x].name /\ stale(x).got = answered[x].got
        /\ stale(x).code = answered[x].code /\ stale(x).payload = answered[x].payload
        /\ stale(x).did = answered[x].did
  BY <1>1, StaleLemma
<1> HIDE DEF stale
<1>4. \A x \in Slots : CallGood(stale(x))
  BY <1>3 DEF CallGood, Asked, Stage, Admitted, Answered, Showable, ProjectOf
<1>5. calls' \in [Slots -> Call]
  <2>1. \A x \in Slots : (IF KeyOf(x) = key THEN stale(x) ELSE answered[x]) \in Call
    BY <1>1, <1>3
  <2>2. calls' = [x \in Slots |-> IF KeyOf(x) = key THEN stale(x) ELSE answered[x]]
    BY DEF WriteKluster, stale
  <2> QED BY <2>1, <2>2
<1>6. \A x \in Slots : /\ CallGood(calls'[x])
                       /\ calls'[x].pc = answered[x].pc /\ calls'[x].token = answered[x].token
  BY <1>2, <1>3, <1>4
<1>7. FreshInv'
  <2> SUFFICES ASSUME NEW x \in Slots, calls'[x].fresh
               PROVE  /\ calls'[x].pc = "edit"
                      /\ calls'[x].seen = klusters'[KeyOf(x)']
                      /\ calls'[x].seen.phase # "Absent"
    BY DEF FreshInv
  <2>1. KeyOf(x) # key /\ calls'[x] = calls[x]
    BY <1>2, <1>3
  <2>2. KeyOf(x)' = KeyOf(x) /\ KeyOf(x) = KeyFor(calls[x])
    BY <2>1 DEF KeyOf, KeyFor, Project, ProjectOf
  <2>3. /\ calls[x].pc = "edit" /\ calls[x].seen = klusters[KeyOf(x)]
        /\ calls[x].seen.phase # "Absent"
    BY <2>1 DEF CallsInv, FreshInv
  <2>4. KeyOf(x) \in Keys
    BY <2>2, <2>3, KeyLemma DEF CallsInv, CallGood, Admitted
  <2>5. klusters'[KeyOf(x)] = klusters[KeyOf(x)]
    BY <2>1, <2>4 DEF WriteKluster
  <2> QED BY <2>1, <2>2, <2>3, <2>5
<1>8. LinksFetchedOnce'
  BY <1>6 DEF CallsInv, LinksFetchedOnce
<1>9. /\ klusters' \in [Keys -> Object]
      /\ \A k \in Keys : klusters'[k] = IF k = key THEN object ELSE klusters[k]
  BY DEF WriteKluster
<1>10. OwnedInv'
  BY <1>9 DEF OwnedInv
<1> QED BY <1>5, <1>6, <1>7, <1>8, <1>9, <1>10 DEF CallsInv

\* A handler writes a kluster and responds, whatever Kubernetes answers.
LEMMA WriteResponseLemma ==
  ASSUME CallsInv, OwnedInv, klusters \in [Keys -> Object], NEW s \in Slots, NEW object \in Object,
         calls[s].pc \notin {"fetch", "idle"}, ProjectOf(calls[s]) \in Accounts,
         Owned(KeyOf(s), object),
         NEW code \in Nat, NEW did \in {"nothing", "changed", "unanswered"}, NEW got \in SUBSET Accounts,
         Accords(calls[s].op, code, did), Showable(calls[s], got),
         WriteKluster(KeyOf(s), object, [calls EXCEPT ![s] = Response(s, code, did, got)]),
         UNCHANGED <<links, linkMutex>>
  PROVE  /\ CallsInv' /\ OwnedInv' /\ klusters' \in [Keys -> Object]
         /\ klusters' = [klusters EXCEPT ![KeyOf(s)] = object]
         /\ Ends(s)
<1> DEFINE r == Response(s, code, did, got)
           answered == [calls EXCEPT ![s] = r]
<1>1. calls \in [Slots -> Call] /\ calls[s] \in Call /\ Asked(calls[s])
  BY DEF CallsInv, CallGood
<1>2. KeyOf(s) \in Keys
  <2>1. KeyOf(s) = KeyFor(calls[s])
    BY DEF KeyOf, KeyFor, Project, ProjectOf
  <2> QED BY <1>1, <2>1, KeyLemma
<1>3. r \in Call /\ CallGood(r) /\ r.pc \in {"idle", "replied"} /\ r.fresh = FALSE
  BY <1>1, ResponseLemma
<1>4. WriteKluster(KeyOf(s), object, answered)
  OBVIOUS
<1> HIDE DEF r
<1>5. answered \in [Slots -> Call] /\ \A x \in Slots : answered[x] = IF x = s THEN r ELSE calls[x]
  BY <1>1, <1>3
<1> HIDE DEF answered
<1>6. \A x \in Slots : /\ CallGood(answered[x])
                       /\ answered[x].pc = "fetch" <=> calls[x].pc = "fetch"
                       /\ answered[x].fresh => answered[x] = calls[x]
  BY <1>3, <1>5 DEF CallsInv
<1>7. /\ CallsInv' /\ OwnedInv' /\ klusters' \in [Keys -> Object]
      /\ \A x \in Slots : calls'[x].pc = answered[x].pc /\ calls'[x].token = answered[x].token
  BY <1>2, <1>4, <1>5, <1>6, WriteLemma
<1>8. klusters' = [klusters EXCEPT ![KeyOf(s)] = object]
  BY <1>4 DEF WriteKluster
<1>9. Ends(s)
  BY <1>3, <1>5, <1>7 DEF Ends, Local
<1> QED BY <1>7, <1>8, <1>9

\* In particular with a success, or with an error when the answer was lost.
LEMMA WrittenLemma ==
  ASSUME RestInv, NEW s \in Slots, NEW object \in Object,
         calls[s].pc \notin {"fetch", "idle"}, ProjectOf(calls[s]) \in Accounts,
         Owned(KeyOf(s), object), object.phase # "Absent",
         WriteAndRespond(s, object) \/ WriteUnanswered(s, object),
         UNCHANGED <<links, linkMutex>>
  PROVE  /\ CallsInv' /\ OwnedInv' /\ klusters' \in [Keys -> Object]
         /\ klusters' = [klusters EXCEPT ![KeyOf(s)] = object]
         /\ Ends(s)
<1>1. /\ CallsInv /\ OwnedInv /\ klusters \in [Keys -> Object]
      /\ calls[s] \in Call /\ calls[s].op \in Ops /\ Asked(calls[s])
  BY DEF RestInv, TypeOK, CallsInv, CallGood, Call
<1>2. CASE WriteAndRespond(s, object)
  <2>1. /\ Success(s) = Operations[calls[s].op].respond.success
        /\ Success(s) \in Nat
    BY <1>1, RoutedLemma, ResponseTable DEF Success
  <2>2. Accords(calls[s].op, Success(s), "changed")
    BY <2>1 DEF Accords
  <2>3. {object.account} \in SUBSET Accounts /\ Contains(KeyOf(s), object.account)
    BY DEF Owned
  <2>4. Showable(calls[s], {object.account})
    <3>1. KeyOf(s) = KeyFor(calls[s])
      BY DEF KeyOf, KeyFor, Project, ProjectOf
    <3>2. object.account = ProjectOf(calls[s]) \/ Contains(calls[s].name, object.account)
      BY <1>1, <2>3, <3>1, KeyLemma
    <3> QED BY <2>3, <3>2 DEF Showable, ForeignFree
  <2>5. WriteKluster(KeyOf(s), object,
                     [calls EXCEPT ![s] = Response(s, Success(s), "changed", {object.account})])
    BY <1>2 DEF WriteAndRespond
  <2> DEFINE got == {object.account}
             code == Success(s)
             did == "changed"
  <2>6. /\ got \in SUBSET Accounts /\ code \in Nat /\ did \in {"nothing", "changed", "unanswered"}
        /\ Showable(calls[s], got) /\ Accords(calls[s].op, code, did)
        /\ WriteKluster(KeyOf(s), object, [calls EXCEPT ![s] = Response(s, code, did, got)])
    BY <2>1, <2>2, <2>3, <2>4, <2>5
  <2> HIDE DEF got, code, did
  <2> QED BY <1>1, <2>6, WriteResponseLemma, Zenon
<1>3. CASE WriteUnanswered(s, object)
  <2> DEFINE got == {}
             code == 500
             did == "unanswered"
  <2>1. got \in SUBSET Accounts /\ Showable(calls[s], got)
    BY DEF Showable
  <2>2. WriteKluster(KeyOf(s), object, [calls EXCEPT ![s] = Response(s, code, did, got)])
    BY <1>3 DEF WriteUnanswered
  <2>3. code \in Nat /\ did \in {"nothing", "changed", "unanswered"} /\ Accords(calls[s].op, code, did)
    BY DEF Accords, ErrorCodes
  <2> HIDE DEF got, code, did
  <2> QED BY <1>1, <2>1, <2>2, <2>3, WriteResponseLemma, Zenon
<1> QED BY <1>2, <1>3

\* What a POST writes.
LEMMA CreatedLemma ==
  ASSUME RestInv, NEW s \in Slots, Serve(s, "CreateCluster")
  PROVE  /\ Created(s) \in Object /\ Created(s).phase = "Pending"
         /\ Owned(KeyOf(s), Created(s))
<1>1. /\ ProjectOf(calls[s]) \in Accounts /\ KeyOf(s) = KeyFor(calls[s]) /\ Asked(calls[s])
      /\ Project(s) = ProjectOf(calls[s])
  BY ServeLemma DEF Unsecure, Project, ProjectOf
<1>2. calls[s].body \in Bodies
  BY DEF RestInv, CallsInv, Call
<1>3. Created(s) \in Object /\ Created(s).phase = "Pending" /\ Created(s).account = Project(s)
  BY <1>1, <1>2 DEF Created, Object, Pools
<1>4. Contains(KeyOf(s), Project(s))
  BY <1>1, KeyLemma
<1> QED BY <1>1, <1>3, <1>4 DEF Owned

\* What a PUT or a DELETE writes over a current copy.
LEMMA EditedLemma ==
  ASSUME RestInv, NEW s \in Slots, calls[s].pc = "edit", calls[s].fresh
  PROVE  /\ Edited(s) \in Object /\ Edited(s).phase # "Absent"
         /\ Edited(s).phase \in {klusters[KeyOf(s)].phase, "Terminating"}
         /\ Edited(s).running = klusters[KeyOf(s)].running
         /\ Owned(KeyOf(s), Edited(s)) /\ KeyOf(s) \in Keys
         /\ ProjectOf(calls[s]) \in Accounts
         /\ "kubernetes_admin" \in Principal[calls[s].token].roles
<1>1. /\ calls[s].seen \in Object /\ calls[s].body \in Bodies
      /\ calls[s].seen = klusters[KeyOf(s)] /\ calls[s].seen.phase # "Absent"
  BY DEF RestInv, CallsInv, FreshInv, Call
<1>2. /\ ProjectOf(calls[s]) \in Accounts /\ Asked(calls[s])
      /\ "kubernetes_admin" \in Principal[calls[s].token].roles
  BY DEF RestInv, CallsInv, CallGood, Admitted
<1>3. KeyOf(s) \in Keys
  BY <1>2, LabelsLemma
<1>4. /\ Edited(s) \in Object /\ Edited(s).account = calls[s].seen.account
      /\ Edited(s).phase \in {calls[s].seen.phase, "Terminating"}
      /\ Edited(s).running = calls[s].seen.running
  BY <1>1 DEF Edited, Object, Pools
<1>5. Owned(KeyOf(s), Edited(s))
  BY <1>1, <1>3, <1>4 DEF RestInv, OwnedInv, Owned
<1> QED BY <1>1, <1>2, <1>3, <1>4, <1>5

\* The responses of the handlers.
LEMMA CodesLemma ==
  ASSUME NEW op
  PROVE  /\ \A code \in ErrorCodes : code \in Nat /\ Accords(op, code, "nothing")
         /\ op \in Ops \ Mutating =>
              /\ Operations[op].respond.success \in Nat
              /\ Accords(op, Operations[op].respond.success, "nothing")
<1>1. \A code \in ErrorCodes : code \in Nat /\ Accords(op, code, "nothing")
  BY DEF ErrorCodes, Accords
<1>2. ASSUME op \in Ops \ Mutating
      PROVE  /\ Operations[op].respond.success \in Nat
             /\ Accords(op, Operations[op].respond.success, "nothing")
  BY <1>2, ResponseTable DEF Accords
<1> QED BY <1>1, <1>2

\* What a handler leaves alone keeps its type.
LEMMA HandledLemma ==
  ASSUME RestInv, UNCHANGED unserved, klusters' \in [Keys -> Object], cached' \subseteq Tokens,
         CallsInv', OwnedInv'
  PROVE  RestInv'
BY DEF RestInv, TypeOK, CallsInv, unserved

\* And when no kluster changes.
LEMMA QuietHandledLemma ==
  ASSUME RestInv, UNCHANGED unserved, UNCHANGED klusters, cached' \subseteq Tokens, CallsInv'
  PROVE  RestInv'
<1>1. klusters' \in [Keys -> Object] /\ OwnedInv'
  BY DEF RestInv, TypeOK, OwnedInv
<1> QED BY <1>1, HandledLemma

-----------------------------------------------------------------------------
(* The caller.                                                             *)

\* Submit.
LEMMA SubmitStep ==
  ASSUME RestInv, NEW s \in Slots, Submit(s)
  PROVE  RestInv'
<1> PICK r \in Requests :
      calls' = [calls EXCEPT ![s] = [Idle EXCEPT !.pc = "sent", !.waiting = TRUE, !.op = r.op,
                                       !.token = r.token, !.name = r.name, !.body = r.body]]
  BY DEF Submit
<1> DEFINE c == [Idle EXCEPT !.pc = "sent", !.waiting = TRUE, !.op = r.op,
                             !.token = r.token, !.name = r.name, !.body = r.body]
<1>1. r.op \in Ops /\ r.token \in Tokens /\ r.body \in Bodies
  BY RequestAssumption DEF Bodies
<1>2. r.name \in Names
  BY DEF Names
<1>3. c \in Call
  BY <1>1, <1>2, IdleLemma DEF Call
<1>4. /\ c.pc = "sent" /\ c.token = r.token /\ c.name = r.name /\ c.got = {}
      /\ c.fresh = FALSE
  BY DEF Idle
<1>5. calls' = [calls EXCEPT ![s] = c]
  OBVIOUS
<1> HIDE DEF c
<1>6. CallGood(c)
  BY <1>1, <1>4 DEF CallGood, Asked, Stage, Admitted, Answered, Showable, ProjectOf
<1>7. calls[s].pc = "idle" /\ UNCHANGED <<klusters, secrets, valid, cached, links, linkMutex, events, faults>>
  BY DEF Submit
<1>8. CallsInv'
  BY <1>3, <1>4, <1>5, <1>6, <1>7, SlotLemma DEF RestInv
<1>9. sent' \in 0..MaxCalls
  BY BoundsAssumption DEF Submit, RestInv, TypeOK
<1> QED BY <1>7, <1>8, <1>9 DEF RestInv, TypeOK, CallsInv, OwnedInv

\* Receive and Lost.
LEMMA ForgetStep ==
  ASSUME RestInv, NEW s \in Slots, Receive(s) \/ Lost(s)
  PROVE  RestInv'
<1>1. /\ calls[s].pc \in {"sent", "replied"} /\ calls' = [calls EXCEPT ![s] = Idle]
      /\ UNCHANGED <<klusters, secrets, valid, cached, links, linkMutex, sent, events, faults>>
  BY DEF Receive, Lost
<1>2. CallsInv'
  BY <1>1, IdleLemma, SlotLemma DEF RestInv
<1> QED BY <1>1, <1>2 DEF RestInv, TypeOK, CallsInv, OwnedInv

\* Timeout.
LEMMA TimeoutStep ==
  ASSUME RestInv, NEW s \in Slots, Timeout(s)
  PROVE  RestInv'
<1> DEFINE c == [calls[s] EXCEPT !.waiting = FALSE]
<1>1. calls[s] \in Call /\ CallGood(calls[s])
  BY DEF RestInv, CallsInv
<1>2. c \in Call
  BY <1>1 DEF Call
<1>3. /\ c.pc = calls[s].pc /\ c.op = calls[s].op /\ c.token = calls[s].token /\ c.name = calls[s].name
      /\ c.got = calls[s].got /\ c.seen = calls[s].seen
  BY <1>1 DEF Call
<1>4. c.fresh = calls[s].fresh
  BY <1>1, Zenon DEF Call
<1>5. /\ calls' = [calls EXCEPT ![s] = c] /\ calls[s].pc # "replied"
      /\ UNCHANGED <<klusters, secrets, valid, cached, links, linkMutex, sent, events, faults>>
  BY DEF Timeout
<1> HIDE DEF c
<1>6. ProjectOf(c) = ProjectOf(calls[s]) /\ KeyFor(c) = KeyOf(s)
  BY <1>3 DEF ProjectOf, Project, KeyFor, KeyOf
<1>7. CallGood(c)
  BY <1>1, <1>3, <1>5, <1>6 DEF CallGood, Asked, Stage, Admitted, Answered, Showable
<1>8. c.fresh => c.pc = "edit" /\ c.seen = klusters[KeyFor(c)] /\ c.seen.phase # "Absent"
  BY <1>3, <1>4, <1>6 DEF RestInv, CallsInv, FreshInv
<1>9. CallsInv'
  BY <1>2, <1>3, <1>5, <1>7, <1>8, SlotLemma DEF RestInv
<1> QED BY <1>5, <1>9 DEF RestInv, TypeOK, CallsInv, OwnedInv

-----------------------------------------------------------------------------
(* The handlers.                                                           *)

\* A handler responds without a change.
LEMMA ReplyStep ==
  ASSUME RestInv, NEW s \in Slots, calls[s].pc \notin {"fetch", "idle"},
         NEW code, NEW got \in SUBSET Accounts, Respond(s, code, got),
         code \in ErrorCodes \/ (calls[s].op \notin Mutating /\ code = Success(s)),
         Showable(calls[s], got),
         UNCHANGED klusters, UNCHANGED unserved, cached' \subseteq Tokens
  PROVE  RestInv'
<1>1. calls[s] \in Call /\ calls[s].op \in Ops /\ Asked(calls[s])
  BY DEF RestInv, CallsInv, CallGood, Call
<1>2. Success(s) = Operations[calls[s].op].respond.success
  BY <1>1, RoutedLemma DEF Success
<1>3. code \in Nat /\ Accords(calls[s].op, code, "nothing")
  <2>1. CASE code \in ErrorCodes
    BY <2>1, CodesLemma
  <2>2. CASE calls[s].op \notin Mutating /\ code = Success(s)
    BY <1>1, <1>2, <2>2, CodesLemma
  <2> QED BY <2>1, <2>2
<1>4. CallsInv'
  BY <1>1, <1>3, RespondLemma DEF RestInv, unserved
<1> QED BY <1>4, QuietHandledLemma

\* In particular with nothing to show.
LEMMA PlainReplyStep ==
  ASSUME RestInv, NEW s \in Slots, calls[s].pc \notin {"fetch", "idle"},
         NEW code, Respond(s, code, {}),
         code \in ErrorCodes \/ (calls[s].op \notin Mutating /\ code = Success(s)),
         UNCHANGED klusters, UNCHANGED unserved, cached' \subseteq Tokens
  PROVE  RestInv'
<1> DEFINE got == {}
<1>1. got \in SUBSET Accounts /\ Showable(calls[s], got)
  BY DEF Showable
<1>2. Respond(s, code, got)
  OBVIOUS
<1> HIDE DEF got
<1> QED BY <1>1, <1>2, ReplyStep

\* And with an error.
LEMMA ErrorStep ==
  ASSUME RestInv, NEW s \in Slots, calls[s].pc \notin {"fetch", "idle"},
         NEW code \in ErrorCodes, Respond(s, code, {}),
         UNCHANGED klusters, UNCHANGED unserved, cached' \subseteq Tokens
  PROVE  RestInv'
BY PlainReplyStep

\* The steps of Validate before the token is cached.
LEMMA TokenCheckStep ==
  ASSUME RestInv, NEW s \in Slots, LookupToken(s) \/ ValidateToken(s)
  PROVE  RestInv'
<1>1. /\ calls[s].pc \in {"sent", "validate"}
      /\ UNCHANGED klusters /\ UNCHANGED unserved /\ cached' \subseteq Tokens
  BY DEF LookupToken, ValidateToken, RestInv, TypeOK
<1>2. CASE Respond(s, 401, {})
  <2>1. 401 \in ErrorCodes
    BY DEF ErrorCodes
  <2> QED BY <1>1, <1>2, <2>1, ErrorStep
<1>3. CASE Continue(s, "validate") \/ Continue(s, "confirmed")
  <2>1. PICK pc \in {"validate", "confirmed"} : Continue(s, pc)
    BY <1>3
  <2>2. CallsInv'
    BY <1>1, <2>1, ContinueLemma DEF RestInv, unserved
  <2> QED BY <1>1, <2>2, QuietHandledLemma
<1> QED BY <1>2, <1>3 DEF LookupToken, ValidateToken

\* Refuse.
LEMMA RefuseStep ==
  ASSUME RestInv, NEW s \in Slots, Refuse(s)
  PROVE  RestInv'
<1>1. calls[s] \in Call /\ calls[s].op \in Ops
  BY DEF RestInv, CallsInv, Call
<1>2. Refusal(calls[s]) \in ErrorCodes
  BY <1>1, RefusalLemma
<1>3. /\ calls[s].pc \in {"sent", "confirmed"} /\ Respond(s, Refusal(calls[s]), {})
      /\ UNCHANGED klusters /\ UNCHANGED unserved
  BY DEF Refuse, Authenticated
<1>4. cached' \subseteq Tokens
  BY CacheLemma DEF RestInv, TypeOK, Refuse
<1> QED BY <1>2, <1>3, <1>4, ErrorStep

\* A handler writes a kluster.
LEMMA WriteStep ==
  ASSUME RestInv, NEW s \in Slots, NEW object \in Object, calls[s].pc \notin {"fetch", "idle"},
         ProjectOf(calls[s]) \in Accounts, Owned(KeyOf(s), object), object.phase # "Absent",
         WriteAndRespond(s, object), UNCHANGED unserved, cached' \subseteq Tokens
  PROVE  RestInv'
<1>1. CallsInv' /\ OwnedInv' /\ klusters' \in [Keys -> Object]
  BY WrittenLemma DEF unserved
<1> QED BY <1>1, HandledLemma

\* CreateCluster.
LEMMA CreateClusterStep ==
  ASSUME RestInv, NEW s \in Slots, CreateCluster(s)
  PROVE  RestInv'
<1>1. Serve(s, "CreateCluster") /\ UNCHANGED unserved
  BY DEF CreateCluster
<1>2. calls[s].pc \in {"sent", "confirmed"} /\ ProjectOf(calls[s]) \in Accounts
  BY <1>1, ServeLemma DEF Unsecure
<1>3. cached' \subseteq Tokens
  BY <1>1, CacheLemma DEF RestInv, TypeOK, Serve
<1>4. CASE Creatable(s)
  <2>1. WriteAndRespond(s, Created(s))
    BY <1>4 DEF CreateCluster
  <2>2. Created(s) \in Object /\ Created(s).phase # "Absent" /\ Owned(KeyOf(s), Created(s))
    BY <1>1, CreatedLemma
  <2> QED BY <1>1, <1>2, <1>3, <2>1, <2>2, WriteStep
<1>5. CASE ~ Creatable(s)
  <2> DEFINE code == IF ~ IsInjective(calls[s].body.pools) THEN 422
                     ELSE IF ~ calls[s].body.dns THEN 0 ELSE 409
  <2>1. Respond(s, code, {}) /\ UNCHANGED klusters
    BY <1>5 DEF CreateCluster
  <2>2. code \in ErrorCodes
    BY DEF ErrorCodes
  <2> HIDE DEF code
  <2> QED BY <1>1, <1>2, <1>3, <2>1, <2>2, ErrorStep
<1> QED BY <1>4, <1>5

\* The Get of editCluster.
LEMMA EditGetStep ==
  ASSUME RestInv, NEW s \in Slots, NEW absent \in ErrorCodes, EditGet(s, absent),
         calls[s].pc \notin {"fetch", "idle"}, calls[s].op \in {"UpdateCluster", "TerminateCluster"},
         ProjectOf(calls[s]) \in Accounts,
         "kubernetes_admin" \in Principal[calls[s].token].roles,
         UNCHANGED unserved, cached' \subseteq Tokens
  PROVE  RestInv'
<1> DEFINE c == [calls[s] EXCEPT !.pc = "edit", !.seen = klusters[KeyOf(s)], !.fresh = TRUE]
<1>1. calls[s] \in Call /\ CallGood(calls[s]) /\ Asked(calls[s])
  BY DEF RestInv, CallsInv, CallGood
<1>2. KeyOf(s) = KeyFor(calls[s]) /\ KeyOf(s) \in Keys
  BY <1>1, LabelsLemma
<1>3. klusters[KeyOf(s)] \in Object
  BY <1>2 DEF RestInv, TypeOK
<1>4. UNCHANGED klusters
  BY DEF EditGet
<1>5. CASE klusters[KeyOf(s)].phase = "Absent"
  <2>1. Respond(s, absent, {})
    BY <1>5 DEF EditGet
  <2> QED BY <1>4, <2>1, ErrorStep
<1>6. CASE klusters[KeyOf(s)].phase # "Absent"
  <2>1. calls' = [calls EXCEPT ![s] = c]
    BY <1>6 DEF EditGet, RestInv, CallsInv
  <2>2. c \in Call
    BY <1>1, <1>3 DEF Call
  <2>3. /\ c.pc = "edit" /\ c.op = calls[s].op /\ c.token = calls[s].token /\ c.name = calls[s].name
        /\ c.got = calls[s].got /\ c.seen = klusters[KeyOf(s)]
    BY <1>1 DEF Call
  <2> HIDE DEF c
  <2>4. ProjectOf(c) = ProjectOf(calls[s]) /\ KeyFor(c) = KeyOf(s)
    BY <1>2, <2>3 DEF ProjectOf, KeyFor
  <2>5. CallGood(c)
    BY <1>1, <2>3, <2>4 DEF CallGood, Asked, Stage, Admitted, Answered, Showable
  <2>6. c.pc = "edit" /\ c.seen = klusters[KeyFor(c)] /\ c.seen.phase # "Absent"
    BY <1>6, <2>3, <2>4
  <2>7. CallsInv /\ UNCHANGED <<klusters, links, linkMutex>> /\ c.pc # "fetch"
    BY <1>4, <2>6 DEF RestInv, unserved
  <2>8. CallsInv'
    BY <2>1, <2>2, <2>5, <2>6, <2>7, SlotLemma
  <2> QED BY <1>4, <2>8, QuietHandledLemma
<1> QED BY <1>5, <1>6

\* The Update of editCluster.
LEMMA EditPutStep ==
  ASSUME RestInv, NEW s \in Slots, NEW absent \in ErrorCodes,
         calls[s].pc = "edit", EditPut(s, absent), UNCHANGED cached, UNCHANGED unserved
  PROVE  RestInv'
<1>1. cached' \subseteq Tokens
  BY DEF RestInv, TypeOK
<1>2. CASE calls[s].fresh
  <2>1. WriteAndRespond(s, Edited(s))
    BY <1>2 DEF EditPut
  <2> QED BY <1>1, <1>2, <2>1, EditedLemma, WriteStep
<1>3. CASE ~ calls[s].fresh
  <2> DEFINE code == IF klusters[KeyOf(s)].phase = "Absent" THEN absent ELSE 500
  <2>1. Respond(s, code, {}) /\ UNCHANGED klusters
    BY <1>3 DEF EditPut
  <2>2. code \in ErrorCodes
    BY DEF ErrorCodes
  <2> HIDE DEF code
  <2> QED BY <1>1, <2>1, <2>2, ErrorStep
<1> QED BY <1>2, <1>3

\* UpdateCluster.
LEMMA UpdateClusterStep ==
  ASSUME RestInv, NEW s \in Slots, UpdateCluster(s)
  PROVE  RestInv'
<1>1. UNCHANGED unserved /\ 404 \in ErrorCodes
  BY DEF UpdateCluster, ErrorCodes
<1>2. CASE Serve(s, "UpdateCluster") /\ EditGet(s, 404)
  <2>1. /\ calls[s].pc \in {"sent", "confirmed"} /\ calls[s].op = "UpdateCluster"
        /\ ProjectOf(calls[s]) \in Accounts
        /\ "kubernetes_admin" \in Principal[calls[s].token].roles
    BY <1>2, ServeLemma DEF Mutating, Unsecure
  <2>2. cached' \subseteq Tokens
    BY <1>2, CacheLemma DEF RestInv, TypeOK, Serve
  <2> QED BY <1>1, <1>2, <2>1, <2>2, EditGetStep
<1>3. CASE calls[s].pc = "edit" /\ EditPut(s, 404) /\ UNCHANGED cached
  BY <1>1, <1>3, EditPutStep
<1> QED BY <1>2, <1>3 DEF UpdateCluster

\* TerminateCluster, with its check for running nodes.
LEMMA TerminateClusterStep ==
  ASSUME RestInv, NEW s \in Slots, TerminateCluster(s)
  PROVE  RestInv'
<1>1. UNCHANGED unserved /\ 500 \in ErrorCodes
  BY DEF TerminateCluster, ErrorCodes
<1>2. CASE TerminateCheck(s)
  <2>1. Serve(s, "TerminateCluster") /\ UNCHANGED klusters
    BY <1>2 DEF TerminateCheck
  <2>2. /\ calls[s].pc \in {"sent", "confirmed"} /\ calls[s].op = "TerminateCluster"
        /\ ProjectOf(calls[s]) \in Accounts
        /\ "kubernetes_admin" \in Principal[calls[s].token].roles
    BY <2>1, ServeLemma DEF Mutating, Unsecure
  <2>3. cached' \subseteq Tokens
    BY <2>1, CacheLemma DEF RestInv, TypeOK, Serve
  <2>4. CASE Respond(s, 404, {}) \/ Respond(s, 409, {})
    <3>1. 404 \in ErrorCodes /\ 409 \in ErrorCodes
      BY DEF ErrorCodes
    <3> QED BY <1>1, <2>1, <2>2, <2>3, <2>4, <3>1, ErrorStep
  <2>5. CASE Continue(s, "checked")
    <3>1. CallsInv'
      BY <1>1, <2>1, <2>2, <2>5, ContinueLemma DEF RestInv, unserved
    <3> QED BY <1>1, <2>1, <2>3, <3>1, QuietHandledLemma
  <2> QED BY <1>2, <2>4, <2>5 DEF TerminateCheck
<1>3. CASE calls[s].pc = "checked" /\ EditGet(s, 500) /\ UNCHANGED cached
  <2>1. /\ calls[s].op = "TerminateCluster" /\ ProjectOf(calls[s]) \in Accounts
        /\ "kubernetes_admin" \in Principal[calls[s].token].roles
    BY <1>3 DEF RestInv, CallsInv, CallGood, Stage, Admitted
  <2>2. cached' \subseteq Tokens
    BY <1>3 DEF RestInv, TypeOK
  <2> QED BY <1>1, <1>3, <2>1, <2>2, EditGetStep
<1>4. CASE calls[s].pc = "edit" /\ EditPut(s, 500) /\ UNCHANGED cached
  BY <1>1, <1>4, EditPutStep
<1> QED BY <1>2, <1>3, <1>4 DEF TerminateCluster

\* The handlers that read: ShowCluster, ListClusters, GetClusterEvents.
LEMMA ReadStep ==
  ASSUME RestInv, NEW s \in Slots, ShowCluster(s) \/ ListClusters(s) \/ GetClusterEvents(s)
  PROVE  RestInv'
<1>1. PICK op \in {"ShowCluster", "ListClusters", "GetClusterEvents"} : Serve(s, op)
  BY DEF ShowCluster, ListClusters, GetClusterEvents
<1>2. UNCHANGED klusters /\ UNCHANGED unserved
  BY DEF ShowCluster, ListClusters, GetClusterEvents
<1>3. op \in Ops /\ op \notin Mutating /\ op \notin Unsecure
  BY DEF Ops, Mutating, Unsecure
<1>4. /\ calls[s].pc \in {"sent", "confirmed"} /\ calls[s].op = op
      /\ Asked(calls[s]) /\ ProjectOf(calls[s]) \in Accounts
  BY <1>1, <1>3, ServeLemma
<1>5. cached' \subseteq Tokens
  BY <1>1, CacheLemma DEF RestInv, TypeOK, Serve
<1>6. CASE Respond(s, 404, {})
  <2>1. 404 \in ErrorCodes
    BY DEF ErrorCodes
  <2> QED BY <1>2, <1>4, <1>5, <1>6, <2>1, ErrorStep
<1>7. CASE Respond(s, Success(s), Labels({KeyOf(s)}))
  <2> DEFINE got == Labels({KeyOf(s)})
  <2>1. got \in SUBSET Accounts /\ Showable(calls[s], got) /\ Respond(s, Success(s), got)
    BY <1>4, <1>7, LabelsLemma
  <2> HIDE DEF got
  <2> QED BY <1>2, <1>3, <1>4, <1>5, <2>1, ReplyStep
<1>8. CASE ListClusters(s)
  <2> DEFINE got == Labels({k \in Keys : klusters[k].account = Project(s)})
  <2>1. Respond(s, Success(s), got)
    BY <1>8 DEF ListClusters
  <2>2. \A x \in got : x = ProjectOf(calls[s])
    BY DEF Labels, Project, ProjectOf
  <2> HIDE DEF got
  <2>3. got \in SUBSET Accounts /\ Showable(calls[s], got)
    BY <1>4, <2>2 DEF Showable
  <2> QED BY <1>2, <1>3, <1>4, <1>5, <2>1, <2>3, ReplyStep
<1> QED BY <1>6, <1>7, <1>8 DEF ShowCluster, GetClusterEvents

\* The handlers that return no kluster: GetOpenstackMetadata, Info, ListAPIVersions.
LEMMA PlainStep ==
  ASSUME RestInv, NEW s \in Slots, GetOpenstackMetadata(s) \/ Unsecured(s)
  PROVE  RestInv'
<1>1. PICK op \in {"GetOpenstackMetadata", "Info", "ListAPIVersions"} : Serve(s, op)
  BY DEF GetOpenstackMetadata, Unsecured
<1>2. /\ Respond(s, Success(s), {}) /\ UNCHANGED klusters /\ UNCHANGED unserved
  BY DEF GetOpenstackMetadata, Unsecured
<1>3. op \notin Mutating
  BY DEF Mutating
<1>4. calls[s].op = op /\ calls[s].pc \in {"sent", "confirmed"}
  BY <1>1, ServeLemma
<1>5. cached' \subseteq Tokens
  BY <1>1, CacheLemma DEF RestInv, TypeOK, Serve
<1> QED BY <1>2, <1>3, <1>4, <1>5, PlainReplyStep

\* GetClusterCredentials.
LEMMA CredentialsStep ==
  ASSUME RestInv, NEW s \in Slots, GetClusterCredentials(s)
  PROVE  RestInv'
<1>1. UNCHANGED klusters /\ UNCHANGED unserved /\ 404 \in ErrorCodes
  BY DEF GetClusterCredentials, ErrorCodes
<1>2. CASE Serve(s, "GetClusterCredentials")
  <2>1. /\ calls[s].pc \in {"sent", "confirmed"} /\ calls[s].op = "GetClusterCredentials"
        /\ ProjectOf(calls[s]) \in Accounts
    BY <1>2, ServeLemma DEF Unsecure
  <2>2. cached' \subseteq Tokens
    BY <1>2, CacheLemma DEF RestInv, TypeOK, Serve
  <2>3. CASE Continue(s, "secret")
    <3>1. CallsInv'
      BY <1>1, <2>1, <2>3, ContinueLemma DEF RestInv, unserved
    <3> QED BY <1>1, <2>2, <3>1, QuietHandledLemma
  <2>4. CASE Respond(s, 404, {})
    BY <1>1, <2>1, <2>2, <2>4, ErrorStep
  <2> QED BY <2>1, <2>3, <2>4 DEF GetClusterCredentials
<1>3. CASE calls[s].pc = "secret" /\ UNCHANGED cached
  <2>1. /\ calls[s].op \notin Mutating /\ ProjectOf(calls[s]) \in Accounts /\ Asked(calls[s])
    BY <1>3 DEF RestInv, CallsInv, CallGood, Stage, Admitted, Mutating
  <2>2. cached' \subseteq Tokens
    BY <1>3 DEF RestInv, TypeOK
  <2>3. CASE Respond(s, 404, {})
    BY <1>1, <1>3, <2>2, <2>3, ErrorStep
  <2>4. CASE Respond(s, Success(s), Labels({KeyOf(s)}))
    <3> DEFINE got == Labels({KeyOf(s)})
    <3>1. got \in SUBSET Accounts /\ Showable(calls[s], got) /\ Respond(s, Success(s), got)
      BY <2>1, <2>4, LabelsLemma
    <3> HIDE DEF got
    <3> QED BY <1>1, <1>3, <2>1, <2>2, <3>1, ReplyStep
  <2> QED BY <1>3, <2>3, <2>4 DEF GetClusterCredentials, Serve, Authenticated
<1> QED BY <1>2, <1>3 DEF GetClusterCredentials

\* GetClusterInfo, up to the mutex.
LEMMA InfoStep ==
  ASSUME RestInv, NEW s \in Slots, GetClusterInfo(s)
  PROVE  RestInv'
<1>1. /\ Serve(s, "GetClusterInfo") /\ Continue(s, "links")
      /\ UNCHANGED klusters /\ UNCHANGED unserved
  BY DEF GetClusterInfo
<1>2. calls[s].pc \in {"sent", "confirmed"} /\ calls[s].op = "GetClusterInfo"
  BY <1>1, ServeLemma
<1>3. CallsInv'
  BY <1>1, <1>2, ContinueLemma DEF RestInv, unserved
<1>4. cached' \subseteq Tokens
  BY <1>1, CacheLemma DEF RestInv, TypeOK, Serve
<1> QED BY <1>1, <1>3, <1>4, QuietHandledLemma

\* GetLinks.
LEMMA GetLinksStep ==
  ASSUME RestInv, NEW s \in Slots, GetLinks(s)
  PROVE  RestInv'
<1>1. /\ calls[s].pc = "links" /\ linkMutex = "free"
      /\ UNCHANGED <<klusters, secrets, valid, cached, links, sent, events, faults>>
  BY DEF GetLinks
<1>2. calls[s] \in Call /\ CallGood(calls[s]) /\ calls[s].op = "GetClusterInfo" /\ ~ calls[s].fresh
  BY <1>1 DEF RestInv, CallsInv, CallGood, Stage, FreshInv
<1>3. CASE links
  <2>1. Respond(s, Success(s), {}) /\ UNCHANGED linkMutex
    BY <1>3 DEF GetLinks
  <2>2. calls[s].op \notin Mutating
    BY <1>2 DEF Mutating
  <2>3. UNCHANGED klusters /\ UNCHANGED unserved /\ cached' \subseteq Tokens
    BY <1>1, <2>1 DEF unserved, RestInv, TypeOK
  <2> QED BY <1>1, <2>1, <2>2, <2>3, PlainReplyStep
<1>4. CASE ~ links
  <2> DEFINE c == [calls[s] EXCEPT !.pc = "fetch"]
  <2>1. calls' = [calls EXCEPT ![s] = c] /\ linkMutex' = s
    BY <1>4 DEF GetLinks, Continue
  <2>2. c \in Call
    BY <1>2 DEF Call
  <2>3. /\ c.pc = "fetch" /\ c.op = calls[s].op /\ c.token = calls[s].token /\ c.name = calls[s].name
        /\ c.got = calls[s].got /\ c.fresh = calls[s].fresh
    BY <1>2 DEF Call
  <2> HIDE DEF c
  <2>4. CallGood(c)
    <3>1. ProjectOf(c) = ProjectOf(calls[s])
      BY <2>3 DEF ProjectOf
    <3>2. Asked(calls[s]) /\ Showable(calls[s], calls[s].got)
      BY <1>1, <1>2 DEF CallGood
    <3>3. Asked(c) /\ Stage(c) /\ Admitted(c) /\ Answered(c)
      BY <1>2, <2>3, <3>2 DEF Asked, Stage, Admitted, Answered
    <3>4. Showable(c, c.got)
      BY <2>3, <3>1, <3>2 DEF Showable
    <3> QED BY <3>3, <3>4 DEF CallGood
  <2>5. ~ c.fresh /\ UNCHANGED klusters /\ CallsInv
    BY <1>1, <1>2, <2>3 DEF RestInv
  <2>6. /\ calls' \in [Slots -> Call]
        /\ \A x \in Slots : CallGood(calls'[x])
        /\ \A x \in Slots : calls'[x] = IF x = s THEN c ELSE calls[x]
        /\ FreshInv'
    BY <2>1, <2>2, <2>4, <2>5, ChangeLemma
  <2>7. LinksFetchedOnce'
    <3>1. \A x \in Slots : calls[x].pc # "fetch"
      BY <1>1, NamesAssumption DEF RestInv, CallsInv, LinksFetchedOnce
    <3>2. ~ links'
      BY <1>1, <1>4
    <3> QED BY <2>1, <2>3, <2>6, <3>1, <3>2 DEF LinksFetchedOnce
  <2> QED BY <1>1, <2>1, <2>6, <2>7 DEF RestInv, TypeOK, CallsInv, OwnedInv
<1> QED BY <1>3, <1>4

\* The mutex is returned with the response.
LEMMA UnlockLemma ==
  ASSUME RestInv, NEW s \in Slots, calls[s].pc = "fetch", linkMutex' = "free",
         UNCHANGED <<klusters, secrets, valid, cached, sent, events, faults>>,
         NEW code \in Nat, Respond(s, code, {}), Accords(calls[s].op, code, "nothing"),
         links' \in BOOLEAN
  PROVE  RestInv'
<1> DEFINE got == {}
<1>1. /\ Respond(s, code, got) /\ got \in SUBSET Accounts
      /\ Showable(calls[s], got) /\ Asked(calls[s])
  BY DEF Showable, RestInv, CallsInv, CallGood
<1> HIDE DEF got
<1>2. /\ calls' \in [Slots -> Call]
      /\ \A x \in Slots : CallGood(calls'[x])
      /\ calls'[s].pc \in {"idle", "replied"}
      /\ \A x \in Slots : x # s => calls'[x] = calls[x]
      /\ FreshInv'
  BY <1>1, ReplyLemma DEF RestInv
<1>3. LinksFetchedOnce'
  <2>1. \A x \in Slots : x # s => calls[x].pc # "fetch"
    BY DEF RestInv, CallsInv, LinksFetchedOnce
  <2> QED BY <1>2, <2>1, NamesAssumption DEF LinksFetchedOnce
<1> QED BY <1>2, <1>3 DEF RestInv, TypeOK, CallsInv, OwnedInv

\* GitHub answers or fails.
LEMMA GithubStep ==
  ASSUME RestInv, NEW s \in Slots, GithubAnswers(s)
  PROVE  RestInv'
<1>1. /\ calls[s].pc = "fetch" /\ linkMutex' = "free"
      /\ UNCHANGED <<klusters, secrets, valid, cached, sent, events, faults>>
  BY DEF GithubAnswers
<1>2. calls[s].op = "GetClusterInfo" /\ calls[s].op \in Ops \ Mutating
  BY <1>1 DEF RestInv, CallsInv, CallGood, Stage, Ops, Mutating
<1>3. Success(s) = Operations[calls[s].op].respond.success
  BY <1>2, RoutedLemma DEF Success
<1>4. CASE Respond(s, Success(s), {}) /\ links' = TRUE
  <2>1. Success(s) \in Nat /\ Accords(calls[s].op, Success(s), "nothing")
    <3>1. /\ Operations[calls[s].op].respond.success \in Nat
          /\ Accords(calls[s].op, Operations[calls[s].op].respond.success, "nothing")
      BY <1>2, CodesLemma
    <3> QED BY <1>3, <3>1
  <2> QED BY <1>1, <1>4, <2>1, UnlockLemma
<1>5. CASE Respond(s, 500, {}) /\ UNCHANGED links
  <2>1. 500 \in Nat /\ Accords(calls[s].op, 500, "nothing")
    <3>1. 500 \in ErrorCodes
      BY DEF ErrorCodes
    <3> QED BY <3>1, CodesLemma
  <2>2. links' \in BOOLEAN
    BY <1>5 DEF RestInv, TypeOK
  <2> QED BY <1>1, <1>5, <2>1, <2>2, UnlockLemma
<1> QED BY <1>4, <1>5 DEF GithubAnswers

\* A request of a handler fails.
LEMMA RequestFailsStep ==
  ASSUME RestInv, NEW s \in Slots, RequestFails(s)
  PROVE  RestInv'
<1>1. /\ faults < MaxFaults /\ faults' = faults + 1
      /\ UNCHANGED <<klusters, secrets, valid, links, linkMutex, sent, events>>
  BY DEF RequestFails
<1>2. /\ calls[s].pc \notin {"fetch", "idle"} /\ cached' \subseteq Tokens
      /\ \E code \in {401, 500} : Respond(s, code, {})
  <2>1. CASE calls[s].pc \in {"validate", "secret", "checked", "edit"} /\ UNCHANGED cached
    BY <2>1 DEF RestInv, TypeOK, RequestFails, Serve
  <2>2. CASE (\E op \in Configured \ {"Info", "ListAPIVersions", "GetClusterInfo"} : Serve(s, op))
             /\ Respond(s, 500, {})
    <3>1. Authenticated(s)
      BY <2>2 DEF Serve
    <3>2. calls[s].pc \in {"sent", "confirmed"}
      BY <3>1 DEF Authenticated
    <3>3. cached' \subseteq Tokens
      BY <3>1, CacheLemma DEF RestInv, TypeOK
    <3> QED BY <2>2, <3>2, <3>3
  <2> QED BY <2>1, <2>2 DEF RequestFails
<1>3. PICK code \in {401, 500} : Respond(s, code, {})
  BY <1>2
<1> DEFINE got == {}
<1>4. /\ Respond(s, code, got) /\ got \in SUBSET Accounts
      /\ Showable(calls[s], got) /\ Asked(calls[s])
  BY <1>2, <1>3 DEF Showable, RestInv, CallsInv, CallGood
<1> HIDE DEF got
<1>5. code \in Nat /\ Accords(calls[s].op, code, "nothing")
  BY DEF ErrorCodes, Accords
<1>6. CallsInv'
  BY <1>1, <1>2, <1>4, <1>5, RespondLemma DEF RestInv
<1>7. faults' \in 0..MaxFaults
  BY <1>1, BoundsAssumption DEF RestInv, TypeOK
<1> QED BY <1>1, <1>2, <1>6, <1>7 DEF RestInv, TypeOK, CallsInv, OwnedInv

\* Where a write whose answer is lost comes from.
LEMMA UnansweredLemma ==
  ASSUME RestInv, NEW s \in Slots, AnswerLost(s)
  PROVE  /\ calls[s].pc \notin {"fetch", "idle"} /\ cached' \subseteq Tokens
         /\ ProjectOf(calls[s]) \in Accounts /\ KeyOf(s) \in Keys
         /\ "kubernetes_admin" \in Principal[calls[s].token].roles
         /\ \E object \in Object :
              /\ WriteUnanswered(s, object)
              /\ Owned(KeyOf(s), object) /\ object.phase # "Absent"
              /\ klusters[KeyOf(s)].phase # "Absent" =>
                   /\ object.phase \in {klusters[KeyOf(s)].phase, "Terminating"}
                   /\ object.running = klusters[KeyOf(s)].running
<1>1. CASE Serve(s, "CreateCluster") /\ Creatable(s) /\ WriteUnanswered(s, Created(s))
  <2>1. /\ calls[s].pc \in {"sent", "confirmed"} /\ ProjectOf(calls[s]) \in Accounts
        /\ KeyOf(s) \in Keys /\ "kubernetes_admin" \in Principal[calls[s].token].roles
    BY <1>1, ServeLemma DEF Unsecure, Mutating
  <2>2. cached' \subseteq Tokens
    BY <1>1, CacheLemma DEF RestInv, TypeOK, Serve
  <2>3. Created(s) \in Object /\ Created(s).phase # "Absent" /\ Owned(KeyOf(s), Created(s))
    BY <1>1, CreatedLemma
  <2>4. klusters[KeyOf(s)].phase = "Absent"
    BY <1>1 DEF Creatable
  <2> QED BY <1>1, <2>1, <2>2, <2>3, <2>4
<1>2. CASE /\ calls[s].pc = "edit" /\ calls[s].fresh
           /\ WriteUnanswered(s, Edited(s)) /\ UNCHANGED cached
  <2>1. cached' \subseteq Tokens
    BY <1>2 DEF RestInv, TypeOK
  <2> QED BY <1>2, <2>1, EditedLemma
<1> QED BY <1>1, <1>2 DEF AnswerLost

\* A write takes effect and its answer is lost.
LEMMA AnswerLostStep ==
  ASSUME RestInv, NEW s \in Slots, AnswerLost(s)
  PROVE  RestInv'
<1>1. /\ faults < MaxFaults /\ faults' = faults + 1
      /\ UNCHANGED <<secrets, valid, links, linkMutex, sent, events>>
  BY DEF AnswerLost
<1>2. /\ calls[s].pc \notin {"fetch", "idle"} /\ cached' \subseteq Tokens
      /\ ProjectOf(calls[s]) \in Accounts
  BY UnansweredLemma
<1>3. PICK object \in Object : /\ WriteUnanswered(s, object)
                              /\ Owned(KeyOf(s), object) /\ object.phase # "Absent"
  BY UnansweredLemma
<1>4. CallsInv' /\ OwnedInv' /\ klusters' \in [Keys -> Object]
  BY <1>1, <1>2, <1>3, WrittenLemma
<1>5. faults' \in 0..MaxFaults
  BY <1>1, BoundsAssumption DEF RestInv, TypeOK
<1> QED BY <1>1, <1>2, <1>4, <1>5 DEF RestInv, TypeOK, CallsInv

-----------------------------------------------------------------------------
(* The environment.                                                        *)

\* The operator.
LEMMA OperatorStep ==
  ASSUME RestInv, NEW k \in Keys, Operator(k)
  PROVE  RestInv'
<1> DEFINE o == klusters[k]
<1>1. /\ events + faults < MaxEvents /\ events' = events + 1
      /\ UNCHANGED <<valid, cached, links, linkMutex, sent, faults>>
  BY DEF Operator
<1>2. o \in Object /\ klusters \in [Keys -> Object] /\ calls \in [Slots -> Call]
  BY DEF RestInv, TypeOK
<1>3. events' \in 0..MaxEvents
  BY <1>1, BoundsAssumption DEF RestInv, TypeOK
<1>4. secrets' \subseteq Keys
  BY DEF Operator, RestInv, TypeOK
<1>5. CASE \E object \in Object : Owned(k, object) /\ WriteKluster(k, object, calls)
  <2> PICK object \in Object : Owned(k, object) /\ WriteKluster(k, object, calls)
    BY <1>5
  <2>1. \A x \in Slots : /\ CallGood(calls[x])
                         /\ calls[x].pc = "fetch" <=> calls[x].pc = "fetch"
                         /\ calls[x].fresh => calls[x] = calls[x]
    BY DEF RestInv, CallsInv
  <2>2. CallsInv' /\ OwnedInv' /\ klusters' \in [Keys -> Object]
    BY <1>1, <1>2, <2>1, WriteLemma DEF RestInv
  <2> QED BY <1>1, <1>3, <1>4, <2>2 DEF RestInv, TypeOK, CallsInv
<1>6. CASE UNCHANGED <<klusters, calls>>
  <2>1. CallsInv' /\ OwnedInv'
    BY <1>1, <1>6 DEF RestInv, CallsInv, FreshInv, LinksFetchedOnce, KeyOf, Project, OwnedInv
  <2> QED BY <1>1, <1>3, <1>4, <1>6, <2>1 DEF RestInv, TypeOK, CallsInv
<1>7. ASSUME o.phase # "Absent"
      PROVE  /\ [o EXCEPT !.phase = "Creating"] \in Object /\ Owned(k, [o EXCEPT !.phase = "Creating"])
             /\ [o EXCEPT !.phase = "Running"] \in Object /\ Owned(k, [o EXCEPT !.phase = "Running"])
             /\ [o EXCEPT !.running = 1 - o.running] \in Object
             /\ Owned(k, [o EXCEPT !.running = 1 - o.running])
  <2>1. o.account \in Accounts /\ Contains(k, o.account)
    BY <1>7 DEF RestInv, OwnedInv, Owned
  <2> QED BY <1>2, <1>7, <2>1 DEF Object, Owned
<1>9. Absent \in Object /\ Owned(k, Absent)
  BY DEF Object, Owned, Absent
<1>8. \/ WriteKluster(k, [o EXCEPT !.phase = "Creating"], calls)
      \/ WriteKluster(k, [o EXCEPT !.phase = "Running"], calls)
      \/ WriteKluster(k, [o EXCEPT !.running = 1 - o.running], calls)
      \/ WriteKluster(k, Absent, calls)
      \/ UNCHANGED <<klusters, calls>>
  BY DEF Operator
<1>10. o.phase # "Absent"
  BY DEF Operator
<1> QED BY <1>5, <1>6, <1>7, <1>8, <1>9, <1>10

\* Keystone and the cache.
LEMMA TokenStep ==
  ASSUME RestInv, NEW t \in Tokens, Revoke(t) \/ Expire(t)
  PROVE  RestInv'
<1>1. UNCHANGED <<klusters, secrets, calls, links, linkMutex, sent, events>>
  BY DEF Revoke, Expire
<1>2. CallsInv' /\ OwnedInv'
  BY <1>1 DEF RestInv, CallsInv, FreshInv, LinksFetchedOnce, KeyOf, Project, OwnedInv
<1>3. valid' \subseteq Tokens /\ cached' \subseteq Tokens /\ faults' \in 0..MaxFaults
  BY BoundsAssumption DEF Revoke, Expire, RestInv, TypeOK
<1> QED BY <1>1, <1>2, <1>3 DEF RestInv, TypeOK, CallsInv

-----------------------------------------------------------------------------
(* The theorems.                                                           *)

\* Init establishes RestInv.
LEMMA InitLemma == Init => RestInv
<1> SUFFICES ASSUME Init PROVE RestInv
  OBVIOUS
<1>0. PICK a \in Accounts \cup {"none"} :
        klusters = [k \in Keys |-> IF Contains(k, a)
                                   THEN [Absent EXCEPT !.phase = "Running", !.account = a] ELSE Absent]
  BY DEF Init
<1> DEFINE up == [Absent EXCEPT !.phase = "Running", !.account = a]
<1>11. /\ up \in Object /\ Absent \in Object
      /\ up.account = a /\ Absent.phase = "Absent"
  <2>1. Absent \in Object /\ Absent.phase = "Absent"
    BY DEF Absent, Object
  <2>2. up \in Object /\ up.account = a
    BY <2>1 DEF Object
  <2> QED BY <2>1, <2>2
<1>12. a # "none" => a \in Accounts
  OBVIOUS
<1>13. \A k \in Keys : ~ Contains(k, "none")
  <2> SUFFICES ASSUME NEW r \in Requests, Principal[r.token].project # "none"
               PROVE  ~ Contains(QualifiedName(r.name, Principal[r.token].project), "none")
    BY DEF Keys
  <2>1. r.token \in Tokens /\ r.name \in Seq(Parts)
    BY RequestAssumption
  <2>2. Principal[r.token].project \in Accounts
    BY <2>1, PrincipalAssumption
  <2>3. ~ Contains(r.name, "none")
    BY <2>1, NamesAssumption DEF Contains
  <2>4. Asked(r) /\ ProjectOf(r) \in Accounts
    BY <2>2 DEF Asked, ProjectOf
  <2>5. KeyFor(r) = QualifiedName(r.name, Principal[r.token].project)
    BY DEF KeyFor, ProjectOf
  <2> QED BY <2>2, <2>3, <2>4, <2>5, KeyLemma DEF ProjectOf
<1> HIDE DEF up
<1>1. klusters \in [Keys -> Object]
  BY <1>0, <1>11 DEF up
<1>14. OwnedInv
  <2> SUFFICES ASSUME NEW k \in Keys PROVE Owned(k, klusters[k])
    BY DEF OwnedInv
  <2>1. CASE Contains(k, a)
    <3>1. klusters[k] = up
      BY <1>0, <2>1 DEF up
    <3> QED BY <1>11, <1>12, <1>13, <2>1, <3>1 DEF Owned
  <2>2. CASE ~ Contains(k, a)
    <3>1. klusters[k] = Absent
      BY <1>0, <2>2
    <3> QED BY <1>11, <3>1 DEF Owned
  <2> QED BY <2>1, <2>2
<1>2. calls \in [Slots -> Call] /\ \A s \in Slots : calls[s] = Idle
  BY IdleLemma DEF Init
<1>3. secrets \subseteq Keys
  BY DEF Init
<1>4. TypeOK
  <2>1. sent \in 0..MaxCalls /\ events \in 0..MaxEvents /\ faults \in 0..MaxFaults
    BY BoundsAssumption DEF Init
  <2>2. links \in BOOLEAN
    BY DEF Init
  <2>3. valid \subseteq Tokens /\ cached \subseteq Tokens /\ linkMutex \in Slots \cup {"free"}
    BY DEF Init
  <2> QED BY <1>1, <1>2, <1>3, <2>1, <2>2, <2>3 DEF TypeOK
<1>5. FreshInv
  BY <1>2, IdleLemma DEF FreshInv
<1>6. LinksFetchedOnce
  BY <1>2, IdleLemma, NamesAssumption DEF LinksFetchedOnce, Init
<1> QED BY <1>14, <1>2, <1>4, <1>5, <1>6, IdleLemma DEF RestInv, CallsInv

\* RestInv is an inductive invariant of the API with any number of callers.
THEOREM RestInvariant == Spec => []RestInv
<1>1. RestInv /\ [Next]_vars => RestInv'
  <2> SUFFICES ASSUME RestInv, [Next]_vars PROVE RestInv'
    OBVIOUS
  <2>1. ASSUME NEW s \in Slots, Submit(s) \/ Receive(s) \/ Timeout(s) \/ Lost(s)
        PROVE  RestInv'
    BY <2>1, SubmitStep, ForgetStep, TimeoutStep
  <2>2. ASSUME NEW s \in Slots, Handle(s) PROVE RestInv'
    BY <2>2, TokenCheckStep, RefuseStep, CreateClusterStep, UpdateClusterStep, TerminateClusterStep, ReadStep,
       CredentialsStep, PlainStep, InfoStep, GetLinksStep DEF Handle
  <2>3. ASSUME NEW s \in Slots, GithubAnswers(s) \/ RequestFails(s) \/ AnswerLost(s) PROVE RestInv'
    BY <2>3, GithubStep, RequestFailsStep, AnswerLostStep
  <2>4. ASSUME NEW k \in Keys, Operator(k) PROVE RestInv'
    BY <2>4, OperatorStep
  <2>5. ASSUME NEW t \in Tokens, Revoke(t) \/ Expire(t) PROVE RestInv'
    BY <2>5, TokenStep
  <2>6. CASE UNCHANGED vars
    BY <2>6 DEF RestInv, CallsInv, TypeOK, FreshInv, LinksFetchedOnce, KeyOf, Project, OwnedInv, vars
  <2> QED BY <2>1, <2>2, <2>3, <2>4, <2>5, <2>6 DEF Next
<1> QED BY <1>1, InitLemma, PTL DEF Spec

\* The variables keep their types: every handler answers with a response the
\* generated code has, and stores a kluster with a phase.
THEOREM RestTypes == Spec => []TypeOK
BY RestInvariant, PTL DEF RestInv

\* GitHub is asked by the one handler that holds the mutex, by none once the links
\* are known, and no handler returns with the mutex (getLinks).
THEOREM LinksOnce == Spec => []LinksFetchedOnce
BY RestInvariant, PTL DEF RestInv, CallsInv

\* Unless the name that was sent has the id of another account in it, a response
\* only shows klusters created by the project of the caller, whatever the other
\* projects create (util.go, create_cluster.go, list_clusters.go).
THEOREM AccountsApart == Spec => []OwnKlustersOnly
<1>1. RestInv => OwnKlustersOnly
  BY DEF RestInv, CallsInv, CallGood, Showable, Project, ProjectOf, OwnKlustersOnly
<1> QED BY <1>1, RestInvariant, PTL

\* How the caller reads a response the server gives.
LEMMA OutcomeLemma ==
  ASSUME RestInv, NEW s \in Slots, calls[s].pc = "replied"
  PROVE  \/ /\ Outcome(calls[s]) = "ok"
            /\ calls[s].op \in Mutating => calls[s].did = "changed"
         \/ /\ Outcome(calls[s]) = "error"
            /\ calls[s].did # "changed" /\ calls[s].code \in ErrorCodes
<1> DEFINE c == calls[s]
<1>1. c \in Call /\ c.op \in Ops
  BY DEF RestInv, CallsInv, Call
<1>2. /\ Accords(c.op, c.code, c.did)
      /\ c.code = Operations[c.op].respond.success => c.payload = Operations[c.op].respond.payload
  BY DEF RestInv, CallsInv, CallGood, Answered
<1> HIDE DEF c
<1>3. CASE c.code = Operations[c.op].respond.success /\ (c.op \in Mutating => c.did = "changed")
  <2>1. Outcome(c) = "ok"
    BY <1>1, <1>2, <1>3, ReadLemma DEF Outcome
  <2> QED BY <1>3, <2>1, Zenon DEF c
<1>4. CASE c.code \in ErrorCodes /\ c.did # "changed"
  <2>1. Outcome(c) = "error"
    BY <1>1, <1>4, ReadLemma DEF Outcome
  <2> QED BY <1>4, <2>1, Zenon DEF c
<1> QED BY <1>2, <1>3, <1>4, Zenon DEF Accords

\* A caller whose request changes klusters is told of a success exactly when the
\* request changed one and Kubernetes confirmed it (handlers/*.go, client/operations).
THEOREM TruthfulOutcome == Spec => []OutcomeTruthful
<1>1. RestInv => OutcomeTruthful
  <2> SUFFICES ASSUME RestInv, NEW s \in Slots, calls[s].pc = "replied", calls[s].op \in Mutating
               PROVE  Outcome(calls[s]) = "ok" <=> calls[s].did = "changed"
    BY DEF OutcomeTruthful
  <2> QED BY OutcomeLemma
<1> QED BY <1>1, RestInvariant, PTL

\* No response makes the generated client panic, and none that should decode is
\* rejected (client/operations, rest/operations).
THEOREM ClientServer == Spec => []ClientReadsServer
<1>1. RestInv => ClientReadsServer
  <2> SUFFICES ASSUME RestInv, NEW s \in Slots, calls[s].pc = "replied"
               PROVE  /\ Outcome(calls[s]) # "panic"
                      /\ calls[s].code \in 200..299 => Outcome(calls[s]) = "ok"
    BY DEF ClientReadsServer
  <2>1. \A code \in ErrorCodes : code \notin 200..299
    BY DEF ErrorCodes
  <2> QED BY <2>1, OutcomeLemma
<1> QED BY <1>1, RestInvariant, PTL

-----------------------------------------------------------------------------
(* The action properties.                                                  *)

\* The steps that change no kluster, or count as steps of the operator.
LEMMA QuietLemma ==
  ASSUME RestInv, [Next]_vars,
         ~ \E s \in Slots : CreateCluster(s) \/ UpdateCluster(s) \/ TerminateCluster(s) \/ AnswerLost(s)
  PROVE  UNCHANGED klusters \/ events' # events
<1>1. ASSUME NEW s \in Slots, Submit(s) \/ Receive(s) \/ Timeout(s) \/ Lost(s)
      PROVE  UNCHANGED klusters
  BY <1>1 DEF Submit, Receive, Timeout, Lost
<1>2. ASSUME NEW s \in Slots, Handle(s) PROVE UNCHANGED klusters
  BY <1>2 DEF Handle, LookupToken, ValidateToken, Refuse, ShowCluster, ListClusters, GetClusterCredentials, GetClusterEvents,
              GetOpenstackMetadata, Unsecured, GetClusterInfo, GetLinks
<1>3. ASSUME NEW s \in Slots, GithubAnswers(s) \/ RequestFails(s) PROVE UNCHANGED klusters
  BY <1>3 DEF GithubAnswers, RequestFails
<1>4. ASSUME NEW k \in Keys, Operator(k) PROVE events' # events
  BY <1>4 DEF Operator, RestInv, TypeOK
<1>5. ASSUME NEW t \in Tokens, Revoke(t) \/ Expire(t) PROVE UNCHANGED klusters
  BY <1>5 DEF Revoke, Expire
<1>6. CASE UNCHANGED vars
  BY <1>6 DEF vars
<1> QED BY <1>1, <1>2, <1>3, <1>4, <1>5, <1>6 DEF Next

\* A handler that writes a kluster does so for an administrator, under a name with
\* the account of the caller, and what it writes follows from the kluster as it is.
LEMMA WriterLemma ==
  ASSUME RestInv, NEW s \in Slots,
         CreateCluster(s) \/ UpdateCluster(s) \/ TerminateCluster(s) \/ AnswerLost(s)
  PROVE  \/ UNCHANGED klusters
         \/ /\ ProjectOf(calls[s]) \in Accounts
            /\ "kubernetes_admin" \in Principal[calls[s].token].roles
            /\ calls'[s].pc # calls[s].pc
            /\ \E object \in Object :
                 /\ klusters' = [klusters EXCEPT ![KeyOf(s)] = object]
                 /\ Owned(KeyOf(s), object) /\ object.phase # "Absent"
                 /\ klusters[KeyOf(s)].phase # "Absent" =>
                      /\ object.phase \in {klusters[KeyOf(s)].phase, "Terminating"}
                      /\ object.running = klusters[KeyOf(s)].running
<1>1. UNCHANGED <<links, linkMutex>>
  BY DEF CreateCluster, UpdateCluster, TerminateCluster, AnswerLost, unserved
<1>2. ASSUME NEW object \in Object, WriteAndRespond(s, object) \/ WriteUnanswered(s, object),
             calls[s].pc \in {"sent", "validate", "confirmed", "links", "secret", "checked", "edit"},
             ProjectOf(calls[s]) \in Accounts, Owned(KeyOf(s), object), object.phase # "Absent"
      PROVE  /\ klusters' = [klusters EXCEPT ![KeyOf(s)] = object]
             /\ calls'[s].pc # calls[s].pc
  BY <1>1, <1>2, WrittenLemma DEF Ends
<1>3. CASE CreateCluster(s)
  <2>1. CASE UNCHANGED klusters
    BY <2>1
  <2>2. CASE Serve(s, "CreateCluster") /\ Creatable(s) /\ WriteAndRespond(s, Created(s))
    <3>1. /\ calls[s].pc \in {"sent", "confirmed"} /\ ProjectOf(calls[s]) \in Accounts
          /\ "kubernetes_admin" \in Principal[calls[s].token].roles
      BY <2>2, ServeLemma DEF Mutating, Unsecure
    <3>2. Created(s) \in Object /\ Created(s).phase # "Absent" /\ Owned(KeyOf(s), Created(s))
      BY <2>2, CreatedLemma
    <3>3. klusters[KeyOf(s)].phase = "Absent"
      BY <2>2 DEF Creatable
    <3> QED BY <1>2, <2>2, <3>1, <3>2, <3>3
  <2> QED BY <1>3, <2>1, <2>2 DEF CreateCluster
<1>4. CASE UpdateCluster(s) \/ TerminateCluster(s)
  <2>1. CASE UNCHANGED klusters
    BY <2>1
  <2>2. CASE calls[s].pc = "edit" /\ calls[s].fresh /\ WriteAndRespond(s, Edited(s))
    BY <1>2, <2>2, EditedLemma
  <2> QED BY <1>4, <2>1, <2>2 DEF UpdateCluster, TerminateCluster, TerminateCheck, EditGet, EditPut
<1>5. CASE AnswerLost(s)
  <2>1. /\ calls[s].pc \notin {"fetch", "idle"} /\ ProjectOf(calls[s]) \in Accounts
        /\ "kubernetes_admin" \in Principal[calls[s].token].roles
    BY <1>5, UnansweredLemma
  <2>2. calls[s].pc \in {"sent", "confirmed", "edit"}
    BY <1>5 DEF AnswerLost, Serve, Authenticated
  <2>3. PICK object \in Object :
          /\ WriteUnanswered(s, object)
          /\ Owned(KeyOf(s), object) /\ object.phase # "Absent"
          /\ klusters[KeyOf(s)].phase # "Absent" =>
               /\ object.phase \in {klusters[KeyOf(s)].phase, "Terminating"}
               /\ object.running = klusters[KeyOf(s)].running
    BY <1>5, UnansweredLemma
  <2> QED BY <1>2, <2>1, <2>2, <2>3
<1> QED BY <1>3, <1>4, <1>5

\* A handler that works on a copy of a kluster never rolls back what others wrote
\* since, and a POST never replaces a kluster (editCluster).
THEOREM CopiesCurrent == Spec => NoRollback
<1>1. RestInv /\ [Next]_vars =>
        [\A k \in Keys : klusters[k].phase # "Absent" /\ UNCHANGED events =>
           /\ klusters'[k].phase \in {klusters[k].phase, "Terminating"}
           /\ klusters'[k].running = klusters[k].running]_vars
  <2> SUFFICES ASSUME RestInv, [Next]_vars, NEW k \in Keys, klusters[k].phase # "Absent", UNCHANGED events
               PROVE  /\ klusters'[k].phase \in {klusters[k].phase, "Terminating"}
                      /\ klusters'[k].running = klusters[k].running
    OBVIOUS
  <2>1. CASE UNCHANGED klusters
    BY <2>1
  <2>2. CASE ~ UNCHANGED klusters
    <3>1. PICK s \in Slots :
            CreateCluster(s) \/ UpdateCluster(s) \/ TerminateCluster(s) \/ AnswerLost(s)
      BY <2>2, QuietLemma
    <3>2. PICK object \in Object :
            /\ klusters' = [klusters EXCEPT ![KeyOf(s)] = object]
            /\ klusters[KeyOf(s)].phase # "Absent" =>
                 /\ object.phase \in {klusters[KeyOf(s)].phase, "Terminating"}
                 /\ object.running = klusters[KeyOf(s)].running
      BY <2>2, <3>1, WriterLemma
    <3> QED BY <3>2 DEF RestInv, TypeOK
  <2> QED BY <2>1, <2>2
<1> QED BY <1>1, RestInvariant, PTL DEF Spec, NoRollback

\* A kluster is only changed through the API by the request of an administrator
\* of a project its name has in it, and of the project that created it unless
\* the name that was sent has the id of another (policy.json, util.go).
THEOREM OwnAdmins == Spec => ChangedByAdmin
<1> DEFINE Writer(s, k) ==
             /\ calls'[s].pc # calls[s].pc
             /\ "kubernetes_admin" \in Principal[calls[s].token].roles
             /\ Contains(k, Project(s))
             /\ ForeignFree(calls[s].name, Project(s)) => klusters'[k].account = Project(s)
<1>1. RestInv /\ [Next]_vars =>
        [\A k \in Keys : klusters'[k] # klusters[k] /\ UNCHANGED events =>
           \E s \in Slots : Writer(s, k)]_vars
  <2> SUFFICES ASSUME RestInv, [Next]_vars, NEW k \in Keys, klusters'[k] # klusters[k], UNCHANGED events
               PROVE  \E s \in Slots : Writer(s, k)
    OBVIOUS
  <2>1. PICK s \in Slots :
          CreateCluster(s) \/ UpdateCluster(s) \/ TerminateCluster(s) \/ AnswerLost(s)
    BY QuietLemma
  <2>2. /\ ProjectOf(calls[s]) \in Accounts
        /\ "kubernetes_admin" \in Principal[calls[s].token].roles
        /\ calls'[s].pc # calls[s].pc
    BY <2>1, WriterLemma
  <2>3. PICK object \in Object :
          /\ klusters' = [klusters EXCEPT ![KeyOf(s)] = object]
          /\ Owned(KeyOf(s), object) /\ object.phase # "Absent"
    BY <2>1, WriterLemma
  <2>4. KeyOf(s) = k /\ klusters'[k] = object
    BY <2>3 DEF RestInv, TypeOK
  <2>5. Asked(calls[s])
    <3>1. calls[s].pc # "idle"
      BY <2>1 DEF CreateCluster, UpdateCluster, TerminateCluster, TerminateCheck, AnswerLost,
                  Serve, Authenticated
    <3> QED BY <3>1 DEF RestInv, CallsInv, CallGood
  <2>6. k = KeyFor(calls[s]) /\ Project(s) = ProjectOf(calls[s])
    BY <2>4 DEF KeyOf, KeyFor, Project, ProjectOf
  <2>7. /\ Contains(k, Project(s))
        /\ object.account = Project(s) \/ Contains(calls[s].name, object.account)
    BY <2>2, <2>3, <2>4, <2>5, <2>6, KeyLemma DEF Owned
  <2>8. ForeignFree(calls[s].name, Project(s)) => klusters'[k].account = Project(s)
    BY <2>3, <2>4, <2>7 DEF ForeignFree, Owned
  <2> QED BY <2>2, <2>7, <2>8
<1> QED BY <1>1, RestInvariant, PTL DEF Spec, ChangedByAdmin

-----------------------------------------------------------------------------
(* Tokens.                                                                 *)

\* A slot is given another record.
LEMMA MoveLemma ==
  ASSUME RestInv, NEW s \in Slots, NEW c, calls' = [calls EXCEPT ![s] = c]
  PROVE  Local(s) /\ calls'[s] = c
BY DEF Local, RestInv, TypeOK

\* A response ends a request, with the code that was given.
LEMMA ResponsePc ==
  ASSUME NEW s, NEW code, NEW did, NEW got
  PROVE  \/ Response(s, code, did, got) = Idle
         \/ /\ Response(s, code, did, got).pc = "replied"
            /\ Response(s, code, did, got).code = code
<1> DEFINE c == calls[s]
           payload == IF code = Operations[Routed(c)].respond.success
                      THEN Operations[Routed(c)].respond.payload ELSE "Error"
           r == [Idle EXCEPT !.pc = "replied", !.op = c.op, !.token = c.token, !.name = c.name,
                             !.waiting = TRUE, !.code = code, !.did = did, !.got = got, !.payload = payload]
<1>1. Response(s, code, did, got) = IF c.waiting THEN r ELSE Idle
  BY DEF Response
<1> HIDE DEF payload, c
<1>2. r.pc = "replied" /\ r.code = code
  BY IdleLemma DEF Idle
<1> HIDE DEF r
<1> QED BY <1>1, <1>2

\* A handler responds.
LEMMA RespondMove ==
  ASSUME RestInv, NEW s \in Slots, NEW code, NEW got, Respond(s, code, got)
  PROVE  Ends(s) /\ (calls'[s].pc = "idle" \/ calls'[s].code = code)
<1>1. Local(s) /\ calls'[s] = Response(s, code, "nothing", got)
  BY MoveLemma, Zenon DEF Respond
<1>2. \/ Response(s, code, "nothing", got) = Idle
      \/ /\ Response(s, code, "nothing", got).pc = "replied"
         /\ Response(s, code, "nothing", got).code = code
  BY ResponsePc
<1> QED BY <1>1, <1>2, IdleLemma DEF Ends

\* In particular with a 401.
LEMMA UnauthorizedMove ==
  ASSUME RestInv, NEW s \in Slots, Respond(s, 401, {})
  PROVE  Ends(s) /\ (calls'[s].pc = "idle" \/ calls'[s].code = 401)
<1> DEFINE code == 401
           got == {}
<1>1. Respond(s, code, got)
  OBVIOUS
<1> HIDE DEF code, got
<1>2. Ends(s) /\ (calls'[s].pc = "idle" \/ calls'[s].code = code)
  BY <1>1, RespondMove
<1> QED BY <1>2 DEF code

\* A handler goes on.
LEMMA ContinueMove ==
  ASSUME RestInv, NEW s \in Slots, NEW pc, Continue(s, pc)
  PROVE  Local(s) /\ calls'[s].pc = pc /\ calls'[s].token = calls[s].token
<1>1. calls[s] \in Call /\ calls' = [calls EXCEPT ![s] = [calls[s] EXCEPT !.pc = pc]]
  BY DEF Continue, RestInv, TypeOK
<1>2. Local(s) /\ calls'[s] = [calls[s] EXCEPT !.pc = pc]
  BY <1>1, MoveLemma, Zenon
<1> QED BY <1>1, <1>2 DEF Call

\* The steps of a handler: the request comes from a token that was accepted, and
\* the request ends or goes on inside the handler.
Handler(s) ==
  /\ \/ Authenticated(s)
     \/ calls[s].pc \in {"links", "fetch", "secret", "checked", "edit"} /\ UNCHANGED cached
  /\ UNCHANGED valid
  /\ Local(s) /\ calls'[s].pc # "confirmed"

\* A handler responds or goes on without a change.
LEMMA ReadHandler ==
  ASSUME RestInv, NEW s \in Slots,
         Refuse(s) \/ ShowCluster(s) \/ ListClusters(s) \/ GetClusterCredentials(s)
           \/ GetClusterEvents(s) \/ GetOpenstackMetadata(s) \/ Unsecured(s) \/ GetClusterInfo(s)
           \/ GetLinks(s) \/ GithubAnswers(s)
  PROVE  Handler(s)
<1>1. ASSUME NEW code, NEW got, Respond(s, code, got)
      PROVE  Local(s) /\ calls'[s].pc # "confirmed"
  BY <1>1, RespondMove DEF Ends
<1>2. ASSUME NEW pc, Continue(s, pc), pc # "confirmed"
      PROVE  Local(s) /\ calls'[s].pc # "confirmed"
  BY <1>2, ContinueMove
<1>3. Local(s) /\ calls'[s].pc # "confirmed"
  BY <1>1, <1>2, Zenon
     DEF Refuse, ShowCluster, ListClusters, GetClusterCredentials, GetClusterEvents,
         GetOpenstackMetadata, Unsecured, GetClusterInfo, GetLinks, GithubAnswers
<1>4. UNCHANGED valid
  BY DEF Refuse, ShowCluster, ListClusters, GetClusterCredentials, GetClusterEvents, unserved,
         GetOpenstackMetadata, Unsecured, GetClusterInfo, GetLinks, GithubAnswers
<1>5. \/ Authenticated(s)
      \/ calls[s].pc \in {"links", "fetch", "secret", "checked", "edit"} /\ UNCHANGED cached
  BY DEF Refuse, ShowCluster, ListClusters, GetClusterCredentials, GetClusterEvents, Serve,
         GetOpenstackMetadata, Unsecured, GetClusterInfo, GetLinks, GithubAnswers
<1> QED BY <1>3, <1>4, <1>5 DEF Handler

\* A handler edits a kluster.
LEMMA WriteHandler ==
  ASSUME RestInv, NEW s \in Slots,
         CreateCluster(s) \/ UpdateCluster(s) \/ TerminateCluster(s) \/ AnswerLost(s)
  PROVE  Handler(s)
<1>1. UNCHANGED <<valid, links, linkMutex>>
  BY DEF CreateCluster, UpdateCluster, TerminateCluster, AnswerLost, unserved
<1>2. \/ Authenticated(s)
      \/ calls[s].pc \in {"links", "fetch", "secret", "checked", "edit"} /\ UNCHANGED cached
  BY DEF CreateCluster, UpdateCluster, TerminateCluster, TerminateCheck, AnswerLost, Serve
<1>3. ASSUME NEW code, NEW got, Respond(s, code, got) PROVE Ends(s)
  BY <1>3, RespondMove
<1>4. ASSUME NEW absent, EditGet(s, absent) PROVE Local(s) /\ calls'[s].pc # "confirmed"
  <2> DEFINE c == [calls[s] EXCEPT !.pc = "edit", !.seen = klusters[KeyOf(s)], !.fresh = TRUE]
  <2>1. CASE calls' = [calls EXCEPT ![s] = c]
    <3>1. Local(s) /\ calls'[s] = c
      BY <2>1, MoveLemma, Zenon
    <3>2. calls[s] \in Call
      BY DEF RestInv, TypeOK
    <3>3. c.pc = "edit"
      BY <3>2 DEF Call
    <3> QED BY <3>1, <3>3
  <2>2. CASE Respond(s, absent, {})
    BY <1>3, <2>2, Zenon DEF Ends
  <2>3. calls' = [calls EXCEPT ![s] = c] \/ Respond(s, absent, {})
    BY <1>4 DEF EditGet, RestInv, TypeOK
  <2> QED BY <2>1, <2>2, <2>3
<1>5. ASSUME NEW absent, calls[s].pc = "edit", EditPut(s, absent) PROVE Ends(s)
  <2>1. CASE calls[s].fresh
    <3>1. WriteAndRespond(s, Edited(s))
      BY <1>5, <2>1 DEF EditPut
    <3> QED BY <1>1, <1>5, <2>1, <3>1, EditedLemma, WrittenLemma
  <2>2. CASE ~ calls[s].fresh
    BY <1>3, <1>5, <2>2, Zenon DEF EditPut
  <2> QED BY <2>1, <2>2
<1>6. CASE CreateCluster(s)
  <2>1. Serve(s, "CreateCluster")
    BY <1>6 DEF CreateCluster
  <2>2. CASE Creatable(s)
    <3>1. WriteAndRespond(s, Created(s))
      BY <1>6, <2>2 DEF CreateCluster
    <3>2. calls[s].pc \notin {"fetch", "idle"} /\ ProjectOf(calls[s]) \in Accounts
      BY <2>1, ServeLemma DEF Unsecure
    <3>3. Created(s) \in Object /\ Created(s).phase # "Absent" /\ Owned(KeyOf(s), Created(s))
      BY <2>1, CreatedLemma
    <3>4. Ends(s)
      BY <1>1, <3>1, <3>2, <3>3, WrittenLemma
    <3> QED BY <1>1, <1>2, <3>4 DEF Handler, Ends
  <2>3. CASE ~ Creatable(s)
    <3>1. Ends(s)
      BY <1>3, <1>6, <2>3, Zenon DEF CreateCluster
    <3> QED BY <1>1, <1>2, <3>1 DEF Handler, Ends
  <2> QED BY <2>2, <2>3
<1>7. CASE UpdateCluster(s) \/ TerminateCluster(s)
  <2>1. CASE \E absent \in {404, 500} : EditGet(s, absent)
    <3>1. Local(s) /\ calls'[s].pc # "confirmed"
      BY <1>4, <2>1
    <3> QED BY <1>1, <1>2, <3>1 DEF Handler
  <2>2. CASE calls[s].pc = "edit" /\ \E absent \in {404, 500} : EditPut(s, absent)
    <3>1. Ends(s)
      BY <1>5, <2>2
    <3> QED BY <1>1, <1>2, <3>1 DEF Handler, Ends
  <2>3. CASE TerminateCheck(s)
    <3>1. Local(s) /\ calls'[s].pc # "confirmed"
      <4>1. CASE Respond(s, 404, {})
        BY <1>3, <4>1, Zenon DEF Ends
      <4>2. CASE Respond(s, 409, {})
        BY <1>3, <4>2, Zenon DEF Ends
      <4>3. CASE Continue(s, "checked")
        BY <4>3, ContinueMove
      <4> QED BY <2>3, <4>1, <4>2, <4>3 DEF TerminateCheck
    <3> QED BY <1>1, <1>2, <3>1 DEF Handler
  <2> QED BY <1>7, <2>1, <2>2, <2>3 DEF UpdateCluster, TerminateCluster
<1>8. CASE AnswerLost(s)
  <2>1. /\ calls[s].pc \notin {"fetch", "idle"} /\ ProjectOf(calls[s]) \in Accounts
    BY <1>8, UnansweredLemma
  <2>2. PICK object \in Object : /\ WriteUnanswered(s, object)
                                /\ Owned(KeyOf(s), object) /\ object.phase # "Absent"
    BY <1>8, UnansweredLemma
  <2>3. Ends(s)
    BY <1>1, <2>1, <2>2, WrittenLemma
  <2> QED BY <1>1, <1>2, <2>3 DEF Handler, Ends
<1> QED BY <1>6, <1>7, <1>8

\* What the step of a request does to the tokens: only a token Keystone has
\* confirmed enters the cache, only a valid one is confirmed, and a request with
\* a token that is neither valid nor cached is refused.
Guards(s) ==
  /\ UNCHANGED valid /\ Local(s)
  /\ \A t \in cached' : t \in cached \/ (calls[s].token = t /\ calls[s].pc = "confirmed")
  /\ calls'[s].pc = "confirmed" => /\ calls'[s].token = calls[s].token
                                   /\ calls[s].pc = "confirmed" \/ calls[s].token \in valid
  /\ /\ calls[s].pc \in {"sent", "validate"} /\ Guarded(calls[s])
     /\ calls[s].token \notin valid \cup cached
     => calls'[s].pc \in {"sent", "validate", "idle"} \/ calls'[s].code = 401

\* Every step of a handler is one.
LEMMA HandlerGuards ==
  ASSUME RestInv, NEW s \in Slots, Handler(s)
  PROVE  Guards(s)
<1>1. \A t \in cached' : t \in cached \/ (calls[s].token = t /\ calls[s].pc = "confirmed")
  BY CacheLemma DEF Handler, RestInv, TypeOK
<1>2. ~ (/\ calls[s].pc \in {"sent", "validate"} /\ Guarded(calls[s])
         /\ calls[s].token \notin valid \cup cached)
  BY DEF Handler, Authenticated
<1> QED BY <1>1, <1>2 DEF Handler, Guards

\* And so is every other step of a request.
LEMMA StepGuards ==
  ASSUME RestInv, NEW s \in Slots,
         Submit(s) \/ Receive(s) \/ Timeout(s) \/ Lost(s) \/ Handle(s)
           \/ GithubAnswers(s) \/ RequestFails(s) \/ AnswerLost(s)
  PROVE  Guards(s)
<1>0. calls[s] \in Call /\ calls \in [Slots -> Call]
  BY DEF RestInv, TypeOK
<1>1. CASE Submit(s)
  <2>1. PICK q \in Requests :
          calls' = [calls EXCEPT ![s] = [Idle EXCEPT !.pc = "sent", !.waiting = TRUE, !.op = q.op,
                                           !.token = q.token, !.name = q.name, !.body = q.body]]
    BY <1>1 DEF Submit
  <2> DEFINE c == [Idle EXCEPT !.pc = "sent", !.waiting = TRUE, !.op = q.op,
                               !.token = q.token, !.name = q.name, !.body = q.body]
  <2>2. Local(s) /\ calls'[s] = c
    BY <2>1, MoveLemma, Zenon
  <2>3. c.pc = "sent"
    BY IdleLemma DEF Idle
  <2> HIDE DEF c
  <2> QED BY <1>1, <2>2, <2>3 DEF Submit, Guards
<1>2. CASE Receive(s) \/ Lost(s)
  <2>1. Local(s) /\ calls'[s] = Idle
    BY <1>2, MoveLemma, Zenon DEF Receive, Lost
  <2>2. UNCHANGED <<valid, cached>>
    BY <1>2 DEF Receive, Lost
  <2> QED BY <2>1, <2>2, IdleLemma DEF Guards
<1>3. CASE Timeout(s)
  <2> DEFINE c == [calls[s] EXCEPT !.waiting = FALSE]
  <2>1. calls' = [calls EXCEPT ![s] = c] /\ UNCHANGED <<valid, cached>>
    BY <1>0, <1>3 DEF Timeout
  <2>2. Local(s) /\ calls'[s] = c
    BY <2>1, MoveLemma, Zenon
  <2>3. c.pc = calls[s].pc /\ c.token = calls[s].token
    BY <1>0 DEF Call
  <2> HIDE DEF c
  <2> QED BY <2>1, <2>2, <2>3 DEF Guards
<1>4. CASE LookupToken(s)
  <2>1. Local(s) /\ calls'[s].pc = "validate"
    BY <1>4, ContinueMove DEF LookupToken
  <2>2. UNCHANGED <<valid, cached>>
    BY <1>4 DEF LookupToken, unserved
  <2> QED BY <2>1, <2>2 DEF Guards
<1>5. CASE ValidateToken(s)
  <2>1. UNCHANGED <<valid, cached>>
    BY <1>5 DEF ValidateToken, unserved
  <2>2. CASE calls[s].token \in valid
    <3>1. Local(s) /\ calls'[s].token = calls[s].token
      BY <1>5, <2>2, ContinueMove DEF ValidateToken
    <3> QED BY <2>1, <2>2, <3>1 DEF Guards
  <2>3. CASE calls[s].token \notin valid
    <3>1. Ends(s) /\ (calls'[s].pc = "idle" \/ calls'[s].code = 401)
      BY <1>5, <2>3, UnauthorizedMove DEF ValidateToken
    <3> QED BY <2>1, <3>1 DEF Guards, Ends
  <2> QED BY <2>2, <2>3
<1>6. CASE RequestFails(s)
  <2>1. UNCHANGED valid
    BY <1>6 DEF RequestFails
  <2>2. CASE calls[s].pc = "validate" /\ Respond(s, 401, {}) /\ UNCHANGED cached
    <3>1. Ends(s) /\ (calls'[s].pc = "idle" \/ calls'[s].code = 401)
      BY <2>2, UnauthorizedMove
    <3> QED BY <2>1, <2>2, <3>1 DEF Guards, Ends
  <2>3. CASE /\ \/ calls[s].pc \in {"secret", "checked", "edit"} /\ UNCHANGED cached
                \/ \E op \in Configured \ {"Info", "ListAPIVersions", "GetClusterInfo"} : Serve(s, op)
             /\ Respond(s, 500, {})
    <3>1. Ends(s)
      BY <2>3, RespondMove, Zenon
    <3>2. Handler(s)
      BY <2>1, <2>3, <3>1 DEF Handler, Ends, Serve
    <3> QED BY <3>2, HandlerGuards
  <2> QED BY <1>6, <2>2, <2>3 DEF RequestFails
<1> QED BY <1>1, <1>2, <1>3, <1>4, <1>5, <1>6, ReadHandler, WriteHandler, HandlerGuards DEF Handle

\* A token that is gone stays gone, and the requests with it are refused.
LEMMA DeadLemma ==
  ASSUME RestInv, [Next]_vars, NEW t \in Tokens, Dead(t)
  PROVE  /\ Dead(t)'
         /\ \A s \in Slots :
              calls[s].token = t /\ calls[s].pc \in {"sent", "validate"} /\ Guarded(calls[s]) =>
                calls'[s].pc \in {"sent", "validate", "idle"} \/ calls'[s].code = 401
<1>1. ASSUME NEW s \in Slots, Guards(s)
      PROVE  /\ Dead(t)'
             /\ \A x \in Slots :
                  calls[x].token = t /\ calls[x].pc \in {"sent", "validate"} /\ Guarded(calls[x]) =>
                    calls'[x].pc \in {"sent", "validate", "idle"} \/ calls'[x].code = 401
  <2>1. t \notin valid \cup cached /\ \A x \in Slots : calls[x].token = t => calls[x].pc # "confirmed"
    BY DEF Dead
  <2>2. t \notin valid' \cup cached'
    BY <1>1, <2>1 DEF Guards
  <2>3. \A x \in Slots : calls'[x].token = t => calls'[x].pc # "confirmed"
    BY <1>1, <2>1 DEF Guards, Local
  <2>4. \A x \in Slots :
          calls[x].token = t /\ calls[x].pc \in {"sent", "validate"} /\ Guarded(calls[x]) =>
            calls'[x].pc \in {"sent", "validate", "idle"} \/ calls'[x].code = 401
    BY <1>1, <2>1 DEF Guards, Local
  <2> QED BY <2>2, <2>3, <2>4 DEF Dead
<1>2. ASSUME valid' \subseteq valid, cached' \subseteq cached,
             \A x \in Slots : calls'[x].pc = calls[x].pc /\ calls'[x].token = calls[x].token
      PROVE  /\ Dead(t)'
             /\ \A x \in Slots : calls[x].pc \in {"sent", "validate"} => calls'[x].pc \in {"sent", "validate"}
  BY <1>2 DEF Dead
<1>3. CASE \E s \in Slots : Submit(s) \/ Receive(s) \/ Timeout(s) \/ Lost(s) \/ Handle(s)
                              \/ GithubAnswers(s) \/ RequestFails(s) \/ AnswerLost(s)
  BY <1>1, <1>3, StepGuards
<1>4. CASE \E k \in Keys : Operator(k)
  <2>1. PICK k \in Keys : Operator(k)
    BY <1>4
  <2>2. UNCHANGED <<valid, cached>>
    BY <2>1 DEF Operator
  <2>3. UNCHANGED calls \/ \E object : WriteKluster(k, object, calls)
    BY <2>1 DEF Operator
  <2>4. \A x \in Slots : calls[x] \in Call
    BY DEF RestInv, TypeOK
  <2>5. \A x \in Slots : calls'[x] = calls[x] \/ calls'[x] = [calls[x] EXCEPT !.fresh = FALSE]
    BY <2>3 DEF WriteKluster
  <2>6. \A x \in Slots : calls'[x].pc = calls[x].pc /\ calls'[x].token = calls[x].token
    BY <2>4, <2>5, StaleLemma
  <2> QED BY <1>2, <2>2, <2>6
<1>5. CASE (\E u \in Tokens \cap Revocable : Revoke(u)) \/ (\E u \in Tokens : Expire(u))
  <2>1. valid' \subseteq valid /\ cached' \subseteq cached /\ UNCHANGED calls
    BY <1>5 DEF Revoke, Expire
  <2> QED BY <1>2, <2>1
<1>6. CASE UNCHANGED vars
  <2>1. UNCHANGED <<valid, cached, calls>>
    BY <1>6 DEF vars
  <2> QED BY <1>2, <2>1
<1> QED BY <1>3, <1>4, <1>5, <1>6 DEF Next

\* A revoked token is usable only through a validation made before, in the cache
\* or on its way there: once those are gone, no request puts it back, and one that
\* comes with it gets a 401 (keystone_auth.go, Validate of the keystone library).
THEOREM RevokedStays == Spec => RevokedRefused
<1>1. RestInv /\ [Next]_vars =>
        [\A t \in Tokens : Dead(t) =>
           /\ Dead(t)'
           /\ \A s \in Slots :
                calls[s].token = t /\ calls[s].pc \in {"sent", "validate"} /\ Guarded(calls[s]) =>
                  calls'[s].pc \in {"sent", "validate", "idle"} \/ calls'[s].code = 401]_vars
  BY DeadLemma
<1> QED BY <1>1, RestInvariant, PTL DEF Spec, RevokedRefused
=============================================================================
