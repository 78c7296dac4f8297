----------------------------- MODULE ApiProtocol -----------------------------
(***************************************************************************)
(* The contract of the REST API, as the code generated from swagger.yml    *)
(* states it twice: in pkg/api/client/operations for the caller and in     *)
(* pkg/api/rest/operations for the server.  Each operation has one         *)
(* definition per generated file.  Nothing in the program compares the two *)
(* halves; RestApi runs a request through both.                            *)
(***************************************************************************)
EXTENDS Integers, Sequences

-----------------------------------------------------------------------------
(* The caller: the request an operation sends and the type of result it    *)
(* asserts.  Every response type is named by a string; NAME is the name in *)
(* a path.                                                                 *)

Submits(method, path, asserts) == [method |-> method, path |-> path, asserts |-> asserts]

SubmitCreateCluster         == Submits("POST", "/api/v1/clusters", "CreateClusterCreated")
SubmitGetClusterCredentials == Submits("GET", "/api/v1/clusters/NAME/credentials", "GetClusterCredentialsOK")
SubmitGetClusterEvents      == Submits("GET", "/api/v1/clusters/NAME/events", "GetClusterEventsOK")
SubmitGetClusterInfo        == Submits("GET", "/api/v1/clusters/NAME/info", "GetClusterInfoOK")
SubmitGetOpenstackMetadata  == Submits("GET", "/api/v1/openstack/metadata", "GetOpenstackMetadataOK")
SubmitInfo                  == Submits("GET", "/info", "InfoOK")
SubmitListAPIVersions       == Submits("GET", "/api", "ListAPIVersionsOK")
SubmitListClusters          == Submits("GET", "/api/v1/clusters", "ListClustersOK")
SubmitShowCluster           == Submits("GET", "/api/v1/clusters/NAME", "ShowClusterOK")
SubmitTerminateCluster      == Submits("DELETE", "/api/v1/clusters/NAME", "TerminateClusterAccepted")
SubmitUpdateCluster         == Submits("PUT", "/api/v1/clusters/NAME", "UpdateClusterOK")

\* The parameters written to the request.  New...Params sets the default timeout.
Writes(params) == [params |-> params, timeout |-> TRUE]

\* Mutant of GetClusterInfoParams: made with a context, which sets no timeout.
GetClusterInfoParamsWithContext == [params |-> {"name"}, timeout |-> FALSE]

CreateClusterParams         == Writes({"body"})
GetClusterCredentialsParams == Writes({"name"})
GetClusterEventsParams      == Writes({"name"})
GetClusterInfoParams        == Writes({"name"})
GetOpenstackMetadataParams  == Writes({})
InfoParams                  == Writes({})
ListAPIVersionsParams       == Writes({})
ListClustersParams          == Writes({})
ShowClusterParams           == Writes({"name"})
TerminateClusterParams      == Writes({"name"})
UpdateClusterParams         == Writes({"body", "name"})

\* The reader: the result and the payload it decodes for the success code, and
\* the Default response most operations have for every other code.
Reads(code, type, payload, default) ==
  [code |-> code, type |-> type, payload |-> payload, default |-> default]

CreateClusterReader         == Reads(201, "CreateClusterCreated", "Kluster", "CreateClusterDefault")
GetClusterCredentialsReader == Reads(200, "GetClusterCredentialsOK", "Credentials", "GetClusterCredentialsDefault")
GetClusterEventsReader      == Reads(200, "GetClusterEventsOK", "Events", "GetClusterEventsDefault")
GetClusterInfoReader        == Reads(200, "GetClusterInfoOK", "KlusterInfo", "GetClusterInfoDefault")
GetOpenstackMetadataReader  == Reads(200, "GetOpenstackMetadataOK", "OpenstackMetadata", "GetOpenstackMetadataDefault")
InfoReader                  == Reads(200, "InfoOK", "Info", "none")
ListAPIVersionsReader       == Reads(200, "ListAPIVersionsOK", "APIVersions", "none")
ListClustersReader          == Reads(200, "ListClustersOK", "Klusters", "ListClustersDefault")
ShowClusterReader           == Reads(200, "ShowClusterOK", "Kluster", "ShowClusterDefault")
TerminateClusterReader      == Reads(202, "TerminateClusterAccepted", "none", "TerminateClusterDefault")
UpdateClusterReader         == Reads(200, "UpdateClusterOK", "Kluster", "UpdateClusterDefault")

-----------------------------------------------------------------------------
(* The server: the stages of ServeHTTP before the handler is called, what  *)
(* the binding of the parameters requires, and the code and payload of the *)
(* success response.                                                       *)

Secured == <<"authenticate", "authorize", "bind">>
Open    == <<"bind">>

ServeCreateCluster          == Secured
ServeGetClusterCredentials  == Secured
ServeGetClusterEvents       == Secured
ServeGetClusterInfo         == Secured
ServeGetOpenstackMetadata   == Secured
ServeInfo                   == Open
ServeListAPIVersions        == Open
ServeListClusters           == Secured
ServeShowCluster            == Secured
ServeTerminateCluster       == Secured
ServeUpdateCluster          == Secured

BindCreateCluster           == [requires |-> {"body"}]
BindGetClusterCredentials   == [requires |-> {"name"}]
BindGetClusterEvents        == [requires |-> {"name"}]
BindGetClusterInfo          == [requires |-> {"name"}]
BindGetOpenstackMetadata    == [requires |-> {}]
BindInfo                    == [requires |-> {}]
BindListAPIVersions         == [requires |-> {}]
BindListClusters            == [requires |-> {}]
BindShowCluster             == [requires |-> {"name"}]
BindTerminateCluster        == [requires |-> {"name"}]
BindUpdateCluster           == [requires |-> {"body", "name"}]

\* Mutant of RespondTerminateCluster: the code of the other operations.
RespondTerminateClusterOK == [success |-> 200, payload |-> "none"]

RespondCreateCluster        == [success |-> 201, payload |-> "Kluster"]
RespondGetClusterCredentials == [success |-> 200, payload |-> "Credentials"]
RespondGetClusterEvents     == [success |-> 200, payload |-> "Events"]
RespondGetClusterInfo       == [success |-> 200, payload |-> "KlusterInfo"]
RespondGetOpenstackMetadata == [success |-> 200, payload |-> "OpenstackMetadata"]
RespondInfo                 == [success |-> 200, payload |-> "Info"]
RespondListAPIVersions      == [success |-> 200, payload |-> "APIVersions"]
RespondListClusters         == [success |-> 200, payload |-> "Klusters"]
RespondShowCluster          == [success |-> 200, payload |-> "Kluster"]
RespondTerminateCluster     == [success |-> 202, payload |-> "none"]
RespondUpdateCluster        == [success |-> 200, payload |-> "Kluster"]

-----------------------------------------------------------------------------
(* The tables over all operations.                                         *)

Operation(submit, params, reader, serve, bind, respond) ==
  [submit |-> submit, params |-> params, reader |-> reader,
   serve |-> serve, bind |-> bind, respond |-> respond]

Ops ==
  {"CreateCluster", "GetClusterCredentials", "GetClusterEvents", "GetClusterInfo", "GetOpenstackMetadata",
   "Info", "ListAPIVersions", "ListClusters", "ShowCluster", "TerminateCluster", "UpdateCluster"}

Operations ==
  [op \in Ops |->
     CASE op = "CreateCluster" -> Operation(SubmitCreateCluster, CreateClusterParams, CreateClusterReader,
            ServeCreateCluster, BindCreateCluster, RespondCreateCluster)
       [] op = "GetClusterCredentials" -> Operation(SubmitGetClusterCredentials, GetClusterCredentialsParams, GetClusterCredentialsReader,
            ServeGetClusterCredentials, BindGetClusterCredentials, RespondGetClusterCredentials)
       [] op = "GetClusterEvents" -> Operation(SubmitGetClusterEvents, GetClusterEventsParams, GetClusterEventsReader,
            ServeGetClusterEvents, BindGetClusterEvents, RespondGetClusterEvents)
       [] op = "GetClusterInfo" -> Operation(SubmitGetClusterInfo, GetClusterInfoParams, GetClusterInfoReader,
            ServeGetClusterInfo, BindGetClusterInfo, RespondGetClusterInfo)
       [] op = "GetOpenstackMetadata" -> Operation(SubmitGetOpenstackMetadata, GetOpenstackMetadataParams, GetOpenstackMetadataReader,
            ServeGetOpenstackMetadata, BindGetOpenstackMetadata, RespondGetOpenstackMetadata)
       [] op = "Info" -> Operation(SubmitInfo, InfoParams, InfoReader,
            ServeInfo, BindInfo, RespondInfo)
       [] op = "ListAPIVersions" -> Operation(SubmitListAPIVersions, ListAPIVersionsParams, ListAPIVersionsReader,
            ServeListAPIVersions, BindListAPIVersions, RespondListAPIVersions)
       [] op = "ListClusters" -> Operation(SubmitListClusters, ListClustersParams, ListClustersReader,
            ServeListClusters, BindListClusters, RespondListClusters)
       [] op = "ShowCluster" -> Operation(SubmitShowCluster, ShowClusterParams, ShowClusterReader,
            ServeShowCluster, BindShowCluster, RespondShowCluster)
       [] op = "TerminateCluster" -> Operation(SubmitTerminateCluster, TerminateClusterParams, TerminateClusterReader,
            ServeTerminateCluster, BindTerminateCluster, RespondTerminateCluster)
       [] op = "UpdateCluster" -> Operation(SubmitUpdateCluster, UpdateClusterParams, UpdateClusterReader,
            ServeUpdateCluster, BindUpdateCluster, RespondUpdateCluster)]

\* HandlerFor, and the handler cache of the generated API: method and path select
\* the operation, or none (404 or 405).
HandlerFor(method, path) ==
  LET route == <<method, path>>
  IN CASE route = <<"POST", "/api/v1/clusters">> -> "CreateCluster"
       [] route = <<"GET", "/api/v1/clusters/NAME/credentials">> -> "GetClusterCredentials"
       [] route = <<"GET", "/api/v1/clusters/NAME/events">> -> "GetClusterEvents"
       [] route = <<"GET", "/api/v1/clusters/NAME/info">> -> "GetClusterInfo"
       [] route = <<"GET", "/api/v1/openstack/metadata">> -> "GetOpenstackMetadata"
       [] route = <<"GET", "/info">> -> "Info"
       [] route = <<"GET", "/api">> -> "ListAPIVersions"
       [] route = <<"GET", "/api/v1/clusters">> -> "ListClusters"
       [] route = <<"GET", "/api/v1/clusters/NAME">> -> "ShowCluster"
       [] route = <<"DELETE", "/api/v1/clusters/NAME">> -> "TerminateCluster"
       [] route = <<"PUT", "/api/v1/clusters/NAME">> -> "UpdateCluster"
       [] OTHER -> "none"

\* ReadResponse, and the type assertion after it.  The caller panics on a result
\* of another type: the Default response is returned as a result for a 2xx code.
ReadResponse(op, code, payload) ==
  LET reader == Operations[op].reader
  IN CASE code = reader.code /\ payload # reader.payload -> "error"
       [] code = reader.code /\ payload = reader.payload ->
            IF reader.type = Operations[op].submit.asserts THEN "ok" ELSE "panic"
       [] code # reader.code ->
            IF reader.default # "none" /\ code \div 100 = 2 THEN "panic" ELSE "error"
=============================================================================
