------------------------------ MODULE MCRestApi ------------------------------
(* Small instances of RestApi for TLC. *)
EXTENDS RestApi

\* Two users of project a, an administrator of project b, and a token without one.
MCPrincipal ==
     "admin"    :> [project |-> "a", roles |-> {"kubernetes_admin"}]
  @@ "member"   :> [project |-> "a", roles |-> {"kubernetes_member"}]
  @@ "other"    :> [project |-> "b", roles |-> {"kubernetes_admin"}]
  @@ "unscoped" :> [project |-> "none", roles |-> {"kubernetes_admin"}]

\* A body that is fine, one that validation refuses, and one the handler panics over.
Good(pools) == [name |-> TRUE, spec |-> TRUE, status |-> TRUE, dns |-> TRUE, pools |-> pools]
Bad == {[Good(<<>>) EXCEPT !.spec = FALSE], [Good(<<>>) EXCEPT !.dns = FALSE]}

Request(op, token, name, body) == [op |-> op, token |-> token, name |-> name, body |-> body]
\* The name alone, and with the account of the callers of project a, are one
\* kluster; project b comes from the second to the third, which a may send too.
Short == <<"k">>
Full  == <<"k", "a">>
Both  == <<"k", "a", "b">>

MCRequests ==
  {Request("CreateCluster", "admin", Short, b) : b \in Bad \cup {Good(<<"p">>)}}
  \cup {Request("CreateCluster", "other", Full, Good(<<"p">>))}
  \cup {Request("UpdateCluster", t, Full, Good(<<"q">>)) : t \in {"admin", "member"}}
  \cup {Request("UpdateCluster", "admin", Both, Good(<<"q">>))}
  \cup {Request("TerminateCluster", "admin", Short, Good(<<>>))}
  \cup {Request("ListClusters", t, Short, Good(<<>>)) : t \in {"admin", "unscoped"}}
  \cup {Request("ShowCluster", "member", Full, Good(<<>>))}
  \cup {Request(op, "admin", Short, Good(<<>>)) :
           op \in {"GetClusterCredentials", "GetClusterEvents", "GetClusterInfo", "GetOpenstackMetadata",
                   "Info", "ListAPIVersions"}}
=============================================================================
