--------------------------- MODULE MCNetworkAudits --------------------------
(* A small instance of NetworkAudits: a server of each kind, and files     *)
(* with no provider, one, two with keys of their own, two of one name, and *)
(* one that cannot be used.  The key api-token stands for the variable     *)
(* that is the default of the other commands.                              *)
EXTENDS NetworkAudits

CONSTANTS local, https, http

P(name, server, ref, timeout) ==
    [name |-> name, server |-> server, ref |-> ref, timeout |-> timeout]

MCServers == {local, https, http, ""}
MCMalformed == {""}

MCVariables == {"API_TOKEN", "COMPUTE_API_TOKEN", "EDGE", "COMPUTE_EDGE"}
MCWithPrefix ==
    [v \in MCVariables |-> CASE v = "API_TOKEN" -> "COMPUTE_API_TOKEN"
                             [] v = "EDGE"      -> "COMPUTE_EDGE"
                             [] OTHER           -> v]
MCNormalized ==
    [key \in {"api-token", "edge", "compute.edge", "-"} |->
        CASE key = "api-token"    -> "API_TOKEN"
          [] key = "edge"         -> "EDGE"
          [] key = "compute.edge" -> "COMPUTE_EDGE"
          [] key = "-"            -> ""]

MCFiles ==
    {<<>>,
     <<P("p1", https, "api-token", {})>>,
     <<P("p2", http, "edge", {0})>>,
     <<P("p2", local, "api-token", {5}), P("p1", https, "compute.edge", {})>>,
     <<P("p1", local, "edge", {}), P("p1", https, "api-token", {})>>,
     <<P("p1", https, "-", {})>>,
     <<P("p1", https, "raw", {})>>}
=============================================================================
