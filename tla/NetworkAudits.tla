--------------------------- MODULE NetworkAudits ----------------------------
(***************************************************************************)
(* From a setup (flags, configuration file, environment, refs) to the      *)
(* request that goes out: of a step, of one of the commands of cli.go, or  *)
(* of the three wfctl compute network-audits commands, which come to their *)
(* client alike.  What is done with the answers is the subject of the      *)
(* other modules; which fields of an audit are printed is not modelled.    *)
(***************************************************************************)
EXTENDS Connections

CONSTANTS
    Files,      \* what a configuration file may define: sequences of providers
    Timeouts    \* the timeouts that may be given, in seconds

ASSUME TimeoutsAssumption == Timeouts \subseteq Int
ASSUME FilesAssumption ==
    \A file \in Files :
        /\ DOMAIN file \subseteq Nat
        /\ \A i \in DOMAIN file :
              /\ file[i].server \in Servers
              /\ file[i].timeout \subseteq Int
              /\ file[i].ref \in {"raw"} \cup DOMAIN Normalized

VARIABLES caller, setup, pc, client, sent

vars == <<caller, setup, pc, client, sent>>

Callers == {"step", "command", "network-audits"}

Optional(S) == {{}} \cup {{x} : x \in S}

Env == [server : Optional(Servers \ Malformed), tokens : SUBSET Variables]

\* epoch says whether --expected-ref-key-epoch is the one of this plugin.
Flags(tokenEnvs, names, epochs) ==
    [server : Optional(Servers), token : Optional({"flag"}), timeout : Optional(Timeouts),
     tokenEnv : tokenEnvs, provider : names, epoch : epochs]

Setups(c) ==
    CASE c = "step" ->
            [server : Servers, timeout : Timeouts \cup {30},
             places : [ToSet(RuntimePlaces) -> {"absent", "empty", "set"}]]
      [] c = "command" ->
            [flags : Flags({{}}, {""}, {TRUE}), env : Env]
      [] c = "network-audits" ->
            [flags : Flags(Optional(Variables), {"", "p1"}, BOOLEAN), env : Env,
             file : Optional(Files)]

Init ==
    /\ caller \in Callers
    /\ setup \in Setups(caller)
    /\ pc = "start"
    /\ client = {}
    /\ sent = {}

ClientOf(c, s) ==
    CASE c = "step"           -> StepClient(s)
      [] c = "command"        -> CommandClient(s)
      [] c = "network-audits" -> AuditClient(s)

\* requireExpectedNetworkAuditRefKeyEpoch, before anything is resolved.
EpochAccepted(c, s) == c = "network-audits" => s.flags.epoch

Connect ==
    /\ pc = "start"
    /\ client' = IF EpochAccepted(caller, setup) THEN ClientOf(caller, setup) ELSE {}
    /\ pc' = IF client' = {} THEN "failed" ELSE "connected"
    /\ UNCHANGED <<caller, setup, sent>>

\* Each request of a client goes to its server with its token.
Request ==
    /\ pc = "connected"
    /\ sent' = sent \cup client
    /\ pc' = "done"
    /\ UNCHANGED <<caller, setup, client>>

Finished == pc \in {"done", "failed"} /\ UNCHANGED vars

Next == Connect \/ Request \/ Finished

Spec == Init /\ [][Next]_vars

-----------------------------------------------------------------------------
(* A client has one of the servers and, whatever timeout was given or left *)
(* out, a positive one: every request of the plugin ends.                  *)
TypeOK ==
    /\ pc \in {"start", "connected", "done", "failed"}
    /\ sent \subseteq client
    /\ \A c \in client : c.server \in Servers /\ c.timeout \in Nat \ {0}

(* SPEC.md V12: by whichever of the three ways a server and a token come   *)
(* together, the token does not go out in cleartext to another host.       *)
TokenNeverInCleartext ==
    \A r \in sent : r.token # NoToken => r.server \notin Cleartext

\* The providers the setup can mean.
Meant ==
    {p \in UNION {ToSet(file) : file \in setup.file} : setup.flags.provider \in {"", p.name}}

\* The variables the token of a provider may come from.
VariablesOf(p) == ToSet(CLIRefEnvCandidates(p.ref))

(* Where a server and a token are taken from different places they still   *)
(* belong together.  With a configuration file and no --server, a request  *)
(* goes to the server of one of its providers, and its token is that of a  *)
(* flag or comes from the ref of this very provider: never from that of    *)
(* another, nor from COMPUTE_API_TOKEN unless the ref stands for it.       *)
CredentialsStayTogether ==
    caller = "network-audits" /\ setup.file # {} /\ setup.flags.server = {} =>
        \A r \in sent : \E p \in Meant :
            /\ r.server = p.server
            /\ r.token \in setup.flags.token \cup setup.flags.tokenEnv \cup VariablesOf(p)

(* SPEC.md V25 and README.md: a request of network-audits goes out only if *)
(* the epoch matches, and if a file that is given has the provider that    *)
(* was named or, where none was, only one.  Of the token sources the first *)
(* that is named decides, --token, --token-env, then the ref: if it has no *)
(* token there is no request, and none of the later sources takes over.    *)
RequestsAreAsNamed ==
    caller = "network-audits" =>
        \A r \in sent :
            /\ setup.flags.epoch
            /\ setup.file # {} => Meant # {}
            /\ setup.file # {} /\ setup.flags.provider = "" => Cardinality(Meant) = 1
            /\ r.token = "flag" <=> setup.flags.token # {}
            /\ r.token \in {"flag", NoToken} \cup setup.env.tokens
            /\ setup.flags.token = {} /\ setup.flags.tokenEnv # {} =>
                  setup.flags.tokenEnv = {r.token}
            /\ setup.flags.token = {} /\ setup.flags.tokenEnv = {} =>
                  \/ \E p \in Meant : r.token \in VariablesOf(p)
                  \/ setup.file = {} /\ r.token \in {"COMPUTE_API_TOKEN", NoToken}
=============================================================================
