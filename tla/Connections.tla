---------------------------- MODULE Connections -----------------------------
(***************************************************************************)
(* How a step or a command comes to its HTTP client: which server, which   *)
(* token, which timeout.  Three ways lead to newComputeClient (client.go): *)
(*                                                                         *)
(*   a step         resolves auth_token_ref in the runtime configuration   *)
(*                  and the metadata (refs.go, steps.go);                  *)
(*   a command      takes flags whose defaults are environment variables   *)
(*                  (cliCommon in cli.go);                                 *)
(*   network-audits joins flags, a compute.provider module of a            *)
(*                  configuration file and the environment                 *)
(*                  (cliNetworkAuditFlags in cli.go, module.go).           *)
(*                                                                         *)
(* A token is the name of the place it was found in, NoToken the empty     *)
(* string.  What may be missing is a set with at most one element.         *)
(***************************************************************************)
EXTENDS Integers, SequencesExt

CONSTANTS
    Servers,       \* the URLs that occur
    Cleartext,     \* those with http to a host that is not a loopback
    Malformed,     \* those that are not absolute http(s) URLs, "" among them
    Localhost,     \* http://localhost:8080
    NoToken,
    Variables,     \* the names of environment variables that occur
    Normalized,    \* of the key of a ref: upper case, _ for anything but
                   \* letters and digits, and none of these at its ends
    WithPrefix     \* of a name: COMPUTE_ put in front unless it is there

ASSUME ServersAssumption ==
    /\ Cleartext \cup Malformed \subseteq Servers
    /\ "" \in Malformed
    /\ Localhost \in Servers \ (Cleartext \cup Malformed)

ASSUME VariablesAssumption ==
    /\ "COMPUTE_API_TOKEN" \in Variables
    /\ {"flag", "", NoToken} \cap Variables = {}
    /\ NoToken # "flag"
    /\ Normalized \in [DOMAIN Normalized -> Variables \cup {""}]
    /\ WithPrefix \in [Variables -> Variables]

\* Mistake (B7 in SPEC.md): the scheme is not looked at.
RefusedIfMalformed(server, token) == server \in Malformed

Refused(server, token) ==
    \/ server \in Malformed
    \/ token # NoToken /\ server \in Cleartext

\* Mistake: the timeout is taken as it is.
PositiveAsGiven(timeout) == timeout

Positive(timeout) == IF timeout <= 0 THEN 30 ELSE timeout

NewComputeClient(server, token, timeout) ==
    IF Refused(server, token) THEN {}
    ELSE {[server |-> server, token |-> token, timeout |-> Positive(timeout)]}

-----------------------------------------------------------------------------
(* A step. *)

\* Where resolveRuntimeRef looks for the key of a ref, in order.
RuntimePlaces == <<"runtime nested", "runtime flat", "metadata nested", "metadata flat">>

\* The first place with a string decides, though the string be empty.
ResolveRuntimeRef(places) ==
    LET i == SelectInSeq(RuntimePlaces, LAMBDA p : places[p] # "absent")
    IN  IF i = 0 THEN {}
        ELSE {IF places[RuntimePlaces[i]] = "empty" THEN NoToken ELSE RuntimePlaces[i]}

StepClient(s) ==
    UNION {NewComputeClient(s.server, token, s.timeout) : token \in ResolveRuntimeRef(s.places)}

-----------------------------------------------------------------------------
(* The commands.  env.tokens are the variables that are not empty.         *)

OrElse(optional, default) == IF optional = {} THEN default ELSE CHOOSE x \in optional : TRUE

DefaultServerURL(env) == OrElse(env.server, Localhost)

AmbientToken(env) == OrElse({"COMPUTE_API_TOKEN"} \cap env.tokens, NoToken)

CommandClient(s) ==
    NewComputeClient(OrElse(s.flags.server, DefaultServerURL(s.env)),
                     OrElse(s.flags.token, AmbientToken(s.env)),
                     OrElse(s.flags.timeout, 30))

-----------------------------------------------------------------------------
(* network-audits. *)

\* providerConfig.validate: here a raw token, or a URL that is none.
ValidProvider(p) == p.server \notin Malformed /\ p.ref # "raw"

\* The first provider of that name, or without a name the only one.
ResolveProviderConfig(file, name) ==
    LET matches == {i \in DOMAIN file : name \in {"", file[i].name}}
        match == {i \in matches : IF name = "" THEN matches = {i}
                                               ELSE \A j \in matches : i <= j}
    IN  {p \in {file[i] : i \in match} : ValidProvider(p)}

\* The variable named like the key, then that with COMPUTE_ in front of it;
\* none for a key without letters and digits.
CLIRefEnvCandidates(key) ==
    LET name == Normalized[key]
    IN  IF name = "" THEN <<>>
        ELSE IF WithPrefix[name] = name THEN <<name>>
        ELSE <<name, WithPrefix[name]>>

\* The first candidate that is set.
ResolveCLIRef(key, env) ==
    LET names == CLIRefEnvCandidates(key)
        set == {i \in DOMAIN names : names[i] \in env.tokens}
    IN  {names[i] : i \in {i \in set : \A j \in set : i <= j}}

\* Mistake: a source that turns out empty gives way to the next one.
AuditTokenFallsBack(flags, providers, env) ==
    LET named == flags.token
                 \cup (flags.tokenEnv \cap env.tokens)
                 \cup UNION {ResolveCLIRef(p.ref, env) : p \in providers}
    IN  {OrElse(named, AmbientToken(env))}

\* The first source that was named has to have a token.
AuditToken(flags, providers, env) ==
    IF flags.token # {} THEN flags.token
    ELSE IF flags.tokenEnv # {} THEN flags.tokenEnv \cap env.tokens
    ELSE IF providers # {} THEN UNION {ResolveCLIRef(p.ref, env) : p \in providers}
    ELSE {AmbientToken(env)}

\* Mistake: the server of the environment comes before that of the provider.
AuditServerEnvFirst(flags, providers, env) ==
    OrElse(flags.server, OrElse(env.server, OrElse({p.server : p \in providers}, Localhost)))

\* A --server that is given counts, and if it is empty, leaves the default.
AuditServer(flags, providers, env) ==
    LET given == IF flags.server # {} THEN flags.server ELSE {p.server : p \in providers}
    IN  OrElse(given \ {""}, DefaultServerURL(env))

AuditTimeout(flags, providers) ==
    OrElse(flags.timeout, OrElse(UNION {p.timeout : p \in providers}, 30))

AuditClient(s) ==
    LET providers == UNION {ResolveProviderConfig(file, s.flags.provider) : file \in s.file}
    IN  IF s.file # {} /\ providers = {} THEN {}
        ELSE UNION {NewComputeClient(AuditServer(s.flags, providers, s.env), token,
                                     AuditTimeout(s.flags, providers)) :
                        token \in AuditToken(s.flags, providers, s.env)}
=============================================================================
