------------------------ MODULE NetworkAuditsProofs -------------------------
(***************************************************************************)
(* Proofs about Connections and NetworkAudits, for every set of servers,   *)
(* every configuration file, every timeout and whatever the environment    *)
(* holds.                                                                  *)
(***************************************************************************)
EXTENDS NetworkAudits, FiniteSetTheorems, TLAPS

-----------------------------------------------------------------------------
(* What there is of an optional value. *)

LEMMA OrElseTakes ==
    ASSUME NEW optional, NEW default
    PROVE  /\ optional = {} => OrElse(optional, default) = default
           /\ optional # {} => OrElse(optional, default) \in optional
BY DEF OrElse

-----------------------------------------------------------------------------
(* newComputeClient *)

\* What newComputeClient guarantees of a client.
Guarded(c) == c.token # NoToken => c.server \notin Cleartext

(* A client has the server and the token it was asked for, and is made     *)
(* only where the two may be used together.                                *)
LEMMA NewClient ==
    ASSUME NEW server, NEW token, NEW timeout,
           NEW c \in NewComputeClient(server, token, timeout)
    PROVE  /\ c.server = server /\ c.token = token /\ c.timeout = Positive(timeout)
           /\ server \notin Malformed
           /\ Guarded(c)
<1>1. /\ ~Refused(server, token)
      /\ c.server = server /\ c.token = token /\ c.timeout = Positive(timeout)
  BY DEF NewComputeClient
<1> QED BY <1>1 DEF Refused, Guarded

LEMMA PositiveTimeout ==
    ASSUME NEW timeout \in Int
    PROVE  Positive(timeout) \in Nat \ {0}
BY DEF Positive

-----------------------------------------------------------------------------
(* The provider of a configuration file. *)

\* The providers of the files that are given, at most one, that a name means.
Providers(files, name) == UNION {ResolveProviderConfig(file, name) : file \in files}

(* A provider that is found is one of the file, has the name that was      *)
(* given, is valid, and is the only one of the file if no name was.        *)
LEMMA ProviderOfFile ==
    ASSUME NEW file, NEW name, NEW p \in ResolveProviderConfig(file, name)
    PROVE  /\ p \in ToSet(file)
           /\ name \in {"", p.name}
           /\ ValidProvider(p)
           /\ name = "" => ToSet(file) = {p}
<1> DEFINE matches == {i \in DOMAIN file : name \in {"", file[i].name}}
<1>1. PICK i \in matches : /\ p = file[i] /\ ValidProvider(p)
                           /\ name = "" => matches = {i}
  BY DEF ResolveProviderConfig
<1>2. i \in DOMAIN file /\ name \in {"", file[i].name}
  BY <1>1
<1>3. name = "" => matches = DOMAIN file
  OBVIOUS
<1>4. name = "" => \A j \in DOMAIN file : file[j] = p
  BY <1>1, <1>3
<1> QED BY <1>1, <1>2, <1>4 DEF ToSet

(* The token of a ref is that of a candidate which is set, and there are   *)
(* no candidates but variables.                                            *)
LEMMA TokenOfRef ==
    ASSUME NEW key \in DOMAIN Normalized, NEW env, NEW token \in ResolveCLIRef(key, env)
    PROVE  token \in ToSet(CLIRefEnvCandidates(key)) /\ token \in env.tokens /\ token \in Variables
<1>1. PICK i \in DOMAIN CLIRefEnvCandidates(key) :
         token = CLIRefEnvCandidates(key)[i] /\ token \in env.tokens
  BY DEF ResolveCLIRef
<1>2. token \in Variables
  <2> DEFINE name == Normalized[key]
  <2>1. name \in Variables \cup {""}
    BY VariablesAssumption
  <2>2. name \in Variables => WithPrefix[name] \in Variables
    BY VariablesAssumption
  <2> HIDE DEF name
  <2>3. CLIRefEnvCandidates(key) = IF name = "" THEN <<>>
                                   ELSE IF WithPrefix[name] = name THEN <<name>>
                                   ELSE <<name, WithPrefix[name]>>
    BY DEF CLIRefEnvCandidates, name
  <2> DEFINE candidates == CLIRefEnvCandidates(key)
  <2>4. PICK k \in DOMAIN candidates : token = candidates[k]
    BY <1>1
  <2>5. CASE name = ""
    <3>1. candidates = <<>>
      BY <2>3, <2>5
    <3> QED BY <2>4, <3>1
  <2>6. CASE name # "" /\ WithPrefix[name] = name
    <3>1. candidates = <<name>>
      BY <2>3, <2>6
    <3> HIDE DEF candidates
    <3>2. k = 1 /\ token = name
      BY <2>4, <3>1
    <3> QED BY <2>1, <2>6, <3>2
  <2>7. CASE name # "" /\ WithPrefix[name] # name
    <3>1. candidates = <<name, WithPrefix[name]>>
      BY <2>3, <2>7
    <3> DEFINE other == WithPrefix[name]
    <3>2. candidates = <<name, other>>
      BY <3>1
    <3> HIDE DEF candidates, other
    <3>3. token \in {name, other}
      BY <2>4, <3>2
    <3> QED BY <2>1, <2>2, <2>7, <3>3 DEF other
  <2> QED BY <2>5, <2>6, <2>7
<1> QED BY <1>1, <1>2 DEF ToSet

-----------------------------------------------------------------------------
(* The client of network-audits. *)

(* The refs of the providers of a file are refs. *)
LEMMA ProviderRefs ==
    ASSUME NEW files \in Optional(Files), NEW name, NEW p \in Providers(files, name)
    PROVE  /\ p.ref \in DOMAIN Normalized
           /\ p.server \in Servers
           /\ p.timeout \subseteq Int
<1>1. PICK file \in files : p \in ResolveProviderConfig(file, name)
  BY DEF Providers
<1>2. file \in Files
  BY <1>1 DEF Optional
<1>3. p \in ToSet(file) /\ ValidProvider(p)
  BY <1>1, ProviderOfFile
<1>4. \E i \in DOMAIN file : p = file[i]
  BY <1>3 DEF ToSet
<1>5. p.ref \in {"raw"} \cup DOMAIN Normalized /\ p.server \in Servers /\ p.timeout \subseteq Int
  BY <1>2, <1>4, FilesAssumption
<1> QED BY <1>3, <1>5 DEF ValidProvider

(* A setup comes to one provider at most: the first of the name in question *)
(* is one module of the one file.                                          *)
LEMMA OneProvider ==
    ASSUME NEW files \in Optional(Files), NEW name
    PROVE  \A p, q \in Providers(files, name) : p = q
<1> SUFFICES ASSUME NEW p \in Providers(files, name), NEW q \in Providers(files, name)
             PROVE  p = q
  OBVIOUS
<1>1. PICK file \in files : p \in ResolveProviderConfig(file, name)
  BY DEF Providers
<1>2. files = {file}
  BY <1>1 DEF Optional
<1>3. q \in ResolveProviderConfig(file, name)
  BY <1>2 DEF Providers
<1> DEFINE matches == {i \in DOMAIN file : name \in {"", file[i].name}}
           match == {i \in matches : IF name = "" THEN matches = {i}
                                                  ELSE \A j \in matches : i <= j}
<1>4. \E i, j \in match : p = file[i] /\ q = file[j]
  BY <1>1, <1>3 DEF ResolveProviderConfig
<1>5. ASSUME NEW i \in match, NEW j \in match PROVE i = j
  <2>1. DOMAIN file \subseteq Nat
    <3>1. file \in Files
      BY <1>2 DEF Optional
    <3> QED BY <3>1, FilesAssumption
  <2>2. i \in matches /\ j \in matches
    OBVIOUS
  <2>3. CASE name = ""
    <3>1. matches = {i}
      BY <2>3
    <3> HIDE DEF matches
    <3> QED BY <2>2, <3>1
  <2>4. CASE name # ""
    <3>1. (\A k \in matches : i <= k) /\ (\A k \in matches : j <= k)
      BY <2>4
    <3>2. i \in Nat /\ j \in Nat
      BY <2>1, <2>2
    <3> HIDE DEF matches, match
    <3>3. i <= j /\ j <= i
      BY <2>2, <3>1
    <3> QED BY <3>2, <3>3
  <2> QED BY <2>3, <2>4
<1> QED BY <1>4, <1>5

(* Where the token and the server of a client come from.                   *)
LEMMA AuditSources ==
    ASSUME NEW s, s.flags.token \in Optional({"flag"}), s.file \in Optional(Files),
           s.flags.tokenEnv \in Optional(Variables), NEW c \in AuditClient(s)
    PROVE  /\ s.file # {} => Providers(s.file, s.flags.provider) # {}
           /\ Guarded(c)
           /\ c.server = AuditServer(s.flags, Providers(s.file, s.flags.provider), s.env)
           /\ c.timeout = Positive(AuditTimeout(s.flags, Providers(s.file, s.flags.provider)))
           /\ \/ s.flags.token # {} /\ c.token = "flag"
              \/ /\ s.flags.token = {} /\ s.flags.tokenEnv = {c.token}
                 /\ c.token \in s.env.tokens \cap Variables
              \/ /\ s.flags.token = {} /\ s.flags.tokenEnv = {}
                 /\ c.token \in s.env.tokens \cap Variables
                 /\ \E p \in Providers(s.file, s.flags.provider) : c.token \in VariablesOf(p)
              \/ /\ s.flags.token = {} /\ s.flags.tokenEnv = {}
                 /\ Providers(s.file, s.flags.provider) = {}
                 /\ \/ c.token = "COMPUTE_API_TOKEN" /\ c.token \in s.env.tokens
                    \/ c.token = NoToken
<1> DEFINE providers == Providers(s.file, s.flags.provider)
<1>1. /\ s.file # {} => providers # {}
      /\ \E token \in AuditToken(s.flags, providers, s.env) :
            c \in NewComputeClient(AuditServer(s.flags, providers, s.env), token,
                                   AuditTimeout(s.flags, providers))
  BY DEF AuditClient, Providers
<1>2. \A p \in providers : p.ref \in DOMAIN Normalized
  BY ProviderRefs
<1> HIDE DEF providers
<1>3. PICK token \in AuditToken(s.flags, providers, s.env) :
         c \in NewComputeClient(AuditServer(s.flags, providers, s.env), token,
                                AuditTimeout(s.flags, providers))
  BY <1>1
<1>4. /\ c.server = AuditServer(s.flags, providers, s.env)
      /\ c.timeout = Positive(AuditTimeout(s.flags, providers))
      /\ c.token = token
      /\ Guarded(c)
  BY <1>3, NewClient
<1>5. \/ s.flags.token # {} /\ token = "flag"
      \/ /\ s.flags.token = {} /\ s.flags.tokenEnv = {token}
         /\ token \in s.env.tokens \cap Variables
      \/ /\ s.flags.token = {} /\ s.flags.tokenEnv = {}
         /\ token \in s.env.tokens \cap Variables
         /\ \E p \in providers : token \in VariablesOf(p)
      \/ /\ s.flags.token = {} /\ s.flags.tokenEnv = {} /\ providers = {}
         /\ \/ token = "COMPUTE_API_TOKEN" /\ token \in s.env.tokens
            \/ token = NoToken
  <2>1. CASE s.flags.token # {}
    BY <2>1 DEF AuditToken, Optional
  <2>2. CASE s.flags.token = {} /\ s.flags.tokenEnv # {}
    <3>1. token \in s.flags.tokenEnv \cap s.env.tokens
      BY <2>2 DEF AuditToken
    <3> QED BY <2>2, <3>1 DEF Optional
  <2>3. CASE s.flags.token = {} /\ s.flags.tokenEnv = {} /\ providers # {}
    <3>1. PICK p \in providers : token \in ResolveCLIRef(p.ref, s.env)
      BY <2>3 DEF AuditToken
    <3>2. token \in ToSet(CLIRefEnvCandidates(p.ref)) /\ token \in s.env.tokens /\ token \in Variables
      BY <1>2, <3>1, TokenOfRef
    <3> QED BY <2>3, <3>2 DEF VariablesOf
  <2>4. CASE s.flags.token = {} /\ s.flags.tokenEnv = {} /\ providers = {}
    <3>1. token = AmbientToken(s.env)
      BY <2>4 DEF AuditToken
    <3>2. \/ token = "COMPUTE_API_TOKEN" /\ token \in s.env.tokens
          \/ token = NoToken
      <4> DEFINE ambient == {"COMPUTE_API_TOKEN"} \cap s.env.tokens
      <4>1. token = OrElse(ambient, NoToken)
        BY <3>1 DEF AmbientToken
      <4>2. ambient = {} => token = NoToken
        BY <4>1, OrElseTakes
      <4>3. ambient # {} => token \in ambient
        BY <4>1, OrElseTakes
      <4> QED BY <4>2, <4>3
    <3> QED BY <2>4, <3>2
  <2> QED BY <2>1, <2>2, <2>3, <2>4
<1> QED BY <1>1, <1>4, <1>5 DEF providers

(* The server of a provider is taken unless --server names another one.    *)
LEMMA AuditServerOfProvider ==
    ASSUME NEW flags, NEW providers, NEW env, flags.server = {}, providers # {},
           \A p \in providers : ValidProvider(p)
    PROVE  \E p \in providers : AuditServer(flags, providers, env) = p.server
<1> DEFINE given == {p.server : p \in providers}
<1>1. given \ {""} # {}
  <2>1. PICK p \in providers : ValidProvider(p)
    OBVIOUS
  <2>2. p.server \in given /\ p.server # ""
    BY <2>1, ServersAssumption DEF ValidProvider
  <2> QED BY <2>2
<1>2. AuditServer(flags, providers, env) = OrElse(given \ {""}, DefaultServerURL(env))
  BY DEF AuditServer
<1>3. AuditServer(flags, providers, env) \in given \ {""}
  <2> HIDE DEF given
  <2> QED BY <1>1, <1>2, OrElseTakes
<1> QED BY <1>3

(* No way leads to a client that could send a token in cleartext.          *)
LEMMA EveryClientIsGuarded ==
    ASSUME NEW who \in Callers, NEW s \in Setups(who), NEW c \in ClientOf(who, s)
    PROVE  Guarded(c)
<1>1. CASE who = "step"
  <2>1. c \in StepClient(s)
    BY <1>1 DEF ClientOf
  <2> QED BY <2>1, NewClient DEF StepClient
<1>2. CASE who = "command"
  <2>1. c \in CommandClient(s)
    BY <1>2 DEF ClientOf
  <2> QED BY <2>1, NewClient DEF CommandClient
<1>3. CASE who = "network-audits"
  <2>1. /\ s.flags.token \in Optional({"flag"}) /\ s.flags.tokenEnv \in Optional(Variables)
        /\ s.file \in Optional(Files) /\ c \in AuditClient(s)
    BY <1>3 DEF ClientOf, Setups, Flags
  <2> QED BY <2>1, AuditSources
<1> QED BY <1>1, <1>2, <1>3 DEF Callers

(* A value that is there or its default is of their type.                  *)
LEMMA OrElseType ==
    ASSUME NEW S, NEW optional, optional \subseteq S, NEW default \in S
    PROVE  OrElse(optional, default) \in S
BY OrElseTakes

(* Every way leads to one of the servers and to a timeout that is positive. *)
LEMMA EveryClientIsTyped ==
    ASSUME NEW who \in Callers, NEW s \in Setups(who), NEW c \in ClientOf(who, s)
    PROVE  c.server \in Servers /\ c.timeout \in Nat \ {0}
<1>1. Timeouts \subseteq Int /\ Localhost \in Servers /\ 30 \in Int
  <2>1. Timeouts \subseteq Int
    BY TimeoutsAssumption
  <2>2. Localhost \in Servers
    BY ServersAssumption
  <2> QED BY <2>1, <2>2
<1>2. ASSUME NEW env \in Env PROVE DefaultServerURL(env) \in Servers
  <2>1. env.server \subseteq Servers
    BY <1>2 DEF Env, Optional
  <2> QED BY <1>1, <2>1, OrElseType DEF DefaultServerURL
<1>3. CASE who = "step"
  <2>1. s.server \in Servers /\ s.timeout \in Int /\ c \in StepClient(s)
    BY <1>1, <1>3 DEF Setups, ClientOf
  <2>2. c.server = s.server /\ c.timeout = Positive(s.timeout)
    BY <2>1, NewClient DEF StepClient
  <2> QED BY <2>1, <2>2, PositiveTimeout
<1>4. CASE who = "command"
  <2>1. /\ s.flags.server \in Optional(Servers) /\ s.flags.timeout \in Optional(Timeouts)
        /\ s.env \in Env /\ c \in CommandClient(s)
    BY <1>4 DEF Setups, ClientOf, Flags
  <2>2. s.flags.server \subseteq Servers /\ s.flags.timeout \subseteq Int
    BY <1>1, <2>1 DEF Optional
  <2>3. /\ c.server = OrElse(s.flags.server, DefaultServerURL(s.env))
        /\ c.timeout = Positive(OrElse(s.flags.timeout, 30))
    BY <2>1, NewClient DEF CommandClient
  <2> QED BY <1>1, <1>2, <2>1, <2>2, <2>3, OrElseType, PositiveTimeout
<1>5. CASE who = "network-audits"
  <2> DEFINE providers == Providers(s.file, s.flags.provider)
  <2>1. /\ s.flags.server \in Optional(Servers) /\ s.flags.timeout \in Optional(Timeouts)
        /\ s.flags.token \in Optional({"flag"}) /\ s.file \in Optional(Files)
        /\ s.flags.tokenEnv \in Optional(Variables)
        /\ s.env \in Env /\ c \in AuditClient(s)
    BY <1>5 DEF Setups, ClientOf, Flags
  <2>2. s.flags.server \subseteq Servers /\ s.flags.timeout \subseteq Int
    BY <1>1, <2>1 DEF Optional
  <2>3. \A p \in providers : p.server \in Servers /\ p.timeout \subseteq Int
    BY <2>1, ProviderRefs
  <2>4. /\ c.server = AuditServer(s.flags, providers, s.env)
        /\ c.timeout = Positive(AuditTimeout(s.flags, providers))
    BY <2>1, AuditSources
  <2> HIDE DEF providers
  <2>5. AuditServer(s.flags, providers, s.env) \in Servers
    <3>1. DefaultServerURL(s.env) \in Servers
      BY <1>2, <2>1
    <3>2. {p.server : p \in providers} \ {""} \subseteq Servers /\ s.flags.server \ {""} \subseteq Servers
      BY <2>2, <2>3
    <3>3. /\ OrElse({p.server : p \in providers} \ {""}, DefaultServerURL(s.env)) \in Servers
          /\ OrElse(s.flags.server \ {""}, DefaultServerURL(s.env)) \in Servers
      BY <3>1, <3>2, OrElseType
    <3> QED BY <3>3 DEF AuditServer
  <2>6. AuditTimeout(s.flags, providers) \in Int
    <3>1. UNION {p.timeout : p \in providers} \subseteq Int
      BY <2>3
    <3>2. OrElse(UNION {p.timeout : p \in providers}, 30) \in Int
      BY <1>1, <3>1, OrElseType
    <3> QED BY <2>2, <3>2, OrElseType DEF AuditTimeout
  <2> QED BY <2>4, <2>5, <2>6, PositiveTimeout
<1> QED BY <1>3, <1>4, <1>5 DEF Callers

-----------------------------------------------------------------------------
(* The inductive invariant: what is sent is sent by the client that the    *)
(* setup leads to.                                                         *)
IInv ==
    /\ caller \in Callers
    /\ setup \in Setups(caller)
    /\ pc \in {"start", "connected", "done", "failed"}
    /\ sent \subseteq client
    /\ client # {} => EpochAccepted(caller, setup) /\ client = ClientOf(caller, setup)

(* It holds initially and is preserved by each step. *)
THEOREM Inductive == Spec => []IInv
<1>1. Init => IInv
  BY DEF Init, IInv, Callers
<1>2. IInv /\ [Next]_vars => IInv'
  <2> SUFFICES ASSUME IInv, [Next]_vars PROVE IInv'
    OBVIOUS
  <2>1. CASE Connect
    BY <2>1 DEF Connect, IInv
  <2>2. CASE Request
    BY <2>2 DEF Request, IInv
  <2>3. CASE UNCHANGED vars
    BY <2>3 DEF vars, IInv
  <2> QED BY <2>1, <2>2, <2>3 DEF Next, Finished
<1> QED BY <1>1, <1>2, PTL DEF Spec

(* Every client has one of the servers and a positive timeout.             *)
THEOREM TypeCorrect == Spec => []TypeOK
<1>1. IInv => TypeOK
  BY EveryClientIsTyped DEF IInv, TypeOK
<1> QED BY <1>1, Inductive, PTL

(* SPEC.md V12, for all servers and sources: no token goes out in          *)
(* cleartext to another host.                                              *)
THEOREM NoTokenInCleartext == Spec => []TokenNeverInCleartext
<1>1. IInv => TokenNeverInCleartext
  BY EveryClientIsGuarded DEF IInv, TokenNeverInCleartext, Guarded
<1> QED BY <1>1, Inductive, PTL

(* What a setup of network-audits is made of. *)
LEMMA AuditSetup ==
    ASSUME IInv, caller = "network-audits", NEW r \in sent
    PROVE  /\ setup.flags.token \in Optional({"flag"})
           /\ setup.flags.tokenEnv \in Optional(Variables)
           /\ setup.file \in Optional(Files)
           /\ setup.flags.epoch
           /\ r \in AuditClient(setup)
<1>1. EpochAccepted(caller, setup) /\ r \in ClientOf(caller, setup)
  BY DEF IInv
<1>2. setup \in Setups("network-audits")
  BY DEF IInv
<1> QED BY <1>1, <1>2 DEF EpochAccepted, ClientOf, Setups, Flags

(* The providers that are found are those the setup can mean.              *)
LEMMA ProvidersAreMeant ==
    ASSUME setup.file \in Optional(Files)
    PROVE  /\ \A p \in Providers(setup.file, setup.flags.provider) :
                 p \in Meant /\ ValidProvider(p)
           /\ /\ setup.flags.provider = ""
              /\ Providers(setup.file, setup.flags.provider) # {}
              => Cardinality(Meant) = 1
           /\ Meant # {} => setup.file # {}
<1>1. ASSUME NEW p \in Providers(setup.file, setup.flags.provider)
      PROVE  /\ p \in Meant /\ ValidProvider(p)
             /\ setup.flags.provider = "" => Meant = {p}
  <2>1. PICK file \in setup.file : p \in ResolveProviderConfig(file, setup.flags.provider)
    BY DEF Providers
  <2>2. setup.file = {file}
    BY <2>1 DEF Optional
  <2>3. UNION {ToSet(f) : f \in setup.file} = ToSet(file)
    BY <2>2
  <2>4. /\ p \in ToSet(file) /\ setup.flags.provider \in {"", p.name} /\ ValidProvider(p)
        /\ setup.flags.provider = "" => ToSet(file) = {p}
    BY <2>1, ProviderOfFile
  <2> QED BY <2>3, <2>4 DEF Meant
<1>2. \A p : Cardinality({p}) = 1
  BY FS_Singleton
<1> QED BY <1>1, <1>2 DEF Meant

(* SPEC.md V25: a request goes out only as its flags name it, and of the   *)
(* sources of a token the first that is named decides.                     *)
THEOREM NoSilentFallback == Spec => []RequestsAreAsNamed
<1>1. IInv => RequestsAreAsNamed
  <2> SUFFICES ASSUME IInv, caller = "network-audits", NEW r \in sent
               PROVE  /\ setup.flags.epoch
                      /\ setup.file # {} => Meant # {}
                      /\ setup.file # {} /\ setup.flags.provider = "" => Cardinality(Meant) = 1
                      /\ r.token = "flag" <=> setup.flags.token # {}
                      /\ r.token \in {"flag", NoToken} \cup setup.env.tokens
                      /\ setup.flags.token = {} /\ setup.flags.tokenEnv # {} =>
                            setup.flags.tokenEnv = {r.token}
                      /\ setup.flags.token = {} /\ setup.flags.tokenEnv = {} =>
                            \/ \E p \in Meant : r.token \in VariablesOf(p)
                            \/ setup.file = {} /\ r.token \in {"COMPUTE_API_TOKEN", NoToken}
    BY DEF RequestsAreAsNamed
  <2>1. /\ setup.flags.token \in Optional({"flag"})
        /\ setup.flags.tokenEnv \in Optional(Variables)
        /\ setup.file \in Optional(Files)
        /\ setup.flags.epoch
        /\ r \in AuditClient(setup)
    BY AuditSetup
  <2> DEFINE providers == Providers(setup.file, setup.flags.provider)
  <2>2. /\ setup.file # {} => providers # {}
        /\ \/ setup.flags.token # {} /\ r.token = "flag"
           \/ /\ setup.flags.token = {} /\ setup.flags.tokenEnv = {r.token}
              /\ r.token \in setup.env.tokens \cap Variables
           \/ /\ setup.flags.token = {} /\ setup.flags.tokenEnv = {}
              /\ r.token \in setup.env.tokens \cap Variables
              /\ \E p \in providers : r.token \in VariablesOf(p)
           \/ /\ setup.flags.token = {} /\ setup.flags.tokenEnv = {} /\ providers = {}
              /\ \/ r.token = "COMPUTE_API_TOKEN" /\ r.token \in setup.env.tokens
                 \/ r.token = NoToken
    BY <2>1, AuditSources
  <2>3. /\ \A p \in providers : p \in Meant
        /\ providers # {} => Meant # {} /\ (setup.flags.provider = "" => Cardinality(Meant) = 1)
    BY <2>1, ProvidersAreMeant
  <2>4. "flag" \notin Variables /\ "COMPUTE_API_TOKEN" \in Variables /\ NoToken # "flag"
    BY VariablesAssumption
  <2> HIDE DEF providers
  <2> QED BY <2>1, <2>2, <2>3, <2>4
<1> QED BY <1>1, Inductive, PTL

(* A token and a server that come from different places belong together:   *)
(* with a file and no --server, both are those of one provider, or the     *)
(* token was named by a flag.                                              *)
THEOREM CredentialsMatch == Spec => []CredentialsStayTogether
<1>1. IInv => CredentialsStayTogether
  <2> SUFFICES ASSUME IInv, caller = "network-audits", NEW r \in sent,
                      setup.file # {}, setup.flags.server = {}
               PROVE  \E p \in Meant :
                         /\ r.server = p.server
                         /\ r.token \in setup.flags.token \cup setup.flags.tokenEnv
                                           \cup VariablesOf(p)
    BY DEF CredentialsStayTogether
  <2> DEFINE providers == Providers(setup.file, setup.flags.provider)
  <2>1. /\ setup.file \in Optional(Files) /\ setup.flags.token \in Optional({"flag"})
        /\ providers # {}
        /\ r.server = AuditServer(setup.flags, providers, setup.env)
        /\ \/ setup.flags.token # {} /\ r.token = "flag"
           \/ setup.flags.tokenEnv = {r.token}
           \/ \E p \in providers : r.token \in VariablesOf(p)
    BY AuditSetup, AuditSources
  <2>2. /\ \A p \in providers : p \in Meant /\ ValidProvider(p)
        /\ \A p, q \in providers : p = q
    BY <2>1, ProvidersAreMeant, OneProvider
  <2> HIDE DEF providers
  <2>3. PICK p \in providers : r.server = p.server
    BY <2>1, <2>2, AuditServerOfProvider
  <2>4. setup.flags.token # {} => setup.flags.token = {"flag"}
    BY <2>1 DEF Optional
  <2>5. r.token \in setup.flags.token \cup setup.flags.tokenEnv \cup VariablesOf(p)
    BY <2>1, <2>2, <2>4
  <2> QED BY <2>2, <2>3, <2>5
<1> QED BY <1>1, Inductive, PTL
=============================================================================
