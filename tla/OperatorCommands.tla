-------------------------- MODULE OperatorCommands --------------------------
(***************************************************************************)
(* The commands of wfctl compute that create something on the control      *)
(* plane and print a receipt: run, submit command, submit container-build, *)
(* github-runner register and bridge-job, enroll, and agent setup, which   *)
(* previews an invite before it claims it (cli.go).  One operator uses one *)
(* command, and runs it again when it has failed.                          *)
(*                                                                         *)
(* The control plane keeps a store of resources: tasks, registrations,     *)
(* agents and install sessions.  A task is identified by --id and a        *)
(* session by --install-session-id or, without it, by the hash of the      *)
(* clock; an agent by --id; for the two github-runner commands the control *)
(* plane chooses.  What was lost, the request or its answer, cannot be     *)
(* told.                                                                   *)
(***************************************************************************)
EXTENDS Naturals, FiniteSets

CONSTANTS
    Operators,
    Ids,           \* ids of resources
    NoId,          \* --id is not given
    Instants,      \* readings of the clock
    HashOf,        \* the id made of each: a prefix and its hash
    MaxAttempts    \* bound: runs of a command by one operator

ASSUME OperatorsAssumption == "nobody" \notin Operators
ASSUME NoIdAssumption == NoId \notin Ids
ASSUME HashOfAssumption == HashOf \in [Instants -> Ids]
ASSUME MaxAttemptsAssumption == MaxAttempts \in Nat \ {0}

TaskCommands == {"run", "submit_command", "submit_container_build"}

ServerNamed == {"register", "bridge_job"}

Commands == TaskCommands \cup ServerNamed \cup {"enroll", "setup"}

Kinds == {"task", "registration", "agent", "session"}

VARIABLES
    command,    \* the command each operator uses
    given,      \* its --id or --install-session-id, or NoId
    pc,         \* "check", "build", "preview", "send", "done"
    attempts,
    now,        \* the clock, which may stand still and may be set back
    id,         \* the id in the request of each operator, or NoId
    result,     \* "none", "refused", "rendered", "failed", "ok"
    receipt,    \* what each operator has been told
    store,      \* store[<<kind, i>>]: the operator whose content it is, or "nobody"
    created     \* the ids of what each operator has created

input == <<command, given>>
vars == <<input, pc, attempts, now, id, result, receipt, store, created>>

NoReceipt == [id |-> NoId, content |-> "nobody"]

\* The receipt carries the id and the hash of the content, by its author.
Receipt == [id : Ids \cup {NoId}, content : Operators \cup {"nobody"}]

\* What the flags of the commands admit: enroll needs an --id, the commands of
\* github-runner have none.
Input ==
    /\ command \in [Operators -> Commands]
    /\ given \in [Operators -> Ids \cup {NoId}]
    /\ \A o \in Operators :
          /\ command[o] = "enroll" => given[o] # NoId
          /\ command[o] \in ServerNamed => given[o] = NoId

Init ==
    /\ Input
    /\ pc = [o \in Operators |-> "check"]
    /\ attempts = [o \in Operators |-> 1]
    /\ now \in Instants
    /\ id = [o \in Operators |-> NoId]
    /\ result = [o \in Operators |-> "none"]
    /\ receipt = [o \in Operators |-> NoReceipt]
    /\ store = [x \in Kinds \X Ids |-> "nobody"]
    /\ created = [o \in Operators |-> {}]

-----------------------------------------------------------------------------
Goto(o, label) == pc' = [pc EXCEPT ![o] = label] /\ UNCHANGED result

Exit(o, r) ==
    /\ pc' = [pc EXCEPT ![o] = "done"]
    /\ result' = [result EXCEPT ![o] = r]

(* Flags, arguments, env refs, labels, capabilities and the server URL are *)
(* checked before a request is built; any of them ends the command.        *)
CheckLocally(o) ==
    /\ pc[o] = "check"
    /\ Goto(o, "build") \/ Exit(o, "refused")
    /\ UNCHANGED <<input, attempts, now, id, receipt, store, created>>

\* Mistake: the clock is read although an id was given.
RequestIdFromClock(o) == IF command[o] \in ServerNamed THEN NoId ELSE HashOf[now]

\* The id in the request: of the flag, of the clock, or left to the server.
RequestId(o) ==
    IF command[o] \in TaskCommands \cup {"setup"} /\ given[o] = NoId
    THEN HashOf[now] ELSE given[o]

BuildRequest(o) ==
    /\ pc[o] = "build"
    /\ id' = [id EXCEPT ![o] = RequestId(o)]
    /\ Goto(o, IF command[o] = "setup" THEN "preview" ELSE "send")
    /\ UNCHANGED <<input, attempts, now, receipt, store, created>>

(* agent setup: --dry-run ends it with a rendered command; otherwise it is *)
(* previewed whether the invite can be claimed.                            *)
Preview(o) ==
    /\ pc[o] = "preview"
    /\ Exit(o, "rendered") \/ Exit(o, "failed") \/ Goto(o, "send")
    /\ UNCHANGED <<input, attempts, now, id, receipt, store, created>>

KindOf(c) ==
    CASE c \in TaskCommands \cup {"bridge_job"} -> "task"
      [] c = "register" -> "registration"
      [] c = "enroll"   -> "agent"
      [] c = "setup"    -> "session"

\* What an operator means by i.
Resource(o, i) == <<KindOf(command[o]), i>>

\* The control plane creates i, or takes i for what was asked for.
Post(o, i, known) ==
    \/ /\ store[Resource(o, i)] = "nobody"
       /\ store' = [store EXCEPT ![Resource(o, i)] = o]
       /\ created' = [created EXCEPT ![o] = @ \cup {i}]
    \/ /\ store[Resource(o, i)] \in known
       /\ UNCHANGED <<store, created>>

\* run, submit command, submit container-build.
SubmitTask(o, i) ==
    /\ command[o] \in TaskCommands
    /\ i = id[o]
    /\ Post(o, i, Operators)

EnrollAgent(o, i) ==
    /\ command[o] = "enroll"
    /\ i = id[o]
    /\ Post(o, i, Operators)

\* register, bridge-job: the request has no id, and may be known by its content.
RegisterOrBridge(o, i) ==
    /\ command[o] \in ServerNamed
    /\ Post(o, i, {o})

\* agent setup: an invite is claimed for an install session.
ClaimInvite(o, i) ==
    /\ command[o] = "setup"
    /\ i = id[o]
    /\ Post(o, i, Operators)

Request(o, i) ==
    SubmitTask(o, i) \/ EnrollAgent(o, i) \/ RegisterOrBridge(o, i) \/ ClaimInvite(o, i)

\* Mistake: the receipt is made of the request, the answer is not read.
ReceiptOfRequest(o, i) == [id |-> i, content |-> o]

\* Mistake (B8 in SPEC.md): the whole resource is printed.
ReceiptOfEverything(o, i) == [id |-> i, content |-> store'[Resource(o, i)], payload |-> o]

\* taskReceipt, agentSetupPlan, the maps of the other commands: the answer.
ReceiptFor(o, i) == [id |-> i, content |-> store'[Resource(o, i)]]

Succeeds(o) ==
    /\ pc[o] = "send"
    /\ \E i \in Ids :
          /\ Request(o, i)
          /\ receipt' = [receipt EXCEPT ![o] = ReceiptFor(o, i)]
    /\ Exit(o, "ok")
    /\ UNCHANGED <<input, attempts, now, id>>

\* Mistake: the request is repeated for as long as it fails.
FailsRepeats(o) ==
    /\ pc[o] = "send"
    /\ Goto(o, "build")
    /\ UNCHANGED <<input, attempts, now, id, receipt, store, created>>

\* The request or its answer is lost, or refused, or does not decode, or a
\* claim is answered without a worker or a credential.
Fails(o) ==
    /\ pc[o] = "send"
    /\ (\E i \in Ids : Request(o, i)) \/ UNCHANGED <<store, created>>
    /\ Exit(o, "failed")
    /\ UNCHANGED <<input, attempts, now, id, receipt>>

\* The operator runs the command again.
RunAgain(o) ==
    /\ pc[o] = "done"
    /\ result[o] # "ok"
    /\ attempts[o] < MaxAttempts
    /\ attempts' = [attempts EXCEPT ![o] = @ + 1]
    /\ pc' = [pc EXCEPT ![o] = "check"]
    /\ result' = [result EXCEPT ![o] = "none"]
    /\ UNCHANGED <<input, now, id, receipt, store, created>>

\* Time passes, or the clock is set; it need not move between two builds, and
\* where it stands matters only to a build.
ClockMoves ==
    /\ \E o \in Operators : pc[o] = "build"
    /\ now' \in Instants
    /\ UNCHANGED <<input, pc, attempts, id, result, receipt, store, created>>

Command(o) ==
    CheckLocally(o) \/ BuildRequest(o) \/ Preview(o) \/ Succeeds(o) \/ Fails(o)

Finished == (\A o \in Operators : pc[o] = "done") /\ UNCHANGED vars

Next ==
    \/ \E o \in Operators : Command(o) \/ RunAgain(o)
    \/ ClockMoves
    \/ Finished

\* A process runs on, and its request ends by the timeout of the http.Client.
SafetySpec == Init /\ [][Next]_vars
Spec == SafetySpec /\ \A o \in Operators : WF_vars(Command(o))

-----------------------------------------------------------------------------
(* Every variable stays within the values the code can give it.  What is   *)
(* printed of a task is its id and the hash of its content, never the      *)
(* workload itself (SPEC.md V13, V14).                                     *)
TypeOK ==
    /\ Input
    /\ pc \in [Operators -> {"check", "build", "preview", "send", "done"}]
    /\ attempts \in [Operators -> 1 .. MaxAttempts]
    /\ now \in Instants
    /\ id \in [Operators -> Ids \cup {NoId}]
    /\ result \in [Operators -> {"none", "refused", "rendered", "failed", "ok"}]
    /\ receipt \in [Operators -> Receipt]
    /\ store \in [Kinds \X Ids -> Operators \cup {"nobody"}]
    /\ created \in [Operators -> SUBSET Ids]

(* An operator who gives an id may run a command again after any failure:  *)
(* whether the request, its answer or both were lost, there is never a     *)
(* second task, agent or install session.                                  *)
RunningAgainCreatesOnce ==
    \A o \in Operators : given[o] # NoId => Cardinality(created[o]) <= 1

(* When two operators use one id, by choice or because the clock gave both *)
(* the same, only one content runs.  The receipt tells each which it is.   *)
ReceiptTellsWhatRuns ==
    \A o \in Operators :
        result[o] = "ok" => receipt[o].content = store[Resource(o, receipt[o].id)]

(* Every run of a command ends, whatever the control plane does. *)
EveryCommandEnds == \A o \in Operators : []<>(pc[o] = "done")

-----------------------------------------------------------------------------
(* The inductive invariant behind these properties. *)

\* An id that was given is the one in every request, and so of what is created.
GivenIdIsUsed ==
    \A o \in Operators :
        given[o] # NoId =>
            /\ pc[o] \in {"preview", "send"} => id[o] = given[o]
            /\ created[o] \subseteq {given[o]}

\* What a receipt names exists, and its content is never replaced.
ReceiptIsOfStore ==
    \A o \in Operators :
        result[o] = "ok" =>
            /\ receipt[o].id \in Ids
            /\ receipt[o].content = store[Resource(o, receipt[o].id)]
            /\ receipt[o].content # "nobody"

(* What every state satisfies and every step preserves. *)
IInv ==
    /\ TypeOK
    /\ GivenIdIsUsed
    /\ ReceiptIsOfStore
=============================================================================
