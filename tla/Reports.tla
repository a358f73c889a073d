------------------------------ MODULE Reports -------------------------------
(***************************************************************************)
(* The commands of wfctl compute that only read (cli.go): compute pools,   *)
(* compute audit and compute accounting export.  Each is one process that  *)
(* makes one or two requests and prints a summary of the answers.          *)
(*                                                                         *)
(* Every answer is the state of the control plane at one moment; between   *)
(* two requests agents come and go, tasks move on, contributions are       *)
(* recorded and rewards granted.  A command changes nothing that another   *)
(* could see, so that one process stands for any number of them.           *)
(*                                                                         *)
(* The control plane is external: agents, tasks, receipts and a ledger in  *)
(* which an account has contributions of one unit each and, by its reward  *)
(* policy, a number of rewarded units.                                     *)
(***************************************************************************)
EXTENDS Naturals, Sequences, SequencesExt

CONSTANTS
    Agents, Tasks,     \* ids the control plane may list
    PoolOf,            \* the pool of each: an org and a pool id within it
    Accounts,
    MaxReceipts,       \* bound: receipts
    MaxContributions,  \* bound: contributions of an account
    MaxStatuses        \* bound: statuses of one agent or task while a command runs

\* An answer is a finite list, and an agent is not a task.
ASSUME IdsAssumption == IsFiniteSet(Agents \cup Tasks) /\ Agents \cap Tasks = {}
ASSUME PoolOfAssumption == DOMAIN PoolOf = Agents \cup Tasks
ASSUME BoundsAssumption == {MaxReceipts, MaxContributions, MaxStatuses} \subseteq Nat

VARIABLES
    world,     \* what the control plane has
    command, account,   \* what has been asked for
    pc,        \* "start", "reading", "printed" or "failed"
    answers,   \* the answers so far, by resource
    report,    \* what is printed
    had,       \* history: the statuses of agents and tasks since the command began
    settled    \* history: the rewarded units when the contributions were read

commandVars == <<command, account, pc, answers, report>>
vars == <<world, commandVars, had, settled>>

AgentStatus == {"absent", "online", "offline"}

\* The columns of poolSummary, and the statuses that have none.
Column == {"queued", "leased", "running", "failed", "stalled"}
TaskStatus == Column \cup {"absent", "succeeded"}

\* The verifier statuses auditProofs tells apart.
Verification == {"accepted", "rejected", "other"}

Command == {"pools", "audit", "accounting"}

NoReport == [kind |-> "none"]

Init ==
    /\ world = [agents   |-> [a \in Agents |-> "absent"],
                tasks    |-> [t \in Tasks |-> "absent"],
                proofs   |-> <<>>,
                contributions |-> [a \in Accounts |-> 0],
                rewards  |-> [a \in Accounts |-> 0]]
    /\ command \in Command
    /\ account \in Accounts
    /\ pc = "start"
    /\ answers = <<>>
    /\ report = NoReport
    /\ had = [x \in Agents \cup Tasks |-> {"absent"}]
    /\ settled = [a \in Accounts |-> 0]

-----------------------------------------------------------------------------
(* What the control plane does; only what the command asks for matters.    *)

Watched(c) == pc \in {"start", "reading"} /\ command = c

Becomes(x, s) ==
    /\ had' = [had EXCEPT ![x] = IF pc = "start" THEN {s} ELSE @ \cup {s}]
    /\ Cardinality(had'[x]) <= MaxStatuses

AgentMoves(a) ==
    /\ Watched("pools")
    /\ \E s \in AgentStatus \ {world.agents[a]} :
          /\ world' = [world EXCEPT !.agents[a] = s]
          /\ Becomes(a, s)
    /\ UNCHANGED <<commandVars, settled>>

NextStatus(s) ==
    CASE s = "absent"  -> {"queued"}
      [] s = "queued"  -> {"leased"}
      [] s = "leased"  -> {"running", "queued"}
      [] s = "running" -> {"succeeded", "failed", "stalled"}
      [] s = "stalled" -> {"queued"}
      [] OTHER         -> {"absent"}

TaskMoves(t) ==
    /\ Watched("pools")
    /\ \E s \in NextStatus(world.tasks[t]) :
          /\ world' = [world EXCEPT !.tasks[t] = s]
          /\ Becomes(t, s)
    /\ UNCHANGED <<commandVars, settled>>

ReceiptIsRecorded ==
    /\ Watched("audit")
    /\ Len(world.proofs) < MaxReceipts
    /\ \E v \in Verification : world' = [world EXCEPT !.proofs = Append(@, v)]
    /\ UNCHANGED <<commandVars, had, settled>>

ContributionIsRecorded(a) ==
    /\ Watched("accounting")
    /\ world.contributions[a] < MaxContributions
    /\ world' = [world EXCEPT !.contributions[a] = @ + 1]
    /\ UNCHANGED <<commandVars, had, settled>>

RewardIsGranted(a) ==
    /\ Watched("accounting")
    /\ world.rewards[a] < world.contributions[a]
    /\ world' = [world EXCEPT !.rewards[a] = world.contributions[a]]
    /\ UNCHANGED <<commandVars, had, settled>>

-----------------------------------------------------------------------------
(* The summaries. *)

\* Mistake: pools are told apart by their id alone.
KeyPoolOnly(x) == [PoolOf[x] EXCEPT !.org = ""]

Key(x) == PoolOf[x]

\* summarizePools: a row for each org and pool that an agent or a task is in.
SummarizePools(agents, tasks) ==
    LET present(list) == {x \in DOMAIN list : list[x] # "absent"}
        number(list, k, statuses) ==
            Cardinality({x \in present(list) : Key(x) = k /\ list[x] \in statuses})
    IN  [k \in {Key(x) : x \in present(agents) \cup present(tasks)} |->
            [c \in Column \cup {"agents", "online"} |->
                CASE c = "agents"  -> number(agents, k, AgentStatus)
                  [] c = "online"  -> number(agents, k, {"online"})
                  [] c \in Column -> number(tasks, k, {c})]]

\* Mistake: a receipt with another status is left out of the sum.
VerdictColumnNone(v) == IF v \in {"accepted", "rejected"} THEN v ELSE "none"

VerdictColumn(v) == IF v \in {"accepted", "rejected"} THEN v ELSE "unknown"

AuditProofs(proofs) ==
    FoldLeft(LAMBDA sum, v : [c \in DOMAIN sum |->
                                 IF c = VerdictColumn(v) THEN sum[c] + 1 ELSE sum[c]],
             [proofs |-> Len(proofs), accepted |-> 0, rejected |-> 0, unknown |-> 0],
             proofs)

\* The account's row of the rewards, if its policy has granted one.
RewardsForAccount(rewards, a) ==
    {[account |-> b, units |-> rewards[b]] : b \in {b \in DOMAIN rewards : rewards[b] > 0 /\ b = a}}

Summary(got) ==
    CASE command = "pools" ->
            [kind |-> "pools", rows |-> SummarizePools(got.agents, got.tasks)]
      [] command = "audit" ->
            [kind |-> "audit", sums |-> AuditProofs(got.proofs)]
      [] command = "accounting" ->
            [kind |-> "accounting", total |-> got.contributions[account],
             rewards |-> RewardsForAccount(got.rewards, account)]

-----------------------------------------------------------------------------
(* runPools, runAudit, runAccounting *)

\* Mistake: the rewards are read before the contributions.
RequestsRewardsFirst(c) ==
    CASE c = "pools"      -> <<"agents", "tasks">>
      [] c = "audit"      -> <<"proofs">>
      [] c = "accounting" -> <<"rewards", "contributions">>

\* The resources each command asks for, one after the other.
Requests(c) ==
    CASE c = "pools"      -> <<"agents", "tasks">>
      [] c = "audit"      -> <<"proofs">>
      [] c = "accounting" -> <<"contributions", "rewards">>

\* Flags are parsed and the client is built, or the command ends with an error.
Begin ==
    /\ pc = "start"
    /\ pc' \in {"reading", "failed"}
    /\ UNCHANGED <<world, command, account, answers, report, had, settled>>

InFlight == Requests(command)[Cardinality(DOMAIN answers) + 1]

AnswerArrives ==
    LET resource == InFlight
    IN  /\ pc = "reading"
        /\ \E got \in {[r \in DOMAIN answers \cup {resource} |->
                            IF r = resource THEN world[r] ELSE answers[r]]} :
              /\ answers' = got
              /\ IF resource = Last(Requests(command))
                 THEN pc' = "printed" /\ report' = Summary(got)
                 ELSE UNCHANGED <<pc, report>>
        /\ settled' = IF resource = "contributions" THEN world.rewards ELSE settled
        /\ UNCHANGED <<world, command, account, had>>

\* Mistake: what was read before the failure is printed.
RequestFailsPrintsHalf ==
    /\ pc = "reading"
    /\ pc' = "failed"
    /\ report' = answers
    /\ UNCHANGED <<world, command, account, answers, had, settled>>

\* Whichever request fails, nothing is printed.
RequestFails ==
    /\ pc = "reading"
    /\ pc' = "failed"
    /\ UNCHANGED <<world, command, account, answers, report, had, settled>>

Finished == pc \in {"printed", "failed"} /\ UNCHANGED vars

Next ==
    \/ \E a \in Agents : AgentMoves(a)
    \/ \E t \in Tasks : TaskMoves(t)
    \/ ReceiptIsRecorded
    \/ \E a \in Accounts : ContributionIsRecorded(a) \/ RewardIsGranted(a)
    \/ Begin
    \/ AnswerArrives
    \/ RequestFails
    \/ Finished

Spec == Init /\ [][Next]_vars

-----------------------------------------------------------------------------
Pools == {PoolOf[x] : x \in DOMAIN PoolOf}

Row == [Column \cup {"agents", "online"} -> Nat]

(* What is printed is one summary of the command that was given. *)
TypeOK ==
    /\ pc \in {"start", "reading", "printed", "failed"}
    /\ CASE pc # "printed" -> report = NoReport
         [] command = "pools" /\ pc = "printed" ->
              \A k \in DOMAIN report.rows : report.rows[k] \in Row
         [] command = "audit" /\ pc = "printed" ->
              report.sums \in [{"proofs", "accepted", "rejected", "unknown"} -> 0 .. MaxReceipts]
         [] command = "accounting" /\ pc = "printed" ->
              /\ report.total \in 0 .. MaxContributions
              /\ report.rewards \subseteq [account : Accounts, units : 1 .. MaxContributions]

\* What the report says of pool k, zero where it has no row.
Reported(k, c) == IF k \in DOMAIN report.rows THEN report.rows[k][c] ELSE 0

(* compute pools joins two reads, so that its numbers need not all have    *)
(* been true at once.  Still, each lies between what stayed so all the     *)
(* time and what was ever so while the command ran, pool by pool and       *)
(* column by column; a pool that had an agent or a task all the time has a *)
(* row, and only pools that had one at all have.                           *)
CountsLieInBetween ==
    LET In(k, S) == {x \in S : PoolOf[x] = k}
        Between(n, S, statuses) ==
            /\ n >= Cardinality({x \in S : had[x] \subseteq statuses})
            /\ n <= Cardinality({x \in S : had[x] \cap statuses # {}})
        present == {"online", "offline"} \cup (TaskStatus \ {"absent"})
    IN  pc = "printed" /\ command = "pools" =>
            /\ \A k \in Pools :
                  /\ Between(Reported(k, "agents"), In(k, Agents), {"online", "offline"})
                  /\ Between(Reported(k, "online"), In(k, Agents), {"online"})
                  /\ \A c \in Column : Between(Reported(k, c), In(k, Tasks), {c})
                  /\ (\E x \in In(k, DOMAIN PoolOf) : had[x] \subseteq present)
                         => k \in DOMAIN report.rows
            /\ \A k \in DOMAIN report.rows :
                  \E x \in In(k, DOMAIN PoolOf) : had[x] \cap present # {}

(* compute audit describes the receipts of one moment, none left out: its  *)
(* numbers are those of a first part of the list as it is now, and the     *)
(* three verdicts add up to the total.                                     *)
AuditIsOfOneMoment ==
    pc = "printed" /\ command = "audit" =>
        \E n \in 0 .. Len(world.proofs) :
            LET with(S) == Cardinality({i \in 1 .. n : world.proofs[i] \in S})
            IN  report.sums = [proofs |-> n, accepted |-> with({"accepted"}),
                               rejected |-> with({"rejected"}), unknown |-> with({"other"})]

(* compute accounting export (SPEC.md V16) prints contributions and        *)
(* rewards of different moments, and no rewards but the account's.  The    *)
(* order of the reads makes the rewards the newer ones: whatever had been  *)
(* rewarded of the contributions that are printed is printed as rewarded.  *)
RewardsAreNoOlder ==
    pc = "printed" /\ command = "accounting" =>
        /\ \A row \in report.rewards : row.account = account
        /\ settled[account] > 0 => report.rewards # {}
        /\ \A row \in report.rewards :
              settled[account] <= row.units /\ row.units <= world.contributions[account]

-----------------------------------------------------------------------------
(* The inductive invariant behind these properties. *)

World == [agents : [Agents -> AgentStatus], tasks : [Tasks -> TaskStatus],
          proofs : Seq(Verification),
          contributions : [Accounts -> 0 .. MaxContributions],
          rewards : [Accounts -> 0 .. MaxContributions]]

WorldOK ==
    /\ world \in World
    /\ Len(world.proofs) <= MaxReceipts
    /\ \A a \in Accounts : world.rewards[a] <= world.contributions[a]

\* The history keeps every status, and the rewards as they once were.
HistoryOK ==
    /\ had \in [Agents \cup Tasks -> SUBSET (AgentStatus \cup TaskStatus)]
    /\ \A a \in Agents : world.agents[a] \in had[a]
    /\ \A t \in Tasks : world.tasks[t] \in had[t]
    /\ settled \in [Accounts -> 0 .. MaxContributions]
    /\ \A a \in Accounts : settled[a] <= world.rewards[a]

\* The answers are those to the first requests, and to all once a report is printed.
AnswersInOrder ==
    /\ command \in Command /\ account \in Accounts
    /\ pc \in {"start", "reading", "printed", "failed"}
    /\ pc = "start" => DOMAIN answers = {}
    /\ pc # "printed" =>
          DOMAIN answers \in {{}} \cup (IF command = "pools" THEN {{"agents"}} ELSE {})
                                \cup (IF command = "accounting" THEN {{"contributions"}} ELSE {})
    /\ pc = "printed" => DOMAIN answers = {Requests(command)[i] : i \in DOMAIN Requests(command)}

\* What was read has been true, and what it says cannot be taken back.
AnswersWereTrue ==
    /\ "agents" \in DOMAIN answers =>
          /\ answers.agents \in [Agents -> AgentStatus]
          /\ \A a \in Agents : answers.agents[a] \in had[a]
    /\ "tasks" \in DOMAIN answers =>
          /\ answers.tasks \in [Tasks -> TaskStatus]
          /\ \A t \in Tasks : answers.tasks[t] \in had[t]
    /\ "proofs" \in DOMAIN answers =>
          \E n \in 0 .. Len(world.proofs) : answers.proofs = SubSeq(world.proofs, 1, n)
    /\ "contributions" \in DOMAIN answers =>
          answers.contributions \in [Accounts -> 0 .. MaxContributions]
    /\ "rewards" \in DOMAIN answers =>
          /\ answers.rewards \in [Accounts -> 0 .. MaxContributions]
          /\ \A a \in Accounts :
                settled[a] <= answers.rewards[a] /\ answers.rewards[a] <= world.contributions[a]

(* Of what has been read the invariant keeps what stays true while the     *)
(* command reads on; the report is a summary of the answers, made once.    *)
IInv ==
    /\ WorldOK
    /\ HistoryOK
    /\ AnswersInOrder
    /\ AnswersWereTrue
    /\ report = IF pc = "printed" THEN Summary(answers) ELSE NoReport
=============================================================================
