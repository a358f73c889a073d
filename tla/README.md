# TLA+ models of workflow-plugin-compute

`workflow-plugin-compute` is an external plugin of the Workflow engine. It hands
work to a *workflow-compute* control plane over HTTP and waits for it. It has two
kinds of users: pipelines, through five step types, and operators, through the
commands of `wfctl compute`. This directory holds TLA+ modules of the parts that
keep state or depend on the order of events, TLC configurations that check them on
small instances, and TLAPS proofs of the most important results for every value
of the constants.

Paths such as `steps.go` are relative to `src/internal/`.

## 1. The system

| Component | Source | State | Operations | Module |
|---|---|---|---|---|
| `step.compute_wait` | `steps.go` 123-241, 416-463 | one call of `Execute`: where it is, its context, the output so far | build client, read tasks, read proofs, sleep, time out | `WaitStep` |
| `step.compute_map` | `steps.go` 243-401 | the submitted tasks, the rows of the last poll | submit n tasks, read tasks, read proofs, sleep, time out | `MapStep` |
| `step.compute_chain` | `steps_chain.go` | the link in hand, the outputs of the links before it; *shared by all executions of a step instance*: the reference lists of the configured providers | copy inputs, build and sign, submit, wait as above | `ChainStep` |
| `step.compute_dispatch`, `step.compute_stream` | `steps.go` 89-121, `steps_stream.go` | none after the call | one POST, its answer becomes the output | `Pipeline` |
| Reading of answers | `client.go` 206-254, `steps.go` 229-241, 377-401 | none | `taskSnapshot`, `actionableStalls`, `findProof`, `proofsByTask`, the decision on a receipt | `TaskView` |
| Commands that submit | `cli.go` 470-525, 548-686, 738-832, 1231-1273 | one process | check flags, build a request with its id, one POST, print a receipt | `OperatorCommands` |
| Agent setup | `cli.go` 141-253 | one process | make a session id, end by `--dry-run`, preview an invite, claim it | `OperatorCommands` |
| Control plane | external | tasks, stall flags, receipts | `POST /v1/tasks`, `GET /v1/tasks`, `GET /v1/proofs`; moves of its own | `ControlPlane` |
| Reports (pools, audit, accounting) | `cli.go` 527-546, 688-736, 1160-1168, 1307-1349, 1393-1407 | one process | one read or two, joined into one summary | `Reports` |
| Connections and references | `steps.go` 16-54, `refs.go`, `client.go` 150-176, `cli.go` 972-1089, 1176-1193 | none | find a token, a server and a timeout; refuse cleartext | `Connections`; in the step modules it is the two outcomes of `Begin` |
| Network audits | `cli.go` 842-1027, 1091-1158, `client.go` 272-304 | one process | check the epoch, connect, one request; the fields printed of the answer are not modelled | `NetworkAudits` |
| Modules | `module.go` | none | validation of a provider (in `Connections`), of pools and catalogs | partly |
| Configuration, registration, entry point | `config.go`, `plugin.go`, `cmd` | none | decoding, constant tables | not modelled |

**How the parts interact.** The engine calls `Execute` of a step with a context
that it may cancel at any time, and may do so concurrently for the same step
instance. Every step talks to the control plane with requests that can be lost,
refused or answered late. A `GET` is a snapshot of one moment; between two of them
the control plane moves on. Outputs of one step (the `task_id`) are inputs of the
next. The commands of operators use the same `POST /v1/tasks`.

**What is hard.**

- A decision is put together from two reads. `waitStep.Execute` reads tasks, then
  proofs; between them a task may be flagged, delisted, or receive a receipt.
- Four clocks end a wait: the step's timeout, the engine's context, the timeout
  of the `http.Client` and the poll timer. When two are ready a `select` takes
  either, and an expired context makes the next request fail.
- A request may fail although the control plane carried it out, so that a step
  that stops has left tasks behind.
- Ids may recur: within one map, between executions, between clients. A known id
  may be answered with the task that is already there.
- Executions of one chain step share memory without a lock.
- `compute_wait` and `compute_map` go by different receipts of the same task.
- A report adds up answers of two moments.
- Server, token and timeout come from up to four sources each, chosen by separate
  rules, and meet only when the client is made.

**What makes each component correct.**

- Waiting steps: the pipeline goes on only when every awaited task has
  succeeded and, unless `require_proof` is false, carries an accepted receipt
  (SPEC.md V7, V8; README "stops the pipeline if any task fails, stalls, times out,
  or produces a non-accepted proof"); in every other case it stops; every
  execution ends.
- `compute_wait`: an outage of the proof API masks no failure; a timeout is
  reported only when nothing had been decided; concurrent waits agree.
- `compute_map`: what is reported has a row per task, in order, in success and in
  timeout (V9); when one task stops the step, the last row is that task and carries
  the error; no task is left behind that the output does not account for.
- `compute_chain`: a link is sent only when the links before it are settled; it
  carries the references copied from this execution, and nothing but references that were
  copied for this link; what is signed is what is sent, unless another execution of the
  same instance works on the same list.
- Dispatch and stream: a wait follows only an accepted task.
- Commands: repeating a command with an id creates nothing twice; a receipt
  tells what really runs.
- A wait and a map that require a proof of one task contradict each other in no
  case but the one their different choice of receipts makes unavoidable.
- Reports: each number is bounded by what was so all the time and what was ever so
  while the command ran; the rewards printed are no older than the contributions.
- Connections: no token in cleartext to another host (V12); a token reaches the
  server of the provider it belongs to; a source that was named never gives way silently to another (V25);
  every request has a positive timeout.

## 2. Modules

```
            ControlPlane                       StepContract
                 |                               :  :  :
              TaskView                           :  :  :   (INSTANCE ... WITH)
           /     |     \                         :  :  :
     WaitStep  MapStep  ChainStep ...............:..:..:
      |    \      :                                    :
      |     Verdicts     (MapStep by INSTANCE)         :
      |                                                :
     Pipeline .........................................: (INSTANCE ... WITH)

     Connections
          |
     NetworkAudits        OperatorCommands        Reports
                          (a store of its own)    (a world of its own)
```

`ControlPlane` is an environment, not a translation: it is what the code under
`src/internal` is prepared to observe. `status` has the statuses the plugin tells
apart (`running` stands for every status that is neither queued nor terminal, an
unknown one included), `listed` is what `GET /v1/tasks` returns, `stalls` are its
flags and `receipts` the receipts in the order `GET /v1/proofs` lists them. All
that is relied upon is that success and failure are final and receipts are not
withdrawn. Its moves have no fairness: it may stop at any moment for ever.

`TaskView` has the pure functions, named as in the code.
`FirstReceipt` and `LastReceipt` are different on purpose: `findProof`
(`client.go` 243-254) returns the first receipt of a task, `proofsByTask` as used
by `mapSnapshot` (`steps.go` 381-384) keeps the last.

`StepContract` is the abstract specification: executions take on tasks, then
either `Proceed`, which needs every task they have taken on to be completed (and
proven), or `Stop`; and every execution ends. No requests, polls or clocks occur in
it. `WaitStep`, `MapStep`, `ChainStep` and `Pipeline` each define a refinement
mapping and are checked to implement it.

In `WaitStep`, `MapStep` and `ChainStep`, `pc` names the request an
execution has in flight. An action is the arrival of one answer together with all
the code that handles it, up to the next request, timer or return:

| Action | Code |
|---|---|
| `Begin` | `connectionConfig.client`: the request goes out, or the step stops at once |
| `SubmitSucceeds`, `SubmitFails` | one `submitTask`; a failure may have created the task |
| `SnapshotArrives` (`TasksArrive` in the map) | the read of tasks and every decision on it: not found, stopped, terminal or not |
| `ProofsArrive` | the read of proofs and the decision on a receipt |
| `RequestFails` (`TasksFail`, `ProofsFail`) | transport error, wrong status code, expired context, timeout of the client |
| `PollTimerFires`, `SeesContextDone` | the arms of the `select` |
| `StepDeadline`, `EngineEndsContext` | the step's own deadline; the engine's cancellation or deadline |
| `CopyInput`, `AssignRefs`, `CheckWorkload`, `BuildTask` (chain) | `applyComputeChainInputMappings`, validation, `buildTask`; computing an append and assigning it are two steps because executions overlap. A mapping copies a field that every output has (`task_id`, `status` and the like) or one that comes with the receipt (`Has`) |

`MapStep` follows both loops of `mapSnapshot`: rows up to the first culprit, then
receipts up to the first rejection. A row keeps its cause of failure (`error`, and the
`stall_reason` that goes with it), set where the code sets them, so that the row of the
culprit can be told from the others. `FailureOf` is the `errors.Is(err,
context.DeadlineExceeded)` test, which is true for an expired context and for the
timeout of the `http.Client`, and false for a cancelled context.

`ChainStep` keeps `refs`, the lists behind the `Provider` pointer of the
configuration. `steps_chain.go` 169 copies the workload, not what the pointer
refers to. `hashed` is the list as `buildTask` has hashed and signed it; the request
encodes the list a second time.

`Pipeline` extends `WaitStep` by a dispatch in front of it: `stage` is where the
pipeline is, and the wait starts when the dispatch has returned a `task_id`.

`OperatorCommands` has the six commands that send one POST and `agent setup`,
which sends a preview and a claim. `RequestId` is the id in the request: the given
one, the hash of the clock, or none. The store keeps, for each kind of resource,
whose content an id carries. A command that failed may be run again, and so may
one that has only rendered (`--dry-run`). The same operator keeps the same
command and flags.

`Verdicts` extends `WaitStep` by the variables of `MapStep`, taken by `INSTANCE`, and
interleaves the two unchanged: all they share is the control plane.

`Reports` has the commands that only read. `world` is what the control plane has;
`answers` are the answers so far. `had` and `settled` are history variables: the
statuses of each agent and task since the command began, and the rewarded units
when the contributions were read.

`Connections` has pure functions from a *setup* to a set of at most one client: one for
steps (`refs.go`), one for the ordinary commands, one for `network-audits`. What may
be missing (a flag, a variable) is a set with at most one element. A token is the
name of the place it was found in, for an environment variable the variable; a server is a
model value and has a class (cleartext, malformed, or neither). The variables that a
ref may stand for are `CLIRefEnvCandidates` of its key: its normalized form
(`Normalized`) and the same with `COMPUTE_` in front (`WithPrefix`), or none if nothing is left of the key.
Two providers may stand for the same variable, and one of the candidates may be `COMPUTE_API_TOKEN`
itself, as it is for the key `api-token`. `NetworkAudits` puts the functions in a process:
`Connect` and `Request`.

Definitions that start with the comment *Mistake* (or, in `WaitStep`, stand in
its section of mistakes) are not used by the specifications: each is a variant of
an action as a plausible bug would have it, which makes a property fail.

## 3. Model checking

All passing runs check deadlock. The step and command modules allow stuttering
(`Finished`) only when every execution is done.

| Run | Instance | Distinct states | What it shows |
|---|---|---|---|
| `wait` | 2 waits for 1 task, one with a required proof, both stall reasons, 2 receipts | 326,530 | `OkIsEarned` (V8), `OutageCannotMaskFailure` (V7), `TimesOutUndecided`, `IInv`, `KeepsContract` |
| `map_strict` | a map of 2 tasks, proof required, one task also submitted by others | 670,524 | success, timeout, culprit (`CulpritIsLast`) and partial failure (`NoTaskIsLost`) are reported completely; `KeepsContract` |
| `map_timeout_text` | a map of 2 tasks | violated | see finding 1 |
| `chain` | 2 executions of one instance, one after the other; 2 links, two mappings, proof required, the second task id shared | 1,305,985 | order on the control plane, no task lost; what is sent for a link ends with the execution's own references |
| `chain_detached` | 3 links, the middle one with `wait: false` and its `task_id` copied by the last, no proof required | 118,029 | order and earned success with a link that is not awaited; `KeepsContract` |
| `chain_overlap` | 2 executions of one instance that overlap in any way; two mappings to one list | 298,097 | only copied references are sent (`SendsOnlyCopies`); what is sent is what was signed unless the other execution has appended to the list (`SignsUnlessShared`) |
| `chain_reuse` | 2 executions, one after the other | violated | see finding 2 |
| `pipeline` | 2 pipelines with the same configured id, both waits strict, 2 receipts | 359,247 | a wait never polls for a task that was not accepted; with the oldest receipt first the two agree; dispatch and wait together keep the contract |
| `verdicts` | a strict wait for 1 task and a map that requires no proof and has this task configured twice, 2 receipts, newest first | 1,627,619 | opposite verdicts only if one goes by the very first receipt and the other has read a later, contradicting one; a success of the map has a row per configured task even when ids recur |
| `operator_commands` | 2 operators, any two of the seven commands, 2 ids, 2 readings of the clock, 2 attempts | 399,776 | `RunningAgainCreatesOnce`, `ReceiptTellsWhatRuns`, `EveryCommandEnds` |
| `reports` | 2 agents and 2 tasks in pools of one id and two orgs, 2 accounts, 3 receipts | 487,370 | `CountsLieInBetween`, `AuditIsOfOneMoment`, `RewardsAreNoOlder` |
| `network_audits` | every setup over 4 servers, 7 files, 4 variables and all flags | 446,208 | V12, V25, a provider's server and token stay together, the first named source decides, positive timeouts |

**Bounds.** The only bounds are the sizes of the constants, `MaxReceipts`,
`MaxAttempts`, `MaxContributions` and, for the environment of `Reports`,
`MaxStatuses`, the statuses one agent or task has while a command runs; nothing
else grows.

- One task per wait is enough because `waitStep` looks at one task; what another
  task could do to it goes through `Stopped` and `findProof`, which select by id.
- Two waits are enough for agreement, which compares two verdicts.
- Two tasks in a map give a first and a last culprit, rows before and after it,
  and a settled and an unsettled task in one answer. A repeated id is the case of `verdicts`.
- Two receipts make the first and the last one differ. `map_strict` has one
  receipt for each task, where the two coincide; `verdicts` has two.
- Two attempts give a repetition after a lost request and after a lost answer;
  the theorem `CreatesOnce` covers any number.
- In `reports`, what changes while a command runs has at most `MaxStatuses`
  statuses; two are enough for it to have one status in the first read and
  another in the second.
- In `network_audits` there is a server of each class, and files with no provider, one,
  two, two of the same name, one whose key yields no variable, and one that is not valid.
  The refs of two providers of a file stand for different variables or share one; the
  default of the other commands is one of them.
- Two overlapping executions are enough for `SignsUnlessShared`, which needs one other to
  append between hash and request; `chain_overlap` drops receipts and stall flags, which do
  not touch the lists. In the runs of the chain either all executions require a proof or
  none does: `require_proof` belongs to the instance.
- Two links are a predecessor and a successor; three are needed for an awaited
  link after one that is not awaited.

**Fairness.** Weak fairness is assumed of steps of the plugin only: an execution
that can take a step takes one; a request in flight ends, because
`newComputeClient` gives its `http.Client` a positive `Timeout` whatever is
configured (`client.go` 159-166); a deadline set by `context.WithTimeout` passes.
The submissions of `compute_map` come before its own deadline (`steps.go` 300-311), so
only the client's timeout bounds them. Nothing is assumed of the control plane,
of the engine or of operators: it is never assumed that a request
succeeds, that a task makes progress, or that a command is repeated.

`KeepsContract` includes the liveness of `StepContract`: every execution ends.

## 4. Findings

1. **`map_timeout_text`** (`steps.go` 338). SPEC.md V9 calls the timeout output
   "deterministic even if context expires during an HTTP poll". When the deadline
   passes between two polls, the output has the rows of the last poll; when it
   passes during the read of the tasks, `mapSnapshot` returns the tasks as they
   were submitted. What holds, and is proved, is that every task is reported,
   once and in order (`TimeoutReportsEveryTask`); what is said of each task depends
   on where the deadline falls.
2. **`chain_reuse`** (`steps_chain.go` 266). README.md says that mappings "only copy
   prior step output into generic provider handoff fields". The lists they append
   to belong to the step's configuration, through the `Provider` pointer, so that
   a second execution of the same step instance sends the references of the first
   in front of its own. The instance has the executions one after the
   other; no concurrency is needed. What holds instead is `EndsWithItsOwnInputs` and, of
   executions that overlap, `SendsOnlyCopies`.

Noted while modelling, but not findings, as nothing in the repository says otherwise:

- `compute_wait` goes by the first receipt of a task and `compute_map` by the last.
  `OppositeVerdictsNeedBothReceipts` says exactly when they contradict each other.
- `step.compute_map` reports, when one task stops it, only the tasks up to that one
  (`CulpritIsLast`); the configured tasks after it have been submitted and are running, and
  the output does not name them (the third case of `NoTaskIsLost`).
- Executions of one chain step that overlap may send other references than were signed,
  for a link that both have mapped (`SignsUnlessShared` says that this is the only way).
- With a configuration file, `network-audits --server ""` leaves the default server, not that of
  the provider, with the provider's token; `CredentialsStayTogether` is about commands without `--server`.
- The ref `secret:api-token` of a provider stands for `COMPUTE_API_TOKEN` too, the variable
  that is the default of the other commands (`cli.go` 1084-1087).
- A ref whose key is configured with an empty string resolves to no token in a step
  (`refs.go` returns the first string it finds); in `network-audits` an empty variable is
  skipped and, when none is left, ends the command.
- `network-audits audit-state` prints `projection_ready` and
  `ref_key_epoch_mismatch` as constants; that nothing is printed when the epochs
  differ is what makes the second one true.
- `compute pools` may print a pool with tasks and no agents, or the reverse, that
  never was so: the two reads are of two moments.

## 5. Proofs

The theorems hold for every set of executions and tasks, every list of jobs and every
number of receipts, under the named assumptions on the constants that TLC
evaluates in the runs (`StrictAssumption`, `JobsAssumption`, and so on). None is
stronger than what validation guarantees; the one of `Reports`, `IdsAssumption`, says
that the control plane lists finitely many agents and tasks, none of them both.

| Module | Theorems |
|---|---|
| `TaskViewProofs` | `ServerStepTypeOK`; that success, acceptance and the oldest receipt are stable; what the first and last receipt and the decision on one are |
| `WaitStepProofs` | `TypeCorrect`, `Inductive`, `EarnedOk`, `NothingMasked`, `Agreement`, `HonestTimeout`, `ImplementsContract` |
| `MapStepProofs` | `TypeCorrect`, `Inductive`, `EarnedOk`, `SuccessIsReported`, `CompleteTimeout`, `CulpritReported`, `TasksAreReported`, `ImplementsContract` |
| `ChainStepProofs` | `TypeCorrect`, `Inductive`, `LinksInOrder`, `EarnedOk`, `TasksAreReported`, `LoneExecution`, `LoneInputs`, `InOrder`, `SerialSignature`, `SerialInputs`, `OnlyCopies`, `SignedUnlessShared`, `ImplementsContract` |
| `CompositionProofs` | of `Pipeline`: `InductivePipeline`, `WaitsAreForAccepted`, `PipelinesAgree`, `PipelineImplementsContract`; of `Verdicts`: `InductiveVerdicts`, `OppositeVerdicts`, `EarnedTogether`, `ReportedTogether` |
| `OperatorCommandsProofs` | `TypeCorrect`, `Inductive`, `CreatesOnce`, `TruthfulReceipt` |
| `NetworkAuditsProofs` | `TypeCorrect`, `Inductive`, `NoTokenInCleartext`, `NoSilentFallback`, `CredentialsMatch` |
| `ReportsProofs` | `Inductive`, `TypeCorrect`, `CountsInBetween`, `AuditOfOneMoment`, `RewardsNoOlder` |

**The argument for the waiting steps.** `OkIsEarned` says of the control plane's
*present* state what the step has concluded from *two reads in the past*. It is
not inductive: a step that has read a success and is waiting for the proofs has no
result yet. The invariant `IInv` adds what an execution knows while it waits,
and only that part of it which the control plane cannot take back:

- `SuccessIsFinal`: an execution asks for the proofs only when the task has
  succeeded; success is final, so this survives every move of the control plane.
- `AcceptanceIsFinal`, `FirstReceiptDecides`: an accepted receipt is not withdrawn;
  with the oldest receipt first, the first receipt stays the first.
- `PollsWhileUndecided`: a wait sleeps only on what left it undecided, whence
  `TimesOutUndecided`. Status and flags that were read and may change by now
  occur only as what was read.
- In the map, `SubmitsInOrder` and `RowsInOrder` tie the submitted tasks and the rows
  to the configured list by position, which carries `TimeoutReportsEveryTask`,
  `OkReportsEachTask`; `CreatedIsSubmitted` carries `NoTaskIsLost`. `CulpritIsLast` is
  about one step: `TasksRead` says what the rows of an answer are up to the first task
  there was a reason to stop at, and that there was none before it.

A lemma for each action shows that `IInv` is preserved; the moves of the control
plane are one lemma that uses only the stability facts of `TaskViewProofs`.
`ImplementsContract` then maps each step to `Proceed`, `Stop`, `Await`, `Progress` or
a stutter of `StepContract`.

**The argument for the chain.** The properties speak of links that were left behind
long ago, so `IInv` carries, for each execution `r`, what is known of them
(`Sound(r)`): where the execution is follows from what it has sent and put out
(`KeepsCount`); a link before the one in hand is settled, which is final
(`LeavesSettledLinks`); a created task is in the outputs or is that of the link in
hand (`ReportsCreated`). None of it mentions the shared lists, so it holds for any
number of executions that overlap: what they do to each other's lists cannot
break the order, the report or the contract. The frame is one lemma
(`OthersUntouched`): of the variables in `Sound`, a step touches only its own
execution's, and of the control plane only what is final is used. A second
invariant, `OwnsItsLists`, says which references the lists, the buffer and what was
sent hold; it is inductive for a *lone* execution of a fresh instance (`Solo`), and
gives `LoneInputs`. Together with finding 2 this locates the cause: the sharing,
and nothing else.

What sharing does not break is the subject of the other theorems on the lists. For executions
that do not overlap (`OneAtATime`, as in `chain` and `chain_reuse`) the list that was hashed is still
the configured one when it is sent (`SignedAsListed`, `SerialSignature`), and whatever an earlier
execution has left in it, it ends with what the execution in hand has copied
(`ExtendsItsLists`, `SerialInputs`). For executions that overlap in any way, the buffer, the lists
and what was sent hold only references that a mapping of that link copies in some execution
(`HoldsOnlyCopies`, `OnlyCopies`), and a list differs from what was hashed only if another
execution has appended to it (`ListedAsSignedUnlessShared`, `SignedUnlessShared`), which is
for good: where an execution is in its links never goes back (`MappedForGood`).

**The argument for the pipeline.** Its wait is that of `WaitStep`, so each step of the
composition is a step of `WaitStep`, or of the dispatch, or of both
at the hand-over. `PipelineIInv` is the invariant of the wait together with
`HandedOver`: a wait that has begun has a task that was accepted. The contract is
that of one waiting step, whose execution includes the dispatch.

**The argument for opposite verdicts.** `Verdicts` puts a wait and a map next to each
other. To each of them the steps of the other are stutters, and those of the control
plane are the ones it expects, so each keeps its own `IInv`; the proof uses the step
lemmas of `WaitStepProofs` as they are and those of `MapStepProofs` through an
instance. What is added relates *when* the two have read: a wait's verdict was the
first receipt listed then (`WasFirst`), a map's the last (`WasLast`). Receipts are only added, at the
end that `NewestFirst` says, so of "was the first" there remains "is the first" in one
order and "is among them" in the other. Two different verdicts need two receipts, and
which of them is the very first one follows.

**The argument for the reports.** A report speaks of the past: of answers that have
been overtaken when it is printed. `AnswersWereTrue` keeps of each answer what no
later move can take back: its statuses occur in the history `had`, its receipts are a first part
of the list, its rewards lie between `settled` and the contributions. `AnswersInOrder` says which
answers there are, so that a printed report has all of its own. With it
`CountsInBetween` is a statement about sets: those that were so all the time are among
those that are counted, and these among those that were ever so. A pool without a row has nothing to count.
`RewardsNoOlder` rests on the order of the two reads, which is what its
mutant swaps. For `AuditOfOneMoment` the fold over the receipts has to be computed for
a list of any length, which is an induction: `AuditCounts` shows that the sums over
a set of positions are a solution of the fold's equation, and that there is no other,
since among the sets where another one differed there would be a least
(`LeastSubset`, from the library's `WFMin`), and taking its last position out makes it smaller.

**The argument for connections.** Every client comes from `newComputeClient`, so
`NewClient` gives V12 for any server and any token; what is to be shown is that no
way leads around it (`EveryClientIsGuarded`) and that a request uses the client
that was made (`IInv`). `AuditSources` lists which token can meet which server in
`network-audits`; the other two theorems read it off, from what a configuration
file can mean (`ProviderOfFile`, `OneProvider`: of a name that recurs the first) and from what a ref can
stand for (`TokenOfRef`). Nothing is assumed of the variables but that normalizing a key and
putting the prefix in front give names of variables.

**The argument for the commands.** `GivenIdIsUsed`: an id that was given is the one in
every request, through failures and repetitions, so all an operator can have
created is that id. `ReceiptIsOfStore`: what the control plane has under an id is not
replaced, so that a receipt stays true.

**Model-checked only.** Every invariant of a passing run is a theorem. Liveness (that
executions and commands end, in `KeepsContract`, `KeepsPipelineContract` and
`EveryCommandEnds`) is out of the prover's reach; of the contracts the theorems
named `...ImplementsContract` state the safety part.
The library's induction theorems take an operator as parameter, which the
provers cannot instantiate; the one induction that was needed is done by a least
counterexample, as above. `:>` and `@@` of the module `TLC` have no definition for the prover,
so the specifications use function constructors instead.

## 6. Abstractions, and what is not modelled

- The arrival of an answer and its handling are one step. The code in between
  touches only memory of its own execution, except in `ChainStep`, where
  reads, appends and assignments of the shared lists are separate. A torn
  read of a Go slice header, and two appends that write to one backing array, which overlapping
  executions could produce, are not modelled: `SendsOnlyCopies` and `SignsUnlessShared` are about
  lists as values.
- Texts of errors, JSON and headers. URLs and durations occur by the classes the
  code tells apart. Whether a client follows a redirect is the library's affair. Which fields
  `network-audits` prints of an answer is a fixed list for each of its three output paths
  (`cli.go` 915-926, 1126-1148), without state, and left out. That tokens and workloads do
  not reach an output (V4, V10, V13-V16) appears only where an output is modelled
  (`Receipt`, `Row`).
- Events and labels in the reports; `stall_age_ms` and the ids in rows.
- In the chain, a reference is the task it was copied from, and the three
  destinations of a mapping, treated alike by the code, are one list per link.
- The contents of a request in `OperatorCommands` are its author.
- Construction of steps (`new...Step`) is validation without state; what it
  guarantees is assumed of the constants.
- Of the modules (`module.go`), pools and catalogs are validated and kept nowhere,
  and `Init`, `Start` and `Stop` of all three do nothing: there is no behaviour to
  model besides the validation of a provider. Configuration (`config.go`) and
  registration (`plugin.go`) keep no state.
- Build and alignment scripts.

## 7. Plan

Done, in this order: `ControlPlane`, `TaskView`, `StepContract`, `WaitStep` with its
proofs, `MapStep` with its proofs, `ChainStep`, `Pipeline`, `OperatorCommands` with its
proofs, `Verdicts`, `Reports`, `Connections` and `NetworkAudits` with its proofs,
`CompositionProofs`, `ChainStepProofs`, `ReportsProofs`.

Next:

1. Abstract specifications for the commands that submit and for the reports, as
   `StepContract` is for the steps: what an operator is promised, without requests and answers,
   and the proof that `OperatorCommands` and `Reports` implement them.
2. `Verdicts` keeps two contracts at once, one for the wait and one for the map.
3. Overlapping executions of a chain with receipts, stall flags and a link that is not awaited,
   on larger instances than `chain_overlap`.
