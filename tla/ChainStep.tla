----------------------------- MODULE ChainStep ------------------------------
(***************************************************************************)
(* step.compute_chain: executions of computeChainStep.Execute              *)
(* (steps_chain.go) on one step instance, against one control plane.       *)
(*                                                                         *)
(* The links of a chain are submitted in order; unless wait is false each  *)
(* is awaited as in WaitStep before the next one.  Input mappings append   *)
(* output of earlier links to a reference list of the workload's provider. *)
(* The workload is copied for each execution, but its Provider field is a  *)
(* pointer: the lists belong to the configuration, refs[k], and every      *)
(* execution of the step reads and appends to the same ones.  Append and   *)
(* assignment are two steps, since executions may overlap.                 *)
(*                                                                         *)
(* A reference is abstracted to the task whose output it was copied from,  *)
(* and the three destinations, treated alike, to one list per link.        *)
(***************************************************************************)
EXTENDS TaskView

CONSTANTS
    Runs,      \* executions of one step.compute_chain instance
    Strict,    \* those with require_proof
    Links,     \* the configured steps and their input_mappings
    TaskOf     \* the task id each execution gives each link

NLinks == Len(Links)

(* An input mapping copies a field of an earlier link's output: one that   *)
(* every output has (task_id, status, org_id, pool_id, step_id), or one    *)
(* that comes with the receipt (proof_id and the like).                    *)
Mapping == [step : Nat, field : {"task", "proof"}]

\* What computeChainConfig.validate accepts: mappings copy from earlier links.
ValidLinks ==
    /\ Links \in Seq([wait : BOOLEAN, inputs : Seq(Mapping)])
    /\ Links # <<>>
    /\ \A k \in 1 .. NLinks : \A i \in DOMAIN Links[k].inputs :
          Links[k].inputs[i].step \in 1 .. k - 1

ASSUME StrictAssumption == Strict \subseteq Runs
ASSUME LinksAssumption == ValidLinks
ASSUME TaskOfAssumption == TaskOf \in [Runs -> [1 .. NLinks -> Tasks]]

VARIABLES
    pc, ctx,   \* as in WaitStep
    at,        \* the link being worked on
    copied,    \* how many of its mappings have been applied
    buffer,    \* the list an append has computed and not yet assigned
    hashed,    \* the list as buildTask hashed and signed it
    row,       \* the output of the link being worked on
    outputs,   \* the outputs of the links before it
    result,
    refs,      \* refs[k]: the list in the configuration of link k
    sent,      \* sent[r]: the lists in the workloads r has submitted
    created    \* created[r]: the tasks r has created

localVars == <<pc, ctx, at, copied, buffer, hashed, row, outputs, result>>
chainVars == <<localVars, refs, sent, created>>
vars == <<serverVars, chainVars>>

Result == {"none", "ok", "client_error", "mapping_failed", "invalid_workload",
           "submit_failed", "tasks_unavailable", "not_found", "task_stopped",
           "proofs_unavailable", "proof_rejected", "timed_out"}

Row == [id : Tasks, status : Status, proof : Verdict \cup {"none"}]

Working == {"map", "append", "build", "submit", "list", "proofs", "sleep"}

BlankRow(t) == [id |-> t, status |-> "absent", proof |-> "none"]

Init ==
    /\ ServerInit
    /\ pc = [r \in Runs |-> "start"]
    /\ ctx = [r \in Runs |-> "live"]
    /\ at = [r \in Runs |-> 1]
    /\ copied = [r \in Runs |-> 0]
    /\ buffer = [r \in Runs |-> <<>>]
    /\ hashed = [r \in Runs |-> <<>>]
    /\ row = [r \in Runs |-> BlankRow(TaskOf[r][1])]
    /\ outputs = [r \in Runs |-> <<>>]
    /\ result = [r \in Runs |-> "none"]
    /\ refs = [k \in 1 .. NLinks |-> <<>>]
    /\ sent = [r \in Runs |-> <<>>]
    /\ created = [r \in Runs |-> {}]

-----------------------------------------------------------------------------
(* The pieces the steps of one execution are made of. *)

Goto(r, label) == pc' = [pc EXCEPT ![r] = label] /\ UNCHANGED result

Return(r, why) ==
    /\ pc' = [pc EXCEPT ![r] = "done"]
    /\ result' = [result EXCEPT ![r] = why]

\* Mistake: the row of the failed link is left out of the reported steps.
StopWithoutRow(r, why, last) ==
    /\ row' = [row EXCEPT ![r] = last]
    /\ Return(r, why)
    /\ UNCHANGED <<at, copied, outputs>>

\* The link in hand has failed: its row ends the reported steps.
StopWith(r, why, last) ==
    /\ row' = [row EXCEPT ![r] = last]
    /\ outputs' = [outputs EXCEPT ![r] = Append(@, last)]
    /\ Return(r, why)
    /\ UNCHANGED <<at, copied>>

\* Mistake: the id of the task is recorded in place of its output.
AdvanceWithId(r, last) ==
    /\ outputs' = [outputs EXCEPT ![r] = Append(@, last.id)]
    /\ Return(r, "ok")
    /\ row' = [row EXCEPT ![r] = last]
    /\ UNCHANGED <<at, copied>>

\* The link in hand is finished: its row becomes an output of the chain.
Advance(r, last) ==
    /\ outputs' = [outputs EXCEPT ![r] = Append(@, last)]
    /\ IF at[r] = NLinks
       THEN /\ Return(r, "ok")
            /\ row' = [row EXCEPT ![r] = last]
            /\ UNCHANGED <<at, copied>>
       ELSE /\ Goto(r, "map")
            /\ at' = [at EXCEPT ![r] = @ + 1]
            /\ copied' = [copied EXCEPT ![r] = 0]
            /\ row' = [row EXCEPT ![r] = BlankRow(TaskOf[r][at[r] + 1])]

Link(r) == Links[at[r]]

Task(r) == TaskOf[r][at[r]]

-----------------------------------------------------------------------------
Begin(r) ==
    /\ pc[r] = "start"
    /\ Goto(r, "map") \/ Return(r, "client_error")
    /\ UNCHANGED <<serverVars, ctx, at, copied, buffer, hashed, row, outputs,
                   refs, sent, created>>

\* lookupChainValue: whether the output of a link has the field.
Has(source, field) == field = "task" \/ source.proof # "none"

(* applyComputeChainInputMappings, one mapping at a time.  A field that is *)
(* there may still not have the shape the destination asks for.            *)
CopyInput(r) ==
    LET mapping == Link(r).inputs[copied[r] + 1]
        source == outputs[r][mapping.step]
    IN  /\ pc[r] = "map"
        /\ copied[r] < Len(Link(r).inputs)
        /\ \/ /\ Has(source, mapping.field)
              /\ buffer' = [buffer EXCEPT ![r] = Append(refs[at[r]], source.id)]
              /\ Goto(r, "append")
           \/ Return(r, "mapping_failed") /\ UNCHANGED buffer
        /\ UNCHANGED <<serverVars, ctx, at, copied, hashed, row, outputs,
                       refs, sent, created>>

\* Mistake: the list is overwritten by each mapping instead of extended.
AssignRefsAnew(r) ==
    /\ pc[r] = "append"
    /\ refs' = [refs EXCEPT ![at[r]] = <<buffer[r][Len(buffer[r])]>>]
    /\ copied' = [copied EXCEPT ![r] = @ + 1]
    /\ buffer' = [buffer EXCEPT ![r] = <<>>]
    /\ Goto(r, "map")
    /\ UNCHANGED <<serverVars, ctx, at, hashed, row, outputs, sent, created>>

\* Mistake: all links have been given one provider.
AssignRefsOfAllLinks(r) ==
    /\ pc[r] = "append"
    /\ refs' = [k \in 1 .. NLinks |-> buffer[r]]
    /\ copied' = [copied EXCEPT ![r] = @ + 1]
    /\ buffer' = [buffer EXCEPT ![r] = <<>>]
    /\ Goto(r, "map")
    /\ UNCHANGED <<serverVars, ctx, at, hashed, row, outputs, sent, created>>

\* The assignment through workload.Provider.
AssignRefs(r) ==
    /\ pc[r] = "append"
    /\ refs' = [refs EXCEPT ![at[r]] = buffer[r]]
    /\ copied' = [copied EXCEPT ![r] = @ + 1]
    /\ buffer' = [buffer EXCEPT ![r] = <<>>]
    /\ Goto(r, "map")
    /\ UNCHANGED <<serverVars, ctx, at, hashed, row, outputs, sent, created>>

\* Every mapping is applied: the workload is validated.
CheckWorkload(r) ==
    /\ pc[r] = "map"
    /\ copied[r] = Len(Link(r).inputs)
    /\ Goto(r, "build") \/ Return(r, "invalid_workload")
    /\ UNCHANGED <<serverVars, ctx, at, copied, buffer, hashed, row, outputs,
                   refs, sent, created>>

\* Mistake: the hash is taken of the workload before the mappings.
BuildTaskUnmapped(r) ==
    /\ pc[r] = "build"
    /\ hashed' = [hashed EXCEPT ![r] = <<>>]
    /\ Goto(r, "submit")
    /\ UNCHANGED <<serverVars, ctx, at, copied, buffer, row, outputs,
                   refs, sent, created>>

\* buildTask hashes the workload and signs the hash.
BuildTask(r) ==
    /\ pc[r] = "build"
    /\ hashed' = [hashed EXCEPT ![r] = refs[at[r]]]
    /\ Goto(r, "submit")
    /\ UNCHANGED <<serverVars, ctx, at, copied, buffer, row, outputs,
                   refs, sent, created>>

(* submitTask encodes the workload a second time and posts it.  The        *)
(* control plane may take a known id for the task it already has.          *)
Posted(r) ==
    /\ sent' = [sent EXCEPT ![r] = Append(@, refs[at[r]])]
    /\ \/ Create(Task(r)) /\ created' = [created EXCEPT ![r] = @ \cup {Task(r)}]
       \/ status[Task(r)] # "absent" /\ UNCHANGED <<serverVars, created>>

\* Mistake: every link is treated as if wait were false.
SubmitSucceedsAtOnce(r) ==
    /\ pc[r] = "submit"
    /\ ctx[r] = "live"
    /\ Posted(r)
    /\ Advance(r, [id |-> Task(r), status |-> status'[Task(r)], proof |-> "none"])
    /\ UNCHANGED <<ctx, buffer, hashed, refs>>

SubmitSucceeds(r) ==
    LET answer == [id |-> Task(r), status |-> status'[Task(r)], proof |-> "none"]
    IN  /\ pc[r] = "submit"
        /\ ctx[r] = "live"
        /\ Posted(r)
        /\ IF Link(r).wait
           THEN /\ Goto(r, "list")
                /\ UNCHANGED <<at, copied, row, outputs>>
           ELSE Advance(r, answer)
        /\ UNCHANGED <<ctx, buffer, hashed, refs>>

SubmitFails(r) ==
    /\ pc[r] = "submit"
    /\ Posted(r) \/ UNCHANGED <<serverVars, sent, created>>
    /\ Return(r, "submit_failed")
    /\ UNCHANGED <<ctx, at, copied, buffer, hashed, row, outputs, refs>>

-----------------------------------------------------------------------------
(* waitForTask *)

SnapshotArrives(r) ==
    LET task == TaskSnapshot(Task(r))
        seen == [BlankRow(Task(r)) EXCEPT !.status = task.status]
    IN  /\ pc[r] = "list"
        /\ ctx[r] = "live"
        /\ IF ~task.found
           THEN StopWith(r, "not_found", BlankRow(Task(r)))
           ELSE IF Stopped(task.status, task.stalls, r \in Strict)
           THEN StopWith(r, "task_stopped", seen)
           ELSE /\ row' = [row EXCEPT ![r] = seen]
                /\ Goto(r, IF IsTerminalTaskStatus(task.status) THEN "proofs" ELSE "sleep")
                /\ UNCHANGED <<at, copied, outputs>>
        /\ UNCHANGED <<serverVars, ctx, buffer, hashed, refs, sent, created>>

ProofsArrive(r) ==
    LET receipt == FindProof(Task(r))
        decision == ProofDecision(receipt, r \in Strict)
        proven == [row[r] EXCEPT !.proof = receipt]
    IN  /\ pc[r] = "proofs"
        /\ ctx[r] = "live"
        /\ CASE decision = "stop"    -> StopWith(r, "proof_rejected", proven)
             [] decision = "proceed" -> Advance(r, proven)
             [] decision = "poll"    -> /\ Goto(r, "sleep")
                                        /\ UNCHANGED <<at, copied, row, outputs>>
        /\ UNCHANGED <<serverVars, ctx, buffer, hashed, refs, sent, created>>

\* Mistake: a failed read is taken for a passing disturbance and tried again.
RequestFailsRetried(r) ==
    /\ pc[r] \in {"list", "proofs"}
    /\ Goto(r, "sleep")
    /\ UNCHANGED <<serverVars, ctx, at, copied, buffer, hashed, row, outputs,
                   refs, sent, created>>

RequestFails(r) ==
    /\ \/ pc[r] = "list" /\ StopWith(r, "tasks_unavailable", BlankRow(Task(r)))
       \/ pc[r] = "proofs" /\ StopWith(r, "proofs_unavailable", row[r])
    /\ UNCHANGED <<serverVars, ctx, buffer, hashed, refs, sent, created>>

PollTimerFires(r) ==
    /\ pc[r] = "sleep"
    /\ Goto(r, "list")
    /\ UNCHANGED <<serverVars, ctx, at, copied, buffer, hashed, row, outputs,
                   refs, sent, created>>

SeesContextDone(r) ==
    /\ pc[r] = "sleep"
    /\ ctx[r] # "live"
    /\ StopWith(r, "timed_out", row[r])
    /\ UNCHANGED <<serverVars, ctx, buffer, hashed, refs, sent, created>>

\* chainCtx bounds the whole execution, the submissions included.
StepDeadline(r) ==
    /\ pc[r] \in Working
    /\ ctx[r] = "live"
    /\ ctx' = [ctx EXCEPT ![r] = "done"]
    /\ UNCHANGED <<serverVars, pc, at, copied, buffer, hashed, row, outputs, result,
                   refs, sent, created>>

EngineEndsContext(r) ==
    /\ pc[r] = "start"
    /\ ctx[r] = "live"
    /\ ctx' = [ctx EXCEPT ![r] = "done"]
    /\ UNCHANGED <<serverVars, pc, at, copied, buffer, hashed, row, outputs, result,
                   refs, sent, created>>

-----------------------------------------------------------------------------
(* Another client submits a task, or the control plane moves on its own, as *)
(* long as an execution is left to see it.                                 *)
Server ==
    /\ \E r \in Runs : pc[r] # "done"
    /\ \E t \in Tasks : ServerStep(t)
    /\ UNCHANGED chainVars

Execute(r) ==
    \/ Begin(r)
    \/ CopyInput(r)
    \/ AssignRefs(r)
    \/ CheckWorkload(r)
    \/ BuildTask(r)
    \/ SubmitSucceeds(r)
    \/ SubmitFails(r)
    \/ SnapshotArrives(r)
    \/ ProofsArrive(r)
    \/ RequestFails(r)
    \/ PollTimerFires(r)
    \/ SeesContextDone(r)

Finished == (\A r \in Runs : pc[r] = "done") /\ UNCHANGED vars

Next ==
    \/ Server
    \/ \E r \in Runs : Execute(r) \/ StepDeadline(r) \/ EngineEndsContext(r)
    \/ Finished

Fairness ==
    \A r \in Runs :
        /\ WF_vars(Begin(r) \/ CopyInput(r) \/ AssignRefs(r) \/ CheckWorkload(r) \/ BuildTask(r))
        /\ WF_vars(SubmitSucceeds(r) \/ SubmitFails(r))
        /\ WF_vars(SnapshotArrives(r) \/ ProofsArrive(r) \/ RequestFails(r))
        /\ WF_vars(PollTimerFires(r) \/ SeesContextDone(r))
        /\ WF_vars(StepDeadline(r))

SafetySpec == Init /\ [][Next]_vars
Spec == SafetySpec /\ Fairness

-----------------------------------------------------------------------------
(* Every variable stays within the values the code can give it. *)
TypeOK ==
    /\ ServerTypeOK
    /\ pc \in [Runs -> {"start", "done"} \cup Working]
    /\ ctx \in [Runs -> {"live", "done"}]
    /\ at \in [Runs -> 1 .. NLinks]
    /\ copied \in [Runs -> Nat]
    /\ buffer \in [Runs -> Seq(Tasks)]
    /\ hashed \in [Runs -> Seq(Tasks)]
    /\ row \in [Runs -> Row]
    /\ outputs \in [Runs -> Seq(Row)]
    /\ result \in [Runs -> Result]
    /\ refs \in [1 .. NLinks -> Seq(Tasks)]
    /\ sent \in [Runs -> Seq(Seq(Tasks))]
    /\ created \in [Runs -> SUBSET Tasks]

\* What an awaited link's task must be for the chain to move past it.
Settled(r, k) ==
    /\ TaskOf[r][k] \in Completed
    /\ r \in Strict => TaskOf[r][k] \in Proven

(* The order of a chain holds on the control plane, not only in the step:  *)
(* by the time the workload of a link is sent, every awaited link before   *)
(* it has succeeded there and, where a proof is required, is proven.       *)
LinksWaitForEarlierLinks ==
    \A r \in Runs : \A k \in 1 .. Len(sent[r]) : \A j \in 1 .. k - 1 :
        Links[j].wait => Settled(r, j)

(* A chain that proceeds has settled every link it awaits. *)
OkIsEarned ==
    \A r \in Runs :
        result[r] = "ok" => \A k \in 1 .. NLinks : Links[k].wait => Settled(r, k)

\* The task whose output mapping i of link k copies in execution r.
Source(r, k, i) == TaskOf[r][Links[k].inputs[i].step]

(* README: "Mappings only copy prior step output into generic provider     *)
(* handoff fields".  The workload sent for a link carries exactly the      *)
(* references its mappings copy from this execution's outputs, in order.   *)
SubmitsItsOwnInputs ==
    \A r \in Runs : \A k \in 1 .. Len(sent[r]) :
        sent[r][k] = [i \in DOMAIN Links[k].inputs |-> Source(r, k, i)]

(* What does hold when the step is executed again: the references sent for *)
(* a link end with all of those its mappings copy from this execution's    *)
(* outputs, in order.  Those of earlier executions can only precede them.  *)
EndsWithItsOwnInputs ==
    \A r \in Runs : \A k \in 1 .. Len(sent[r]) :
        LET own == Len(Links[k].inputs)
            before == Len(sent[r][k]) - own
        IN  /\ before >= 0
            /\ \A i \in 1 .. own : sent[r][k][before + i] = Source(r, k, i)

(* And when executions overlap: whatever two of them make of the list they *)
(* share, each reference sent for a link is one that a mapping of that     *)
(* very link has copied, in one of the executions.                         *)
SendsOnlyCopies ==
    \A r \in Runs : \A k \in 1 .. Len(sent[r]) : \A j \in DOMAIN sent[r][k] :
        \E q \in Runs, i \in DOMAIN Links[k].inputs : sent[r][k][j] = Source(q, k, i)

(* The hash that buildTask signs is the hash of the workload that is sent. *)
(* (Of executions that do not overlap, see ChainStepProofs.)               *)
SignsWhatItSends ==
    [][\A r \in Runs : sent'[r] # sent[r] => sent'[r][Len(sent'[r])] = hashed[r]]_vars

\* q has appended to the list of link k.
HasMapped(q, k) ==
    \/ at[q] > k /\ Links[k].inputs # <<>>
    \/ at[q] = k /\ copied[q] > 0

(* When executions overlap, the list may change between the hash that      *)
(* buildTask signs and the request that carries it.  But only another      *)
(* execution of the step that has appended to that very list can make the  *)
(* two differ: a link without mappings, and the first execution to map a   *)
(* link as long as it is the only one, send what was signed.               *)
SignsUnlessShared ==
    [][\A r \in Runs :
          LET k == Len(sent'[r])
          IN  sent'[r] # sent[r] /\ sent'[r][k] # hashed[r] =>
                 \E q \in Runs \ {r} : HasMapped(q, k)]_vars

(* The tasks a finished execution has created can be found from its        *)
(* output, wait false or not; only the answer to its last submission can   *)
(* have been lost together with a created task.                            *)
NoTaskIsLost ==
    \A r \in Runs :
        pc[r] = "done" =>
            created[r] \subseteq {outputs[r][i].id : i \in DOMAIN outputs[r]}
                \cup (IF result[r] = "submit_failed" THEN {Task(r)} ELSE {})

-----------------------------------------------------------------------------
(* The inductive invariant behind these properties. *)

BeforeSubmission == {"start", "map", "append", "build", "submit"}

Polling == {"list", "proofs", "sleep"}

EndsWithResult(r) == pc[r] = "done" <=> result[r] # "none"

\* Where an execution is can be told from what it has sent and put out.
KeepsCount(r) ==
    /\ pc[r] # "done" => Len(outputs[r]) = at[r] - 1
    /\ pc[r] \in BeforeSubmission => Len(sent[r]) = at[r] - 1
    /\ pc[r] \in Polling => Len(sent[r]) = at[r]
    /\ Len(sent[r]) <= at[r]

\* A link is left behind only when its task is settled, which is final.
LeavesSettledLinks(r) ==
    /\ \A k \in 1 .. at[r] - 1 : Links[k].wait => Settled(r, k)
    /\ pc[r] \in Polling => Link(r).wait
    /\ pc[r] = "proofs" => Task(r) \in Completed
    /\ result[r] = "ok" => at[r] = NLinks /\ (Link(r).wait => Settled(r, at[r]))

\* A created task is in the outputs, or its link is the one in hand.
ReportsCreated(r) ==
    /\ row[r].id = Task(r)
    /\ \A t \in created[r] :
          \/ \E i \in 1 .. Len(outputs[r]) : outputs[r][i].id = t
          \/ t = Task(r) /\ (pc[r] \in Polling \/ result[r] = "submit_failed")

Sound(r) ==
    EndsWithResult(r) /\ KeepsCount(r) /\ LeavesSettledLinks(r) /\ ReportsCreated(r)

\* The outputs are those of the links in order, and so are the mappings.
KeepsOrder(r) ==
    /\ \A i \in 1 .. Len(outputs[r]) : outputs[r][i].id = TaskOf[r][i]
    /\ copied[r] <= Len(Link(r).inputs)
    /\ pc[r] = "start" => copied[r] = 0
    /\ pc[r] = "append" => copied[r] < Len(Link(r).inputs)
    /\ pc[r] \in {"build", "submit"} => copied[r] = Len(Link(r).inputs)

\* Each reference in list is one that a mapping of link k copies.
OnlyCopied(k, list) ==
    \A j \in 1 .. Len(list) :
        \E q \in Runs, i \in DOMAIN Links[k].inputs : list[j] = Source(q, k, i)

\* Whatever executions share the lists, nothing else gets into them.
HoldsOnlyCopies ==
    /\ \A k \in 1 .. NLinks : OnlyCopied(k, refs[k])
    /\ \A r \in Runs :
          /\ pc[r] = "append" => OnlyCopied(at[r], buffer[r])
          /\ \A k \in 1 .. Len(sent[r]) : OnlyCopied(k, sent[r][k])

\* list ends with the first n references that the mappings of link k copy.
EndsWithCopied(r, k, list, n) ==
    /\ Len(list) >= n
    /\ \A i \in 1 .. n : list[Len(list) - n + i] = Source(r, k, i)

\* As long as executions do not overlap, theirs are the last in the lists.
ExtendsItsLists(r) ==
    /\ \A k \in 1 .. Len(sent[r]) : EndsWithCopied(r, k, sent[r][k], Len(Links[k].inputs))
    /\ pc[r] \in {"map", "append", "build", "submit"} =>
          EndsWithCopied(r, at[r], refs[at[r]], copied[r])
    /\ pc[r] = "append" => EndsWithCopied(r, at[r], buffer[r], copied[r] + 1)

\* list holds the first n references that the mappings of link k copy.
Copied(r, k, list, n) ==
    /\ Len(list) = n
    /\ \A i \in 1 .. n : list[i] = Source(r, k, i)

\* Where no other execution has used or uses the configured lists, they hold
\* the references that were copied and nothing else.
OwnsItsLists(r) ==
    /\ \A i \in 1 .. Len(outputs[r]) : outputs[r][i].id = TaskOf[r][i]
    /\ \A k \in 1 .. NLinks :
          /\ k > at[r] => refs[k] = <<>>
          /\ k <= Len(sent[r]) => Copied(r, k, sent[r][k], Len(Links[k].inputs))
    /\ copied[r] <= Len(Link(r).inputs)
    /\ pc[r] \in BeforeSubmission => Copied(r, at[r], refs[at[r]], copied[r])
    /\ pc[r] = "append" =>
          /\ copied[r] < Len(Link(r).inputs)
          /\ Copied(r, at[r], buffer[r], copied[r] + 1)
    /\ pc[r] \in {"build", "submit"} => copied[r] = Len(Link(r).inputs)
    /\ pc[r] = "submit" => hashed[r] = refs[at[r]]

Solo == \A r, s \in Runs : r = s

\* The engine executes the step again only when the execution before has ended.
Busy(r) == pc[r] \notin {"start", "done"}
OneAtATime == \A q, r \in Runs : Busy(q) /\ Busy(r) => q = r

\* What is hashed is still what the list holds when the workload is sent.
SignedAsListed == \A r \in Runs : pc[r] = "submit" => hashed[r] = refs[at[r]]

\* If it is not, another execution has appended to that list.
ListedAsSignedUnlessShared ==
    \A r \in Runs :
        pc[r] = "submit" /\ hashed[r] # refs[at[r]] =>
            \E q \in Runs \ {r} : HasMapped(q, at[r])

IInv ==
    /\ TypeOK
    /\ \A r \in Runs : Sound(r)

-----------------------------------------------------------------------------
(* What an execution has told the engine, and the links it has awaited. *)
Outcome ==
    [r \in Runs |-> IF pc[r] # "done" THEN "running"
                    ELSE IF result[r] = "ok" THEN "proceed" ELSE "stop"]

BeyondSubmission == {"ok", "tasks_unavailable", "not_found", "task_stopped",
                     "proofs_unavailable", "proof_rejected", "timed_out"}

Awaited(r) ==
    {k \in 1 .. at[r] :
        /\ Links[k].wait
        /\ \/ k < at[r]
           \/ pc[r] \in {"list", "proofs", "sleep"}
           \/ pc[r] = "done" /\ result[r] \in BeyondSubmission}

Promise == INSTANCE StepContract WITH
    Executions <- Runs,
    completed  <- Completed,
    proven     <- Proven,
    awaited    <- [r \in Runs |-> {TaskOf[r][k] : k \in Awaited(r)}],
    outcome    <- Outcome

(* step.compute_chain keeps the contract of a waiting step for the links   *)
(* it awaits, including that every execution ends.                         *)
KeepsContract == Promise!Spec
=============================================================================
