------------------------------ MODULE MapStep -------------------------------
(***************************************************************************)
(* step.compute_map: executions of mapStep.Execute (steps.go) against one  *)
(* control plane.  An execution submits its tasks one after the other,     *)
(* then polls for all of them at once: a read of the tasks and, when every *)
(* task has succeeded, a read of the proofs.                               *)
(*                                                                         *)
(* As in WaitStep, pc names the request in flight and the arrival of an    *)
(* answer includes the code that handles it.  ctx[m] is the engine's       *)
(* context while tasks are submitted and waitCtx after that.  outputs[m]   *)
(* holds what the poll before has read until the next answer replaces it.  *)
(***************************************************************************)
EXTENDS TaskView

CONSTANTS
    Maps,     \* executions of step.compute_map
    Strict,   \* those with require_proof
    Jobs      \* the ids of the configured tasks, in order; an id may recur

ASSUME StrictAssumption == Strict \subseteq Maps
ASSUME JobsAssumption == Jobs \in [Maps -> Seq(Tasks) \ {<<>>}]

VARIABLES pc, ctx, submitted, outputs, result, created

mapVars == <<pc, ctx, submitted, outputs, result, created>>
vars == <<serverVars, mapVars>>

Result == {"none", "ok", "client_error", "submit_failed", "tasks_unavailable",
           "not_found", "task_stopped", "proofs_unavailable", "proof_rejected",
           "timed_out"}

\* What the error of a row, and its stall_reason, name as the cause.
Cause == {"none", "task", "proof"} \cup StallReasons

\* One entry of the "tasks" output.
Row == [id : Tasks, status : Status, proof : Verdict \cup {"none"}, error : Cause]

Waiting == {"list", "proofs", "sleep"}

Init ==
    /\ ServerInit
    /\ pc = [m \in Maps |-> "start"]
    /\ ctx = [m \in Maps |-> "live"]
    /\ submitted = [m \in Maps |-> <<>>]
    /\ outputs = [m \in Maps |-> <<>>]
    /\ result = [m \in Maps |-> "none"]
    /\ created = [m \in Maps |-> {}]

-----------------------------------------------------------------------------
(* The pieces the steps of one execution are made of. *)

Goto(m, label) == pc' = [pc EXCEPT ![m] = label] /\ UNCHANGED result

Return(m, r) ==
    /\ pc' = [pc EXCEPT ![m] = "done"]
    /\ result' = [result EXCEPT ![m] = r]

Report(m, rows) == outputs' = [outputs EXCEPT ![m] = rows]

\* taskOutput, of a task as the control plane has it now.
TaskRow(t) == [id |-> t, status |-> status[t], proof |-> "none", error |-> "none"]

\* output["error"] = msg
WithError(row, cause) == [row EXCEPT !.error = cause]

(* taskWaitError: the first stall flag that counts, in whatever order they *)
(* are listed, or else the status of the task.                             *)
StopCauses(t, strict) ==
    LET flags == ActionableStalls(stalls[t], strict)
    IN  IF flags = {} THEN {"task"} ELSE flags

\* Mistake: the loop remembers the last culprit instead of returning.
IsLast(k, culprits) == k \in culprits /\ \A j \in culprits : j <= k

\* k is where a loop over the tasks returns early.
IsFirst(k, culprits) == k \in culprits /\ \A j \in culprits : k <= j

(* An error that errors.Is(err, context.DeadlineExceeded): the context has *)
(* expired, or the request has exceeded the timeout of the http.Client.    *)
FailureOf(m, otherwise) ==
    IF ctx[m] = "cancelled" THEN {otherwise} ELSE {otherwise, "timed_out"}

-----------------------------------------------------------------------------
(* Submission. *)

Begin(m) ==
    /\ pc[m] = "start"
    /\ Goto(m, "submit") \/ Return(m, "client_error")
    /\ UNCHANGED <<serverVars, ctx, submitted, outputs, created>>

NextJob(m) == Jobs[m][Len(submitted[m]) + 1]

(* POST /v1/tasks reaches the control plane.  It has the choice to take a  *)
(* known id for the task it already has; otherwise it refuses (SubmitFails). *)
Posted(m) ==
    LET t == NextJob(m)
    IN  \/ Create(t) /\ created' = [created EXCEPT ![m] = @ \cup {t}]
        \/ status[t] # "absent" /\ UNCHANGED <<serverVars, created>>

SubmitSucceeds(m) ==
    /\ pc[m] = "submit"
    /\ ctx[m] = "live"
    /\ Posted(m)
    /\ submitted' = [submitted EXCEPT ![m] =
           Append(@, [TaskRow(NextJob(m)) EXCEPT !.status = status'[NextJob(m)]])]
    /\ Goto(m, IF Len(submitted[m]) + 1 = Len(Jobs[m]) THEN "list" ELSE "submit")
    /\ UNCHANGED <<ctx, outputs>>

\* Mistake: the configured ids are reported in place of task outputs.
SubmitFailsReportsConfig(m) ==
    /\ pc[m] = "submit"
    /\ Report(m, Jobs[m])
    /\ Return(m, "submit_failed")
    /\ UNCHANGED <<serverVars, ctx, submitted, created>>

\* Mistake: errorResult is returned, and the tasks already submitted are lost.
SubmitFailsForgets(m) ==
    /\ pc[m] = "submit"
    /\ Posted(m) \/ UNCHANGED <<serverVars, created>>
    /\ Report(m, <<>>)
    /\ Return(m, "submit_failed")
    /\ UNCHANGED <<ctx, submitted>>

\* The request or its answer is lost, or the answer is not 201.
SubmitFails(m) ==
    /\ pc[m] = "submit"
    /\ Posted(m) \/ UNCHANGED <<serverVars, created>>
    /\ Report(m, submitted[m])
    /\ Return(m, "submit_failed")
    /\ UNCHANGED <<ctx, submitted>>

-----------------------------------------------------------------------------
(* mapSnapshot *)

\* Mistake: allTerminal is overwritten by each task instead of cleared.
TasksArriveLastTerminal(m) ==
    LET n == Len(submitted[m])
        rows == [i \in 1 .. n |-> TaskRow(submitted[m][i].id)]
    IN  /\ pc[m] = "list"
        /\ ctx[m] = "live"
        /\ \A i \in 1 .. n : ~Stopped(rows[i].status, stalls[rows[i].id], m \in Strict)
        /\ Report(m, rows)
        /\ Goto(m, IF IsTerminalTaskStatus(rows[n].status) THEN "proofs" ELSE "sleep")
        /\ UNCHANGED <<serverVars, ctx, submitted, created>>

(* The tasks are read: rows in submission order, all of them or up to the  *)
(* first task that is gone (reported as it was submitted) or stops the     *)
(* step (reported with the error).                                         *)
TasksArrive(m) ==
    LET n == Len(submitted[m])
        id(i) == submitted[m][i].id
        read(k) == [i \in 1 .. k |-> TaskRow(id(i))]
        missing == {i \in 1 .. n : id(i) \notin listed}
        stopped == {i \in 1 .. n : Stopped(status[id(i)], stalls[id(i)], m \in Strict)}
        settled == \A i \in 1 .. n : IsTerminalTaskStatus(status[id(i)])
    IN  /\ pc[m] = "list"
        /\ ctx[m] = "live"
        /\ \/ /\ missing \cup stopped = {}
              /\ Report(m, read(n))
              /\ Goto(m, IF settled THEN "proofs" ELSE "sleep")
           \/ \E k \in missing :
                 /\ IsFirst(k, missing \cup stopped)
                 /\ Report(m, [read(k) EXCEPT ![k] = submitted[m][k]])
                 /\ Return(m, "not_found")
           \/ \E k \in stopped \ missing, cause \in Cause :
                 /\ IsFirst(k, missing \cup stopped)
                 /\ cause \in StopCauses(id(k), m \in Strict)
                 /\ Report(m, [read(k) EXCEPT ![k] = WithError(@, cause)])
                 /\ Return(m, "task_stopped")
        /\ UNCHANGED <<serverVars, ctx, submitted, created>>

\* Mistake: a failed read returns whatever the poll before had found.
TasksFailKeepsOutputs(m) ==
    /\ pc[m] = "list"
    /\ \E r \in FailureOf(m, "tasks_unavailable") : Return(m, r)
    /\ UNCHANGED <<serverVars, ctx, submitted, outputs, created>>

\* Mistake: a failed read is taken for a passing disturbance and tried again.
TasksFailRetried(m) ==
    /\ pc[m] = "list"
    /\ Goto(m, "sleep")
    /\ UNCHANGED <<serverVars, ctx, submitted, outputs, created>>

TasksFail(m) ==
    /\ pc[m] = "list"
    /\ Report(m, submitted[m])
    /\ \E r \in FailureOf(m, "tasks_unavailable") : Return(m, r)
    /\ UNCHANGED <<serverVars, ctx, submitted, created>>

(* The proofs are read: each row takes its task's receipt, up to the first *)
(* that is rejected, which is the error of its row.                        *)
ProofsArrive(m) ==
    LET n == Len(outputs[m])
        receipt(i) == LastReceipt(receipts[outputs[m][i].id])
        decision(i) == ProofDecision(receipt(i), m \in Strict)
        rejected == {i \in 1 .. n : decision(i) = "stop"}
        read(k) == [i \in 1 .. n |-> IF i <= k THEN [outputs[m][i] EXCEPT !.proof = receipt(i)]
                                               ELSE outputs[m][i]]
    IN  /\ pc[m] = "proofs"
        /\ ctx[m] = "live"
        /\ \/ /\ rejected = {}
              /\ Report(m, read(n))
              /\ IF \A i \in 1 .. n : decision(i) = "proceed" THEN Return(m, "ok")
                                                             ELSE Goto(m, "sleep")
           \/ \E k \in rejected :
                 /\ IsFirst(k, rejected)
                 /\ Report(m, [read(k) EXCEPT ![k] = WithError(@, "proof")])
                 /\ Return(m, "proof_rejected")
        /\ UNCHANGED <<serverVars, ctx, submitted, created>>

ProofsFail(m) ==
    /\ pc[m] = "proofs"
    /\ \E r \in FailureOf(m, "proofs_unavailable") : Return(m, r)
    /\ UNCHANGED <<serverVars, ctx, submitted, outputs, created>>

-----------------------------------------------------------------------------
(* The select between two polls, and the clocks. *)

PollTimerFires(m) ==
    /\ pc[m] = "sleep"
    /\ Goto(m, "list")
    /\ UNCHANGED <<serverVars, ctx, submitted, outputs, created>>

SeesContextDone(m) ==
    /\ pc[m] = "sleep"
    /\ ctx[m] # "live"
    /\ Return(m, "timed_out")
    /\ UNCHANGED <<serverVars, ctx, submitted, outputs, created>>

\* context.WithTimeout(ctx, timeout) is set once every task is submitted.
StepDeadline(m) ==
    /\ pc[m] \in Waiting
    /\ ctx[m] = "live"
    /\ ctx' = [ctx EXCEPT ![m] = "expired"]
    /\ UNCHANGED <<serverVars, pc, submitted, outputs, result, created>>

EngineEndsContext(m) ==
    /\ pc[m] # "done"
    /\ ctx[m] = "live"
    /\ \E c \in {"expired", "cancelled"} : ctx' = [ctx EXCEPT ![m] = c]
    /\ UNCHANGED <<serverVars, pc, submitted, outputs, result, created>>

-----------------------------------------------------------------------------
(* Another client submits a task, or the control plane moves on its own, as *)
(* long as an execution is left to see it.                                 *)
Server ==
    /\ \E m \in Maps : pc[m] # "done"
    /\ \E t \in Tasks : ServerStep(t)
    /\ UNCHANGED mapVars

Execute(m) ==
    \/ Begin(m)
    \/ SubmitSucceeds(m)
    \/ SubmitFails(m)
    \/ TasksArrive(m)
    \/ TasksFail(m)
    \/ ProofsArrive(m)
    \/ ProofsFail(m)
    \/ PollTimerFires(m)
    \/ SeesContextDone(m)

Finished == (\A m \in Maps : pc[m] = "done") /\ UNCHANGED vars

Next ==
    \/ Server
    \/ \E m \in Maps : Execute(m) \/ StepDeadline(m) \/ EngineEndsContext(m)
    \/ Finished

(* Submission is not bounded by the step's timeout; each request is, by    *)
(* the positive Timeout of the http.Client.                                *)
Fairness ==
    \A m \in Maps :
        /\ WF_vars(Begin(m))
        /\ WF_vars(SubmitSucceeds(m) \/ SubmitFails(m))
        /\ WF_vars(TasksArrive(m) \/ TasksFail(m) \/ ProofsArrive(m) \/ ProofsFail(m))
        /\ WF_vars(PollTimerFires(m) \/ SeesContextDone(m))
        /\ WF_vars(StepDeadline(m))

SafetySpec == Init /\ [][Next]_vars
Spec == SafetySpec /\ Fairness

-----------------------------------------------------------------------------
(* Every variable stays within the values the code can give it. *)
TypeOK ==
    /\ ServerTypeOK
    /\ pc \in [Maps -> {"start", "submit", "done"} \cup Waiting]
    /\ ctx \in [Maps -> {"live", "expired", "cancelled"}]
    /\ submitted \in [Maps -> Seq(Row)]
    /\ outputs \in [Maps -> Seq(Row)]
    /\ result \in [Maps -> Result]
    /\ created \in [Maps -> SUBSET Tasks]

Ids(rows) == [i \in DOMAIN rows |-> rows[i].id]

IdSet(rows) == {rows[i].id : i \in DOMAIN rows}

(* README: the step stops the pipeline if any task fails, stalls, or       *)
(* produces a non-accepted proof.  Whatever the control plane does between *)
(* the two reads of a poll, the pipeline goes on only when every           *)
(* configured task has succeeded there and, where a proof is required,     *)
(* carries an accepted receipt.                                            *)
OkIsEarned ==
    \A m \in Maps :
        result[m] = "ok" =>
            \A i \in DOMAIN Jobs[m] :
                /\ Jobs[m][i] \in Completed
                /\ m \in Strict => Jobs[m][i] \in Proven

(* The tasks reported with a success are all the configured ones, in       *)
(* order, each reported succeeded and with the receipt that earned it: the *)
(* output never mixes rows of different polls.                             *)
OkReportsEachTask ==
    \A m \in Maps :
        result[m] = "ok" =>
            /\ Ids(outputs[m]) = Jobs[m]
            /\ \A i \in DOMAIN outputs[m] :
                  /\ outputs[m][i].status = "succeeded"
                  /\ outputs[m][i].proof \in
                        {"accepted"} \cup (IF m \in Strict THEN {} ELSE {"none"})

(* SPEC.md V9: wherever the deadline falls, in the first poll, between two *)
(* polls or in the read of the proofs, a timeout reports every task that   *)
(* was submitted, once and in order.                                       *)
TimeoutReportsEveryTask ==
    \A m \in Maps : result[m] = "timed_out" => Ids(outputs[m]) = Jobs[m]

(* The tasks an execution has left on the control plane can be found from  *)
(* its output.  The exceptions are the one whose submission failed (the    *)
(* answer may be lost after the task was created) and, when a task stops   *)
(* the step, exactly the configured tasks that follow the last row.        *)
NoTaskIsLost ==
    \A m \in Maps :
        pc[m] = "done" =>
            \/ created[m] \subseteq IdSet(outputs[m])
            \/ result[m] = "submit_failed" /\
                  created[m] \subseteq IdSet(outputs[m]) \cup {NextJob(m)}
            \/ result[m] \in {"task_stopped", "not_found"} /\
                  created[m] \subseteq IdSet(outputs[m]) \cup
                     {Jobs[m][i] : i \in (Len(outputs[m]) + 1) .. Len(Jobs[m])}

(* A reason for m to stop at t: the control plane has lost the task, holds *)
(* it for failed or stalled, or has flagged it, where the flag that a      *)
(* proof is missing only counts if the proof is required.                  *)
Culprit(m, t) ==
    \/ t \notin listed
    \/ status[t] \in {"failed", "stalled"}
    \/ \E r \in stalls[t] : r = "proof_missing" => m \in Strict

(* When a task stops the step, what is reported are the configured tasks   *)
(* in order up to that one and no further: the last row is a task the      *)
(* control plane gives a reason for at that moment, there is none for any  *)
(* before it, and the error is in that row and in no other (a task that is *)
(* gone is reported as it was submitted, without one).                     *)
CulpritIsLast ==
    [][\A m \in Maps :
          (result[m] = "none" /\ result'[m] \in {"task_stopped", "not_found"}) =>
             LET rows == outputs'[m]
                 n == Len(rows)
             IN  /\ n > 0
                 /\ Ids(rows) = SubSeq(Jobs[m], 1, n)
                 /\ \A i \in 1 .. n : Culprit(m, Jobs[m][i]) <=> i = n
                 /\ \A i \in 1 .. n :
                       rows[i].error # "none" <=> (i = n /\ result'[m] = "task_stopped")]_vars

(* SPEC.md V9: the output of a timeout is "deterministic even if context    *)
(* expires during an HTTP poll".  What it reports of the tasks does not    *)
(* depend on whether the deadline falls into a request or between two: it  *)
(* is what the execution has last read of them.                            *)
TimeoutReportsLastRead ==
    [][\A m \in Maps :
          (result'[m] = "timed_out" /\ pc[m] # "done"
              /\ ctx[m] = "expired" /\ outputs[m] # <<>>)
          => outputs'[m] = outputs[m]]_vars

-----------------------------------------------------------------------------
(* The inductive invariant behind these properties. *)

EndsWithResult ==
    \A m \in Maps : pc[m] = "done" <=> result[m] # "none"

\* The results that follow the submission of every task.
AfterSubmission == Result \ {"none", "client_error", "submit_failed"}

\* The submitted tasks are the first of the configured ones, and in the end all.
SubmitsInOrder ==
    \A m \in Maps :
        /\ Len(submitted[m]) <= Len(Jobs[m])
        /\ \A i \in 1 .. Len(submitted[m]) : submitted[m][i].id = Jobs[m][i]
        /\ pc[m] = "start" \/ result[m] = "client_error" => submitted[m] = <<>>
        /\ pc[m] = "submit" \/ result[m] = "submit_failed" => Len(submitted[m]) < Len(Jobs[m])
        /\ pc[m] \in Waiting \/ result[m] \in AfterSubmission =>
              Len(submitted[m]) = Len(Jobs[m])

\* Rows are reported in order, and all of them unless a task stopped the step.
\* A submitted task has no error yet.
RowsInOrder ==
    \A m \in Maps :
        /\ \A i \in 1 .. Len(submitted[m]) : submitted[m][i].error = "none"
        /\ Len(outputs[m]) <= Len(submitted[m])
        /\ \A i \in 1 .. Len(outputs[m]) : outputs[m][i].id = Jobs[m][i]
        /\ \/ pc[m] \in {"proofs", "sleep"}
           \/ result[m] \in {"submit_failed", "tasks_unavailable", "proofs_unavailable",
                             "proof_rejected", "timed_out", "ok"}
           => Len(outputs[m]) = Len(submitted[m])

\* The proofs are only asked for once every success, which is final, was read.
SuccessIsFinal ==
    \A m \in Maps :
        (pc[m] = "proofs" \/ result[m] = "ok") =>
            \A i \in 1 .. Len(outputs[m]) :
                outputs[m][i].status = "succeeded" /\ outputs[m][i].id \in Completed

AcceptanceIsFinal ==
    \A m \in Maps :
        result[m] = "ok" =>
            \A i \in 1 .. Len(outputs[m]) :
                /\ outputs[m][i].proof # "rejected"
                /\ m \in Strict => outputs[m][i].proof = "accepted"
                                   /\ outputs[m][i].id \in Proven

\* Every created task is among the submitted ones, but for the last answer.
CreatedIsSubmitted ==
    \A m \in Maps :
        created[m] \subseteq IdSet(submitted[m])
            \cup (IF result[m] = "submit_failed" THEN {NextJob(m)} ELSE {})

(* What every state satisfies and every step preserves. *)
IInv ==
    /\ TypeOK
    /\ EndsWithResult
    /\ SubmitsInOrder
    /\ RowsInOrder
    /\ SuccessIsFinal
    /\ AcceptanceIsFinal
    /\ CreatedIsSubmitted

-----------------------------------------------------------------------------
(* What an execution has told the engine. *)
Outcome ==
    [m \in Maps |-> IF pc[m] # "done" THEN "running"
                    ELSE IF result[m] = "ok" THEN "proceed" ELSE "stop"]

Promise == INSTANCE StepContract WITH
    Executions <- Maps,
    completed  <- Completed,
    proven     <- Proven,
    awaited    <- [m \in Maps |-> IdSet(submitted[m])],
    outcome    <- Outcome

(* step.compute_map keeps the contract of a waiting step, including that   *)
(* every execution ends even if the control plane never answers.           *)
KeepsContract == Promise!Spec
=============================================================================
