------------------------------ MODULE WaitStep ------------------------------
(***************************************************************************)
(* step.compute_wait: concurrent executions of waitStep.Execute            *)
(* (steps.go) against one control plane.                                   *)
(*                                                                         *)
(* An execution alternates a read of the tasks with a read of the proofs,  *)
(* and the control plane moves in between: pc[w] = "list" and "proofs"     *)
(* are the two requests in flight.  The arrival of an answer and the code  *)
(* that handles it are one step, since handling it touches nothing the     *)
(* control plane or another execution can see.                             *)
(*                                                                         *)
(* ctx[w] is waitCtx: "expired" when its deadline, or the engine's, has    *)
(* passed, "cancelled" when the engine has given the execution up.  A      *)
(* request whose context is done cannot be answered.                       *)
(***************************************************************************)
EXTENDS TaskView

CONSTANTS
    Waiters,   \* executions of step.compute_wait
    Strict,    \* those with require_proof
    TaskOf     \* the task_id each one waits for

ASSUME StrictAssumption == Strict \subseteq Waiters
ASSUME TaskOfAssumption == TaskOf \in [Waiters -> Tasks]

VARIABLES pc, ctx, output, result

waitVars == <<pc, ctx, output, result>>
vars == <<serverVars, waitVars>>

Result == {"none", "ok", "client_error", "tasks_unavailable", "not_found",
           "task_stopped", "proofs_unavailable", "proof_rejected", "timed_out"}

\* The output map: the task and the receipt as they were last read.
Output == [status : Status, stalls : SUBSET StallReasons, proof : Verdict \cup {"none"}]

TaskOutput(task) == [status |-> task.status, stalls |-> task.stalls, proof |-> "none"]

NoOutput == [status |-> "absent", stalls |-> {}, proof |-> "none"]

Waiting == {"list", "proofs", "sleep"}

Init ==
    /\ ServerInit
    /\ pc = [w \in Waiters |-> "start"]
    /\ ctx = [w \in Waiters |-> "live"]
    /\ output = [w \in Waiters |-> NoOutput]
    /\ result = [w \in Waiters |-> "none"]

-----------------------------------------------------------------------------
(* The pieces the steps of one execution are made of. *)

Goto(w, label) == pc' = [pc EXCEPT ![w] = label] /\ UNCHANGED result

Return(w, r) ==
    /\ pc' = [pc EXCEPT ![w] = "done"]
    /\ result' = [result EXCEPT ![w] = r]

(* Mistakes this code could contain, or once did (B3 in SPEC.md); the      *)
(* properties below are shown to notice each of them.                      *)

\* The snapshot's own status is reported as the reason to stop.
SnapshotArrivesRawStatus(w) ==
    /\ pc[w] = "list"
    /\ ctx[w] = "live"
    /\ IF Stopped(status[TaskOf[w]], stalls[TaskOf[w]], w \in Strict)
       THEN Return(w, status[TaskOf[w]])
       ELSE Goto(w, "sleep")
    /\ UNCHANGED <<serverVars, ctx, output>>

\* Any terminal status sends the step to the proofs, before failures are seen.
SnapshotArrivesProofsFirst(w) ==
    LET task == TaskSnapshot(TaskOf[w])
    IN  /\ pc[w] = "list"
        /\ ctx[w] = "live"
        /\ output' = [output EXCEPT ![w] = TaskOutput(task)]
        /\ Goto(w, IF IsTerminalTaskStatus(task.status) THEN "proofs" ELSE "sleep")
        /\ UNCHANGED <<serverVars, ctx>>

\* A failed request is taken for a passing disturbance and tried again.
RequestFailsRetried(w) ==
    /\ pc[w] \in {"list", "proofs"}
    /\ Goto(w, "sleep")
    /\ UNCHANGED <<serverVars, ctx, output>>

-----------------------------------------------------------------------------
(* waitStep.Execute *)

\* The token ref is resolved and the client built, or the step stops at once.
Begin(w) ==
    /\ pc[w] = "start"
    /\ Goto(w, "list") \/ Return(w, "client_error")
    /\ UNCHANGED <<serverVars, ctx, output>>

\* The tasks are read: the wait ends, asks for the proofs, or sleeps.
SnapshotArrives(w) ==
    LET task == TaskSnapshot(TaskOf[w])
    IN  /\ pc[w] = "list"
        /\ ctx[w] = "live"
        /\ IF ~task.found
           THEN Return(w, "not_found") /\ UNCHANGED output
           ELSE /\ output' = [output EXCEPT ![w] = TaskOutput(task)]
                /\ IF Stopped(task.status, task.stalls, w \in Strict)
                   THEN Return(w, "task_stopped")
                   ELSE Goto(w, IF IsTerminalTaskStatus(task.status)
                                THEN "proofs" ELSE "sleep")
        /\ UNCHANGED <<serverVars, ctx>>

\* findProof answers, some time after the snapshot it is combined with.
ProofsArrive(w) ==
    LET receipt == FindProof(TaskOf[w])
        decision == ProofDecision(receipt, w \in Strict)
    IN  /\ pc[w] = "proofs"
        /\ ctx[w] = "live"
        /\ output' = [output EXCEPT ![w].proof = receipt]
        /\ CASE decision = "stop"    -> Return(w, "proof_rejected")
             [] decision = "proceed" -> Return(w, "ok")
             [] decision = "poll"    -> Goto(w, "sleep")
        /\ UNCHANGED <<serverVars, ctx>>

\* Transport error, unexpected status, request timeout, or context done.
RequestFails(w) ==
    /\ \/ pc[w] = "list" /\ Return(w, "tasks_unavailable")
       \/ pc[w] = "proofs" /\ Return(w, "proofs_unavailable")
    /\ UNCHANGED <<serverVars, ctx, output>>

\* The select: both arms are ready once the context is done during a sleep.
PollTimerFires(w) ==
    /\ pc[w] = "sleep"
    /\ Goto(w, "list")
    /\ UNCHANGED <<serverVars, ctx, output>>

SeesContextDone(w) ==
    /\ pc[w] = "sleep"
    /\ ctx[w] # "live"
    /\ Return(w, "timed_out")
    /\ UNCHANGED <<serverVars, ctx, output>>

\* The deadline of context.WithTimeout(ctx, timeout).
StepDeadline(w) ==
    /\ pc[w] \in Waiting
    /\ ctx[w] = "live"
    /\ ctx' = [ctx EXCEPT ![w] = "expired"]
    /\ UNCHANGED <<serverVars, pc, output, result>>

\* The context the engine passed to Execute ends.
EngineEndsContext(w) ==
    /\ pc[w] # "done"
    /\ ctx[w] = "live"
    /\ \E c \in {"expired", "cancelled"} : ctx' = [ctx EXCEPT ![w] = c]
    /\ UNCHANGED <<serverVars, pc, output, result>>

-----------------------------------------------------------------------------
(* Another client submits a task, or the control plane moves on its own, as *)
(* long as an execution is left to see it.                                 *)
Server ==
    /\ \E w \in Waiters : pc[w] # "done"
    /\ \E t \in Tasks : ServerStep(t)
    /\ UNCHANGED waitVars

Execute(w) ==
    \/ Begin(w)
    \/ SnapshotArrives(w)
    \/ ProofsArrive(w)
    \/ RequestFails(w)
    \/ PollTimerFires(w)
    \/ SeesContextDone(w)

Finished == (\A w \in Waiters : pc[w] = "done") /\ UNCHANGED vars

Next ==
    \/ Server
    \/ \E w \in Waiters : Execute(w) \/ StepDeadline(w) \/ EngineEndsContext(w)
    \/ Finished

(* An execution that can take a step takes one, a request in flight ends   *)
(* (http.Client has a positive Timeout) and a deadline that has been set   *)
(* passes.  Nothing is assumed of the control plane or the engine.         *)
Fairness ==
    \A w \in Waiters :
        /\ WF_vars(Begin(w))
        /\ WF_vars(SnapshotArrives(w) \/ ProofsArrive(w) \/ RequestFails(w))
        /\ WF_vars(PollTimerFires(w) \/ SeesContextDone(w))
        /\ WF_vars(StepDeadline(w))

SafetySpec == Init /\ [][Next]_vars
Spec == SafetySpec /\ Fairness

-----------------------------------------------------------------------------
(* Every variable stays within the values the code can give it. *)
TypeOK ==
    /\ ServerTypeOK
    /\ pc \in [Waiters -> {"start", "done"} \cup Waiting]
    /\ ctx \in [Waiters -> {"live", "expired", "cancelled"}]
    /\ output \in [Waiters -> Output]
    /\ result \in [Waiters -> Result]

(* SPEC.md V8: whatever the control plane does between the read of the     *)
(* tasks and the read of the proofs, the pipeline goes on only when the    *)
(* task has succeeded there and, where a proof is required, carries an     *)
(* accepted receipt.                                                       *)
OkIsEarned ==
    \A w \in Waiters :
        result[w] = "ok" =>
            /\ TaskOf[w] \in Completed
            /\ w \in Strict => TaskOf[w] \in Proven

(* SPEC.md V7: an outage of the proof API cannot mask a failed or stalled  *)
(* task.  An execution that ends because the proofs could not be read was  *)
(* waiting for a task that has succeeded.                                  *)
OutageCannotMaskFailure ==
    \A w \in Waiters :
        result[w] = "proofs_unavailable" => TaskOf[w] \in Completed

(* Executions that require a proof of the same task, started at different  *)
(* times, never reach opposite verdicts on it: findProof takes the first   *)
(* receipt listed, and no later receipt comes before it when the control   *)
(* plane lists the oldest first.                                           *)
StrictWaitersAgree ==
    ~NewestFirst =>
        \A v, w \in Strict :
            TaskOf[v] = TaskOf[w] => ~(result[v] = "ok" /\ result[w] = "proof_rejected")

\* The last poll gave no reason to end the wait.
Undecided(w) ==
    /\ ~Stopped(output[w].status, output[w].stalls, w \in Strict)
    /\ \/ output[w].status # "succeeded"
       \/ w \in Strict /\ output[w].proof = "none"

(* A wait reports a timeout only when what it last read of the task left   *)
(* it undecided: a deadline never covers up an answer it already had.      *)
TimesOutUndecided ==
    \A w \in Waiters : result[w] = "timed_out" => Undecided(w)

-----------------------------------------------------------------------------
(* The inductive invariant behind these properties. *)

EndsWithResult ==
    \A w \in Waiters : pc[w] = "done" <=> result[w] # "none"

\* The proofs are only asked for once a success, which is final, was read.
SuccessIsFinal ==
    \A w \in Waiters :
        (pc[w] = "proofs" \/ result[w] \in {"ok", "proofs_unavailable", "proof_rejected"}) =>
            TaskOf[w] \in Completed

AcceptanceIsFinal ==
    \A w \in Waiters : result[w] = "ok" /\ w \in Strict => TaskOf[w] \in Proven

\* The verdict of a wait is that of the first receipt, which stays the first.
FirstReceiptDecides ==
    ~NewestFirst =>
        \A w \in Strict :
            LET list == receipts[TaskOf[w]]
            IN  /\ result[w] = "ok" => list # <<>> /\ list[1] = "accepted"
                /\ result[w] = "proof_rejected" => list # <<>> /\ list[1] = "rejected"

\* A wait sleeps, and asks for the proofs, only on what left it undecided.
PollsWhileUndecided ==
    \A w \in Waiters :
        /\ pc[w] = "sleep" \/ result[w] = "timed_out" => Undecided(w)
        /\ pc[w] = "proofs" =>
              /\ output[w].status = "succeeded"
              /\ ~Stopped(output[w].status, output[w].stalls, w \in Strict)

(* What every state satisfies and every step preserves: between two reads  *)
(* the execution knows of the task only what can no longer change.         *)
IInv ==
    /\ TypeOK
    /\ EndsWithResult
    /\ SuccessIsFinal
    /\ AcceptanceIsFinal
    /\ FirstReceiptDecides
    /\ PollsWhileUndecided

-----------------------------------------------------------------------------
(* What an execution has told the engine. *)
Outcome ==
    [w \in Waiters |-> IF pc[w] # "done" THEN "running"
                       ELSE IF result[w] = "ok" THEN "proceed" ELSE "stop"]

Promise == INSTANCE StepContract WITH
    Executions <- Waiters,
    completed  <- Completed,
    proven     <- Proven,
    awaited    <- [w \in Waiters |-> {TaskOf[w]}],
    outcome    <- Outcome

(* step.compute_wait keeps the contract of a waiting step, including that  *)
(* every execution ends even if the control plane never answers.           *)
KeepsContract == Promise!Spec
=============================================================================
