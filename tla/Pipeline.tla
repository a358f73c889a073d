------------------------------ MODULE Pipeline ------------------------------
(***************************************************************************)
(* The pipeline of README.md: a step that submits one task                 *)
(* (step.compute_dispatch or step.compute_stream, which differ only in the *)
(* workload they wrap) and a step.compute_wait whose task_id is the        *)
(* task_id the first has returned.                                         *)
(*                                                                         *)
(* Each execution p of the pipeline is an execution of the first step,     *)
(* stage[p] while it lasts, and of WaitStep after it.  That the engine     *)
(* stops at StopPipeline and hands task_id on is how the plugin uses it.   *)
(***************************************************************************)
EXTENDS WaitStep

VARIABLE stage   \* "resolve", "submit", then "wait" or "stopped"

pipelineVars == <<vars, stage>>

PipelineInit ==
    /\ Init
    /\ stage = [p \in Waiters |-> "resolve"]

-----------------------------------------------------------------------------
(* dispatchStep.Execute and computeStreamStep.Execute *)

Enter(p, s) == stage' = [stage EXCEPT ![p] = s]

\* The token ref is resolved and the client built, or the pipeline stops.
ResolveClient(p) ==
    /\ stage[p] = "resolve"
    /\ Enter(p, "submit") \/ Enter(p, "stopped")
    /\ UNCHANGED vars

\* POST /v1/tasks reaches the control plane, which may know the id.
Posted(p) ==
    \/ Create(TaskOf[p])
    \/ status[TaskOf[p]] # "absent" /\ UNCHANGED serverVars

DispatchSucceeds(p) ==
    /\ stage[p] = "submit"
    /\ ctx[p] = "live"
    /\ Posted(p)
    /\ Enter(p, "wait")
    /\ UNCHANGED waitVars

\* Mistake: the error is put in the output and the pipeline is not stopped.
DispatchFailsGoesOn(p) ==
    /\ stage[p] = "submit"
    /\ Posted(p) \/ UNCHANGED serverVars
    /\ Enter(p, "wait")
    /\ UNCHANGED waitVars

\* Mistake: a failed request is taken for a passing disturbance and repeated.
DispatchFailsRepeats(p) ==
    /\ stage[p] = "submit"
    /\ Posted(p) \/ UNCHANGED serverVars
    /\ UNCHANGED <<waitVars, stage>>

\* Transport error, context done, not 201, or an answer that does not decode.
DispatchFails(p) ==
    /\ stage[p] = "submit"
    /\ Posted(p) \/ UNCHANGED serverVars
    /\ Enter(p, "stopped")
    /\ UNCHANGED waitVars

-----------------------------------------------------------------------------
Ended(p) == stage[p] = "stopped" \/ pc[p] = "done"

PipelineServer ==
    /\ \E p \in Waiters : ~Ended(p)
    /\ \E t \in Tasks : ServerStep(t)
    /\ UNCHANGED <<waitVars, stage>>

Dispatch(p) == ResolveClient(p) \/ DispatchSucceeds(p) \/ DispatchFails(p)

\* The second step runs on the engine's context, as the first did.
Wait(p) ==
    /\ stage[p] = "wait"
    /\ Execute(p) \/ StepDeadline(p)
    /\ UNCHANGED stage

EngineStops(p) ==
    /\ ~Ended(p)
    /\ EngineEndsContext(p)
    /\ UNCHANGED stage

PipelineFinished == (\A p \in Waiters : Ended(p)) /\ UNCHANGED pipelineVars

PipelineNext ==
    \/ PipelineServer
    \/ \E p \in Waiters : Dispatch(p) \/ Wait(p) \/ EngineStops(p)
    \/ PipelineFinished

\* Dispatch has no deadline of its own: each request ends by the client's.
PipelineFairness ==
    \A p \in Waiters :
        /\ WF_pipelineVars(ResolveClient(p))
        /\ WF_pipelineVars(DispatchSucceeds(p) \/ DispatchFails(p))
        /\ WF_pipelineVars(Wait(p) /\ Begin(p))
        /\ WF_pipelineVars(Wait(p) /\ (SnapshotArrives(p) \/ ProofsArrive(p) \/ RequestFails(p)))
        /\ WF_pipelineVars(Wait(p) /\ (PollTimerFires(p) \/ SeesContextDone(p)))
        /\ WF_pipelineVars(Wait(p) /\ StepDeadline(p))

PipelineSafetySpec == PipelineInit /\ [][PipelineNext]_pipelineVars

PipelineSpec == PipelineSafetySpec /\ PipelineFairness

-----------------------------------------------------------------------------
(* A wait that follows a dispatch never polls for a task the control plane *)
(* has not accepted: "not found" in a pipeline says that the task has been *)
(* dropped since, never that it was not submitted.                         *)
WaitsForAcceptedTask ==
    \A p \in Waiters :
        pc[p] \in Waiting \/ result[p] = "not_found" => status[TaskOf[p]] # "absent"

(* The inductive invariant behind it.  A task that was accepted stays      *)
(* known, and the second step has not begun before the first has returned. *)
HandedOver ==
    /\ stage \in [Waiters -> {"resolve", "submit", "wait", "stopped"}]
    /\ \A p \in Waiters :
          IF stage[p] = "wait" THEN status[TaskOf[p]] # "absent" ELSE pc[p] = "start"

PipelineIInv == IInv /\ HandedOver

-----------------------------------------------------------------------------
\* The pipeline takes on its task when the wait begins.
PipelinePromise == INSTANCE StepContract WITH
    Executions <- Waiters,
    completed  <- Completed,
    proven     <- Proven,
    awaited    <- [p \in Waiters |-> IF stage[p] = "wait" THEN {TaskOf[p]} ELSE {}],
    outcome    <- [p \in Waiters |-> IF stage[p] = "stopped" THEN "stop" ELSE Outcome[p]]

(* The two steps together keep the contract of one waiting step: the       *)
(* pipeline goes on only for a task that has earned it, stops in every     *)
(* other case, and always ends.                                            *)
KeepsPipelineContract == PipelinePromise!Spec
=============================================================================
