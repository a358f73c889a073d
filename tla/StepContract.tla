---------------------------- MODULE StepContract ----------------------------
(***************************************************************************)
(* What every waiting step of the plugin (step.compute_wait,               *)
(* step.compute_map, step.compute_chain) promises the Workflow engine, with *)
(* no polling, requests or clocks in it:                                   *)
(*                                                                         *)
(*   - it lets the pipeline go on only when every task it awaits has       *)
(*     succeeded on the control plane and, unless require_proof is false,  *)
(*     carries an accepted proof receipt;                                  *)
(*   - in every other case it stops the pipeline;                          *)
(*   - each execution ends.                                                *)
(*                                                                         *)
(* WaitStep, MapStep and ChainStep are shown to implement it.              *)
(***************************************************************************)
CONSTANTS
    Executions,   \* calls of Execute
    Tasks,        \* task ids
    Strict        \* those of them that require an accepted proof

VARIABLES
    completed,    \* tasks that have succeeded
    proven,       \* tasks with an accepted receipt
    awaited,      \* the tasks each execution has taken on
    outcome       \* what each execution has told the engine

vars == <<completed, proven, awaited, outcome>>

Init ==
    /\ completed \subseteq Tasks
    /\ proven \subseteq Tasks
    /\ awaited \in [Executions -> SUBSET Tasks]
    /\ outcome = [e \in Executions |-> "running"]

\* The world makes progress; it never takes a success or a receipt back.
Progress ==
    /\ completed \subseteq completed'
    /\ proven \subseteq proven'
    /\ completed' \subseteq Tasks
    /\ proven' \subseteq Tasks
    /\ UNCHANGED <<awaited, outcome>>

\* A running execution submits, and from then on awaits, one more task.
Await(e) ==
    /\ outcome[e] = "running"
    /\ \E t \in Tasks : awaited' = [awaited EXCEPT ![e] = @ \cup {t}]
    /\ UNCHANGED <<completed, proven, outcome>>

Earned(e) ==
    /\ awaited[e] \subseteq completed
    /\ e \in Strict => awaited[e] \subseteq proven

Proceed(e) ==
    /\ outcome[e] = "running"
    /\ Earned(e)
    /\ outcome' = [outcome EXCEPT ![e] = "proceed"]
    /\ UNCHANGED <<completed, proven, awaited>>

Stop(e) ==
    /\ outcome[e] = "running"
    /\ outcome' = [outcome EXCEPT ![e] = "stop"]
    /\ UNCHANGED <<completed, proven, awaited>>

Next ==
    \/ Progress
    \/ \E e \in Executions : Await(e) \/ Proceed(e) \/ Stop(e)

SafetySpec == Init /\ [][Next]_vars

Spec == SafetySpec /\ \A e \in Executions : WF_vars(Proceed(e) \/ Stop(e))
=============================================================================
