------------------------- MODULE CompositionProofs --------------------------
(***************************************************************************)
(* Proofs about the modules that put steps together: Pipeline, a dispatch  *)
(* and a wait for its task, and Verdicts, waits and maps on one control    *)
(* plane.  They hold for every number of executions and every assignment   *)
(* of tasks to them, tasks with the same id included.  What is new is only *)
(* what one step does around the other: the invariants and step lemmas of  *)
(* WaitStep and MapStep are cited.                                         *)
(***************************************************************************)
EXTENDS Pipeline, Verdicts, WaitStepProofs

-----------------------------------------------------------------------------
(* The pipeline. *)

(* The control plane does not forget that it has had a task. *)
LEMMA ServerStepKeepsKnown ==
    ASSUME NEW t \in Tasks, ServerTypeOK, ServerStep(t)
    PROVE  \A u \in Tasks : status[u] # "absent" => status'[u] # "absent"
BY DEF ServerStep, Create, Lease, Finish, Requeue, RaiseStall, ClearStall, AddReceipt,
       Delist, ServerTypeOK

(* A dispatch changes nothing but its stage, and on the control plane at   *)
(* most that its task is now known.                                        *)
LEMMA DispatchEffect ==
    ASSUME PipelineIInv, NEW p \in Waiters, Dispatch(p)
    PROVE  /\ UNCHANGED waitVars
           /\ ServerTypeOK'
           /\ Completed' = Completed
           /\ Proven' = Proven
           /\ receipts' = receipts
           /\ \A u \in Tasks : status[u] # "absent" => status'[u] # "absent"
           /\ stage[p] \in {"resolve", "submit"}
           /\ \E s \in {"submit", "wait", "stopped"} :
                 /\ stage' = [stage EXCEPT ![p] = s]
                 /\ s = "wait" => status'[TaskOf[p]] # "absent"
<1>1. ServerTypeOK /\ TaskOf[p] \in Tasks
  BY TaskOfAssumption DEF PipelineIInv, IInv, TypeOK
<1>2. ASSUME UNCHANGED serverVars
      PROVE  /\ ServerTypeOK'
             /\ Completed' = Completed
             /\ Proven' = Proven
             /\ receipts' = receipts
             /\ status' = status
  BY <1>1, <1>2 DEF serverVars, ServerTypeOK, Completed, Proven
<1>3. ASSUME Create(TaskOf[p])
      PROVE  /\ ServerTypeOK'
             /\ Completed' = Completed
             /\ Proven' = Proven
             /\ receipts' = receipts
             /\ \A u \in Tasks : status[u] # "absent" => status'[u] # "absent"
             /\ status'[TaskOf[p]] # "absent"
  <2>1. ServerTypeOK' /\ Completed' = Completed /\ Proven' = Proven /\ receipts' = receipts
    BY <1>1, <1>3, CreateTypeOK, CreateMonotone
  <2> QED BY <1>1, <1>3, <2>1 DEF Create, ServerTypeOK
<1>4. CASE ResolveClient(p)
  BY <1>2, <1>4 DEF ResolveClient, Enter, vars
<1>5. CASE DispatchSucceeds(p)
  BY <1>2, <1>3, <1>5 DEF DispatchSucceeds, Posted, Enter
<1>6. CASE DispatchFails(p)
  BY <1>2, <1>3, <1>6 DEF DispatchFails, Posted, Enter
<1> QED
  BY <1>4, <1>5, <1>6 DEF Dispatch

(* A dispatch preserves what the waits rely on: no success, no receipt and *)
(* no wait is touched by a new task.                                       *)
LEMMA DispatchIInv ==
    ASSUME PipelineIInv, NEW p \in Waiters, Dispatch(p)
    PROVE  IInv'
<1>1. /\ UNCHANGED waitVars
      /\ ServerTypeOK'
      /\ Completed' = Completed
      /\ Proven' = Proven
      /\ receipts' = receipts
  BY DispatchEffect
<1>2. IInv
  BY DEF PipelineIInv
<1> QED
  BY <1>1, <1>2, AroundIInv

(* In every other step the two steps of the pipeline do what WaitStep does. *)
LEMMA OtherStepsAreWaitSteps ==
    ASSUME [PipelineNext]_pipelineVars, \A p \in Waiters : ~Dispatch(p)
    PROVE  [Next]_vars /\ UNCHANGED stage
<1>1. CASE PipelineServer
  BY <1>1 DEF PipelineServer, Ended, Next, Server
<1>2. ASSUME NEW p \in Waiters, Wait(p) \/ EngineStops(p)
      PROVE  [Next]_vars /\ UNCHANGED stage
  BY <1>2 DEF Wait, EngineStops, Next
<1>3. CASE UNCHANGED pipelineVars
  BY <1>3 DEF pipelineVars
<1> QED
  BY <1>1, <1>2, <1>3 DEF PipelineNext, PipelineFinished

(* Only an execution whose dispatch has returned goes on with its wait. *)
LEMMA OnlyWaitsMove ==
    ASSUME TypeOK, [PipelineNext]_pipelineVars, NEW p \in Waiters, stage[p] # "wait"
    PROVE  pc'[p] = pc[p]
<1>1. CASE PipelineServer \/ UNCHANGED pipelineVars
  BY <1>1 DEF PipelineServer, pipelineVars, vars, waitVars
<1>2. ASSUME NEW q \in Waiters, Dispatch(q) \/ EngineStops(q) PROVE pc'[p] = pc[p]
  BY <1>2 DEF Dispatch, ResolveClient, DispatchSucceeds, DispatchFails, EngineStops,
              EngineEndsContext, vars, waitVars
<1>3. ASSUME NEW q \in Waiters, Wait(q) PROVE pc'[p] = pc[p]
  <2>1. q # p
    BY <1>3 DEF Wait
  <2>2. \A l : pc' = [pc EXCEPT ![q] = l] => pc'[p] = pc[p]
    BY <2>1
  <2>3. CASE SnapshotArrives(q)
    BY <2>2, <2>3 DEF SnapshotArrives, Goto, Return
  <2>4. CASE ProofsArrive(q)
    <3> DEFINE decision == ProofDecision(FindProof(TaskOf[q]), q \in Strict)
    <3>1. decision \in {"stop", "proceed", "poll"}
      <4>1. TaskOf[q] \in Tasks /\ receipts \in [Tasks -> Seq(Verdict)]
        BY TaskOfAssumption DEF TypeOK, ServerTypeOK
      <4>2. FindProof(TaskOf[q]) \in Verdict \cup {"none"}
        BY <4>1, FirstReceiptType DEF FindProof
      <4>3. (q \in Strict) \in BOOLEAN
        OBVIOUS
      <4> QED BY <4>2, <4>3, ProofDecisionCases
    <3> QED BY <2>2, <2>4, <3>1 DEF ProofsArrive, Goto, Return
  <2> QED
    BY <1>3, <2>2, <2>3, <2>4 DEF Wait, Execute, Begin, RequestFails, PollTimerFires,
       SeesContextDone, StepDeadline, Goto, Return
<1> QED
  BY <1>1, <1>2, <1>3 DEF PipelineNext, PipelineFinished

(* The initial states satisfy the invariant. *)
LEMMA InitPipelineIInv == PipelineInit => PipelineIInv
BY InitIInv DEF PipelineInit, PipelineIInv, HandedOver, Init

(* Every step preserves the invariant. *)
LEMMA NextPipelineIInv == PipelineIInv /\ [PipelineNext]_pipelineVars => PipelineIInv'
<1> SUFFICES ASSUME PipelineIInv, [PipelineNext]_pipelineVars PROVE PipelineIInv'
  OBVIOUS
<1>1. IInv /\ HandedOver
  BY DEF PipelineIInv
<1>2. CASE \E p \in Waiters : Dispatch(p)
  <2>1. PICK p \in Waiters : Dispatch(p)
    BY <1>2
  <2>2. IInv'
    BY <2>1, DispatchIInv
  <2>3. /\ pc' = pc
        /\ \A u \in Tasks : status[u] # "absent" => status'[u] # "absent"
    BY <2>1, DispatchEffect DEF waitVars
  <2>4. PICK s \in {"submit", "wait", "stopped"} :
           /\ stage' = [stage EXCEPT ![p] = s]
           /\ s = "wait" => status'[TaskOf[p]] # "absent"
    BY <2>1, DispatchEffect
  <2>5. stage[p] \in {"resolve", "submit"}
    BY <2>1, DispatchEffect
  <2>6. HandedOver'
    BY <1>1, <2>3, <2>4, <2>5, TaskOfAssumption DEF HandedOver
  <2> QED BY <2>2, <2>6 DEF PipelineIInv
<1>3. CASE ~\E p \in Waiters : Dispatch(p)
  <2>1. [Next]_vars /\ stage' = stage
    BY <1>3, OtherStepsAreWaitSteps
  <2>2. IInv'
    BY <1>1, <2>1, NextIInv
  <2>3. \A u \in Tasks : status[u] # "absent" => status'[u] # "absent"
    <3>1. CASE Server
      BY <1>1, <3>1, ServerStepKeepsKnown DEF Server, IInv, TypeOK
    <3>2. CASE ~Server
      BY <2>1, <3>2 DEF Next, Execute, Begin, SnapshotArrives, ProofsArrive, RequestFails,
            PollTimerFires, SeesContextDone, StepDeadline, EngineEndsContext, Finished,
            vars, serverVars
    <3> QED BY <3>1, <3>2
  <2>4. \A p \in Waiters : stage[p] # "wait" => pc'[p] = pc[p]
    BY <1>1, OnlyWaitsMove DEF IInv
  <2>5. HandedOver'
    BY <1>1, <2>1, <2>3, <2>4, TaskOfAssumption DEF HandedOver
  <2> QED BY <2>2, <2>5 DEF PipelineIInv
<1> QED BY <1>2, <1>3

(* The inductive invariant holds in every state of a pipeline. *)
THEOREM InductivePipeline == PipelineSafetySpec => []PipelineIInv
BY InitPipelineIInv, NextPipelineIInv, PTL DEF PipelineSafetySpec

(* A wait never polls for a task that the control plane has not accepted,  *)
(* and never calls such a task not found.                                  *)
THEOREM WaitsAreForAccepted == PipelineSafetySpec => []WaitsForAcceptedTask
<1>1. PipelineIInv => WaitsForAcceptedTask
  BY DEF PipelineIInv, IInv, HandedOver, EndsWithResult, WaitsForAcceptedTask, Waiting
<1> QED BY <1>1, InductivePipeline, PTL

(* Pipelines that dispatch a task of the same id and require its proof     *)
(* cannot end with opposite verdicts on it.                                *)
THEOREM PipelinesAgree == PipelineSafetySpec => []StrictWaitersAgree
<1>1. PipelineIInv => StrictWaitersAgree
  BY DEF PipelineIInv, IInv, StrictWaitersAgree, FirstReceiptDecides
<1> QED BY <1>1, InductivePipeline, PTL

-----------------------------------------------------------------------------
(* Dispatch and wait together keep the contract of one waiting step. *)

(* What the contract sees of a pipeline: the task it has taken on, and     *)
(* what it has told the engine.                                            *)
TakenOn == [p \in Waiters |-> IF stage[p] = "wait" THEN {TaskOf[p]} ELSE {}]
Told == [p \in Waiters |-> IF stage[p] = "stopped" THEN "stop" ELSE Outcome[p]]

(* A dispatch that returns takes a task on, one that fails stops.          *)
LEMMA DispatchPromise ==
    ASSUME PipelineIInv, NEW p \in Waiters, Dispatch(p)
    PROVE  [PipelinePromise!Next]_(PipelinePromise!vars)
<1>1. Completed' = Completed /\ Proven' = Proven /\ Outcome' = Outcome
  BY DispatchEffect DEF waitVars, Outcome
<1>2. PICK s \in {"submit", "wait", "stopped"} : stage' = [stage EXCEPT ![p] = s]
  BY DispatchEffect
<1>3. stage[p] \in {"resolve", "submit"} /\ pc[p] = "start"
  BY DispatchEffect DEF PipelineIInv, HandedOver
<1>4. TaskOf[p] \in Tasks /\ stage \in [Waiters -> {"resolve", "submit", "wait", "stopped"}]
  BY TaskOfAssumption DEF PipelineIInv, HandedOver
<1>5. TakenOn[p] = {} /\ Told[p] = "running"
  BY <1>3 DEF TakenOn, Told, Outcome
<1>6. CASE s = "submit"
  <2>1. TakenOn' = TakenOn /\ Told' = Told
    BY <1>1, <1>2, <1>3, <1>4, <1>6 DEF TakenOn, Told
  <2> QED BY <1>1, <2>1 DEF PipelinePromise!vars, TakenOn, Told
<1>7. CASE s = "wait"
  <2>1. /\ TakenOn' = [TakenOn EXCEPT ![p] = @ \cup {TaskOf[p]}]
        /\ Told' = Told
    BY <1>1, <1>2, <1>3, <1>4, <1>5, <1>7 DEF TakenOn, Told
  <2>2. PipelinePromise!Await(p)
    BY <1>1, <1>4, <1>5, <2>1 DEF PipelinePromise!Await, TakenOn, Told
  <2> QED BY <2>2 DEF PipelinePromise!Next
<1>8. CASE s = "stopped"
  <2>1. TakenOn' = TakenOn /\ Told' = [Told EXCEPT ![p] = "stop"]
    BY <1>1, <1>2, <1>3, <1>4, <1>8 DEF TakenOn, Told
  <2>2. PipelinePromise!Stop(p)
    BY <1>1, <1>5, <2>1 DEF PipelinePromise!Stop, TakenOn, Told
  <2> QED BY <2>2 DEF PipelinePromise!Next
<1> QED BY <1>2, <1>6, <1>7, <1>8

(* What the contract allows a wait alone, it allows the pipeline: a wait   *)
(* that tells the engine something has been handed a task before.          *)
LEMMA WaitPromise ==
    ASSUME PipelineIInv, PipelineIInv', [Next]_vars, UNCHANGED stage
    PROVE  [PipelinePromise!Next]_(PipelinePromise!vars)
<1>1. [Promise!Next]_(Promise!vars)
  BY NextPromise DEF PipelineIInv
<1>2. TakenOn' = TakenOn
  BY DEF TakenOn
<1>3. ASSUME UNCHANGED Outcome PROVE Told' = Told
  BY <1>3 DEF Told
<1>4. CASE UNCHANGED Promise!vars
  BY <1>2, <1>3, <1>4 DEF Promise!vars, PipelinePromise!vars, TakenOn, Told
<1>5. CASE Promise!Progress
  BY <1>2, <1>3, <1>5 DEF Promise!Progress, PipelinePromise!Progress, PipelinePromise!Next, TakenOn, Told
<1>6. ASSUME NEW p \in Waiters, Promise!Await(p)
      PROVE  UNCHANGED PipelinePromise!vars
  BY <1>2, <1>3, <1>6 DEF Promise!Await, PipelinePromise!vars, TakenOn, Told
<1>7. ASSUME NEW p \in Waiters, Promise!Proceed(p) \/ Promise!Stop(p)
      PROVE  PipelinePromise!Next
  <2>1. PICK o \in {"proceed", "stop"} :
           /\ Outcome[p] = "running"
           /\ Outcome' = [Outcome EXCEPT ![p] = o]
           /\ Completed' = Completed /\ Proven' = Proven
           /\ o = "proceed" => Promise!Earned(p)
    BY <1>7 DEF Promise!Proceed, Promise!Stop
  <2>2. pc'[p] = "done"
    BY <2>1 DEF Outcome
  <2>3. stage[p] = "wait"
    BY <2>2 DEF PipelineIInv, HandedOver
  <2>4. Told[p] = "running" /\ Told' = [Told EXCEPT ![p] = o] /\ TakenOn[p] = {TaskOf[p]}
    <3>1. Told[p] = "running" /\ TakenOn[p] = {TaskOf[p]}
      BY <2>1, <2>3 DEF Told, TakenOn
    <3>2. Told' = [Told EXCEPT ![p] = o]
      <4>1. \A q \in Waiters : Outcome'[q] = IF q = p THEN o ELSE Outcome[q]
        BY <2>1 DEF Outcome
      <4> QED BY <2>3, <4>1 DEF Told
    <3> QED BY <3>1, <3>2
  <2>5. o = "proceed" => PipelinePromise!Earned(p)
    BY <2>1, <2>3 DEF Promise!Earned, PipelinePromise!Earned
  <2>6. CASE o = "proceed"
    BY <1>2, <2>1, <2>4, <2>5, <2>6 DEF PipelinePromise!Proceed, PipelinePromise!Next, Told, TakenOn
  <2>7. CASE o = "stop"
    BY <1>2, <2>1, <2>4, <2>7 DEF PipelinePromise!Stop, PipelinePromise!Next, Told, TakenOn
  <2> QED BY <2>6, <2>7
<1> QED
  BY <1>1, <1>4, <1>5, <1>6, <1>7 DEF Promise!Next

(* Every behaviour of a pipeline is one the contract of a step allows.     *)
THEOREM PipelineImplementsContract == PipelineSafetySpec => PipelinePromise!SafetySpec
<1>1. PipelineInit => PipelinePromise!Init
  BY TaskOfAssumption
     DEF PipelineInit, Init, PipelinePromise!Init, Completed, Proven, Outcome
<1>2. PipelineIInv /\ PipelineIInv' /\ [PipelineNext]_pipelineVars
         => [PipelinePromise!Next]_(PipelinePromise!vars)
  <2> SUFFICES ASSUME PipelineIInv, PipelineIInv', [PipelineNext]_pipelineVars
               PROVE  [PipelinePromise!Next]_(PipelinePromise!vars)
    OBVIOUS
  <2>1. CASE \E p \in Waiters : Dispatch(p)
    BY <2>1, DispatchPromise
  <2>2. CASE ~\E p \in Waiters : Dispatch(p)
    BY <2>2, OtherStepsAreWaitSteps, WaitPromise
  <2> QED BY <2>1, <2>2
<1> QED
  BY <1>1, <1>2, InductivePipeline, PTL DEF PipelineSafetySpec, PipelinePromise!SafetySpec

-----------------------------------------------------------------------------
(* A map and a wait on one control plane.                                  *)
(*                                                                         *)
(* MapStep stands for the map of Verdicts with what is proved of it.       *)

MapStep == INSTANCE MapStepProofs WITH
    Strict <- StrictMaps,
    pc     <- mapPc,
    ctx    <- mapCtx,
    result <- mapResult

MapAssumptions ==
    /\ SharedTasks \subseteq Tasks
    /\ StallReasons \subseteq {"queued_sla_exceeded", "proof_missing"}
    /\ MaxReceipts \in Nat
    /\ NewestFirst \in BOOLEAN
    /\ StrictMaps \subseteq Maps
    /\ Jobs \in [Maps -> Seq(Tasks) \ {<<>>}]

LEMMA MapAssumptionsHold == MapAssumptions
BY SharedTasksAssumption, StallReasonsAssumption, MaxReceiptsAssumption,
   NewestFirstAssumption, StrictMapsAssumption, JobsAssumption DEF MapAssumptions

(* It is the map of Verdicts: it starts in the same states and has the     *)
(* same steps.                                                             *)
LEMMA SameInit == Map!Init <=> MapStep!Init
BY Zenon DEF Map!Init, MapStep!Init, Map!ServerInit, MapStep!ServerInit

LEMMA SameSteps ==
    ASSUME NEW m
    PROVE  /\ Map!Execute(m) <=> MapStep!Execute(m)
           /\ Map!StepDeadline(m) <=> MapStep!StepDeadline(m)
           /\ Map!EngineEndsContext(m) <=> MapStep!EngineEndsContext(m)
<1>1. Map!Begin(m) <=> MapStep!Begin(m)
  BY Zenon
     DEF Map!Begin, MapStep!Begin, Map!serverVars, MapStep!serverVars, Map!Goto,
         MapStep!Goto, Map!Return, MapStep!Return
<1>2. Map!SubmitSucceeds(m) <=> MapStep!SubmitSucceeds(m)
  BY Zenon
     DEF Map!SubmitSucceeds, MapStep!SubmitSucceeds, Map!serverVars,
         MapStep!serverVars, Map!NextJob, MapStep!NextJob, Map!Posted,
         MapStep!Posted, Map!Create, MapStep!Create, Map!Goto, MapStep!Goto,
         Map!TaskRow, MapStep!TaskRow
<1>3. Map!SubmitFails(m) <=> MapStep!SubmitFails(m)
  BY Zenon
     DEF Map!SubmitFails, MapStep!SubmitFails, Map!serverVars, MapStep!serverVars,
         Map!NextJob, MapStep!NextJob, Map!Posted, MapStep!Posted, Map!Create,
         MapStep!Create, Map!Return, MapStep!Return, Map!Report, MapStep!Report
<1>4. Map!TasksArrive(m) <=> MapStep!TasksArrive(m)
  BY Zenon
     DEF Map!TasksArrive, MapStep!TasksArrive, Map!serverVars, MapStep!serverVars,
         Map!Goto, MapStep!Goto, Map!Return, MapStep!Return, Map!Report,
         MapStep!Report, Map!IsFirst, MapStep!IsFirst, Map!TaskRow, MapStep!TaskRow,
         Map!IsTerminalTaskStatus, MapStep!IsTerminalTaskStatus, Map!Stopped,
         MapStep!Stopped, Map!ActionableStalls, MapStep!ActionableStalls,
         Map!Cause, MapStep!Cause, Map!StopCauses, MapStep!StopCauses,
         Map!WithError, MapStep!WithError
<1>5. Map!TasksFail(m) <=> MapStep!TasksFail(m)
  BY Zenon
     DEF Map!TasksFail, MapStep!TasksFail, Map!serverVars, MapStep!serverVars,
         Map!Return, MapStep!Return, Map!Report, MapStep!Report, Map!FailureOf,
         MapStep!FailureOf
<1>6. Map!ProofsArrive(m) <=> MapStep!ProofsArrive(m)
  BY Zenon
     DEF Map!ProofsArrive, MapStep!ProofsArrive, Map!serverVars, MapStep!serverVars,
         Map!Goto, MapStep!Goto, Map!Return, MapStep!Return, Map!Report,
         MapStep!Report, Map!IsFirst, MapStep!IsFirst, Map!LastReceipt,
         MapStep!LastReceipt, Map!ProofDecision, MapStep!ProofDecision,
         Map!WithError, MapStep!WithError
<1>7. Map!ProofsFail(m) <=> MapStep!ProofsFail(m)
  BY Zenon
     DEF Map!ProofsFail, MapStep!ProofsFail, Map!serverVars, MapStep!serverVars,
         Map!Return, MapStep!Return, Map!FailureOf, MapStep!FailureOf
<1>8. Map!PollTimerFires(m) <=> MapStep!PollTimerFires(m)
  BY Zenon
     DEF Map!PollTimerFires, MapStep!PollTimerFires, Map!serverVars,
         MapStep!serverVars, Map!Goto, MapStep!Goto
<1>9. Map!SeesContextDone(m) <=> MapStep!SeesContextDone(m)
  BY Zenon
     DEF Map!SeesContextDone, MapStep!SeesContextDone, Map!serverVars,
         MapStep!serverVars, Map!Return, MapStep!Return
<1>10. Map!StepDeadline(m) <=> MapStep!StepDeadline(m)
  BY Zenon
     DEF Map!StepDeadline, MapStep!StepDeadline, Map!serverVars, MapStep!serverVars,
         Map!Waiting, MapStep!Waiting
<1>11. Map!EngineEndsContext(m) <=> MapStep!EngineEndsContext(m)
  BY Zenon
     DEF Map!EngineEndsContext, MapStep!EngineEndsContext, Map!serverVars,
         MapStep!serverVars
<1> QED
  BY <1>1, <1>2, <1>3, <1>4, <1>5, <1>6, <1>7, <1>8, <1>9, <1>10, <1>11
     DEF Map!Execute, MapStep!Execute

LEMMA SameInvariant == Map!IInv <=> MapStep!IInv
<1>1. Map!TypeOK <=> MapStep!TypeOK
  BY Zenon
     DEF Map!TypeOK, MapStep!TypeOK, Map!ServerTypeOK, MapStep!ServerTypeOK, Map!Status,
         MapStep!Status, Map!Verdict, MapStep!Verdict, Map!Waiting, MapStep!Waiting,
         Map!Result, MapStep!Result, Map!Row, MapStep!Row, Map!Cause, MapStep!Cause
<1>2. Map!EndsWithResult <=> MapStep!EndsWithResult
  BY Zenon DEF Map!EndsWithResult, MapStep!EndsWithResult
<1>3. Map!SubmitsInOrder <=> MapStep!SubmitsInOrder
  BY Zenon
     DEF Map!SubmitsInOrder, MapStep!SubmitsInOrder, Map!Waiting, MapStep!Waiting,
         Map!AfterSubmission, MapStep!AfterSubmission, Map!Result, MapStep!Result
<1>4. Map!RowsInOrder <=> MapStep!RowsInOrder
  BY Zenon DEF Map!RowsInOrder, MapStep!RowsInOrder
<1>5. Map!SuccessIsFinal <=> MapStep!SuccessIsFinal
  BY Zenon
     DEF Map!SuccessIsFinal, MapStep!SuccessIsFinal, Map!Completed, MapStep!Completed
<1>6. Map!AcceptanceIsFinal <=> MapStep!AcceptanceIsFinal
  BY Zenon DEF Map!AcceptanceIsFinal, MapStep!AcceptanceIsFinal, Map!Proven, MapStep!Proven
<1>7. Map!CreatedIsSubmitted <=> MapStep!CreatedIsSubmitted
  BY Zenon
     DEF Map!CreatedIsSubmitted, MapStep!CreatedIsSubmitted, Map!IdSet, MapStep!IdSet,
         Map!NextJob, MapStep!NextJob
<1> QED
  BY <1>1, <1>2, <1>3, <1>4, <1>5, <1>6, <1>7 DEF Map!IInv, MapStep!IInv

LEMMA SameInvariantNext == Map!IInv' <=> MapStep!IInv'
BY SameInvariant, PTL

(* The rows of a map are about tasks. *)
LEMMA MapRowType ==
    ASSUME Map!IInv, NEW m \in Maps
    PROVE  /\ submitted[m] \in Seq(Map!Row) /\ outputs[m] \in Seq(Map!Row)
           /\ \A i \in DOMAIN outputs[m] : outputs[m][i].id \in Tasks
<1>1. submitted[m] \in Seq(Map!Row) /\ outputs[m] \in Seq(Map!Row)
  BY DEF Map!IInv, Map!TypeOK
<1>2. \A i \in DOMAIN outputs[m] : outputs[m][i] \in Map!Row
  BY <1>1
<1> QED BY <1>1, <1>2 DEF Map!Row

(* The two steps see one control plane. *)
LEMMA SameServer ==
    ASSUME NEW t
    PROVE  ServerStep(t) <=> MapStep!ServerStep(t)
BY Zenon
   DEF ServerStep, Create, Lease, Finish, Requeue, RaiseStall, ClearStall, AddReceipt,
       Delist, Verdict, MapStep!ServerStep, MapStep!Create, MapStep!Lease, MapStep!Finish,
       MapStep!Requeue, MapStep!RaiseStall, MapStep!ClearStall, MapStep!AddReceipt,
       MapStep!Delist, MapStep!Verdict

MapMove(m) ==
    MapStep!Execute(m) \/ MapStep!StepDeadline(m) \/ MapStep!EngineEndsContext(m)

(* A move of a map touches no wait, no success and no receipt.             *)
LEMMA MapMoveEffect ==
    ASSUME MapStep!IInv, NEW m \in Maps, MapMove(m)
    PROVE  /\ ServerTypeOK'
           /\ Completed' = Completed
           /\ Proven' = Proven
           /\ receipts' = receipts
<1>1. CASE mapPc[m] = "submit" /\ MapStep!Posted(m)
  <2>1. /\ MapStep!ServerTypeOK'
        /\ MapStep!Completed' = MapStep!Completed
        /\ MapStep!Proven' = MapStep!Proven
    BY <1>1, MapStep!PostedKeeps, MapAssumptionsHold DEF MapAssumptions
  <2>2. receipts' = receipts
    BY <1>1 DEF MapStep!Posted, MapStep!Create, MapStep!serverVars
  <2> QED
    BY <2>1, <2>2
       DEF ServerTypeOK, MapStep!ServerTypeOK, Completed, MapStep!Completed, Proven,
           MapStep!Proven, Status, MapStep!Status, Verdict, MapStep!Verdict
<1>2. CASE UNCHANGED serverVars
  <2>1. ServerTypeOK
    BY DEF MapStep!IInv, MapStep!TypeOK, ServerTypeOK, MapStep!ServerTypeOK, Status,
           MapStep!Status, Verdict, MapStep!Verdict
  <2> QED BY <1>2, <2>1 DEF serverVars, ServerTypeOK, Completed, Proven
<1>3. (mapPc[m] = "submit" /\ MapStep!Posted(m)) \/ UNCHANGED serverVars
  BY Zenon
     DEF MapMove, MapStep!Execute, MapStep!Begin, MapStep!SubmitSucceeds,
         MapStep!SubmitFails, MapStep!TasksArrive, MapStep!TasksFail, MapStep!ProofsArrive,
         MapStep!ProofsFail, MapStep!PollTimerFires, MapStep!SeesContextDone,
         MapStep!StepDeadline, MapStep!EngineEndsContext, MapStep!serverVars, serverVars
<1> QED BY <1>1, <1>2, <1>3

(* What was read first, or last, stays so as far as the order of the list  *)
(* allows.                                                                 *)
LEMMA ReceiptsStay ==
    ASSUME NEW t \in Tasks, ServerTypeOK, ServerStep(t), NEW u \in Tasks, NEW v
    PROVE  /\ WasFirst(receipts[u], v) => WasFirst(receipts'[u], v)
           /\ WasLast(receipts[u], v) => WasLast(receipts'[u], v)
<1> DEFINE list == receipts[u]
<1>1. CASE receipts'[u] = list
  BY <1>1
<1>2. CASE AddReceipt(t) /\ u = t
  <2>1. PICK x \in Verdict : receipts'[u] = IF NewestFirst THEN <<x>> \o list
                                                          ELSE Append(list, x)
    BY <1>2, ReceiptIsAdded
  <2>2. list \in Seq(Verdict)
    BY DEF ServerTypeOK
  <2> HIDE DEF list
  <2>3. CASE NewestFirst
    <3>1. /\ Len(<<x>> \o list) = Len(list) + 1
          /\ \A i \in 1 .. Len(list) : (<<x>> \o list)[i + 1] = list[i]
      BY <2>2
    <3>2. ASSUME NEW i \in 1 .. Len(list), list[i] = v PROVE Has(<<x>> \o list, v)
      <4>1. i + 1 \in 1 .. Len(<<x>> \o list) /\ (<<x>> \o list)[i + 1] = v
        BY <2>2, <3>1, <3>2
      <4> QED BY <4>1 DEF Has
    <3>3. Has(list, v) => (<<x>> \o list)[Len(<<x>> \o list)] = list[Len(list)]
      BY <2>2, <3>1 DEF Has
    <3> QED BY <2>1, <2>3, <3>2, <3>3 DEF WasFirst, WasLast, Has, list
  <2>4. CASE ~NewestFirst
    <3>1. /\ Len(Append(list, x)) = Len(list) + 1
          /\ \A i \in 1 .. Len(list) : Append(list, x)[i] = list[i]
      BY <2>2
    <3>2. Has(list, v) => Has(Append(list, x), v) /\ Append(list, x)[1] = list[1]
      BY <2>2, <3>1 DEF Has
    <3> QED BY <2>1, <2>4, <3>2 DEF WasFirst, WasLast, list
  <2> QED BY <2>3, <2>4
<1>3. receipts'[u] = list \/ (AddReceipt(t) /\ u = t)
  <2>1. CASE AddReceipt(t)
    BY <2>1, ReceiptIsAdded
  <2>2. CASE ~AddReceipt(t)
    BY <2>2 DEF ServerStep, Create, Lease, Finish, Requeue, RaiseStall, ClearStall, Delist
  <2> QED BY <2>1, <2>2
<1> QED BY <1>1, <1>2, <1>3

-----------------------------------------------------------------------------
(* The inductive invariant of waits and maps together. *)

(* Nobody has read anything in the beginning. *)
LEMMA InitVerdictsIInv == VerdictsInit => VerdictsIInv
<1> SUFFICES ASSUME VerdictsInit PROVE VerdictsIInv
  OBVIOUS
<1>1. IInv
  BY InitIInv DEF VerdictsInit
<1>2. Map!IInv
  BY SameInit, SameInvariant, MapStep!InitIInv, MapAssumptionsHold
     DEF VerdictsInit, MapAssumptions
<1>3. WaitReadFirst
  BY StrictAssumption DEF VerdictsInit, Init, WaitReadFirst, WaitSays
<1>4. MapReadLast
  BY DEF VerdictsInit, Map!Init, MapReadLast
<1> QED BY <1>1, <1>2, <1>3, <1>4 DEF VerdictsIInv

(* The control plane. *)
LEMMA ServerVerdicts ==
    ASSUME VerdictsIInv, VerdictsServer
    PROVE  VerdictsIInv'
<1>1. PICK t \in Tasks : ServerStep(t)
  BY DEF VerdictsServer
<1>2. /\ UNCHANGED waitVars /\ UNCHANGED mapVars
      /\ IInv /\ Map!IInv /\ ServerTypeOK
  BY DEF VerdictsServer, VerdictsIInv, IInv, TypeOK
<1>3. IInv'
  BY <1>1, <1>2, ServerStepIInv
<1>4. MapStep!IInv'
  BY <1>1, <1>2, SameServer, SameInvariant, MapStep!ServerStepIInv, MapAssumptionsHold
     DEF MapAssumptions, mapVars, MapStep!mapVars
<1>5. WaitReadFirst'
  <2> SUFFICES ASSUME NEW w \in Strict, NEW v \in Verdict, WaitSays(w, v)'
               PROVE  WasFirst(receipts'[TaskOf[w]], v)
    BY DEF WaitReadFirst
  <2>1. WaitSays(w, v) /\ TaskOf[w] \in Tasks
    BY <1>2, TaskOfAssumption, StrictAssumption DEF WaitSays, waitVars
  <2>2. WasFirst(receipts[TaskOf[w]], v)
    BY <2>1 DEF VerdictsIInv, WaitReadFirst
  <2> QED BY <1>1, <1>2, <2>1, <2>2, ReceiptsStay
<1>6. MapReadLast'
  <2> SUFFICES ASSUME NEW m \in Maps, NEW i \in DOMAIN outputs[m],
                      outputs[m][i].proof # "none"
               PROVE  WasLast(receipts'[outputs[m][i].id], outputs[m][i].proof)
    BY <1>2 DEF VerdictsIInv, MapReadLast, mapVars
  <2>1. WasLast(receipts[outputs[m][i].id], outputs[m][i].proof)
    BY DEF VerdictsIInv, MapReadLast
  <2>2. outputs[m][i].id \in Tasks
    BY <1>2, MapRowType
  <2> QED BY <1>1, <1>2, <2>1, <2>2, ReceiptsStay
<1> QED
  BY <1>3, <1>4, <1>5, <1>6, SameInvariantNext DEF VerdictsIInv

(* A wait moves. *)
LEMMA WaitVerdicts ==
    ASSUME VerdictsIInv, WaitMoves
    PROVE  VerdictsIInv'
<1>1. PICK q \in Waiters : Execute(q) \/ StepDeadline(q) \/ EngineEndsContext(q)
  BY DEF WaitMoves
<1>2. /\ UNCHANGED mapVars /\ UNCHANGED serverVars
      /\ IInv /\ Map!IInv /\ TypeOK
  BY <1>1 DEF WaitMoves, VerdictsIInv, IInv, Execute, Begin, SnapshotArrives, ProofsArrive,
              RequestFails, PollTimerFires, SeesContextDone, StepDeadline, EngineEndsContext
<1>3. IInv'
  BY <1>1, <1>2, NextIInv DEF Next
<1>4. MapStep!IInv'
  BY <1>2, SameInvariant, MapStep!NextIInv, MapAssumptionsHold
     DEF MapAssumptions, MapStep!vars, MapStep!mapVars, MapStep!serverVars, mapVars, serverVars
<1>5. WaitReadFirst'
  <2> SUFFICES ASSUME NEW w \in Strict, NEW v \in Verdict, WaitSays(w, v)'
               PROVE  WasFirst(receipts[TaskOf[w]], v)
    BY <1>2 DEF WaitReadFirst, serverVars
  <2>1. CASE result'[w] = result[w]
    BY <2>1 DEF VerdictsIInv, WaitReadFirst, WaitSays
  <2>2. CASE result'[w] # result[w]
    <3>1. q = w /\ ProofsArrive(w)
      <4>1. w \in Waiters /\ result \in [Waiters -> Result]
        BY <1>2, StrictAssumption DEF TypeOK
      <4>2. result' = result \/ \E r : result' = [result EXCEPT ![q] = r]
        <5>1. CASE ProofsArrive(q)
          <6>1. FirstReceipt(receipts[TaskOf[q]]) \in Verdict \cup {"none"}
            BY <1>2, TaskOfAssumption, FirstReceiptType DEF TypeOK, ServerTypeOK
          <6>2. ProofDecision(FindProof(TaskOf[q]), q \in Strict) \in {"stop", "proceed", "poll"}
            <7>1. (q \in Strict) \in BOOLEAN
              OBVIOUS
            <7> QED BY <6>1, <7>1, ProofDecisionCases DEF FindProof
          <6> QED BY <5>1, <6>2 DEF ProofsArrive, Goto, Return
        <5>2. CASE SnapshotArrives(q)
          BY <5>2 DEF SnapshotArrives, Goto, Return
        <5>3. CASE Begin(q) \/ RequestFails(q)
          BY <5>3 DEF Begin, RequestFails, Goto, Return
        <5>4. CASE \/ PollTimerFires(q) \/ SeesContextDone(q)
                   \/ StepDeadline(q) \/ EngineEndsContext(q)
          BY <5>4 DEF PollTimerFires, SeesContextDone, StepDeadline, EngineEndsContext, Goto,
                      Return
        <5> QED BY <1>1, <5>1, <5>2, <5>3, <5>4 DEF Execute
      <4>3. q = w
        BY <2>2, <4>1, <4>2
      <4>4. result'[w] \in {"ok", "proof_rejected"}
        BY DEF WaitSays
      <4>5. ASSUME Return(w, "client_error") \/ Return(w, "not_found")
                   \/ Return(w, "task_stopped") \/ Return(w, "tasks_unavailable")
                   \/ Return(w, "proofs_unavailable") \/ Return(w, "timed_out")
            PROVE  FALSE
        BY <4>1, <4>4, <4>5 DEF Return
      <4> QED
        BY <1>1, <2>2, <4>3, <4>5
           DEF Execute, Begin, SnapshotArrives, RequestFails, PollTimerFires,
               SeesContextDone, StepDeadline, EngineEndsContext, Goto
    <3>2. receipts[TaskOf[w]] \in Seq(Verdict)
      BY <1>2, TaskOfAssumption, StrictAssumption DEF TypeOK, ServerTypeOK
    <3>3. FirstReceipt(receipts[TaskOf[w]]) = v
      BY <1>2, <2>2, <3>1, <3>2, FirstReceiptType, ProofDecisionCases, StrictAssumption
         DEF WaitSays, ProofsArrive, FindProof, Goto, Return, TypeOK, Verdict
    <3> QED BY <3>2, <3>3, FirstReceiptType DEF Verdict, WasFirst, Has
  <2> QED BY <2>1, <2>2
<1>6. MapReadLast'
  BY <1>2 DEF VerdictsIInv, MapReadLast, mapVars, serverVars, WasLast, Has
<1> QED
  BY <1>3, <1>4, <1>5, <1>6, SameInvariantNext DEF VerdictsIInv

(* What a map has submitted and what it reports after one of its moves:    *)
(* every row is an old one, one without a receipt, or one with the last    *)
(* receipt that is listed.                                                 *)
LEMMA MapRows ==
    ASSUME VerdictsIInv, NEW m \in Maps, MapMove(m), NEW n \in Maps
    PROVE  /\ \A i \in DOMAIN submitted'[n] : submitted'[n][i].proof = "none"
           /\ \A i \in DOMAIN outputs'[n] :
                 LET row == outputs'[n][i]
                 IN  \/ row.proof = "none"
                     \/ \E j \in DOMAIN outputs[n] : row = outputs[n][j]
                     \/ row.id \in Tasks /\ row.proof = MapStep!LastReceipt(receipts[row.id])
<1>1. /\ Map!IInv
      /\ submitted \in [Maps -> Seq(Map!Row)] /\ outputs \in [Maps -> Seq(Map!Row)]
      /\ \A i \in DOMAIN submitted[n] : submitted[n][i].proof = "none"
  BY DEF VerdictsIInv, MapReadLast, Map!IInv, Map!TypeOK
<1>2. CASE UNCHANGED <<submitted, outputs>>
  BY <1>1, <1>2
<1>3. CASE MapStep!SubmitSucceeds(m)
  <2> DEFINE row == [MapStep!TaskRow(MapStep!NextJob(m)) EXCEPT
                        !.status = status'[MapStep!NextJob(m)]]
  <2>1. submitted' = [submitted EXCEPT ![m] = Append(@, row)] /\ outputs' = outputs
    BY <1>3 DEF MapStep!SubmitSucceeds
  <2>2. row.proof = "none"
    BY DEF MapStep!TaskRow
  <2> HIDE DEF row
  <2>3. submitted[n] \in Seq(Map!Row)
    BY <1>1
  <2>4. CASE n = m
    <3>1. submitted'[n] = Append(submitted[n], row)
      BY <1>1, <2>1, <2>4
    <3>2. \A i \in DOMAIN submitted'[n] :
             submitted'[n][i] = row \/ (i \in DOMAIN submitted[n]
                                           /\ submitted'[n][i] = submitted[n][i])
      BY <2>3, <3>1
    <3> QED BY <1>1, <2>1, <2>2, <3>2
  <2> QED BY <1>1, <2>1, <2>4
<1>4. CASE MapStep!SubmitFails(m) \/ MapStep!TasksFail(m)
  <2>1. outputs' = [outputs EXCEPT ![m] = submitted[m]] /\ submitted' = submitted
    BY <1>4 DEF MapStep!SubmitFails, MapStep!TasksFail, MapStep!Report
  <2> QED BY <1>1, <2>1
<1>5. CASE MapStep!TasksArrive(m)
  <2> DEFINE id(i) == submitted[m][i].id
             read(k) == [i \in 1 .. k |-> MapStep!TaskRow(id(i))]
  <2>1. submitted' = submitted
    BY <1>5 DEF MapStep!TasksArrive
  <2>2. /\ \A i \in DOMAIN submitted[m] : submitted[m][i].proof = "none"
        /\ submitted[m] \in Seq(Map!Row)
    BY <1>1 DEF VerdictsIInv, MapReadLast
  <2>3. \E rows : /\ outputs' = [outputs EXCEPT ![m] = rows]
                  /\ \A i \in DOMAIN rows : rows[i].proof = "none"
    <3>1. \A k : \A i \in DOMAIN read(k) : read(k)[i].proof = "none"
      BY DEF MapStep!TaskRow
    <3>3. ASSUME NEW k \in 1 .. Len(submitted[m]), NEW cause
          PROVE  submitted[m][k].proof = "none"
                 /\ MapStep!WithError(MapStep!TaskRow(id(k)), cause).proof = "none"
                 /\ [read(k) EXCEPT ![k] = MapStep!WithError(@, cause)]
                       = [read(k) EXCEPT ![k] = MapStep!WithError(MapStep!TaskRow(id(k)), cause)]
      <4>1. k \in DOMAIN submitted[m] /\ k \in 1 .. k
        BY <2>2
      <4> QED BY <2>2, <4>1 DEF MapStep!WithError, MapStep!TaskRow
    <3>4. \/ outputs' = [outputs EXCEPT ![m] = read(Len(submitted[m]))]
          \/ \E k \in 1 .. Len(submitted[m]) :
                outputs' = [outputs EXCEPT ![m] = [read(k) EXCEPT ![k] = submitted[m][k]]]
          \/ \E k \in 1 .. Len(submitted[m]), cause \in MapStep!Cause :
                outputs' = [outputs EXCEPT ![m] =
                               [read(k) EXCEPT ![k] = MapStep!WithError(@, cause)]]
      BY <1>5 DEF MapStep!TasksArrive, MapStep!Report
    <3> HIDE DEF read, id
    <3>5. ASSUME NEW k \in 1 .. Len(submitted[m]),
                 outputs' = [outputs EXCEPT ![m] = [read(k) EXCEPT ![k] = submitted[m][k]]]
          PROVE  \E rows : /\ outputs' = [outputs EXCEPT ![m] = rows]
                           /\ \A i \in DOMAIN rows : rows[i].proof = "none"
      <4> DEFINE rows == [read(k) EXCEPT ![k] = submitted[m][k]]
      <4>1. submitted[m][k].proof = "none"
        BY <3>3
      <4>2. \A i \in DOMAIN rows : rows[i].proof = "none"
        BY <3>1, <4>1
      <4> HIDE DEF rows
      <4> QED BY <3>5, <4>2 DEF rows
    <3>6. ASSUME NEW k \in 1 .. Len(submitted[m]), NEW cause \in MapStep!Cause,
                 outputs' = [outputs EXCEPT ![m] =
                                [read(k) EXCEPT ![k] = MapStep!WithError(@, cause)]]
          PROVE  \E rows : /\ outputs' = [outputs EXCEPT ![m] = rows]
                           /\ \A i \in DOMAIN rows : rows[i].proof = "none"
      <4> DEFINE row == MapStep!WithError(MapStep!TaskRow(id(k)), cause)
      <4>1. row.proof = "none" /\ outputs' = [outputs EXCEPT ![m] = [read(k) EXCEPT ![k] = row]]
        BY <3>3, <3>6
      <4> HIDE DEF row
      <4> DEFINE rows == [read(k) EXCEPT ![k] = row]
      <4>2. \A i \in DOMAIN rows : rows[i].proof = "none"
        BY <3>1, <4>1
      <4> HIDE DEF rows
      <4> QED BY <4>1, <4>2 DEF rows
    <3> QED BY <3>1, <3>4, <3>5, <3>6
  <2>4. CASE n = m
    BY <1>1, <2>1, <2>3, <2>4
  <2> QED BY <1>1, <2>1, <2>3, <2>4
<1>6. CASE MapStep!ProofsArrive(m)
  <2> DEFINE receipt(i) == MapStep!LastReceipt(receipts[outputs[m][i].id])
             read(k) == [i \in 1 .. Len(outputs[m]) |->
                            IF i <= k THEN [outputs[m][i] EXCEPT !.proof = receipt(i)]
                                      ELSE outputs[m][i]]
             known(row) == \/ \E j \in DOMAIN outputs[m] : row = outputs[m][j]
                           \/ row.id \in Tasks
                                 /\ row.proof = MapStep!LastReceipt(receipts[row.id])
  <2>1. submitted' = submitted
    BY <1>6 DEF MapStep!ProofsArrive
  <2>2. outputs[m] \in Seq(Map!Row) /\ \A i \in DOMAIN outputs[m] : outputs[m][i] \in Map!Row
    BY <1>1, MapRowType
  <2>3. ASSUME NEW k, NEW i \in DOMAIN read(k)
        PROVE  \/ read(k)[i] = outputs[m][i] /\ i \in DOMAIN outputs[m]
               \/ /\ read(k)[i].id = outputs[m][i].id /\ read(k)[i].proof = receipt(i)
                  /\ read(k)[i].id \in Tasks
    BY <2>2 DEF Map!Row
  <2>4. \A k : \A i \in DOMAIN read(k) : known(read(k)[i])
    <3> HIDE DEF read
    <3> QED BY <2>3
  <2>5. \E rows : /\ outputs' = [outputs EXCEPT ![m] = rows]
                  /\ \A i \in DOMAIN rows : known(rows[i])
    <3>1. \/ outputs' = [outputs EXCEPT ![m] = read(Len(outputs[m]))]
          \/ \E k \in 1 .. Len(outputs[m]) :
                /\ outputs' = [outputs EXCEPT ![m] =
                                  [read(k) EXCEPT ![k] = MapStep!WithError(@, "proof")]]
      BY <1>6 DEF MapStep!ProofsArrive, MapStep!Report
    <3>2. ASSUME NEW k \in 1 .. Len(outputs[m])
          PROVE  known(MapStep!WithError(read(k)[k], "proof"))
      <4>1. k \in DOMAIN outputs[m] /\ k <= k
        BY <2>2
      <4>2. read(k)[k] = [outputs[m][k] EXCEPT !.proof = receipt(k)]
        BY <2>2, <4>1
      <4>3. outputs[m][k].id \in Tasks
        BY <2>2, <4>1 DEF Map!Row
      <4> HIDE DEF receipt, read
      <4>4. /\ MapStep!WithError(read(k)[k], "proof").id = outputs[m][k].id
            /\ MapStep!WithError(read(k)[k], "proof").proof = receipt(k)
        BY <2>2, <4>1, <4>2 DEF MapStep!WithError, Map!Row
      <4> QED BY <4>3, <4>4 DEF receipt
    <3> HIDE DEF known
    <3>3. ASSUME NEW k \in 1 .. Len(outputs[m])
          PROVE  \A i \in DOMAIN [read(k) EXCEPT ![k] = MapStep!WithError(@, "proof")] :
                    known([read(k) EXCEPT ![k] = MapStep!WithError(@, "proof")][i])
      BY <2>4, <3>2
    <3> HIDE DEF read
    <3> QED BY <2>4, <3>1, <3>3
  <2>6. CASE n = m
    <3>1. PICK rows : /\ outputs' = [outputs EXCEPT ![m] = rows]
                      /\ \A i \in DOMAIN rows : known(rows[i])
      BY <2>5
    <3>2. outputs'[n] = rows
      BY <1>1, <2>6, <3>1
    <3> QED BY <1>1, <2>1, <2>6, <3>1, <3>2
  <2> HIDE DEF known
  <2> QED BY <1>1, <2>1, <2>5, <2>6
<1> QED
  BY <1>2, <1>3, <1>4, <1>5, <1>6
     DEF MapMove, MapStep!Execute, MapStep!Begin, MapStep!ProofsFail, MapStep!PollTimerFires,
         MapStep!SeesContextDone, MapStep!StepDeadline, MapStep!EngineEndsContext

(* A map moves. *)
LEMMA MapVerdicts ==
    ASSUME VerdictsIInv, MapMoves
    PROVE  VerdictsIInv'
<1>1. PICK m \in Maps : MapMove(m)
  BY SameSteps DEF MapMoves, MapMove
<1>2. /\ UNCHANGED waitVars
      /\ IInv /\ Map!IInv /\ MapStep!IInv
  BY SameInvariant DEF MapMoves, VerdictsIInv
<1>3. ServerTypeOK' /\ Completed' = Completed /\ Proven' = Proven /\ receipts' = receipts
  BY <1>1, <1>2, MapMoveEffect
<1>4. IInv'
  BY <1>2, <1>3, AroundIInv
<1>5. MapStep!IInv'
  BY <1>1, <1>2, MapStep!NextIInv, MapAssumptionsHold
     DEF MapAssumptions, MapStep!Next, MapMove
<1>6. WaitReadFirst'
  BY <1>2, <1>3 DEF VerdictsIInv, WaitReadFirst, WaitSays, waitVars
<1>7. MapReadLast'
  <2> SUFFICES ASSUME NEW n \in Maps, NEW i \in DOMAIN outputs'[n],
                      outputs'[n][i].proof # "none"
               PROVE  WasLast(receipts[outputs'[n][i].id], outputs'[n][i].proof)
    BY <1>1, <1>3, MapRows DEF MapReadLast
  <2> DEFINE row == outputs'[n][i]
  <2>1. CASE \E j \in DOMAIN outputs[n] : row = outputs[n][j]
    BY <2>1 DEF VerdictsIInv, MapReadLast
  <2>2. CASE row.id \in Tasks /\ row.proof = MapStep!LastReceipt(receipts[row.id])
    <3>1. receipts[row.id] \in Seq(Verdict)
      BY <1>2, <2>2 DEF IInv, TypeOK, ServerTypeOK
    <3>2. LastReceipt(receipts[row.id]) = row.proof
      BY <2>2 DEF LastReceipt, MapStep!LastReceipt
    <3> QED BY <3>1, <3>2, LastReceiptType DEF WasLast, Has
  <2> QED BY <1>1, <2>1, <2>2, MapRows
<1> QED
  BY <1>4, <1>5, <1>6, <1>7, SameInvariantNext DEF VerdictsIInv

(* Every step of waits, maps and the control plane preserves it. *)
THEOREM InductiveVerdicts == VerdictsSpec => []VerdictsIInv
<1>1. VerdictsIInv /\ [VerdictsNext]_verdictVars => VerdictsIInv'
  <2> SUFFICES ASSUME VerdictsIInv, [VerdictsNext]_verdictVars PROVE VerdictsIInv'
    OBVIOUS
  <2>1. CASE UNCHANGED verdictVars
    <3>1. UNCHANGED <<vars, mapVars>>
      BY <2>1 DEF verdictVars
    <3>2. IInv'
      BY <3>1, NextIInv DEF VerdictsIInv
    <3>3. MapStep!IInv'
      BY <3>1, SameInvariant, MapStep!NextIInv, MapAssumptionsHold
         DEF VerdictsIInv, MapAssumptions, vars, mapVars, serverVars, MapStep!vars,
             MapStep!mapVars, MapStep!serverVars
    <3>4. WaitReadFirst' /\ MapReadLast'
      BY <3>1 DEF VerdictsIInv, WaitReadFirst, WaitSays, MapReadLast, vars, serverVars,
                  waitVars, mapVars, WasLast, Has
    <3> QED BY <3>2, <3>3, <3>4, SameInvariantNext DEF VerdictsIInv
  <2> QED
    BY <2>1, ServerVerdicts, WaitVerdicts, MapVerdicts DEF VerdictsNext, VerdictsFinished
<1> QED BY <1>1, InitVerdictsIInv, PTL DEF VerdictsSpec

(* A wait and a map that contradict each other have each read a receipt    *)
(* the other has not: findProof the first listed, mapSnapshot the last.    *)
THEOREM OppositeVerdicts == VerdictsSpec => []OppositeVerdictsNeedBothReceipts
<1>1. VerdictsIInv => OppositeVerdictsNeedBothReceipts
  <2> SUFFICES ASSUME VerdictsIInv,
                      NEW w \in Strict, NEW m \in Maps, NEW v \in Verdict,
                      NEW u \in Verdict, WaitSays(w, v), MapSays(m, TaskOf[w], u), v # u
               PROVE  /\ Len(receipts[TaskOf[w]]) > 1
                      /\ Oldest(receipts[TaskOf[w]]) = (IF NewestFirst THEN u ELSE v)
    BY DEF OppositeVerdictsNeedBothReceipts
  <2> DEFINE list == receipts[TaskOf[w]]
  <2>1. list \in Seq(Verdict)
    BY TaskOfAssumption, StrictAssumption DEF VerdictsIInv, IInv, TypeOK, ServerTypeOK
  <2>2. WasFirst(list, v)
    BY DEF VerdictsIInv, WaitReadFirst
  <2>3. WasLast(list, u)
    BY DEF MapSays, Verdict, VerdictsIInv, MapReadLast
  <2> HIDE DEF list
  <2>4. Len(list) > 1
    BY <2>1, <2>2, <2>3 DEF WasFirst, WasLast, Has
  <2> QED
    BY <2>2, <2>3, <2>4, NewestFirstAssumption DEF Oldest, WasFirst, WasLast, list
<1> QED BY <1>1, InductiveVerdicts, PTL

(* What each of the two owes its own pipeline it also keeps next to the    *)
(* other: an "ok" is earned, of a wait as of a map.                        *)
THEOREM EarnedTogether == VerdictsSpec => [](OkIsEarned /\ Map!OkIsEarned)
<1>1. IInv => OkIsEarned
  BY DEF IInv, OkIsEarned, SuccessIsFinal, AcceptanceIsFinal
<1>2. MapStep!IInv => Map!OkIsEarned
  <2>1. MapStep!IInv => MapStep!OkIsEarned
    BY MapStep!EarnedByInvariant, MapAssumptionsHold DEF MapAssumptions
  <2>2. MapStep!OkIsEarned => Map!OkIsEarned
    BY Zenon DEF Map!OkIsEarned, MapStep!OkIsEarned, Map!Completed, MapStep!Completed,
                 Map!Proven, MapStep!Proven
  <2> QED BY <2>1, <2>2
<1>3. VerdictsIInv => OkIsEarned /\ Map!OkIsEarned
  BY <1>1, <1>2, SameInvariant DEF VerdictsIInv
<1> QED BY <1>3, InductiveVerdicts, PTL

(* A map that succeeds next to a wait reports each of its tasks, in order  *)
(* and as often as configured, with what earned it.                        *)
THEOREM ReportedTogether == VerdictsSpec => []MapReportsEachTask
<1>1. MapStep!IInv => MapStep!OkReportsEachTask
  BY MapStep!ReportedByInvariant, MapAssumptionsHold DEF MapAssumptions
<1>2. MapStep!OkReportsEachTask => Map!OkReportsEachTask
  BY Zenon DEF Map!OkReportsEachTask, MapStep!OkReportsEachTask, Map!Ids, MapStep!Ids
<1>3. VerdictsIInv => MapReportsEachTask
  BY <1>1, <1>2, SameInvariant DEF VerdictsIInv, MapReportsEachTask
<1> QED BY <1>3, InductiveVerdicts, PTL
=============================================================================
