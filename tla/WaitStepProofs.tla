--------------------------- MODULE WaitStepProofs ---------------------------
(***************************************************************************)
(* Proofs about WaitStep, for every number of executions and tasks, every  *)
(* assignment of tasks to executions and any number of receipts.           *)
(***************************************************************************)
EXTENDS WaitStep, TaskViewProofs

-----------------------------------------------------------------------------
(* Type correctness. *)

(* The initial states are well typed. *)
LEMMA InitTypeOK == Init => TypeOK
BY ServerInitTypeOK DEF Init, TypeOK, NoOutput, Output, Result, Status, Verdict, Waiting

(* Every step keeps the types. *)
LEMMA NextTypeOK == TypeOK /\ [Next]_vars => TypeOK'
<1> SUFFICES ASSUME TypeOK, [Next]_vars PROVE TypeOK'
  OBVIOUS
<1> USE DEF TypeOK, Waiting, Result
<1>1. CASE Server
  <2>1. ServerTypeOK'
    BY <1>1, ServerStepTypeOK DEF Server
  <2> QED BY <1>1, <2>1 DEF Server, waitVars, Output
<1>2. ASSUME UNCHANGED serverVars PROVE ServerTypeOK'
  BY <1>2 DEF serverVars, ServerTypeOK
<1>3. ASSUME NEW w \in Waiters, Begin(w) PROVE TypeOK'
  BY <1>2, <1>3 DEF Begin, Goto, Return, Output
<1>4. ASSUME NEW w \in Waiters, SnapshotArrives(w) PROVE TypeOK'
  <2>1. TaskOutput(TaskSnapshot(TaskOf[w])) \in Output
    BY TaskOfAssumption DEF TaskOutput, TaskSnapshot, Output, ServerTypeOK
  <2>2. output' \in [Waiters -> Output]
    BY <1>4, <2>1 DEF SnapshotArrives
  <2>3. /\ pc' \in [Waiters -> {"start", "done"} \cup Waiting]
        /\ result' \in [Waiters -> Result]
    BY <1>4 DEF SnapshotArrives, Goto, Return
  <2> QED BY <1>2, <1>4, <2>2, <2>3 DEF SnapshotArrives
<1>5. ASSUME NEW w \in Waiters, ProofsArrive(w) PROVE TypeOK'
  <2> DEFINE receipt == FindProof(TaskOf[w])
  <2>1. receipt \in Verdict \cup {"none"}
    BY TaskOfAssumption, FirstReceiptType DEF ServerTypeOK, FindProof
  <2>2. output' \in [Waiters -> Output]
    BY <1>5, <2>1 DEF ProofsArrive, Output
  <2> HIDE DEF receipt
  <2>3. ProofDecision(receipt, w \in Strict) \in {"stop", "proceed", "poll"}
    <3>1. (w \in Strict) \in BOOLEAN OBVIOUS
    <3> QED BY <2>1, <3>1, ProofDecisionCases
  <2>4. /\ pc' \in [Waiters -> {"start", "done"} \cup Waiting]
        /\ result' \in [Waiters -> Result]
    BY <1>5, <2>3 DEF ProofsArrive, Goto, Return, receipt
  <2> QED BY <1>2, <1>5, <2>2, <2>4 DEF ProofsArrive
<1>6. ASSUME NEW w \in Waiters, RequestFails(w) PROVE TypeOK'
  BY <1>2, <1>6 DEF RequestFails, Return, Output
<1>7. ASSUME NEW w \in Waiters, PollTimerFires(w) \/ SeesContextDone(w) PROVE TypeOK'
  BY <1>2, <1>7 DEF PollTimerFires, SeesContextDone, Goto, Return, Output
<1>8. ASSUME NEW w \in Waiters, StepDeadline(w) \/ EngineEndsContext(w) PROVE TypeOK'
  BY <1>2, <1>8 DEF StepDeadline, EngineEndsContext, Output
<1>9. CASE UNCHANGED vars
  BY <1>2, <1>9 DEF vars, waitVars, Output
<1> QED
  BY <1>1, <1>3, <1>4, <1>5, <1>6, <1>7, <1>8, <1>9 DEF Next, Execute, Finished

(* Every state of every behaviour is well typed. *)
THEOREM TypeCorrect == SafetySpec => []TypeOK
BY InitTypeOK, NextTypeOK, PTL DEF SafetySpec

-----------------------------------------------------------------------------
(* The inductive invariant. *)

(* No wait has read anything in the beginning. *)
LEMMA InitIInv == Init => IInv
BY InitTypeOK, StrictAssumption
   DEF Init, IInv, EndsWithResult, SuccessIsFinal, AcceptanceIsFinal,
       FirstReceiptDecides, PollsWhileUndecided

(* What moves while no wait does preserves the invariant, provided that it *)
(* keeps what was read true: successes, acceptances and, where the oldest  *)
(* receipt is listed first, that receipt.                                  *)
LEMMA AroundIInv ==
    ASSUME IInv, UNCHANGED waitVars, ServerTypeOK',
           Completed \subseteq Completed', Proven \subseteq Proven',
           ~NewestFirst => \A u \in Tasks :
               receipts[u] # <<>> => receipts'[u] # <<>> /\ receipts'[u][1] = receipts[u][1]
    PROVE  IInv'
<1> USE DEF IInv
<1>1. UNCHANGED <<pc, ctx, output, result>>
  BY DEF waitVars
<1>2. TypeOK'
  BY <1>1 DEF TypeOK
<1>3. EndsWithResult'
  BY <1>1 DEF EndsWithResult
<1>4. SuccessIsFinal' /\ AcceptanceIsFinal'
  BY <1>1 DEF SuccessIsFinal, AcceptanceIsFinal
<1>5. FirstReceiptDecides'
  <2> SUFFICES ASSUME ~NewestFirst, NEW w \in Strict,
                      result[w] \in {"ok", "proof_rejected"}
               PROVE  /\ receipts'[TaskOf[w]] # <<>>
                      /\ receipts'[TaskOf[w]][1] = receipts[TaskOf[w]][1]
    BY <1>1 DEF FirstReceiptDecides
  <2>1. TaskOf[w] \in Tasks
    BY TaskOfAssumption, StrictAssumption
  <2>2. receipts[TaskOf[w]] # <<>>
    BY DEF FirstReceiptDecides
  <2> QED
    BY <2>1, <2>2
<1>6. PollsWhileUndecided'
  BY <1>1 DEF PollsWhileUndecided, Undecided
<1> QED
  BY <1>2, <1>3, <1>4, <1>5, <1>6

(* The control plane is such a thing, whoever else is there to see it. *)
LEMMA ServerStepIInv ==
    ASSUME IInv, NEW t \in Tasks, ServerStep(t), UNCHANGED waitVars
    PROVE  IInv'
<1>1. ServerTypeOK
  BY DEF IInv, TypeOK
<1> QED
  BY <1>1, AroundIInv, ServerStepTypeOK, ServerStepMonotone, ServerStepKeepsFirst

(* The read of the tasks decides, or leaves the wait undecided. *)
LEMMA SnapshotIInv ==
    ASSUME IInv, NEW w \in Waiters, SnapshotArrives(w)
    PROVE  IInv'
<1> USE DEF IInv
<1> DEFINE t == TaskOf[w]
           seen == TaskOutput(TaskSnapshot(t))
<1>1. TypeOK'
  BY NextTypeOK DEF Next, Execute
<1>2. UNCHANGED <<status, receipts>> /\ Completed' = Completed /\ Proven' = Proven
  BY DEF SnapshotArrives, serverVars, Completed, Proven
<1>3. \A v \in Waiters \ {w} :
         pc'[v] = pc[v] /\ output'[v] = output[v] /\ result'[v] = result[v]
  BY DEF SnapshotArrives, Goto, Return, TypeOK
<1>4. result[w] = "none"
  BY DEF SnapshotArrives, EndsWithResult
<1>5. \/ pc'[w] = "done" /\ result'[w] \in {"not_found", "task_stopped"}
      \/ /\ result'[w] = "none"
         /\ output'[w] = seen
         /\ ~Stopped(seen.status, seen.stalls, w \in Strict)
         /\ pc'[w] = IF IsTerminalTaskStatus(seen.status) THEN "proofs" ELSE "sleep"
  BY <1>4 DEF SnapshotArrives, TaskSnapshot, TaskOutput, Goto, Return, TypeOK
<1>6. t \in Tasks
  BY TaskOfAssumption
<1>7. pc'[w] = "proofs" => status[t] = "succeeded"
  BY <1>5 DEF IsTerminalTaskStatus, Stopped, TaskSnapshot, TaskOutput
<1>8. EndsWithResult'
  BY <1>3, <1>5 DEF EndsWithResult
<1>9. SuccessIsFinal'
  BY <1>2, <1>3, <1>5, <1>6, <1>7 DEF SuccessIsFinal, Completed
<1>10. AcceptanceIsFinal' /\ FirstReceiptDecides'
  BY <1>2, <1>3, <1>5, StrictAssumption DEF AcceptanceIsFinal, FirstReceiptDecides
<1>11. PollsWhileUndecided'
  <2>1. \/ Undecided(w)' /\ ~Stopped(output'[w].status, output'[w].stalls, w \in Strict)
        \/ pc'[w] \notin {"sleep"}
    BY <1>5 DEF Undecided, IsTerminalTaskStatus
  <2>2. pc'[w] = "proofs" => output'[w].status = "succeeded"
                             /\ ~Stopped(output'[w].status, output'[w].stalls, w \in Strict)
    BY <1>5, <1>7 DEF TaskSnapshot, TaskOutput
  <2> QED
    BY <1>3, <1>5, <2>1, <2>2 DEF PollsWhileUndecided, Undecided
<1> QED
  BY <1>1, <1>8, <1>9, <1>10, <1>11
(* The read of the proofs decides, or leaves the wait undecided. *)
LEMMA ProofsIInv ==
    ASSUME IInv, NEW w \in Waiters, ProofsArrive(w)
    PROVE  IInv'
<1> USE DEF IInv
<1> DEFINE t == TaskOf[w]
           receipt == FindProof(t)
           decision == ProofDecision(receipt, w \in Strict)
<1>1. TypeOK'
  BY NextTypeOK DEF Next, Execute
<1>2. UNCHANGED <<status, receipts>> /\ Completed' = Completed /\ Proven' = Proven
  BY DEF ProofsArrive, serverVars, Completed, Proven
<1>3. \A v \in Waiters \ {w} : output'[v] = output[v]
  BY DEF ProofsArrive, TypeOK
<1>4. /\ t \in Tasks
      /\ receipts[t] \in Seq(Verdict)
      /\ (w \in Strict) \in BOOLEAN
  BY TaskOfAssumption DEF TypeOK, ServerTypeOK
<1>5. /\ output[w].status = "succeeded"
      /\ ~Stopped(output[w].status, output[w].stalls, w \in Strict)
      /\ t \in Completed
      /\ result[w] = "none"
  BY DEF ProofsArrive, PollsWhileUndecided, SuccessIsFinal, EndsWithResult
<1>6. /\ output'[w].proof = receipt
      /\ output'[w].status = output[w].status
      /\ output'[w].stalls = output[w].stalls
  BY DEF ProofsArrive, TypeOK, Output
<1>7. receipt \in Verdict \cup {"none"}
  BY <1>4, FirstReceiptType DEF FindProof
<1>8. /\ decision \in {"stop", "proceed", "poll"}
      /\ decision = "stop" <=> receipt = "rejected"
      /\ decision = "proceed" <=> receipt = "accepted" \/ (receipt = "none" /\ w \notin Strict)
      /\ decision = "poll" <=> receipt = "none" /\ w \in Strict
  <2> HIDE DEF receipt
  <2> QED BY <1>4, <1>7, ProofDecisionCases
<1>9. /\ \A v \in Waiters \ {w} : pc'[v] = pc[v] /\ result'[v] = result[v]
      /\ \/ decision = "stop" /\ pc'[w] = "done" /\ result'[w] = "proof_rejected"
         \/ decision = "proceed" /\ pc'[w] = "done" /\ result'[w] = "ok"
         \/ decision = "poll" /\ pc'[w] = "sleep" /\ result'[w] = "none"
  <2> HIDE DEF decision
  <2>1. CASE decision = "stop"
    BY <2>1 DEF ProofsArrive, Return, TypeOK, decision
  <2>2. CASE decision = "proceed"
    BY <2>2 DEF ProofsArrive, Return, TypeOK, decision
  <2>3. CASE decision = "poll"
    BY <2>3, <1>5 DEF ProofsArrive, Goto, TypeOK, decision
  <2> QED BY <1>8, <2>1, <2>2, <2>3
<1>10. receipt # "none" => /\ receipts[t] # <<>>
                           /\ 1 \in 1 .. Len(receipts[t])
                           /\ receipts[t][1] = receipt
  BY <1>4, FirstReceiptType DEF FindProof
<1>11. receipt = "accepted" => t \in Proven
  BY <1>4, <1>10 DEF Proven
<1> HIDE DEF receipt, decision
<1>12. EndsWithResult'
  BY <1>3, <1>9 DEF EndsWithResult
<1>13. SuccessIsFinal'
  BY <1>2, <1>3, <1>5, <1>9 DEF SuccessIsFinal
<1>14. AcceptanceIsFinal'
  BY <1>2, <1>3, <1>8, <1>9, <1>11 DEF AcceptanceIsFinal
<1>15. FirstReceiptDecides'
  <2>1. SUFFICES ASSUME ~NewestFirst, NEW v \in Strict
        PROVE  LET list == receipts[TaskOf[v]]
               IN  /\ result'[v] = "ok" => list # <<>> /\ list[1] = "accepted"
                   /\ result'[v] = "proof_rejected" => list # <<>> /\ list[1] = "rejected"
    BY <1>2 DEF FirstReceiptDecides
  <2>2. CASE v # w
    BY <1>9, <2>1, <2>2, StrictAssumption DEF FirstReceiptDecides
  <2>3. CASE v = w
    BY <1>8, <1>9, <1>10, <2>1, <2>3
  <2> QED BY <2>2, <2>3
<1>16. PollsWhileUndecided'
  <2>1. pc'[w] = "sleep" => Undecided(w)'
    BY <1>5, <1>6, <1>8, <1>9 DEF Undecided
  <2> QED
    BY <1>3, <1>9, <2>1 DEF PollsWhileUndecided, Undecided
<1> QED
  BY <1>1, <1>12, <1>13, <1>14, <1>15, <1>16

(* Failed requests, the select and the clocks preserve the invariant. *)
LEMMA QuietIInv ==
    ASSUME IInv, NEW w \in Waiters,
           \/ Begin(w) \/ RequestFails(w) \/ PollTimerFires(w) \/ SeesContextDone(w)
           \/ StepDeadline(w) \/ EngineEndsContext(w)
    PROVE  IInv'
<1> USE DEF IInv
<1>1. TypeOK'
  BY NextTypeOK DEF Next, Execute
<1>2. /\ UNCHANGED <<serverVars, output>>
      /\ Completed' = Completed
      /\ Proven' = Proven
  BY DEF Begin, RequestFails, PollTimerFires, SeesContextDone, StepDeadline,
         EngineEndsContext, serverVars, Completed, Proven
<1>3. \A v \in Waiters \ {w} : pc'[v] = pc[v] /\ result'[v] = result[v]
  BY DEF Begin, RequestFails, PollTimerFires, SeesContextDone, StepDeadline,
         EngineEndsContext, Goto, Return, TypeOK
<1>4. pc[w] # "done" /\ result[w] = "none"
  BY DEF Begin, RequestFails, PollTimerFires, SeesContextDone, StepDeadline,
         EngineEndsContext, EndsWithResult, Waiting
<1>5. \/ pc'[w] = "list" /\ result'[w] = "none"
      \/ pc'[w] = "done" /\ result'[w] \in {"client_error", "tasks_unavailable"}
      \/ pc'[w] = "done" /\ result'[w] = "proofs_unavailable" /\ pc[w] = "proofs"
      \/ pc'[w] = "done" /\ result'[w] = "timed_out" /\ pc[w] = "sleep"
      \/ pc'[w] = pc[w] /\ result'[w] = "none"
  BY <1>4 DEF Begin, RequestFails, PollTimerFires, SeesContextDone, StepDeadline,
         EngineEndsContext, Goto, Return, TypeOK
<1>6. EndsWithResult'
  BY <1>3, <1>4, <1>5 DEF EndsWithResult
<1>7. SuccessIsFinal' /\ AcceptanceIsFinal'
  BY <1>2, <1>3, <1>5 DEF SuccessIsFinal, AcceptanceIsFinal
<1>8. FirstReceiptDecides'
  BY <1>2, <1>3, <1>5, StrictAssumption DEF FirstReceiptDecides, serverVars
<1>9. PollsWhileUndecided'
  BY <1>2, <1>3, <1>5 DEF PollsWhileUndecided, Undecided
<1> QED
  BY <1>1, <1>6, <1>7, <1>8, <1>9

(* Every step preserves the invariant. *)
LEMMA NextIInv == IInv /\ [Next]_vars => IInv'
<1> SUFFICES ASSUME IInv, [Next]_vars PROVE IInv'
  OBVIOUS
<1>1. CASE UNCHANGED vars
  BY <1>1 DEF vars, serverVars, waitVars, IInv, TypeOK, ServerTypeOK, EndsWithResult,
              SuccessIsFinal, AcceptanceIsFinal, FirstReceiptDecides,
              PollsWhileUndecided, Undecided, Completed, Proven
<1> QED
  BY <1>1, ServerStepIInv, SnapshotIInv, ProofsIInv, QuietIInv
     DEF Next, Server, Execute, Finished

(* The inductive invariant holds in every state. *)
THEOREM Inductive == SafetySpec => []IInv
BY InitIInv, NextIInv, PTL DEF SafetySpec

-----------------------------------------------------------------------------
(* The properties of step.compute_wait. *)

(* The pipeline goes on only on a task that has succeeded and, where a     *)
(* proof is required, is proven.                                           *)
THEOREM EarnedOk == SafetySpec => []OkIsEarned
<1>1. IInv => OkIsEarned
  BY DEF IInv, OkIsEarned, SuccessIsFinal, AcceptanceIsFinal
<1> QED BY <1>1, Inductive, PTL

(* An outage of the proof API never stands for a failed or stalled task. *)
THEOREM NothingMasked == SafetySpec => []OutageCannotMaskFailure
<1>1. IInv => OutageCannotMaskFailure
  BY DEF IInv, OutageCannotMaskFailure, SuccessIsFinal
<1> QED BY <1>1, Inductive, PTL

(* With receipts listed oldest first, two waits that require a proof of    *)
(* the same task cannot end with opposite verdicts on it.                  *)
THEOREM Agreement == SafetySpec => []StrictWaitersAgree
<1>1. IInv => StrictWaitersAgree
  BY DEF IInv, StrictWaitersAgree, FirstReceiptDecides
<1> QED BY <1>1, Inductive, PTL

(* A timeout never covers up an answer the wait already had. *)
THEOREM HonestTimeout == SafetySpec => []TimesOutUndecided
<1>1. IInv => TimesOutUndecided
  BY DEF IInv, TimesOutUndecided, PollsWhileUndecided
<1> QED BY <1>1, Inductive, PTL

-----------------------------------------------------------------------------
(* step.compute_wait implements the contract of a waiting step. *)

(* The contract starts when every wait is still to begin. *)
LEMMA InitPromise == Init => Promise!Init
BY TaskOfAssumption DEF Init, Promise!Init, Completed, Proven, Outcome

(* A step of the control plane is progress, a return is the contract's     *)
(* Proceed or Stop, and every other step changes nothing it speaks of.     *)
LEMMA NextPromise ==
    ASSUME IInv, [Next]_vars, IInv'
    PROVE  [Promise!Next]_(Promise!vars)
<1> DEFINE awaited == [w \in Waiters |-> {TaskOf[w]}]
<1>1. awaited' = awaited
  OBVIOUS
<1>2. CASE Server
  <2>1. Completed \subseteq Completed' /\ Proven \subseteq Proven'
    BY <1>2, ServerStepMonotone DEF Server, IInv, TypeOK
  <2>2. Completed' \subseteq Tasks /\ Proven' \subseteq Tasks
    BY DEF Completed, Proven
  <2>3. Outcome' = Outcome
    BY <1>2 DEF Server, waitVars, Outcome
  <2> QED
    BY <1>1, <2>1, <2>2, <2>3 DEF Promise!Next, Promise!Progress
<1>3. ASSUME UNCHANGED serverVars PROVE Completed' = Completed /\ Proven' = Proven
  BY <1>3 DEF serverVars, Completed, Proven
<1>4. ASSUME NEW w \in Waiters,
             Execute(w) \/ StepDeadline(w) \/ EngineEndsContext(w)
      PROVE  /\ UNCHANGED serverVars
             /\ pc[w] # "done"
             /\ \A v \in Waiters \ {w} : Outcome'[v] = Outcome[v]
  <2>1. UNCHANGED serverVars /\ pc[w] # "done"
    BY <1>4 DEF Execute, Begin, SnapshotArrives, ProofsArrive, RequestFails, PollTimerFires,
                SeesContextDone, StepDeadline, EngineEndsContext, Waiting
  <2>2. \E l \in {"start", "done"} \cup Waiting, r \in Result :
           pc' = [pc EXCEPT ![w] = l] /\ result' = [result EXCEPT ![w] = r]
    <3>1. \/ \E l \in {"list", "proofs", "sleep"} : Goto(w, l)
          \/ \E r \in Result : Return(w, r)
          \/ UNCHANGED <<pc, result>>
      <4>1. CASE ProofsArrive(w)
        <5> DEFINE decision == ProofDecision(FindProof(TaskOf[w]), w \in Strict)
        <5>1. decision \in {"stop", "proceed", "poll"}
          <6>1. FindProof(TaskOf[w]) \in Verdict \cup {"none"}
            BY TaskOfAssumption, FirstReceiptType DEF FindProof, IInv, TypeOK, ServerTypeOK
          <6>2. (w \in Strict) \in BOOLEAN
            OBVIOUS
          <6> QED BY <6>1, <6>2, ProofDecisionCases
        <5> QED BY <4>1, <5>1 DEF ProofsArrive, Result
      <4>2. CASE SnapshotArrives(w)
        BY <4>2 DEF SnapshotArrives, Result
      <4> QED
        BY <1>4, <4>1, <4>2 DEF Execute, Begin, RequestFails, PollTimerFires,
              SeesContextDone, StepDeadline, EngineEndsContext, Result
    <3> QED
      BY <3>1 DEF Goto, Return, IInv, TypeOK, Waiting
  <2> QED
    BY <2>1, <2>2 DEF Outcome, IInv, TypeOK
<1>5. ASSUME NEW w \in Waiters,
             Execute(w) \/ StepDeadline(w) \/ EngineEndsContext(w)
      PROVE  [Promise!Next]_(Promise!vars)
  <2>1. Outcome[w] = "running"
    BY <1>4, <1>5 DEF Outcome
  <2>2. Outcome' = [Outcome EXCEPT ![w] = Outcome'[w]]
    BY <1>4, <1>5 DEF Outcome
  <2>3. CASE Outcome'[w] = "running"
    <3>1. Outcome' = Outcome
      BY <2>1, <2>2, <2>3 DEF Outcome
    <3> QED BY <1>1, <1>3, <1>4, <1>5, <3>1 DEF Promise!vars
  <2>4. CASE Outcome'[w] = "proceed"
    <3>1. result'[w] = "ok"
      BY <2>4 DEF Outcome
    <3>2. Promise!Earned(w)
      BY <1>3, <1>4, <1>5, <3>1
      DEF Promise!Earned, IInv, SuccessIsFinal, AcceptanceIsFinal
    <3>3. Promise!Proceed(w)
      BY <1>1, <1>3, <1>4, <1>5, <2>1, <2>2, <2>4, <3>2 DEF Promise!Proceed
    <3> QED BY <3>3 DEF Promise!Next
  <2>5. CASE Outcome'[w] = "stop"
    <3>1. Promise!Stop(w)
      BY <1>1, <1>3, <1>4, <1>5, <2>1, <2>2, <2>5 DEF Promise!Stop
    <3> QED BY <3>1 DEF Promise!Next
  <2> QED
    BY <2>3, <2>4, <2>5 DEF Outcome
<1>6. CASE UNCHANGED vars
  BY <1>1, <1>3, <1>6 DEF vars, waitVars, Outcome, Promise!vars
<1> QED
  BY <1>2, <1>5, <1>6 DEF Next, Finished

(* Every behaviour of the step is one the contract allows. *)
THEOREM ImplementsContract == SafetySpec => Promise!SafetySpec
<1>1. Init => Promise!Init
  BY InitPromise
<1>2. IInv /\ IInv' /\ [Next]_vars => [Promise!Next]_(Promise!vars)
  BY NextPromise
<1> QED
  BY <1>1, <1>2, Inductive, PTL DEF SafetySpec, Promise!SafetySpec
=============================================================================
