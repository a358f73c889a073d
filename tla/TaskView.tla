------------------------------ MODULE TaskView ------------------------------
(***************************************************************************)
(* How the steps read a task, its stall flags and its receipts: the pure   *)
(* functions of client.go, steps.go and steps_chain.go that turn a         *)
(* response of the control plane into a decision.                          *)
(***************************************************************************)
EXTENDS ControlPlane

\* One read of the tasks: the row and the flags of t at one moment.
TaskSnapshot(t) == [found |-> t \in listed, status |-> status[t], stalls |-> stalls[t]]

IsTerminalTaskStatus(s) == s \in {"succeeded", "failed", "stalled"}

\* A step that does not require a proof ignores the flag that one is missing.
ActionableStalls(flags, strict) ==
    IF strict THEN flags ELSE flags \ {"proof_missing"}

\* Mistake: a stalled task is left to the flags.
StoppedByFailureOnly(s, flags, strict) ==
    s = "failed" \/ ActionableStalls(flags, strict) # {}

\* The task has failed, or the control plane says that it is stuck.
Stopped(s, flags, strict) ==
    s \in {"failed", "stalled"} \/ ActionableStalls(flags, strict) # {}

\* Mistake: the receipts are scanned to the end before one is returned.
FirstReceiptScansOn(list) == IF list = <<>> THEN "none" ELSE list[Len(list)]

\* findProof: the first receipt listed for the task, "none" without one.
FirstReceipt(list) == IF list = <<>> THEN "none" ELSE list[1]

FindProof(t) == FirstReceipt(receipts[t])

\* Mistake: a receipt that is in the map already is kept.
LastReceiptKept(list) == IF list = <<>> THEN "none" ELSE list[1]

\* proofsByTask: each receipt listed overwrites the ones before it.
LastReceipt(list) == IF list = <<>> THEN "none" ELSE list[Len(list)]

\* Mistake (B4 in SPEC.md): any receipt satisfies the wait.
ProofDecisionAnyReceipt(receipt, strict) ==
    IF receipt = "none" /\ strict THEN "poll" ELSE "proceed"

\* Mistake: require_proof false is not looked at.
ProofDecisionAlwaysStrict(receipt, strict) ==
    CASE receipt = "rejected" -> "stop"
      [] receipt = "accepted" -> "proceed"
      [] receipt = "none"     -> "poll"

\* What a succeeded task's receipt means: proceed, stop, or poll again.
ProofDecision(receipt, strict) ==
    CASE receipt = "rejected" -> "stop"
      [] receipt = "accepted" -> "proceed"
      [] receipt = "none"     -> IF strict THEN "poll" ELSE "proceed"
=============================================================================
