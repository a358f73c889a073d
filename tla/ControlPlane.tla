---------------------------- MODULE ControlPlane ----------------------------
(***************************************************************************)
(* The workflow-compute control plane, as the plugin sees it.  It is a     *)
(* separate service: this module is not a translation of it but the set of *)
(* things the code under src/internal is prepared to observe through       *)
(* GET /v1/tasks (tasks and stall flags) and GET /v1/proofs (receipts).    *)
(*                                                                         *)
(*   status[t]    the task's status; "absent" until it has been submitted, *)
(*                "running" stands for every status that is neither queued *)
(*                nor terminal (leased, running, unknown to the plugin)    *)
(*   listed       the tasks GET /v1/tasks returns: a retention window or a *)
(*                restart may drop a task the plugin still waits for       *)
(*   stalls[t]    the reasons of the stall flags returned for t            *)
(*   receipts[t]  verifier statuses of the receipts of t, in the order in  *)
(*                which GET /v1/proofs lists them                          *)
(*                                                                         *)
(* What the service owes its clients, and all the plugin relies on: a      *)
(* success and a failure are final, and a receipt is never withdrawn.      *)
(***************************************************************************)
EXTENDS Naturals, Sequences

CONSTANTS
    Tasks,        \* task ids
    SharedTasks,  \* the ids that clients other than the modelled steps submit
    StallReasons, \* reasons the control plane raises stall flags for
    MaxReceipts,  \* bound: receipts per task
    NewestFirst   \* whether GET /v1/proofs lists the newest receipt first

ASSUME SharedTasksAssumption == SharedTasks \subseteq Tasks
ASSUME StallReasonsAssumption == StallReasons \subseteq {"queued_sla_exceeded", "proof_missing"}
ASSUME MaxReceiptsAssumption == MaxReceipts \in Nat
ASSUME NewestFirstAssumption == NewestFirst \in BOOLEAN

VARIABLES status, listed, stalls, receipts

serverVars == <<status, listed, stalls, receipts>>

Status == {"absent", "queued", "running", "succeeded", "failed", "stalled"}

\* The verifier statuses the plugin tells apart: accepted, and all others.
Verdict == {"accepted", "rejected"}

ServerTypeOK ==
    /\ status \in [Tasks -> Status]
    /\ listed \subseteq Tasks
    /\ stalls \in [Tasks -> SUBSET StallReasons]
    /\ receipts \in [Tasks -> Seq(Verdict)]

ServerInit ==
    /\ status = [t \in Tasks |-> "absent"]
    /\ listed = {}
    /\ stalls = [t \in Tasks |-> {}]
    /\ receipts = [t \in Tasks |-> <<>>]

(***************************************************************************)
(* POST /v1/tasks.  A new id is created and queued.                        *)
(***************************************************************************)
Create(t) ==
    /\ status[t] = "absent"
    /\ status' = [status EXCEPT ![t] = "queued"]
    /\ listed' = listed \cup {t}
    /\ UNCHANGED <<stalls, receipts>>

Lease(t) ==
    /\ status[t] = "queued"
    /\ status' = [status EXCEPT ![t] = "running"]
    /\ UNCHANGED <<listed, stalls, receipts>>

Finish(t) ==
    /\ status[t] = "running"
    /\ \E s \in {"succeeded", "failed", "stalled"} :
          status' = [status EXCEPT ![t] = s]
    /\ UNCHANGED <<listed, stalls, receipts>>

\* A stalled task is handed to another worker: the only way back.
Requeue(t) ==
    /\ status[t] = "stalled"
    /\ status' = [status EXCEPT ![t] = "queued"]
    /\ UNCHANGED <<listed, stalls, receipts>>

RaiseStall(t) ==
    /\ \E r \in StallReasons \ stalls[t] :
          /\ r = "queued_sla_exceeded" => status[t] = "queued"
          /\ r = "proof_missing" => status[t] = "succeeded" /\ receipts[t] = <<>>
          /\ stalls' = [stalls EXCEPT ![t] = @ \cup {r}]
    /\ UNCHANGED <<status, listed, receipts>>

\* Flags are lifted by a sweep of the service, some time after their cause.
ClearStall(t) ==
    /\ \E r \in stalls[t] : stalls' = [stalls EXCEPT ![t] = @ \ {r}]
    /\ UNCHANGED <<status, listed, receipts>>

AddReceipt(t) ==
    /\ status[t] \in {"running", "succeeded"}
    /\ Len(receipts[t]) < MaxReceipts
    /\ \E v \in Verdict :
          receipts' = [receipts EXCEPT ![t] = IF NewestFirst THEN <<v>> \o @
                                                             ELSE Append(@, v)]
    /\ UNCHANGED <<status, listed, stalls>>

Delist(t) ==
    /\ t \in listed
    /\ listed' = listed \ {t}
    /\ UNCHANGED <<status, stalls, receipts>>

\* What happens to a task without the modelled steps.
ServerStep(t) ==
    \/ t \in SharedTasks /\ Create(t)
    \/ Lease(t)
    \/ Finish(t)
    \/ Requeue(t)
    \/ RaiseStall(t)
    \/ ClearStall(t)
    \/ AddReceipt(t)
    \/ Delist(t)

\* Tasks whose success is settled, and tasks with an accepted receipt.
Completed == {t \in Tasks : status[t] = "succeeded"}

Proven == {t \in Tasks : \E i \in 1 .. Len(receipts[t]) : receipts[t][i] = "accepted"}
=============================================================================
