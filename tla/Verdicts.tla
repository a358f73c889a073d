------------------------------ MODULE Verdicts ------------------------------
(***************************************************************************)
(* step.compute_wait and step.compute_map on one control plane: pipelines  *)
(* that wait for a task which another has submitted in a map, or a map and *)
(* a wait on the same task in one pipeline.  WaitStep and MapStep run      *)
(* unchanged; all they share is the control plane.                         *)
(*                                                                         *)
(* The two go by different receipts of a task.  compute_wait takes the     *)
(* first that GET /v1/proofs lists (findProof, client.go), compute_map the *)
(* last (proofsByTask in mapSnapshot, steps.go).                           *)
(***************************************************************************)
EXTENDS WaitStep

CONSTANTS
    Maps,        \* executions of step.compute_map
    StrictMaps,  \* those with require_proof
    Jobs         \* the ids of the tasks each of them submits

ASSUME StrictMapsAssumption == StrictMaps \subseteq Maps
ASSUME JobsAssumption == Jobs \in [Maps -> Seq(Tasks) \ {<<>>}]

VARIABLES mapPc, mapCtx, submitted, outputs, mapResult, created

Map == INSTANCE MapStep WITH
    Strict <- StrictMaps,
    pc     <- mapPc,
    ctx    <- mapCtx,
    result <- mapResult

mapVars == <<mapPc, mapCtx, submitted, outputs, mapResult, created>>
verdictVars == <<vars, mapVars>>

VerdictsInit == Init /\ Map!Init

\* One of the executions is left to see what the control plane does.
VerdictsServer ==
    /\ \/ \E w \in Waiters : pc[w] # "done"
       \/ \E m \in Maps : mapPc[m] # "done"
    /\ \E t \in Tasks : ServerStep(t)
    /\ UNCHANGED <<waitVars, mapVars>>

WaitMoves ==
    /\ \E w \in Waiters : Execute(w) \/ StepDeadline(w) \/ EngineEndsContext(w)
    /\ UNCHANGED mapVars

MapMoves ==
    /\ \E m \in Maps : Map!Execute(m) \/ Map!StepDeadline(m) \/ Map!EngineEndsContext(m)
    /\ UNCHANGED waitVars

VerdictsFinished ==
    /\ \A w \in Waiters : pc[w] = "done"
    /\ \A m \in Maps : mapPc[m] = "done"
    /\ UNCHANGED verdictVars

VerdictsNext == VerdictsServer \/ WaitMoves \/ MapMoves \/ VerdictsFinished

VerdictsSpec == VerdictsInit /\ [][VerdictsNext]_verdictVars

-----------------------------------------------------------------------------
\* What an execution that has read the receipts and ended says of its task.
WaitSays(w, v) ==
    \/ v = "accepted" /\ result[w] = "ok"
    \/ v = "rejected" /\ result[w] = "proof_rejected"

MapSays(m, t, v) ==
    /\ mapResult[m] \in {"ok", "proof_rejected"}
    /\ \E i \in DOMAIN outputs[m] : outputs[m][i].id = t /\ outputs[m][i].proof = v

Oldest(list) == IF NewestFirst THEN list[Len(list)] ELSE list[1]

(* A wait that requires the proof of a task and a map that reports one may *)
(* say opposite things of it, but only in one way: one of the two, the     *)
(* wait if receipts are listed oldest first and the map if they are listed *)
(* newest first, goes by the task's very first receipt, and the other has  *)
(* read a later one that contradicts it.  A task with one receipt has one  *)
(* verdict, whoever asks, and when.                                        *)
OppositeVerdictsNeedBothReceipts ==
    \A w \in Strict, m \in Maps, v, u \in Verdict :
        LET t == TaskOf[w]
            list == receipts[t]
        IN  WaitSays(w, v) /\ MapSays(m, t, u) /\ v # u =>
                /\ Len(list) > 1
                /\ Oldest(list) = (IF NewestFirst THEN u ELSE v)

(* A map that succeeds has reported each of its tasks, in the order and as *)
(* often as they are configured, next to a wait that reads the same lists. *)
MapReportsEachTask == Map!OkReportsEachTask

-----------------------------------------------------------------------------
(* The inductive invariant behind it. *)

Has(list, v) == \E i \in 1 .. Len(list) : list[i] = v

\* v was listed first, or last, when the list was read: what is left of that.
WasFirst(list, v) == Has(list, v) /\ (~NewestFirst => list[1] = v)
WasLast(list, v) == Has(list, v) /\ (NewestFirst => list[Len(list)] = v)

WaitReadFirst ==
    \A w \in Strict, v \in Verdict : WaitSays(w, v) => WasFirst(receipts[TaskOf[w]], v)

\* A submitted task is reported without a receipt until the proofs are read.
MapReadLast ==
    \A m \in Maps :
        /\ \A i \in DOMAIN submitted[m] : submitted[m][i].proof = "none"
        /\ \A i \in DOMAIN outputs[m] :
              outputs[m][i].proof # "none" =>
                  WasLast(receipts[outputs[m][i].id], outputs[m][i].proof)

(* Each step keeps its own invariant next to the other, and knows of the   *)
(* receipts what no later receipt can change.                              *)
VerdictsIInv ==
    /\ IInv
    /\ Map!IInv
    /\ WaitReadFirst
    /\ MapReadLast
=============================================================================
