--------------------------- MODULE ChainStepProofs --------------------------
(***************************************************************************)
(* Proofs about ChainStep, for every chain that passes the validation of   *)
(* its configuration, every number of executions that share one step       *)
(* instance, and any number of receipts.                                   *)
(***************************************************************************)
EXTENDS ChainStep, TaskViewProofs

-----------------------------------------------------------------------------
(* The configuration, and the link in hand. *)

(* What validation guarantees of the links of a chain. *)
LEMMA LinkFacts ==
    /\ NLinks \in Nat \ {0}
    /\ \A k \in 1 .. NLinks :
          /\ Links[k] \in [wait : BOOLEAN, inputs : Seq(Mapping)]
          /\ Links[k].wait \in BOOLEAN
          /\ Links[k].inputs \in Seq(Mapping)
          /\ Len(Links[k].inputs) \in Nat
          /\ \A i \in 1 .. Len(Links[k].inputs) : Links[k].inputs[i].step \in 1 .. k - 1
<1>1. Links \in Seq([wait : BOOLEAN, inputs : Seq(Mapping)]) /\ Links # <<>>
  BY LinksAssumption DEF ValidLinks
<1>2. NLinks \in Nat \ {0}
  BY <1>1 DEF NLinks
<1>3. ASSUME NEW k \in 1 .. NLinks
      PROVE  /\ Links[k] \in [wait : BOOLEAN, inputs : Seq(Mapping)]
             /\ Links[k].wait \in BOOLEAN
             /\ Links[k].inputs \in Seq(Mapping)
             /\ Len(Links[k].inputs) \in Nat
             /\ \A i \in 1 .. Len(Links[k].inputs) : Links[k].inputs[i].step \in 1 .. k - 1
  <2>1. Links[k] \in [wait : BOOLEAN, inputs : Seq(Mapping)]
    <3> DEFINE S == [wait : BOOLEAN, inputs : Seq(Mapping)]
    <3>1. Links \in Seq(S)
      BY <1>1
    <3> HIDE DEF S
    <3>2. Links[k] \in S
      BY <3>1 DEF NLinks
    <3> QED BY <3>2 DEF S
  <2>2. Links[k].inputs \in Seq(Mapping) /\ Links[k].wait \in BOOLEAN
    BY <2>1
  <2>3. \A i \in DOMAIN Links[k].inputs : Links[k].inputs[i].step \in 1 .. k - 1
    BY LinksAssumption DEF ValidLinks
  <2>4. DOMAIN Links[k].inputs = 1 .. Len(Links[k].inputs) /\ Len(Links[k].inputs) \in Nat
    BY <2>2
  <2> QED BY <2>1, <2>2, <2>3, <2>4
<1> QED BY <1>2, <1>3

(* The link in hand is one of the chain, and so is its task. *)
LEMMA InHand ==
    ASSUME TypeOK, NEW r \in Runs
    PROVE  /\ at[r] \in 1 .. NLinks
           /\ Task(r) \in Tasks
           /\ Link(r).wait \in BOOLEAN
           /\ Link(r).inputs \in Seq(Mapping)
           /\ Len(Link(r).inputs) \in Nat
           /\ \A i \in 1 .. Len(Link(r).inputs) : Link(r).inputs[i].step \in 1 .. at[r] - 1
           /\ \A k \in 1 .. NLinks : TaskOf[r][k] \in Tasks
<1>1. at[r] \in 1 .. NLinks
  BY DEF TypeOK
<1>2. \A k \in 1 .. NLinks : TaskOf[r][k] \in Tasks
  BY TaskOfAssumption
<1> QED
  BY <1>1, <1>2, LinkFacts DEF Task, Link

(* A blank row, and one that holds what was read, are rows. *)
LEMMA RowTypes ==
    ASSUME NEW t \in Tasks, NEW s \in Status, NEW p \in Verdict \cup {"none"}
    PROVE  /\ BlankRow(t) \in Row
           /\ [BlankRow(t) EXCEPT !.status = s] \in Row
           /\ [id |-> t, status |-> s, proof |-> "none"] \in Row
           /\ \A w \in Row : [w EXCEPT !.proof = p] \in Row
BY DEF BlankRow, Row, Status

-----------------------------------------------------------------------------
(* What the pieces of a step do. *)

(* The execution stops, with its last row in the outputs.                  *)
LEMMA StopEffect ==
    ASSUME TypeOK, NEW r \in Runs, NEW why \in Result \ {"none"}, NEW last \in Row,
           StopWith(r, why, last)
    PROVE  /\ pc' = [pc EXCEPT ![r] = "done"]
           /\ result' = [result EXCEPT ![r] = why]
           /\ row' = [row EXCEPT ![r] = last]
           /\ outputs' = [outputs EXCEPT ![r] = Append(outputs[r], last)]
           /\ UNCHANGED <<at, copied>>
BY DEF StopWith, Return, TypeOK

(* The chain moves on to the next link, or ends with the last one.         *)
LEMMA AdvanceEffect ==
    ASSUME TypeOK, NEW r \in Runs, NEW last \in Row, Advance(r, last)
    PROVE  /\ outputs' = [outputs EXCEPT ![r] = Append(outputs[r], last)]
           /\ \/ /\ at[r] = NLinks
                 /\ pc' = [pc EXCEPT ![r] = "done"]
                 /\ result' = [result EXCEPT ![r] = "ok"]
                 /\ row' = [row EXCEPT ![r] = last]
                 /\ UNCHANGED <<at, copied>>
              \/ /\ at[r] \in 1 .. NLinks - 1
                 /\ pc' = [pc EXCEPT ![r] = "map"]
                 /\ at' = [at EXCEPT ![r] = at[r] + 1]
                 /\ copied' = [copied EXCEPT ![r] = 0]
                 /\ row' = [row EXCEPT ![r] = BlankRow(TaskOf[r][at[r] + 1])]
                 /\ UNCHANGED result
<1>1. at[r] \in 1 .. NLinks /\ NLinks \in Nat
  BY LinkFacts DEF TypeOK
<1>2. outputs' = [outputs EXCEPT ![r] = Append(outputs[r], last)]
  BY DEF Advance, TypeOK
<1>3. CASE at[r] = NLinks
  BY <1>2, <1>3 DEF Advance, Return
<1>4. CASE at[r] # NLinks
  <2>1. at[r] \in 1 .. NLinks - 1
    BY <1>1, <1>4
  <2> QED BY <1>2, <1>4, <2>1 DEF Advance, Goto, TypeOK
<1> QED BY <1>3, <1>4

-----------------------------------------------------------------------------
(* Type correctness. *)

(* The initial states are well typed. *)
LEMMA InitTypeOK == Init => TypeOK
<1> SUFFICES ASSUME Init PROVE TypeOK
  OBVIOUS
<1>1. NLinks \in Nat \ {0} /\ 1 \in 1 .. NLinks
  BY LinkFacts
<1>2. \A r \in Runs : TaskOf[r][1] \in Tasks
  BY <1>1, TaskOfAssumption
<1>3. \A r \in Runs : BlankRow(TaskOf[r][1]) \in Row
  BY <1>2 DEF BlankRow, Row, Status
<1>4. <<>> \in Seq(Tasks) /\ <<>> \in Seq(Row) /\ <<>> \in Seq(Seq(Tasks))
  OBVIOUS
<1> QED
  BY <1>1, <1>3, <1>4, ServerInitTypeOK DEF Init, TypeOK, Working, Result

(* The steps that touch neither the control plane nor the outputs.         *)
LEMMA LocalTypeOK ==
    ASSUME TypeOK, NEW r \in Runs, KeepsCount(r),
           \/ Begin(r) \/ CopyInput(r) \/ AssignRefs(r) \/ CheckWorkload(r) \/ BuildTask(r)
           \/ PollTimerFires(r) \/ StepDeadline(r) \/ EngineEndsContext(r)
    PROVE  TypeOK'
<1> USE DEF TypeOK, Working, Result
<1>1. UNCHANGED serverVars => ServerTypeOK'
  BY DEF serverVars, ServerTypeOK
<1>2. CASE Begin(r) \/ CheckWorkload(r) \/ PollTimerFires(r)
  BY <1>1, <1>2 DEF Begin, CheckWorkload, PollTimerFires, Goto, Return
<1>3. CASE StepDeadline(r) \/ EngineEndsContext(r)
  BY <1>1, <1>3 DEF StepDeadline, EngineEndsContext
<1>4. CASE BuildTask(r)
  BY <1>1, <1>4 DEF BuildTask, Goto
<1>5. CASE AssignRefs(r)
  BY <1>1, <1>5 DEF AssignRefs, Goto
<1>6. CASE CopyInput(r)
  <2> DEFINE k == Link(r).inputs[copied[r] + 1].step
             source == outputs[r][k]
  <2>1. copied[r] + 1 \in 1 .. Len(Link(r).inputs) /\ Len(outputs[r]) = at[r] - 1
    BY <1>6, InHand DEF CopyInput, KeepsCount
  <2>2. k \in 1 .. Len(outputs[r])
    BY <2>1, InHand
  <2>3. source \in Row
    BY <2>2
  <2>4. source.id \in Tasks
    BY <2>3 DEF Row
  <2>5. Append(refs[at[r]], source.id) \in Seq(Tasks)
    BY <2>4
  <2>6. buffer' \in [Runs -> Seq(Tasks)]
    BY <1>6, <2>5 DEF CopyInput
  <2> QED BY <1>1, <1>6, <2>6 DEF CopyInput, Goto, Return
<1> QED
  BY <1>2, <1>3, <1>4, <1>5, <1>6

(* A step that ends the work on a link puts a row out.                     *)
LEMMA StopTypeOK ==
    ASSUME TypeOK, NEW r \in Runs, NEW why \in Result \ {"none"}, NEW last \in Row,
           StopWith(r, why, last)
    PROVE  /\ pc' \in [Runs -> {"start", "done"} \cup Working]
           /\ at' \in [Runs -> 1 .. NLinks]
           /\ copied' \in [Runs -> Nat]
           /\ row' \in [Runs -> Row]
           /\ outputs' \in [Runs -> Seq(Row)]
           /\ result' \in [Runs -> Result]
<1>1. Append(outputs[r], last) \in Seq(Row)
  BY DEF TypeOK
<1>2. /\ pc' = [pc EXCEPT ![r] = "done"]
      /\ result' = [result EXCEPT ![r] = why]
      /\ row' = [row EXCEPT ![r] = last]
      /\ outputs' = [outputs EXCEPT ![r] = Append(outputs[r], last)]
      /\ UNCHANGED <<at, copied>>
  BY StopEffect
<1> QED BY <1>1, <1>2 DEF TypeOK

LEMMA AdvanceTypeOK ==
    ASSUME TypeOK, NEW r \in Runs, NEW last \in Row, Advance(r, last)
    PROVE  /\ pc' \in [Runs -> {"start", "done"} \cup Working]
           /\ at' \in [Runs -> 1 .. NLinks]
           /\ copied' \in [Runs -> Nat]
           /\ row' \in [Runs -> Row]
           /\ outputs' \in [Runs -> Seq(Row)]
           /\ result' \in [Runs -> Result]
<1>1. Append(outputs[r], last) \in Seq(Row)
  BY DEF TypeOK
<1>2. outputs' = [outputs EXCEPT ![r] = Append(outputs[r], last)]
  BY AdvanceEffect
<1>3. at[r] \in 1 .. NLinks /\ NLinks \in Nat
  BY LinkFacts, InHand
<1>4. at[r] \in 1 .. NLinks - 1 =>
         at[r] + 1 \in 1 .. NLinks /\ BlankRow(TaskOf[r][at[r] + 1]) \in Row
  BY <1>3, InHand DEF BlankRow, Row, Status
<1>5. \/ /\ pc' = [pc EXCEPT ![r] = "done"]
         /\ result' = [result EXCEPT ![r] = "ok"]
         /\ row' = [row EXCEPT ![r] = last]
         /\ UNCHANGED <<at, copied>>
      \/ \E next \in 1 .. NLinks, blank \in Row :
            /\ pc' = [pc EXCEPT ![r] = "map"]
            /\ at' = [at EXCEPT ![r] = next]
            /\ copied' = [copied EXCEPT ![r] = 0]
            /\ row' = [row EXCEPT ![r] = blank]
            /\ UNCHANGED result
  BY <1>4, AdvanceEffect
<1>6. outputs' \in [Runs -> Seq(Row)]
  <2> DEFINE S == Seq(Row)
             new == Append(outputs[r], last)
  <2>1. outputs \in [Runs -> S] /\ new \in S /\ outputs' = [outputs EXCEPT ![r] = new]
    BY <1>1, <1>2 DEF TypeOK
  <2> HIDE DEF S, new
  <2>2. outputs' \in [Runs -> S]
    BY <2>1
  <2> QED BY <2>2 DEF S
<1>7. /\ pc \in [Runs -> {"start", "done"} \cup Working]
      /\ at \in [Runs -> 1 .. NLinks]
      /\ copied \in [Runs -> Nat]
      /\ row \in [Runs -> Row]
      /\ result \in [Runs -> Result]
  BY DEF TypeOK
<1>8. ASSUME NEW l \in {"done", "map"}, pc' = [pc EXCEPT ![r] = l]
      PROVE  pc' \in [Runs -> {"start", "done"} \cup Working]
  BY <1>7, <1>8 DEF Working
<1>9. pc' \in [Runs -> {"start", "done"} \cup Working]
  BY <1>5, <1>8
<1>10. result' \in [Runs -> Result]
  BY <1>5, <1>7 DEF Result
<1>11. ASSUME NEW next \in 1 .. NLinks, NEW blank \in Row,
              at' = [at EXCEPT ![r] = next],
              copied' = [copied EXCEPT ![r] = 0],
              row' = [row EXCEPT ![r] = blank]
       PROVE  /\ at' \in [Runs -> 1 .. NLinks]
              /\ copied' \in [Runs -> Nat]
              /\ row' \in [Runs -> Row]
  BY <1>7, <1>11
<1>12. ASSUME row' = [row EXCEPT ![r] = last], UNCHANGED <<at, copied>>
       PROVE  /\ at' \in [Runs -> 1 .. NLinks]
              /\ copied' \in [Runs -> Nat]
              /\ row' \in [Runs -> Row]
  BY <1>7, <1>12
<1> QED BY <1>5, <1>6, <1>9, <1>10, <1>11, <1>12

(* A submission puts the list of the configuration into a workload, and a  *)
(* task on the control plane or takes the one that is there.               *)
LEMMA PostedEffect ==
    ASSUME TypeOK, NEW r \in Runs, Posted(r)
    PROVE  /\ sent' = [sent EXCEPT ![r] = Append(sent[r], refs[at[r]])]
           /\ sent' \in [Runs -> Seq(Seq(Tasks))]
           /\ \/ created' = [created EXCEPT ![r] = created[r] \cup {Task(r)}]
              \/ created' = created
           /\ created' \in [Runs -> SUBSET Tasks]
           /\ ServerTypeOK'
           /\ status'[Task(r)] \in Status
           /\ Completed' = Completed
           /\ Proven' = Proven
<1>1. Task(r) \in Tasks /\ ServerTypeOK
  BY InHand DEF TypeOK
<1>2. /\ sent' = [sent EXCEPT ![r] = Append(sent[r], refs[at[r]])]
      /\ \/ Create(Task(r)) /\ created' = [created EXCEPT ![r] = created[r] \cup {Task(r)}]
         \/ UNCHANGED <<serverVars, created>>
  BY DEF Posted, TypeOK
<1>3. ServerTypeOK' /\ Completed' = Completed /\ Proven' = Proven
  <2>1. CASE Create(Task(r))
    BY <1>1, <2>1, CreateTypeOK, CreateMonotone
  <2>2. CASE UNCHANGED serverVars
    BY <1>1, <2>2 DEF serverVars, ServerTypeOK, Completed, Proven
  <2> QED BY <1>2, <2>1, <2>2
<1>4. status'[Task(r)] \in Status
  BY <1>1, <1>3 DEF ServerTypeOK
<1>5. Append(sent[r], refs[at[r]]) \in Seq(Seq(Tasks))
  <2>1. sent[r] \in Seq(Seq(Tasks)) /\ refs[at[r]] \in Seq(Tasks)
    BY InHand DEF TypeOK
  <2> QED BY <2>1
<1>6. sent' \in [Runs -> Seq(Seq(Tasks))]
  <2> DEFINE S == Seq(Seq(Tasks))
             new == Append(sent[r], refs[at[r]])
  <2>1. sent \in [Runs -> S] /\ new \in S /\ sent' = [sent EXCEPT ![r] = new]
    BY <1>2, <1>5 DEF TypeOK
  <2> HIDE DEF S, new
  <2>2. sent' \in [Runs -> S]
    BY <2>1
  <2> QED BY <2>2 DEF S
<1>7. created' \in [Runs -> SUBSET Tasks]
  <2>1. created[r] \cup {Task(r)} \in SUBSET Tasks /\ created \in [Runs -> SUBSET Tasks]
    BY <1>1 DEF TypeOK
  <2> QED BY <1>2, <2>1
<1> QED BY <1>2, <1>3, <1>4, <1>6, <1>7

(* A submission keeps the types, whether its answer arrives or not.        *)
LEMMA SubmitTypeOK ==
    ASSUME TypeOK, NEW r \in Runs, SubmitSucceeds(r) \/ SubmitFails(r)
    PROVE  TypeOK'
<1>1. CASE SubmitSucceeds(r)
  <2>1. Posted(r)
    BY <1>1 DEF SubmitSucceeds
  <2>2. /\ ServerTypeOK'
        /\ sent' \in [Runs -> Seq(Seq(Tasks))]
        /\ created' \in [Runs -> SUBSET Tasks]
        /\ status'[Task(r)] \in Status
    BY <2>1, PostedEffect
  <2>3. [id |-> Task(r), status |-> status'[Task(r)], proof |-> "none"] \in Row
    BY <2>2, InHand DEF Row
  <2>4. CASE Link(r).wait
    BY <1>1, <2>2, <2>4 DEF SubmitSucceeds, Goto, TypeOK, Working
  <2>5. CASE ~Link(r).wait
    <3>1. /\ Advance(r, [id |-> Task(r), status |-> status'[Task(r)], proof |-> "none"])
          /\ UNCHANGED <<ctx, buffer, hashed, refs>>
      BY <1>1, <2>5 DEF SubmitSucceeds
    <3>2. /\ pc' \in [Runs -> {"start", "done"} \cup Working]
          /\ at' \in [Runs -> 1 .. NLinks]
          /\ copied' \in [Runs -> Nat]
          /\ row' \in [Runs -> Row]
          /\ outputs' \in [Runs -> Seq(Row)]
          /\ result' \in [Runs -> Result]
      BY <2>3, <3>1, AdvanceTypeOK
    <3> QED BY <2>2, <3>1, <3>2 DEF TypeOK
  <2> QED BY <2>4, <2>5
<1>2. CASE SubmitFails(r)
  <2>1. /\ ServerTypeOK'
        /\ sent' \in [Runs -> Seq(Seq(Tasks))]
        /\ created' \in [Runs -> SUBSET Tasks]
    <3>1. CASE Posted(r)
      BY <3>1, PostedEffect
    <3>2. CASE UNCHANGED <<serverVars, sent, created>>
      BY <3>2 DEF TypeOK, serverVars, ServerTypeOK
    <3> QED BY <1>2, <3>1, <3>2 DEF SubmitFails
  <2> QED BY <1>2, <2>1 DEF SubmitFails, Return, TypeOK, Result
<1> QED BY <1>1, <1>2

-----------------------------------------------------------------------------
(* What an answer, a failed request or the end of the context makes of a   *)
(* link that is awaited: the chain stops, moves on, or polls again.        *)

StopsAt(r, last) ==
    \E why \in {"tasks_unavailable", "not_found", "task_stopped", "proofs_unavailable",
                "proof_rejected", "timed_out"} : StopWith(r, why, last)

MovesOn(r, last) ==
    /\ pc[r] = "proofs"
    /\ r \in Strict => Task(r) \in Proven
    /\ Advance(r, last)

PollsAgain(r, last) ==
    /\ row' = [row EXCEPT ![r] = last]
    /\ \E l \in {"proofs", "sleep"} :
          /\ Goto(r, l)
          /\ l = "proofs" => Task(r) \in Completed
    /\ UNCHANGED <<at, copied, outputs>>

Polls(r) ==
    \/ SnapshotArrives(r) \/ ProofsArrive(r)
    \/ RequestFails(r) \/ SeesContextDone(r)

LEMMA SnapshotEffect ==
    ASSUME TypeOK, NEW r \in Runs, SnapshotArrives(r)
    PROVE  \E last \in Row : last.id = Task(r) /\ (StopsAt(r, last) \/ PollsAgain(r, last))
<1> DEFINE task == TaskSnapshot(Task(r))
           seen == [BlankRow(Task(r)) EXCEPT !.status = task.status]
<1>1. Task(r) \in Tasks /\ status[Task(r)] \in Status
  BY InHand DEF TypeOK, ServerTypeOK
<1>2. seen \in Row /\ seen.id = Task(r) /\ BlankRow(Task(r)) \in Row /\ BlankRow(Task(r)).id = Task(r)
  BY <1>1 DEF TaskSnapshot, BlankRow, Row, Status
<1>3. CASE ~task.found
  BY <1>2, <1>3 DEF SnapshotArrives, StopsAt
<1>4. CASE task.found /\ Stopped(task.status, task.stalls, r \in Strict)
  BY <1>2, <1>4 DEF SnapshotArrives, StopsAt
<1>5. CASE task.found /\ ~Stopped(task.status, task.stalls, r \in Strict)
  <2>1. /\ row' = [row EXCEPT ![r] = seen]
        /\ Goto(r, IF IsTerminalTaskStatus(task.status) THEN "proofs" ELSE "sleep")
        /\ UNCHANGED <<at, copied, outputs>>
    BY <1>5 DEF SnapshotArrives
  <2>2. IsTerminalTaskStatus(task.status) => Task(r) \in Completed
    BY <1>1, <1>5 DEF IsTerminalTaskStatus, Stopped, TaskSnapshot, Completed
  <2> QED BY <1>2, <2>1, <2>2 DEF PollsAgain
<1> QED BY <1>3, <1>4, <1>5

LEMMA ProofsEffect ==
    ASSUME TypeOK, NEW r \in Runs, ProofsArrive(r)
    PROVE  \E last \in Row :
              /\ last.id = row[r].id
              /\ StopsAt(r, last) \/ MovesOn(r, last) \/ PollsAgain(r, last)
<1> DEFINE receipt == FindProof(Task(r))
           decision == ProofDecision(receipt, r \in Strict)
           proven == [row[r] EXCEPT !.proof = receipt]
<1>1. Task(r) \in Tasks /\ receipts[Task(r)] \in Seq(Verdict) /\ row[r] \in Row
  BY InHand DEF TypeOK, ServerTypeOK
<1>2. /\ receipt \in Verdict \cup {"none"}
      /\ receipt # "none" => 1 \in 1 .. Len(receipts[Task(r)]) /\ receipts[Task(r)][1] = receipt
  BY <1>1, FirstReceiptType DEF FindProof
<1>3. receipt = "accepted" => Task(r) \in Proven
  BY <1>1, <1>2 DEF Proven
<1>4. proven \in Row /\ proven.id = row[r].id
  <2> HIDE DEF receipt
  <2> QED BY <1>1, <1>2 DEF Row
<1>5. /\ decision \in {"stop", "proceed", "poll"}
      /\ decision = "proceed" => receipt = "accepted" \/ r \notin Strict
  <2> HIDE DEF receipt
  <2>1. (r \in Strict) \in BOOLEAN
    OBVIOUS
  <2> QED BY <1>2, <2>1, ProofDecisionCases
<1>6. CASE decision = "stop"
  <2>1. StopWith(r, "proof_rejected", proven)
    BY <1>6 DEF ProofsArrive
  <2> QED BY <1>4, <2>1 DEF StopsAt
<1>7. CASE decision = "proceed"
  <2>1. Advance(r, proven) /\ pc[r] = "proofs"
    BY <1>7 DEF ProofsArrive
  <2> QED BY <1>3, <1>4, <1>5, <1>7, <2>1 DEF MovesOn
<1>8. CASE decision = "poll"
  <2>1. Goto(r, "sleep") /\ UNCHANGED <<at, copied, row, outputs>>
    BY <1>8 DEF ProofsArrive
  <2>2. row' = [row EXCEPT ![r] = row[r]]
    BY <2>1 DEF TypeOK
  <2> QED BY <1>1, <2>1, <2>2 DEF PollsAgain
<1> QED BY <1>5, <1>6, <1>7, <1>8

LEMMA PollEffect ==
    ASSUME TypeOK, NEW r \in Runs, Polls(r)
    PROVE  /\ UNCHANGED <<serverVars, ctx, buffer, hashed, refs, sent, created>>
           /\ pc[r] \in Polling
           /\ \E last \in Row :
                 /\ last.id = Task(r) \/ last.id = row[r].id
                 /\ StopsAt(r, last) \/ MovesOn(r, last) \/ PollsAgain(r, last)
<1>1. /\ UNCHANGED <<serverVars, ctx, buffer, hashed, refs, sent, created>>
      /\ pc[r] \in Polling
  BY DEF Polls, SnapshotArrives, ProofsArrive, RequestFails, SeesContextDone, Polling
<1>2. Task(r) \in Tasks /\ row[r] \in Row
  BY InHand DEF TypeOK
<1>3. BlankRow(Task(r)) \in Row /\ BlankRow(Task(r)).id = Task(r)
  BY <1>2 DEF BlankRow, Row, Status
<1>4. CASE RequestFails(r) \/ SeesContextDone(r)
  <2>1. StopsAt(r, BlankRow(Task(r))) \/ StopsAt(r, row[r])
    BY <1>4 DEF RequestFails, SeesContextDone, StopsAt
  <2> QED BY <1>1, <1>2, <1>3, <2>1
<1> QED BY <1>1, <1>4, SnapshotEffect, ProofsEffect DEF Polls

(* Such a step keeps the types. *)
LEMMA PollTypeOK ==
    ASSUME TypeOK, NEW r \in Runs, Polls(r)
    PROVE  TypeOK'
<1>1. UNCHANGED <<serverVars, ctx, buffer, hashed, refs, sent, created>>
  BY PollEffect
<1>2. PICK last \in Row : StopsAt(r, last) \/ MovesOn(r, last) \/ PollsAgain(r, last)
  BY PollEffect
<1>3. /\ pc' \in [Runs -> {"start", "done"} \cup Working]
      /\ at' \in [Runs -> 1 .. NLinks]
      /\ copied' \in [Runs -> Nat]
      /\ row' \in [Runs -> Row]
      /\ outputs' \in [Runs -> Seq(Row)]
      /\ result' \in [Runs -> Result]
  <2>1. CASE StopsAt(r, last)
    BY <2>1, StopTypeOK DEF StopsAt, Result
  <2>2. CASE MovesOn(r, last)
    BY <2>2, AdvanceTypeOK DEF MovesOn
  <2>3. CASE PollsAgain(r, last)
    BY <2>3 DEF PollsAgain, Goto, TypeOK, Working
  <2> QED BY <1>2, <2>1, <2>2, <2>3
<1> QED BY <1>1, <1>3 DEF TypeOK, serverVars, ServerTypeOK

(* Every step keeps the types. *)
LEMMA NextTypeOK == TypeOK /\ (\A r \in Runs : KeepsCount(r)) /\ [Next]_vars => TypeOK'
<1> SUFFICES ASSUME TypeOK, \A r \in Runs : KeepsCount(r), [Next]_vars PROVE TypeOK'
  OBVIOUS
<1>1. CASE Server
  <2>1. ServerTypeOK'
    BY <1>1, ServerStepTypeOK DEF Server, TypeOK
  <2> QED BY <1>1, <2>1 DEF Server, chainVars, localVars, TypeOK
<1>2. CASE UNCHANGED vars
  BY <1>2 DEF vars, chainVars, localVars, serverVars, TypeOK, ServerTypeOK
<1> QED
  BY <1>1, <1>2, LocalTypeOK, SubmitTypeOK, PollTypeOK DEF Next, Execute, Polls, Finished

-----------------------------------------------------------------------------
(* The inductive invariant: what each execution keeps. *)

(* What holds of an execution stays true while others move, since success  *)
(* and acceptance are final.                                               *)
LEMMA SoundFrame ==
    ASSUME NEW v \in Runs, Sound(v),
           pc'[v] = pc[v], at'[v] = at[v], outputs'[v] = outputs[v], sent'[v] = sent[v],
           result'[v] = result[v], row'[v] = row[v], created'[v] = created[v],
           Completed \subseteq Completed', Proven \subseteq Proven'
    PROVE  Sound(v)'
<1>1. Link(v)' = Link(v) /\ Task(v)' = Task(v)
  BY DEF Link, Task
<1>2. \A k : Settled(v, k) => Settled(v, k)'
  BY DEF Settled
<1>3. EndsWithResult(v)' /\ KeepsCount(v)'
  BY DEF Sound, EndsWithResult, KeepsCount
<1>4. LeavesSettledLinks(v)'
  BY <1>1, <1>2 DEF Sound, LeavesSettledLinks
<1>5. ReportsCreated(v)'
  BY <1>1 DEF Sound, ReportsCreated
<1> QED BY <1>3, <1>4, <1>5 DEF Sound

(* The steps of an execution that read and write nothing of the control    *)
(* plane keep it sound.                                                    *)
LEMMA LocalSound ==
    ASSUME TypeOK, NEW r \in Runs, Sound(r),
           \/ Begin(r) \/ CopyInput(r) \/ AssignRefs(r) \/ CheckWorkload(r) \/ BuildTask(r)
           \/ PollTimerFires(r) \/ StepDeadline(r) \/ EngineEndsContext(r)
    PROVE  Sound(r)'
<1>1. UNCHANGED <<at, outputs, sent, row, created, status, receipts>>
  BY DEF Begin, CopyInput, AssignRefs, CheckWorkload, BuildTask, PollTimerFires,
         StepDeadline, EngineEndsContext, serverVars
<1>2. Completed' = Completed /\ Proven' = Proven
  BY <1>1 DEF Completed, Proven
<1>3. \/ pc[r] \in BeforeSubmission /\ pc'[r] \in BeforeSubmission /\ result'[r] = result[r]
      \/ /\ pc[r] \in BeforeSubmission /\ pc'[r] = "done"
         /\ result'[r] \in {"client_error", "mapping_failed", "invalid_workload"}
      \/ pc[r] = "sleep" /\ pc'[r] = "list" /\ result'[r] = result[r]
      \/ pc'[r] = pc[r] /\ result'[r] = result[r]
  BY DEF Begin, CopyInput, AssignRefs, CheckWorkload, BuildTask, PollTimerFires,
         StepDeadline, EngineEndsContext, Goto, Return, TypeOK, BeforeSubmission
<1>4. Link(r)' = Link(r) /\ Task(r)' = Task(r)
  BY <1>1 DEF Link, Task
<1>5. \A k : Settled(r, k)' <=> Settled(r, k)
  BY <1>2 DEF Settled
<1>6. EndsWithResult(r)' /\ KeepsCount(r)'
  BY <1>1, <1>3 DEF Sound, EndsWithResult, KeepsCount, BeforeSubmission, Polling
<1>7. LeavesSettledLinks(r)'
  BY <1>1, <1>2, <1>3, <1>4, <1>5
     DEF Sound, EndsWithResult, LeavesSettledLinks, BeforeSubmission, Polling
<1>8. ReportsCreated(r)'
  BY <1>1, <1>3, <1>4 DEF Sound, EndsWithResult, ReportsCreated, BeforeSubmission, Polling
<1> QED BY <1>6, <1>7, <1>8 DEF Sound

(* Appending a row to the outputs adds its id to the ids in the outputs.   *)
LEMMA AppendedIds ==
    ASSUME NEW s \in Seq(Row), NEW last \in Row, NEW t,
           (\E i \in 1 .. Len(s) : s[i].id = t) \/ last.id = t
    PROVE  /\ \E i \in 1 .. Len(Append(s, last)) : Append(s, last)[i].id = t
           /\ Len(Append(s, last)) = Len(s) + 1
<1>1. /\ Len(s) \in Nat
      /\ Len(Append(s, last)) = Len(s) + 1
      /\ Append(s, last)[Len(s) + 1] = last
      /\ \A i \in 1 .. Len(s) : Append(s, last)[i] = s[i]
  OBVIOUS
<1>2. CASE \E i \in 1 .. Len(s) : s[i].id = t
  <2>1. PICK i \in 1 .. Len(s) : s[i].id = t
    BY <1>2
  <2>2. i \in 1 .. Len(Append(s, last)) /\ Append(s, last)[i].id = t
    BY <1>1, <2>1
  <2> QED BY <1>1, <2>2
<1>3. CASE last.id = t
  <2>1. Len(s) + 1 \in 1 .. Len(Append(s, last)) /\ Append(s, last)[Len(s) + 1].id = t
    BY <1>1, <1>3
  <2> QED BY <1>1, <2>1
<1> QED BY <1>2, <1>3

(* Moving on from a settled link, with its row in the outputs, is sound.   *)
LEMMA AdvanceSound ==
    ASSUME TypeOK, NEW r \in Runs, NEW last \in Row, Advance(r, last),
           last.id = Task(r), result[r] = "none",
           Len(outputs[r]) = at[r] - 1, Len(sent'[r]) = at[r],
           \A k \in 1 .. at[r] : Links[k].wait => Settled(r, k)',
           \A t \in created'[r] :
              (\E i \in 1 .. Len(outputs[r]) : outputs[r][i].id = t) \/ t = Task(r)
    PROVE  Sound(r)'
<1>1. /\ at[r] \in 1 .. NLinks
      /\ NLinks \in Nat
      /\ outputs[r] \in Seq(Row)
  BY LinkFacts, InHand DEF TypeOK
<1>2. outputs'[r] = Append(outputs[r], last)
  BY AdvanceEffect DEF TypeOK
<1>3. /\ Len(outputs'[r]) = at[r]
      /\ \A t \in created'[r] : \E i \in 1 .. Len(outputs'[r]) : outputs'[r][i].id = t
  BY <1>1, <1>2, AppendedIds
<1>4. \/ /\ at[r] = NLinks /\ at'[r] = at[r]
         /\ pc'[r] = "done" /\ result'[r] = "ok" /\ row'[r] = last
      \/ /\ at[r] \in 1 .. NLinks - 1 /\ at'[r] = at[r] + 1
         /\ pc'[r] = "map" /\ result'[r] = "none" /\ row'[r] = BlankRow(TaskOf[r][at[r] + 1])
  BY AdvanceEffect DEF TypeOK
<1>5. CASE at'[r] = at[r] /\ at[r] = NLinks /\ pc'[r] = "done" /\ result'[r] = "ok" /\ row'[r] = last
  <2>1. Link(r)' = Link(r) /\ Task(r)' = Task(r)
    BY <1>5 DEF Link, Task
  <2>2. EndsWithResult(r)' /\ KeepsCount(r)'
    BY <1>1, <1>5 DEF EndsWithResult, KeepsCount, BeforeSubmission, Polling
  <2>3. LeavesSettledLinks(r)'
    <3>1. /\ \A k \in 1 .. at'[r] - 1 : Links[k].wait => Settled(r, k)'
          /\ Links[at'[r]].wait => Settled(r, at[r])'
      BY <1>1, <1>5
    <3>2. pc'[r] = "done" /\ at'[r] = NLinks
      BY <1>5
    <3> QED BY <3>1, <3>2 DEF LeavesSettledLinks, Polling, Link
  <2>4. ReportsCreated(r)'
    BY <1>3, <1>5, <2>1 DEF ReportsCreated
  <2> QED BY <2>2, <2>3, <2>4 DEF Sound
<1>6. CASE /\ at[r] \in 1 .. NLinks - 1 /\ at'[r] = at[r] + 1
           /\ pc'[r] = "map" /\ result'[r] = "none" /\ row'[r] = BlankRow(TaskOf[r][at[r] + 1])
  <2>1. EndsWithResult(r)' /\ KeepsCount(r)'
    BY <1>1, <1>3, <1>6 DEF EndsWithResult, KeepsCount, BeforeSubmission, Polling
  <2>3. LeavesSettledLinks(r)'
    <3>1. \A k \in 1 .. at'[r] - 1 : Links[k].wait => Settled(r, k)'
      BY <1>1, <1>6
    <3>2. pc'[r] = "map" /\ result'[r] = "none"
      BY <1>6
    <3> QED BY <3>1, <3>2 DEF LeavesSettledLinks, Polling
  <2>4. ReportsCreated(r)'
    BY <1>3, <1>6 DEF ReportsCreated, BlankRow, Task
  <2> QED BY <2>1, <2>3, <2>4 DEF Sound
<1> QED BY <1>4, <1>5, <1>6

(* The chain stops at the link in hand, whose row ends the outputs.        *)
LEMMA StopSound ==
    ASSUME TypeOK, NEW r \in Runs, Sound(r), NEW last \in Row, StopsAt(r, last),
           last.id = Task(r), pc[r] \in Polling,
           UNCHANGED <<sent, created, Completed, Proven>>
    PROVE  Sound(r)'
<1>1. PICK why \in Result \ {"none", "ok"} : StopWith(r, why, last)
  BY DEF StopsAt, Result
<1>2. /\ pc'[r] = "done" /\ result'[r] = why /\ row'[r] = last
      /\ outputs'[r] = Append(outputs[r], last)
      /\ at'[r] = at[r] /\ sent'[r] = sent[r] /\ created'[r] = created[r]
  BY <1>1, StopEffect DEF TypeOK
<1>3. Link(r)' = Link(r) /\ Task(r)' = Task(r) /\ \A k : Settled(r, k)' <=> Settled(r, k)
  BY <1>2 DEF Link, Task, Settled
<1>4. EndsWithResult(r)' /\ KeepsCount(r)'
  BY <1>2 DEF Sound, EndsWithResult, KeepsCount, BeforeSubmission, Polling
<1>5. LeavesSettledLinks(r)'
  BY <1>2, <1>3 DEF Sound, LeavesSettledLinks, Polling
<1>6. ReportsCreated(r)'
  <2>1. outputs[r] \in Seq(Row)
    BY DEF TypeOK
  <2>2. \A t \in created[r] :
           (\E i \in 1 .. Len(outputs[r]) : outputs[r][i].id = t) \/ last.id = t
    BY DEF Sound, ReportsCreated
  <2>3. \A t \in created'[r] : \E i \in 1 .. Len(outputs'[r]) : outputs'[r][i].id = t
    BY <1>2, <2>1, <2>2, AppendedIds
  <2> QED BY <1>2, <1>3, <2>3 DEF ReportsCreated
<1> QED BY <1>4, <1>5, <1>6 DEF Sound

(* The task of the link in hand is polled again.                           *)
LEMMA PollAgainSound ==
    ASSUME TypeOK, NEW r \in Runs, Sound(r), NEW last \in Row, PollsAgain(r, last),
           last.id = Task(r), pc[r] \in Polling,
           UNCHANGED <<sent, created, Completed, Proven>>
    PROVE  Sound(r)'
<1>1. PICK l \in {"proofs", "sleep"} :
         /\ pc' = [pc EXCEPT ![r] = l] /\ result' = result
         /\ l = "proofs" => Task(r) \in Completed
  BY DEF PollsAgain, Goto
<1>2. /\ pc'[r] = l /\ pc'[r] \in Polling /\ result'[r] = result[r] /\ row'[r] = last
      /\ at'[r] = at[r] /\ outputs'[r] = outputs[r]
      /\ sent'[r] = sent[r] /\ created'[r] = created[r]
  BY <1>1 DEF PollsAgain, TypeOK, Polling
<1>3. Link(r)' = Link(r) /\ Task(r)' = Task(r) /\ \A k : Settled(r, k)' <=> Settled(r, k)
  BY <1>2 DEF Link, Task, Settled
<1>4. EndsWithResult(r)' /\ KeepsCount(r)'
  BY <1>2 DEF Sound, EndsWithResult, KeepsCount, BeforeSubmission, Polling
<1>5. LeavesSettledLinks(r)'
  BY <1>1, <1>2, <1>3 DEF Sound, LeavesSettledLinks
<1>6. ReportsCreated(r)'
  BY <1>2, <1>3 DEF Sound, ReportsCreated
<1> QED BY <1>4, <1>5, <1>6 DEF Sound

(* An answer, a failed request or a cancelled context keeps it sound.      *)
LEMMA PollSound ==
    ASSUME TypeOK, NEW r \in Runs, Sound(r), Polls(r)
    PROVE  Sound(r)'
<1>1. /\ UNCHANGED <<sent, created, Completed, Proven>>
      /\ pc[r] \in Polling
  BY PollEffect DEF serverVars, Completed, Proven
<1>2. row[r].id = Task(r)
  BY DEF Sound, ReportsCreated
<1>3. PICK last \in Row :
         /\ last.id = Task(r)
         /\ StopsAt(r, last) \/ MovesOn(r, last) \/ PollsAgain(r, last)
  BY <1>2, PollEffect
<1>4. CASE MovesOn(r, last)
  <2>1. pc[r] = "proofs" /\ Advance(r, last) /\ (r \in Strict => Task(r) \in Proven)
    BY <1>4 DEF MovesOn
  <2>2. /\ result[r] = "none" /\ Task(r) \in Completed
        /\ Len(outputs[r]) = at[r] - 1 /\ Len(sent[r]) = at[r]
    BY <2>1 DEF Sound, EndsWithResult, KeepsCount, LeavesSettledLinks, Polling
  <2>3. \A k : Settled(r, k)' <=> Settled(r, k)
    BY <1>1 DEF Settled
  <2>4. Settled(r, at[r]) /\ at[r] \in 1 .. NLinks /\ NLinks \in Nat
    BY <2>1, <2>2, InHand, LinkFacts DEF Settled, Task
  <2>5. \A k \in 1 .. at[r] - 1 : Links[k].wait => Settled(r, k)
    BY DEF Sound, LeavesSettledLinks
  <2>6. \A t \in created[r] :
           (\E i \in 1 .. Len(outputs[r]) : outputs[r][i].id = t) \/ t = Task(r)
    BY DEF Sound, ReportsCreated
  <2>7. sent'[r] = sent[r] /\ created'[r] = created[r]
    BY <1>1
  <2>8. /\ Len(sent'[r]) = at[r]
        /\ \A k \in 1 .. at[r] : Links[k].wait => Settled(r, k)'
        /\ \A t \in created'[r] :
              (\E i \in 1 .. Len(outputs[r]) : outputs[r][i].id = t) \/ t = Task(r)
    BY <2>2, <2>3, <2>4, <2>5, <2>6, <2>7
  <2> QED BY <1>3, <2>1, <2>2, <2>8, AdvanceSound
<1> QED BY <1>1, <1>3, <1>4, StopSound, PollAgainSound

(* A submission keeps it sound.  Its task is created, at the latest now,   *)
(* and is the link's own, so the row of the link will report it.           *)
LEMMA SubmitSucceedsSound ==
    ASSUME TypeOK, NEW r \in Runs, Sound(r), SubmitSucceeds(r)
    PROVE  Sound(r)'
<1> DEFINE answer == [id |-> Task(r), status |-> status'[Task(r)], proof |-> "none"]
<1>1. Posted(r) /\ pc[r] = "submit"
  BY DEF SubmitSucceeds
<1>2. /\ sent' = [sent EXCEPT ![r] = Append(sent[r], refs[at[r]])]
      /\ sent[r] \in Seq(Seq(Tasks)) /\ refs[at[r]] \in Seq(Tasks)
      /\ created'[r] \subseteq created[r] \cup {Task(r)}
      /\ status'[Task(r)] \in Status
      /\ Completed' = Completed /\ Proven' = Proven
  BY <1>1, PostedEffect, InHand DEF TypeOK
<1>3. /\ result[r] = "none" /\ row[r].id = Task(r)
      /\ Len(outputs[r]) = at[r] - 1 /\ Len(sent[r]) = at[r] - 1
  BY <1>1 DEF Sound, EndsWithResult, KeepsCount, ReportsCreated, BeforeSubmission
<1>4. Len(sent'[r]) = at[r]
  <2>1. at[r] \in Nat /\ sent'[r] = Append(sent[r], refs[at[r]])
    BY <1>2, InHand, LinkFacts DEF TypeOK
  <2>2. Len(sent'[r]) = Len(sent[r]) + 1
    BY <1>2, <2>1
  <2> QED BY <1>3, <2>1, <2>2
<1>5. \A k : Settled(r, k)' <=> Settled(r, k)
  BY <1>2 DEF Settled
<1>6. \A k \in 1 .. at[r] - 1 : Links[k].wait => Settled(r, k)
  BY DEF Sound, LeavesSettledLinks
<1>7. \A t \in created'[r] :
         (\E i \in 1 .. Len(outputs[r]) : outputs[r][i].id = t) \/ t = Task(r)
  BY <1>2 DEF Sound, ReportsCreated
<1>8. CASE Link(r).wait
  <2>1. /\ pc'[r] = "list" /\ result'[r] = "none" /\ at'[r] = at[r]
        /\ row'[r] = row[r] /\ outputs'[r] = outputs[r]
    BY <1>3, <1>8 DEF SubmitSucceeds, Goto, TypeOK
  <2>2. Link(r)' = Link(r) /\ Task(r)' = Task(r)
    BY <2>1 DEF Link, Task
  <2>3. EndsWithResult(r)' /\ KeepsCount(r)'
    BY <1>3, <1>4, <2>1, InHand, LinkFacts
       DEF EndsWithResult, KeepsCount, BeforeSubmission, Polling
  <2>4. LeavesSettledLinks(r)'
    BY <1>5, <1>6, <1>8, <2>1, <2>2 DEF LeavesSettledLinks
  <2>5. ReportsCreated(r)'
    BY <1>3, <1>7, <2>1, <2>2 DEF ReportsCreated, Polling
  <2> QED BY <2>3, <2>4, <2>5 DEF Sound
<1>9. CASE ~Link(r).wait
  <2>1. Advance(r, answer)
    BY <1>9 DEF SubmitSucceeds
  <2>2. answer \in Row /\ answer.id = Task(r)
    BY <1>2, InHand DEF Row
  <2>3. at[r] \in 1 .. NLinks /\ NLinks \in Nat
    BY InHand, LinkFacts
  <2>4. ~Links[at[r]].wait
    BY <1>9 DEF Link
  <2>5. \A k \in 1 .. at[r] : k \in 1 .. at[r] - 1 \/ k = at[r]
    BY <2>3
  <2>6. \A k \in 1 .. at[r] : Links[k].wait => Settled(r, k)'
    BY <1>5, <1>6, <2>4, <2>5
  <2> HIDE DEF answer
  <2> QED BY <1>3, <1>4, <1>7, <2>1, <2>2, <2>6, AdvanceSound
<1> QED BY <1>8, <1>9, InHand

(* A submission that fails may have created its task, which then is the    *)
(* one task that is not in the outputs.                                    *)
LEMMA SubmitFailsSound ==
    ASSUME TypeOK, NEW r \in Runs, Sound(r), SubmitFails(r)
    PROVE  Sound(r)'
<1>1. /\ pc[r] = "submit" /\ pc'[r] = "done" /\ result'[r] = "submit_failed"
      /\ at'[r] = at[r] /\ row'[r] = row[r] /\ outputs'[r] = outputs[r]
  BY DEF SubmitFails, Return, TypeOK
<1>2. /\ Len(outputs[r]) = at[r] - 1 /\ Len(sent[r]) = at[r] - 1 /\ row[r].id = Task(r)
  BY <1>1 DEF Sound, KeepsCount, ReportsCreated, BeforeSubmission
<1>3. at[r] \in Nat
  BY InHand, LinkFacts
<1>4. /\ Len(sent'[r]) <= at[r]
      /\ created'[r] \subseteq created[r] \cup {Task(r)}
      /\ Completed' = Completed /\ Proven' = Proven
  <2>1. CASE Posted(r)
    <3>1. /\ sent' = [sent EXCEPT ![r] = Append(sent[r], refs[at[r]])]
          /\ sent[r] \in Seq(Seq(Tasks)) /\ refs[at[r]] \in Seq(Tasks)
          /\ created'[r] \subseteq created[r] \cup {Task(r)}
          /\ Completed' = Completed /\ Proven' = Proven
      BY <2>1, PostedEffect, InHand DEF TypeOK
    <3>2. sent'[r] = Append(sent[r], refs[at[r]])
      BY <3>1 DEF TypeOK
    <3>3. Len(sent'[r]) = Len(sent[r]) + 1
      BY <3>1, <3>2
    <3> QED BY <1>2, <1>3, <3>1, <3>3
  <2>2. CASE UNCHANGED <<serverVars, sent, created>>
    BY <1>2, <1>3, <2>2 DEF serverVars, Completed, Proven
  <2> QED BY <2>1, <2>2 DEF SubmitFails
<1>5. /\ Link(r)' = Link(r) /\ Task(r)' = Task(r) /\ \A k : Settled(r, k)' <=> Settled(r, k)
  BY <1>1, <1>4 DEF Link, Task, Settled
<1>6. EndsWithResult(r)' /\ KeepsCount(r)'
  BY <1>1, <1>4 DEF EndsWithResult, KeepsCount, BeforeSubmission, Polling
<1>7. LeavesSettledLinks(r)'
  BY <1>1, <1>5 DEF Sound, LeavesSettledLinks, Polling
<1>8. ReportsCreated(r)'
  BY <1>1, <1>2, <1>4, <1>5 DEF Sound, ReportsCreated
<1> QED BY <1>6, <1>7, <1>8 DEF Sound

(* No step of an execution touches what belongs to another one.            *)
LEMMA OthersUntouched ==
    ASSUME TypeOK, NEW r \in Runs,
           Execute(r) \/ StepDeadline(r) \/ EngineEndsContext(r),
           NEW v \in Runs, v # r
    PROVE  /\ pc'[v] = pc[v] /\ at'[v] = at[v] /\ outputs'[v] = outputs[v]
           /\ sent'[v] = sent[v] /\ result'[v] = result[v] /\ row'[v] = row[v]
           /\ created'[v] = created[v]
           /\ copied'[v] = copied[v] /\ buffer'[v] = buffer[v] /\ hashed'[v] = hashed[v]
           /\ Completed' = Completed /\ Proven' = Proven
<1> DEFINE Rest == /\ pc'[v] = pc[v] /\ at'[v] = at[v] /\ outputs'[v] = outputs[v]
                   /\ result'[v] = result[v] /\ row'[v] = row[v] /\ copied'[v] = copied[v]
<1>1. ASSUME NEW last \in Row, Advance(r, last) PROVE Rest
  <2>1. /\ outputs' = [outputs EXCEPT ![r] = Append(outputs[r], last)]
        /\ \/ /\ pc' = [pc EXCEPT ![r] = "done"]
              /\ result' = [result EXCEPT ![r] = "ok"]
              /\ row' = [row EXCEPT ![r] = last]
              /\ UNCHANGED <<at, copied>>
           \/ /\ pc' = [pc EXCEPT ![r] = "map"]
              /\ at' = [at EXCEPT ![r] = at[r] + 1]
              /\ copied' = [copied EXCEPT ![r] = 0]
              /\ row' = [row EXCEPT ![r] = BlankRow(TaskOf[r][at[r] + 1])]
              /\ result' = result
    BY <1>1, AdvanceEffect
  <2> QED BY <2>1 DEF TypeOK
<1>2. ASSUME NEW last \in Row, StopsAt(r, last) PROVE Rest
  <2>1. PICK why \in Result \ {"none"} : StopWith(r, why, last)
    BY <1>2 DEF StopsAt, Result
  <2>2. /\ pc' = [pc EXCEPT ![r] = "done"]
        /\ result' = [result EXCEPT ![r] = why]
        /\ row' = [row EXCEPT ![r] = last]
        /\ outputs' = [outputs EXCEPT ![r] = Append(outputs[r], last)]
        /\ UNCHANGED <<at, copied>>
    BY <2>1, StopEffect
  <2> QED BY <2>2 DEF TypeOK
<1>3. CASE \/ Begin(r) \/ CopyInput(r) \/ AssignRefs(r) \/ CheckWorkload(r) \/ BuildTask(r)
           \/ PollTimerFires(r) \/ StepDeadline(r) \/ EngineEndsContext(r)
  <2>1. UNCHANGED <<at, outputs, sent, row, created, status, receipts>>
    BY <1>3 DEF Begin, CopyInput, AssignRefs, CheckWorkload, BuildTask, PollTimerFires,
                StepDeadline, EngineEndsContext, serverVars
  <2>2. /\ pc'[v] = pc[v] /\ result'[v] = result[v]
        /\ copied'[v] = copied[v] /\ buffer'[v] = buffer[v] /\ hashed'[v] = hashed[v]
    BY <1>3 DEF Begin, CopyInput, AssignRefs, CheckWorkload, BuildTask, PollTimerFires,
                StepDeadline, EngineEndsContext, Goto, Return, TypeOK
  <2> QED BY <2>1, <2>2 DEF Completed, Proven
<1>4. CASE SubmitSucceeds(r)
  <2> DEFINE answer == [id |-> Task(r), status |-> status'[Task(r)], proof |-> "none"]
  <2>1. Posted(r)
    BY <1>4 DEF SubmitSucceeds
  <2>2. /\ sent'[v] = sent[v] /\ created'[v] = created[v]
        /\ Completed' = Completed /\ Proven' = Proven
        /\ status'[Task(r)] \in Status
        /\ UNCHANGED <<buffer, hashed>>
    BY <1>4, <2>1, PostedEffect DEF TypeOK, SubmitSucceeds
  <2>3. CASE Link(r).wait
    BY <1>4, <2>2, <2>3 DEF SubmitSucceeds, Goto, TypeOK
  <2>4. CASE ~Link(r).wait
    <3>1. Advance(r, answer) /\ answer \in Row
      BY <1>4, <2>2, <2>4, InHand DEF SubmitSucceeds, Row
    <3> HIDE DEF answer
    <3> QED BY <1>1, <2>2, <3>1
  <2> QED BY <2>3, <2>4
<1>5. CASE SubmitFails(r)
  <2>1. /\ sent'[v] = sent[v] /\ created'[v] = created[v]
        /\ Completed' = Completed /\ Proven' = Proven
    <3>1. CASE Posted(r)
      BY <3>1, PostedEffect DEF TypeOK
    <3>2. CASE UNCHANGED <<serverVars, sent, created>>
      BY <3>2 DEF serverVars, Completed, Proven
    <3> QED BY <1>5, <3>1, <3>2 DEF SubmitFails
  <2> QED BY <1>5, <2>1 DEF SubmitFails, Return, TypeOK
<1>6. CASE Polls(r)
  <2>1. UNCHANGED <<sent, created, buffer, hashed, Completed, Proven>>
    BY <1>6, PollEffect DEF serverVars, Completed, Proven
  <2>2. PICK last \in Row : StopsAt(r, last) \/ MovesOn(r, last) \/ PollsAgain(r, last)
    BY <1>6, PollEffect
  <2>3. CASE StopsAt(r, last)
    BY <1>2, <2>1, <2>3
  <2>4. CASE MovesOn(r, last)
    BY <1>1, <2>1, <2>4 DEF MovesOn
  <2>5. CASE PollsAgain(r, last)
    BY <2>1, <2>5 DEF PollsAgain, Goto, TypeOK
  <2> QED BY <2>2, <2>3, <2>4, <2>5
<1> QED BY <1>3, <1>4, <1>5, <1>6 DEF Execute, Polls

(* Nothing has been sent or put out in the beginning.                      *)
LEMMA InitSound == Init => \A r \in Runs : Sound(r)
<1> SUFFICES ASSUME Init, NEW r \in Runs PROVE Sound(r)
  OBVIOUS
<1>1. /\ pc[r] = "start" /\ result[r] = "none" /\ at[r] = 1 /\ outputs[r] = <<>>
      /\ sent[r] = <<>> /\ created[r] = {} /\ row[r] = BlankRow(TaskOf[r][1])
  BY DEF Init
<1>2. EndsWithResult(r) /\ KeepsCount(r)
  BY <1>1 DEF EndsWithResult, KeepsCount, BeforeSubmission, Polling
<1>3. LeavesSettledLinks(r)
  BY <1>1 DEF LeavesSettledLinks, Polling
<1>4. ReportsCreated(r)
  BY <1>1 DEF ReportsCreated, BlankRow, Task
<1> QED BY <1>2, <1>3, <1>4 DEF Sound

(* Every step keeps every execution sound. *)
LEMMA NextSound ==
    TypeOK /\ (\A r \in Runs : Sound(r)) /\ [Next]_vars => (\A r \in Runs : Sound(r))'
<1> SUFFICES ASSUME TypeOK, \A r \in Runs : Sound(r), [Next]_vars, NEW v \in Runs
             PROVE  Sound(v)'
  OBVIOUS
<1>1. CASE Server
  <2>1. Completed \subseteq Completed' /\ Proven \subseteq Proven'
    BY <1>1, ServerStepMonotone DEF Server, TypeOK
  <2>2. UNCHANGED <<pc, at, outputs, sent, result, row, created>>
    BY <1>1 DEF Server, chainVars, localVars
  <2> QED BY <2>1, <2>2, SoundFrame
<1>2. CASE UNCHANGED vars
  <2>1. UNCHANGED <<pc, at, outputs, sent, result, row, created, status, receipts>>
    BY <1>2 DEF vars, chainVars, localVars, serverVars
  <2>2. Completed' = Completed /\ Proven' = Proven
    BY <2>1 DEF Completed, Proven
  <2> QED BY <2>1, <2>2, SoundFrame
<1>3. ASSUME NEW r \in Runs, Execute(r) \/ StepDeadline(r) \/ EngineEndsContext(r)
      PROVE  Sound(v)'
  <2>1. CASE v = r
    BY <1>3, <2>1, LocalSound, SubmitSucceedsSound, SubmitFailsSound, PollSound
       DEF Execute, Polls
  <2>2. CASE v # r
    <3>1. /\ pc'[v] = pc[v] /\ at'[v] = at[v] /\ outputs'[v] = outputs[v]
          /\ sent'[v] = sent[v] /\ result'[v] = result[v] /\ row'[v] = row[v]
          /\ created'[v] = created[v]
          /\ Completed' = Completed /\ Proven' = Proven
      BY <1>3, <2>2, OthersUntouched
    <3> QED BY <3>1, SoundFrame
  <2> QED BY <2>1, <2>2
<1> QED
  BY <1>1, <1>2, <1>3 DEF Next, Finished

(* The inductive invariant holds in every state. *)
THEOREM Inductive == SafetySpec => []IInv
<1>1. Init => IInv
  BY InitTypeOK, InitSound DEF IInv
<1>2. IInv /\ [Next]_vars => IInv'
  BY NextTypeOK, NextSound DEF IInv, Sound
<1> QED BY <1>1, <1>2, PTL DEF SafetySpec

-----------------------------------------------------------------------------
(* The properties of step.compute_chain. *)

(* Every state of every behaviour is well typed. *)
THEOREM TypeCorrect == SafetySpec => []TypeOK
<1>1. IInv => TypeOK
  BY DEF IInv
<1> QED BY <1>1, Inductive, PTL

(* By the time the workload of a link is sent, every awaited link before   *)
(* it has succeeded on the control plane and, where a proof is required,   *)
(* is proven there.                                                        *)
THEOREM LinksInOrder == SafetySpec => []LinksWaitForEarlierLinks
<1>1. IInv => LinksWaitForEarlierLinks
  <2> SUFFICES ASSUME IInv, NEW r \in Runs, NEW k \in 1 .. Len(sent[r]), NEW j \in 1 .. k - 1,
                      Links[j].wait
               PROVE  Settled(r, j)
    BY DEF LinksWaitForEarlierLinks
  <2>1. sent[r] \in Seq(Seq(Tasks)) /\ at[r] \in 1 .. NLinks /\ NLinks \in Nat
    BY LinkFacts DEF IInv, TypeOK
  <2>2. Len(sent[r]) \in Nat /\ Len(sent[r]) <= at[r]
    BY <2>1 DEF IInv, Sound, KeepsCount
  <2>3. j \in 1 .. at[r] - 1
    BY <2>1, <2>2
  <2> QED BY <2>3 DEF IInv, Sound, LeavesSettledLinks
<1> QED BY <1>1, Inductive, PTL

(* A chain that proceeds has settled every link it awaits. *)
THEOREM EarnedOk == SafetySpec => []OkIsEarned
<1>1. IInv => OkIsEarned
  <2> SUFFICES ASSUME IInv, NEW r \in Runs, result[r] = "ok", NEW k \in 1 .. NLinks,
                      Links[k].wait
               PROVE  Settled(r, k)
    BY DEF OkIsEarned
  <2>1. at[r] = NLinks /\ (Links[at[r]].wait => Settled(r, at[r]))
    BY DEF IInv, Sound, LeavesSettledLinks, Link
  <2>2. \A i \in 1 .. at[r] - 1 : Links[i].wait => Settled(r, i)
    BY DEF IInv, Sound, LeavesSettledLinks
  <2>3. k \in 1 .. at[r] - 1 \/ k = at[r]
    BY <2>1, LinkFacts
  <2> QED BY <2>1, <2>2, <2>3
<1> QED BY <1>1, Inductive, PTL

(* Every task that a finished execution has created is in its output; the  *)
(* one exception is a task whose submission has lost its answer.           *)
THEOREM TasksAreReported == SafetySpec => []NoTaskIsLost
<1>1. IInv => NoTaskIsLost
  <2> SUFFICES ASSUME IInv, NEW r \in Runs, pc[r] = "done", NEW t \in created[r],
                      t # Task(r) \/ result[r] # "submit_failed"
               PROVE  t \in {outputs[r][i].id : i \in DOMAIN outputs[r]}
    BY DEF NoTaskIsLost
  <2>1. \E i \in 1 .. Len(outputs[r]) : outputs[r][i].id = t
    BY DEF IInv, Sound, ReportsCreated, Polling
  <2>2. DOMAIN outputs[r] = 1 .. Len(outputs[r])
    BY DEF IInv, TypeOK
  <2> QED BY <2>1, <2>2
<1> QED BY <1>1, Inductive, PTL

-----------------------------------------------------------------------------
(* A lone execution of a fresh step instance.  Executions that overlap, or *)
(* follow one another on one instance, read each other's references; here  *)
(* it is proved that nothing but that sharing is to blame.                 *)

(* Appending the output of the task a mapping names extends what has been  *)
(* copied by one reference.                                                *)
LEMMA CopiedNext ==
    ASSUME NEW r \in Runs, NEW k \in 1 .. NLinks, NEW list \in Seq(Tasks), NEW n \in Nat,
           Copied(r, k, list, n), NEW t \in Tasks,
           t = Source(r, k, n + 1)
    PROVE  Copied(r, k, Append(list, t), n + 1)
<1>1. /\ Len(Append(list, t)) = n + 1
      /\ Append(list, t)[n + 1] = t
      /\ \A i \in 1 .. n : Append(list, t)[i] = list[i]
  BY DEF Copied
<1>2. \A i \in 1 .. n + 1 : i \in 1 .. n \/ i = n + 1
  OBVIOUS
<1> QED BY <1>1, <1>2 DEF Copied

(* The outputs stay those of the links in order when the link in hand ends. *)
LEMMA OutputsInOrder ==
    ASSUME TypeOK, NEW r \in Runs, NEW last \in Row, last.id = Task(r),
           outputs'[r] = Append(outputs[r], last),
           Len(outputs[r]) = at[r] - 1,
           \A i \in 1 .. Len(outputs[r]) : outputs[r][i].id = TaskOf[r][i]
    PROVE  \A i \in 1 .. Len(outputs'[r]) : outputs'[r][i].id = TaskOf[r][i]
<1>1. outputs[r] \in Seq(Row) /\ at[r] \in Nat
  BY InHand, LinkFacts DEF TypeOK
<1>2. /\ Len(outputs'[r]) = at[r]
      /\ outputs'[r][at[r]] = last
      /\ \A i \in 1 .. at[r] - 1 : outputs'[r][i] = outputs[r][i]
  BY <1>1
<1>3. \A i \in 1 .. at[r] : i \in 1 .. at[r] - 1 \/ i = at[r]
  BY <1>1
<1> QED BY <1>2, <1>3 DEF Task

(* Sending the list of a link whose mappings are all applied.              *)
LEMMA SendsCopied ==
    ASSUME TypeOK, NEW r \in Runs, Sound(r), OwnsItsLists(r), pc[r] = "submit", Posted(r)
    PROVE  \A k \in 1 .. NLinks : k <= Len(sent'[r]) =>
              Copied(r, k, sent'[r][k], Len(Links[k].inputs))
<1>1. /\ sent' = [sent EXCEPT ![r] = Append(sent[r], refs[at[r]])]
      /\ sent[r] \in Seq(Seq(Tasks)) /\ refs[at[r]] \in Seq(Tasks)
      /\ at[r] \in 1 .. NLinks /\ NLinks \in Nat
  BY PostedEffect, InHand, LinkFacts DEF TypeOK
<1>2. sent'[r] = Append(sent[r], refs[at[r]])
  BY <1>1 DEF TypeOK
<1>3. Len(sent[r]) = at[r] - 1
  BY DEF Sound, KeepsCount, BeforeSubmission
<1>4. /\ Len(sent'[r]) = at[r]
      /\ sent'[r][at[r]] = refs[at[r]]
      /\ \A k \in 1 .. at[r] - 1 : sent'[r][k] = sent[r][k]
  BY <1>1, <1>2, <1>3
<1>5. Copied(r, at[r], refs[at[r]], Len(Links[at[r]].inputs))
  BY DEF OwnsItsLists, BeforeSubmission, Link
<1>6. \A k \in 1 .. NLinks : k <= Len(sent[r]) =>
         Copied(r, k, sent[r][k], Len(Links[k].inputs))
  BY DEF OwnsItsLists
<1>7. \A k \in 1 .. NLinks : k <= at[r] => k \in 1 .. at[r] - 1 \/ k = at[r]
  BY <1>1
<1> QED BY <1>1, <1>3, <1>4, <1>5, <1>6, <1>7

(* Moving on leaves an empty list for the next link.                       *)
LEMMA AdvanceOwns ==
    ASSUME TypeOK, NEW r \in Runs, OwnsItsLists(r), Len(outputs[r]) = at[r] - 1,
           NEW last \in Row, Advance(r, last), last.id = Task(r), refs' = refs,
           \A k \in 1 .. NLinks : k <= Len(sent'[r]) =>
              Copied(r, k, sent'[r][k], Len(Links[k].inputs))
    PROVE  OwnsItsLists(r)'
<1>1. outputs' = [outputs EXCEPT ![r] = Append(outputs[r], last)]
  BY AdvanceEffect
<1>2. outputs'[r] = Append(outputs[r], last)
  BY <1>1 DEF TypeOK
<1>3. \A i \in 1 .. Len(outputs'[r]) : outputs'[r][i].id = TaskOf[r][i]
  BY <1>2, OutputsInOrder DEF OwnsItsLists
<1>4. /\ at[r] \in 1 .. NLinks /\ NLinks \in Nat
      /\ \A k \in 1 .. NLinks : k > at[r] => refs[k] = <<>>
      /\ copied[r] <= Len(Link(r).inputs)
  BY InHand, LinkFacts DEF OwnsItsLists
<1>5. \/ pc'[r] = "done" /\ at'[r] = at[r] /\ copied'[r] = copied[r]
      \/ pc'[r] = "map" /\ at'[r] = at[r] + 1 /\ at[r] + 1 \in 1 .. NLinks /\ copied'[r] = 0
  <2>1. \/ pc' = [pc EXCEPT ![r] = "done"] /\ UNCHANGED <<at, copied>>
        \/ /\ at[r] \in 1 .. NLinks - 1
           /\ pc' = [pc EXCEPT ![r] = "map"]
           /\ at' = [at EXCEPT ![r] = at[r] + 1]
           /\ copied' = [copied EXCEPT ![r] = 0]
    BY AdvanceEffect
  <2> QED BY <1>4, <2>1 DEF TypeOK
<1>6. CASE pc'[r] = "done" /\ at'[r] = at[r] /\ copied'[r] = copied[r]
  <2>1. \A k \in 1 .. NLinks : k > at'[r] => refs'[k] = <<>>
    BY <1>4, <1>6
  <2>2. copied'[r] <= Len(Links[at'[r]].inputs)
    BY <1>4, <1>6 DEF Link
  <2> QED BY <1>3, <1>6, <2>1, <2>2 DEF OwnsItsLists, BeforeSubmission, Link
<1>7. CASE pc'[r] = "map" /\ at'[r] = at[r] + 1 /\ at[r] + 1 \in 1 .. NLinks /\ copied'[r] = 0
  <2>1. \A k \in 1 .. NLinks : k > at'[r] => refs'[k] = <<>>
    BY <1>4, <1>7
  <2>2. refs'[at'[r]] = <<>>
    BY <1>4, <1>7
  <2>3. Copied(r, at'[r], refs'[at'[r]], copied'[r])
    BY <1>7, <2>2 DEF Copied
  <2>4. copied'[r] <= Len(Links[at'[r]].inputs)
    BY <1>7, LinkFacts
  <2> QED BY <1>3, <1>7, <2>1, <2>3, <2>4 DEF OwnsItsLists, BeforeSubmission, Link
<1> QED BY <1>5, <1>6, <1>7

(* Copying, assigning and hashing keep to the lists of the execution.      *)
LEMMA LocalOwns ==
    ASSUME TypeOK, NEW r \in Runs, Sound(r), OwnsItsLists(r),
           \/ Begin(r) \/ CopyInput(r) \/ AssignRefs(r) \/ CheckWorkload(r) \/ BuildTask(r)
           \/ PollTimerFires(r) \/ StepDeadline(r) \/ EngineEndsContext(r)
    PROVE  OwnsItsLists(r)'
<1>1. /\ at' = at /\ outputs' = outputs /\ sent' = sent
      /\ Link(r)' = Link(r)
  BY DEF Begin, CopyInput, AssignRefs, CheckWorkload, BuildTask, PollTimerFires,
         StepDeadline, EngineEndsContext, Link
<1>2. /\ at[r] \in 1 .. NLinks /\ NLinks \in Nat /\ copied[r] \in Nat
      /\ Len(Link(r).inputs) \in Nat
  BY InHand, LinkFacts DEF TypeOK
<1>3. CASE \/ Begin(r) \/ CheckWorkload(r) \/ BuildTask(r)
           \/ PollTimerFires(r) \/ StepDeadline(r) \/ EngineEndsContext(r)
  <2>1. UNCHANGED <<copied, refs, buffer>>
    BY <1>3 DEF Begin, CheckWorkload, BuildTask, PollTimerFires, StepDeadline, EngineEndsContext
  <2>2. \/ pc'[r] = pc[r] /\ hashed' = hashed
        \/ pc'[r] \in {"done", "list"}
        \/ pc[r] = "start" /\ pc'[r] = "map"
        \/ pc[r] = "map" /\ copied[r] = Len(Link(r).inputs) /\ pc'[r] = "build"
        \/ pc[r] = "build" /\ pc'[r] = "submit" /\ hashed'[r] = refs[at[r]]
    BY <1>3 DEF Begin, CheckWorkload, BuildTask, PollTimerFires, StepDeadline,
                EngineEndsContext, Goto, Return, TypeOK
  <2> QED BY <1>1, <2>1, <2>2 DEF OwnsItsLists, BeforeSubmission
<1>4. CASE CopyInput(r)
  <2> DEFINE k == Link(r).inputs[copied[r] + 1].step
  <2>1. /\ pc[r] = "map" /\ copied[r] < Len(Link(r).inputs)
        /\ copied' = copied /\ refs' = refs /\ hashed' = hashed
        /\ \/ buffer' = [buffer EXCEPT ![r] = Append(refs[at[r]], outputs[r][k].id)]
              /\ pc'[r] = "append"
           \/ pc'[r] = "done"
    BY <1>4 DEF CopyInput, Goto, Return, TypeOK
  <2>2. CASE pc'[r] = "done"
    BY <1>1, <2>1, <2>2 DEF OwnsItsLists, BeforeSubmission
  <2>3. CASE /\ buffer' = [buffer EXCEPT ![r] = Append(refs[at[r]], outputs[r][k].id)]
             /\ pc'[r] = "append"
    <3>1. Len(outputs[r]) = at[r] - 1
      BY <2>1 DEF Sound, KeepsCount
    <3>2. copied[r] + 1 \in 1 .. Len(Link(r).inputs)
      BY <1>2, <2>1
    <3>3. k \in 1 .. at[r] - 1
      BY <3>2, InHand
    <3>4. outputs[r][k].id = TaskOf[r][k] /\ TaskOf[r][k] \in Tasks
      <4>1. k \in 1 .. Len(outputs[r]) /\ k \in 1 .. NLinks
        BY <1>2, <3>1, <3>3
      <4>2. \A i \in 1 .. Len(outputs[r]) : outputs[r][i].id = TaskOf[r][i]
        BY DEF OwnsItsLists
      <4>3. \A i \in 1 .. NLinks : TaskOf[r][i] \in Tasks
        BY InHand
      <4> HIDE DEF k
      <4> QED BY <4>1, <4>2, <4>3
    <3>5. buffer'[r] = Append(refs[at[r]], TaskOf[r][k])
      BY <2>3, <3>4 DEF TypeOK
    <3>6. Copied(r, at[r], refs[at[r]], copied[r]) /\ refs[at[r]] \in Seq(Tasks)
      BY <1>2, <2>1 DEF OwnsItsLists, BeforeSubmission, TypeOK
    <3>7. TaskOf[r][k] = Source(r, at[r], copied[r] + 1)
      BY DEF Link, Source
    <3> HIDE DEF k
    <3>8. Copied(r, at[r], buffer'[r], copied[r] + 1)
      BY <1>2, <3>4, <3>5, <3>6, <3>7, CopiedNext
    <3> QED BY <1>1, <2>1, <2>3, <3>8 DEF OwnsItsLists, BeforeSubmission
  <2> QED BY <2>1, <2>2, <2>3
<1>5. CASE AssignRefs(r)
  <2>1. /\ pc[r] = "append" /\ pc'[r] = "map" /\ refs'[at[r]] = buffer[r]
        /\ copied'[r] = copied[r] + 1
        /\ \A k \in 1 .. NLinks : k > at[r] => refs'[k] = refs[k]
    BY <1>2, <1>5 DEF AssignRefs, Goto, TypeOK
  <2>2. /\ Copied(r, at[r], buffer[r], copied[r] + 1)
        /\ copied[r] + 1 <= Len(Link(r).inputs)
    BY <1>2, <2>1 DEF OwnsItsLists
  <2> QED BY <1>1, <2>1, <2>2 DEF OwnsItsLists, BeforeSubmission
<1> QED BY <1>3, <1>4, <1>5

(* A submission sends the list as the mappings have left it.               *)
LEMMA SubmitOwns ==
    ASSUME TypeOK, NEW r \in Runs, Sound(r), OwnsItsLists(r),
           SubmitSucceeds(r) \/ SubmitFails(r)
    PROVE  OwnsItsLists(r)'
<1>1. pc[r] = "submit" /\ UNCHANGED <<buffer, hashed, refs>>
  BY DEF SubmitSucceeds, SubmitFails
<1>2. \A k \in 1 .. NLinks : k <= Len(sent'[r]) =>
         Copied(r, k, sent'[r][k], Len(Links[k].inputs))
  <2>1. CASE Posted(r)
    BY <1>1, <2>1, SendsCopied
  <2>2. CASE sent' = sent
    BY <2>2 DEF OwnsItsLists
  <2> QED BY <2>1, <2>2 DEF SubmitSucceeds, SubmitFails
<1>3. CASE \/ SubmitSucceeds(r) /\ Link(r).wait
           \/ SubmitFails(r)
  <2>1. /\ pc'[r] \in {"list", "done"}
        /\ UNCHANGED <<at, copied, outputs>>
    BY <1>3 DEF SubmitSucceeds, SubmitFails, Goto, Return, TypeOK
  <2>2. Link(r)' = Link(r)
    BY <2>1 DEF Link
  <2> QED BY <1>1, <1>2, <2>1, <2>2 DEF OwnsItsLists, BeforeSubmission
<1>4. CASE SubmitSucceeds(r) /\ ~Link(r).wait
  <2> DEFINE answer == [id |-> Task(r), status |-> status'[Task(r)], proof |-> "none"]
  <2>1. Posted(r) /\ Advance(r, answer)
    BY <1>4 DEF SubmitSucceeds
  <2>2. status'[Task(r)] \in Status
    BY <2>1, PostedEffect
  <2>3. answer \in Row /\ answer.id = Task(r)
    BY <2>2, InHand DEF Row
  <2>4. Len(outputs[r]) = at[r] - 1
    BY <1>1 DEF Sound, KeepsCount
  <2> HIDE DEF answer
  <2> QED BY <1>1, <1>2, <2>1, <2>3, <2>4, AdvanceOwns
<1> QED BY <1>3, <1>4

(* A poll neither reads nor writes the lists.                              *)
LEMMA PollOwns ==
    ASSUME TypeOK, NEW r \in Runs, Sound(r), OwnsItsLists(r), Polls(r)
    PROVE  OwnsItsLists(r)'
<1>1. UNCHANGED <<buffer, hashed, refs, sent>> /\ pc[r] \in Polling
  BY PollEffect
<1>2. row[r].id = Task(r) /\ Len(outputs[r]) = at[r] - 1
  BY <1>1 DEF Sound, ReportsCreated, KeepsCount, Polling
<1>3. PICK last \in Row :
         /\ last.id = Task(r)
         /\ StopsAt(r, last) \/ MovesOn(r, last) \/ PollsAgain(r, last)
  BY <1>2, PollEffect
<1>4. \A k \in 1 .. NLinks : k <= Len(sent'[r]) =>
         Copied(r, k, sent'[r][k], Len(Links[k].inputs))
  BY <1>1 DEF OwnsItsLists
<1>5. CASE StopsAt(r, last)
  <2>1. PICK why \in Result \ {"none"} : StopWith(r, why, last)
    BY <1>5 DEF StopsAt, Result
  <2>2. /\ pc' = [pc EXCEPT ![r] = "done"]
        /\ outputs' = [outputs EXCEPT ![r] = Append(outputs[r], last)]
        /\ UNCHANGED <<at, copied>>
    BY <2>1, StopEffect
  <2>3. pc'[r] = "done" /\ outputs'[r] = Append(outputs[r], last)
    BY <2>2 DEF TypeOK
  <2>4. \A i \in 1 .. Len(outputs'[r]) : outputs'[r][i].id = TaskOf[r][i]
    BY <1>2, <1>3, <2>3, OutputsInOrder DEF OwnsItsLists
  <2>5. Link(r)' = Link(r)
    BY <2>2 DEF Link
  <2> QED BY <1>1, <1>4, <2>2, <2>3, <2>4, <2>5 DEF OwnsItsLists, BeforeSubmission
<1>6. CASE MovesOn(r, last)
  BY <1>1, <1>2, <1>3, <1>4, <1>6, AdvanceOwns DEF MovesOn
<1>7. CASE PollsAgain(r, last)
  <2>1. pc'[r] \in {"proofs", "sleep"} /\ UNCHANGED <<at, copied, outputs>>
    BY <1>7 DEF PollsAgain, Goto, TypeOK
  <2>2. Link(r)' = Link(r)
    BY <2>1 DEF Link
  <2> QED BY <1>1, <1>4, <2>1, <2>2 DEF OwnsItsLists, BeforeSubmission
<1> QED BY <1>3, <1>5, <1>6, <1>7

(* The execution begins with empty lists. *)
LEMMA InitOwns == Init => \A r \in Runs : OwnsItsLists(r)
<1> SUFFICES ASSUME Init, NEW r \in Runs PROVE OwnsItsLists(r)
  OBVIOUS
<1>1. /\ pc[r] = "start" /\ at[r] = 1 /\ copied[r] = 0 /\ outputs[r] = <<>>
      /\ sent[r] = <<>> /\ \A k \in 1 .. NLinks : refs[k] = <<>>
  BY DEF Init
<1>2. 1 \in 1 .. NLinks /\ Len(Links[1].inputs) \in Nat
  BY LinkFacts
<1>3. Copied(r, 1, refs[1], 0)
  BY <1>1, <1>2 DEF Copied
<1> QED BY <1>1, <1>2, <1>3 DEF OwnsItsLists, BeforeSubmission, Link

(* Every step of a lone execution keeps to its lists. *)
LEMMA NextOwns ==
    ASSUME Solo, IInv, \A r \in Runs : OwnsItsLists(r), [Next]_vars
    PROVE  \A r \in Runs : OwnsItsLists(r)'
<1> SUFFICES ASSUME NEW v \in Runs PROVE OwnsItsLists(v)'
  OBVIOUS
<1>1. CASE Server \/ UNCHANGED vars
  <2>1. UNCHANGED chainVars
    BY <1>1 DEF Server, vars
  <2> QED BY <2>1 DEF chainVars, localVars, OwnsItsLists, Link
<1>2. ASSUME NEW r \in Runs, Execute(r) \/ StepDeadline(r) \/ EngineEndsContext(r)
      PROVE  OwnsItsLists(v)'
  <2>1. v = r
    BY DEF Solo
  <2> QED BY <1>2, <2>1, LocalOwns, SubmitOwns, PollOwns DEF IInv, Execute, Polls
<1> QED BY <1>1, <1>2 DEF Next, Finished

(* A lone execution of a fresh instance keeps to its lists for good. *)
THEOREM LoneExecution == SafetySpec => [](Solo => \A r \in Runs : OwnsItsLists(r))
<1> DEFINE Own == Solo => \A r \in Runs : OwnsItsLists(r)
<1>1. Init => Own
  BY InitOwns
<1>2. IInv /\ Own /\ [Next]_vars => Own'
  BY NextOwns DEF Solo
<1> QED BY <1>1, <1>2, Inductive, PTL DEF SafetySpec

(* It submits, for every link, exactly the references its mappings copy.   *)
THEOREM LoneInputs == SafetySpec => [](Solo => SubmitsItsOwnInputs)
<1> DEFINE Own == Solo => \A r \in Runs : OwnsItsLists(r)
<1>1. IInv /\ Own => (Solo => SubmitsItsOwnInputs)
  <2> SUFFICES ASSUME IInv, \A r \in Runs : OwnsItsLists(r),
                      NEW r \in Runs, NEW k \in 1 .. Len(sent[r])
               PROVE  sent[r][k] = [i \in DOMAIN Links[k].inputs |-> Source(r, k, i)]
    BY DEF SubmitsItsOwnInputs
  <2>1. /\ sent[r] \in Seq(Seq(Tasks)) /\ at[r] \in 1 .. NLinks /\ NLinks \in Nat
        /\ Len(sent[r]) <= at[r]
    BY LinkFacts DEF IInv, TypeOK, Sound, KeepsCount
  <2>2. k \in 1 .. NLinks /\ k <= Len(sent[r])
    BY <2>1
  <2>3. Copied(r, k, sent[r][k], Len(Links[k].inputs))
    BY <2>2 DEF OwnsItsLists
  <2>4. sent[r][k] \in Seq(Tasks)
    <3> DEFINE S == Seq(Tasks)
    <3>1. sent[r] \in Seq(S)
      BY <2>1
    <3> HIDE DEF S
    <3>2. sent[r][k] \in S
      BY <3>1
    <3> QED BY <3>2 DEF S
  <2>5. Links[k].inputs \in Seq(Mapping)
    BY <2>2, LinkFacts
  <2>6. DOMAIN Links[k].inputs = 1 .. Len(Links[k].inputs)
    BY <2>5
  <2>7. sent[r][k] = [i \in 1 .. Len(sent[r][k]) |-> sent[r][k][i]]
    BY <2>4
  <2> QED BY <2>3, <2>6, <2>7 DEF Copied
<1> QED BY <1>1, Inductive, LoneExecution, PTL

-----------------------------------------------------------------------------
(* Executions of one instance that follow one another read each other's    *)
(* references (chain_reuse), but what they sign is what they send.         *)

(* The workload is hashed just before it is sent.                          *)
LEMMA HashedBeforeSent ==
    ASSUME TypeOK, NEW r \in Runs,
           Execute(r) \/ StepDeadline(r) \/ EngineEndsContext(r), pc'[r] = "submit"
    PROVE  /\ UNCHANGED <<at, refs>>
           /\ \/ pc[r] = "submit" /\ UNCHANGED hashed
              \/ pc[r] = "build" /\ hashed'[r] = refs[at[r]]
<1>1. \A label : Goto(r, label) => pc'[r] = label
  BY DEF Goto, TypeOK
<1>2. \A why : Return(r, why) => pc'[r] = "done"
  BY DEF Return, TypeOK
<1>3. CASE BuildTask(r)
  BY <1>3 DEF BuildTask, TypeOK
<1>4. CASE StepDeadline(r) \/ EngineEndsContext(r)
  BY <1>4 DEF StepDeadline, EngineEndsContext
<1>5. CASE Begin(r) \/ CopyInput(r) \/ AssignRefs(r) \/ CheckWorkload(r) \/ PollTimerFires(r)
           \/ SubmitFails(r)
  BY <1>1, <1>2, <1>5 DEF Begin, CopyInput, AssignRefs, CheckWorkload, PollTimerFires, SubmitFails
<1>6. ASSUME NEW last \in Row, Advance(r, last) PROVE FALSE
  <2>1. pc' = [pc EXCEPT ![r] = "done"] \/ pc' = [pc EXCEPT ![r] = "map"]
    BY <1>6, AdvanceEffect
  <2> QED BY <2>1 DEF TypeOK
<1>7. CASE SubmitSucceeds(r)
  <2> DEFINE answer == [id |-> Task(r), status |-> status'[Task(r)], proof |-> "none"]
  <2>1. answer \in Row
    BY <1>7, InHand, PostedEffect DEF SubmitSucceeds, Row
  <2>2. Advance(r, answer) \/ Goto(r, "list")
    BY <1>7 DEF SubmitSucceeds
  <2> HIDE DEF answer
  <2> QED BY <1>1, <1>6, <2>1, <2>2
<1>8. CASE Polls(r)
  <2>1. PICK last \in Row : StopsAt(r, last) \/ MovesOn(r, last) \/ PollsAgain(r, last)
    BY <1>8, PollEffect
  <2>2. CASE StopsAt(r, last)
    BY <1>2, <2>2 DEF StopsAt, StopWith
  <2>3. CASE MovesOn(r, last)
    BY <1>6, <2>3 DEF MovesOn
  <2>4. CASE PollsAgain(r, last)
    BY <1>1, <2>4 DEF PollsAgain
  <2> QED BY <2>1, <2>2, <2>3, <2>4
<1> QED BY <1>3, <1>4, <1>5, <1>7, <1>8 DEF Execute, Polls

(* Nobody else is at work between the hash and the submission.             *)
LEMMA NextSigned ==
    TypeOK /\ OneAtATime /\ SignedAsListed /\ [Next]_vars => SignedAsListed'
<1> SUFFICES ASSUME TypeOK, OneAtATime, SignedAsListed, [Next]_vars,
                    NEW r \in Runs, pc'[r] = "submit"
             PROVE  hashed'[r] = refs'[at'[r]]
  BY DEF SignedAsListed
<1>1. CASE Server \/ UNCHANGED vars
  BY <1>1 DEF Server, vars, chainVars, localVars, SignedAsListed
<1>2. ASSUME NEW v \in Runs, Execute(v) \/ StepDeadline(v) \/ EngineEndsContext(v)
      PROVE  hashed'[r] = refs'[at'[r]]
  <2>1. CASE v = r
    BY <1>2, <2>1, HashedBeforeSent DEF SignedAsListed
  <2>2. CASE v # r
    <3>1. pc[r] = "submit" /\ at'[r] = at[r]
      BY <1>2, <2>2, OthersUntouched
    <3>2. pc[v] \in {"start", "done"}
      BY <2>2, <3>1 DEF OneAtATime, Busy
    <3>3. Begin(v) \/ EngineEndsContext(v)
      BY <1>2, <3>2 DEF Execute, CopyInput, AssignRefs, CheckWorkload, BuildTask, SubmitSucceeds,
                        SubmitFails, SnapshotArrives, ProofsArrive, RequestFails, PollTimerFires,
                        SeesContextDone, StepDeadline, Working
    <3>4. UNCHANGED <<hashed, refs>>
      BY <3>3 DEF Begin, EngineEndsContext
    <3> QED BY <3>1, <3>4 DEF SignedAsListed
  <2> QED BY <2>1, <2>2
<1> QED BY <1>1, <1>2 DEF Next, Finished

(* When SubmitTask sends a link's input artifacts, they are the list the   *)
(* signed workload was hashed with: for every number of executions of one  *)
(* instance, fresh or not, as long as they do not overlap.                 *)
THEOREM SerialSignature == SafetySpec /\ []OneAtATime => SignsWhatItSends
<1> DEFINE Signs == \A r \in Runs : sent'[r] # sent[r] => sent'[r][Len(sent'[r])] = hashed[r]
<1>1. Init => SignedAsListed
  BY DEF Init, SignedAsListed
<1>2. IInv /\ OneAtATime /\ SignedAsListed /\ [Next]_vars => SignedAsListed'
  BY NextSigned DEF IInv
<1>3. IInv /\ SignedAsListed /\ [Next]_vars => [Signs]_vars
  <2> SUFFICES ASSUME IInv, SignedAsListed, Next, NEW r \in Runs, sent'[r] # sent[r]
               PROVE  sent'[r][Len(sent'[r])] = hashed[r]
    OBVIOUS
  <2>1. \E v \in Runs : Execute(v) \/ StepDeadline(v) \/ EngineEndsContext(v)
    BY DEF Next, Server, Finished, vars, chainVars
  <2>2. Execute(r) \/ StepDeadline(r) \/ EngineEndsContext(r)
    BY <2>1, OthersUntouched DEF IInv
  <2>3. Posted(r) /\ pc[r] = "submit"
    BY <2>2 DEF Execute, Begin, CopyInput, AssignRefs, CheckWorkload, BuildTask, SubmitSucceeds,
                SubmitFails, SnapshotArrives, ProofsArrive, RequestFails, PollTimerFires,
                SeesContextDone, StepDeadline, EngineEndsContext
  <2>4. hashed[r] = refs[at[r]]
    BY <2>3 DEF SignedAsListed
  <2>5. /\ sent' = [sent EXCEPT ![r] = Append(sent[r], refs[at[r]])]
        /\ sent[r] \in Seq(Seq(Tasks)) /\ refs[at[r]] \in Seq(Tasks)
    BY <2>3, PostedEffect, InHand DEF IInv, TypeOK
  <2>6. sent'[r] = Append(sent[r], refs[at[r]])
    BY <2>5 DEF IInv, TypeOK
  <2>7. sent'[r][Len(sent'[r])] = refs[at[r]]
    BY <2>5, <2>6
  <2> QED BY <2>4, <2>7
<1> QED BY <1>1, <1>2, <1>3, Inductive, PTL DEF SafetySpec, SignsWhatItSends

-----------------------------------------------------------------------------
(* However the executions of one instance are interleaved. *)

(* Outside the submission of a task and its polling a step neither sends   *)
(* nor puts anything out.                                                  *)
LEMMA LocalEffect ==
    ASSUME TypeOK, NEW r \in Runs,
           \/ Begin(r) \/ CopyInput(r) \/ AssignRefs(r) \/ CheckWorkload(r) \/ BuildTask(r)
           \/ PollTimerFires(r) \/ StepDeadline(r) \/ EngineEndsContext(r)
    PROVE  /\ UNCHANGED <<at, outputs, sent>>
           /\ Link(r)' = Link(r)
           /\ \/ pc'[r] = pc[r] /\ UNCHANGED <<copied, refs, buffer, hashed>>
              \/ pc[r] = "start" /\ pc'[r] = "map" /\ UNCHANGED <<copied, refs, buffer>>
              \/ pc'[r] \in {"done", "list"} /\ UNCHANGED <<copied, refs, buffer>>
              \/ CopyInput(r) /\ pc'[r] = "append"
              \/ AssignRefs(r)
              \/ /\ pc[r] = "map" /\ copied[r] = Len(Link(r).inputs) /\ pc'[r] = "build"
                 /\ UNCHANGED <<copied, refs, buffer>>
              \/ /\ pc[r] = "build" /\ pc'[r] = "submit" /\ hashed'[r] = refs[at[r]]
                 /\ UNCHANGED <<copied, refs, buffer>>
<1>1. CASE \/ Begin(r) \/ CheckWorkload(r) \/ BuildTask(r)
           \/ PollTimerFires(r) \/ StepDeadline(r) \/ EngineEndsContext(r)
  BY <1>1 DEF Begin, CheckWorkload, BuildTask, PollTimerFires, StepDeadline,
              EngineEndsContext, Goto, Return, TypeOK, Link
<1>2. CASE AssignRefs(r)
  BY <1>2 DEF AssignRefs, Link
<1>3. CASE CopyInput(r)
  BY <1>3 DEF CopyInput, Goto, Return, TypeOK, Link
<1> QED BY <1>1, <1>2, <1>3

(* What is left of a step when the row of the link in hand is put out.     *)
LEMMA AdvanceLabels ==
    ASSUME TypeOK, NEW r \in Runs, NEW last \in Row, Advance(r, last)
    PROVE  /\ outputs'[r] = Append(outputs[r], last)
           /\ \/ pc'[r] = "done" /\ at'[r] = at[r] /\ copied'[r] = copied[r]
              \/ /\ pc'[r] = "map" /\ at'[r] = at[r] + 1 /\ at[r] + 1 \in 1 .. NLinks
                 /\ copied'[r] = 0
<1>1. /\ outputs' = [outputs EXCEPT ![r] = Append(outputs[r], last)]
      /\ \/ pc' = [pc EXCEPT ![r] = "done"] /\ UNCHANGED <<at, copied>>
         \/ /\ at[r] \in 1 .. NLinks - 1
            /\ pc' = [pc EXCEPT ![r] = "map"]
            /\ at' = [at EXCEPT ![r] = at[r] + 1]
            /\ copied' = [copied EXCEPT ![r] = 0]
  BY AdvanceEffect
<1>2. at[r] \in 1 .. NLinks /\ NLinks \in Nat
  BY LinkFacts DEF TypeOK
<1> QED BY <1>1, <1>2 DEF TypeOK

(* A submission or a poll leaves the configured lists alone, and ends the  *)
(* work on the link in hand, fails, or goes on with it.                    *)
LEMMA RemoteEffect ==
    ASSUME TypeOK, NEW r \in Runs, Sound(r),
           SubmitSucceeds(r) \/ SubmitFails(r) \/ Polls(r)
    PROVE  /\ UNCHANGED <<refs, buffer, hashed>>
           /\ pc[r] \notin {"start", "append", "done"}
           /\ \/ sent' = sent
              \/ pc[r] = "submit" /\ Posted(r)
           /\ \/ pc'[r] \in {"done", "list", "proofs", "sleep"} /\ at'[r] = at[r] /\ copied'[r] = copied[r]
              \/ /\ pc'[r] = "map" /\ at'[r] = at[r] + 1 /\ at[r] + 1 \in 1 .. NLinks
                 /\ copied'[r] = 0
           /\ \/ outputs'[r] = outputs[r]
              \/ /\ Len(outputs[r]) = at[r] - 1
                 /\ \E last \in Row : last.id = Task(r) /\ outputs'[r] = Append(outputs[r], last)
<1>1. CASE SubmitFails(r)
  BY <1>1 DEF SubmitFails, Return, TypeOK
<1>2. CASE SubmitSucceeds(r)
  <2> DEFINE answer == [id |-> Task(r), status |-> status'[Task(r)], proof |-> "none"]
  <2>1. /\ pc[r] = "submit" /\ Posted(r) /\ UNCHANGED <<refs, buffer, hashed>>
        /\ Len(outputs[r]) = at[r] - 1
    BY <1>2 DEF SubmitSucceeds, Sound, KeepsCount, BeforeSubmission
  <2>2. answer \in Row /\ answer.id = Task(r)
    BY <2>1, InHand, PostedEffect DEF Row
  <2>3. CASE Link(r).wait
    BY <1>2, <2>1, <2>3 DEF SubmitSucceeds, Goto, TypeOK
  <2>4. CASE ~Link(r).wait
    <3>1. Advance(r, answer)
      BY <1>2, <2>4 DEF SubmitSucceeds
    <3> HIDE DEF answer
    <3> QED BY <2>1, <2>2, <3>1, AdvanceLabels
  <2> QED BY <2>3, <2>4
<1>3. CASE Polls(r)
  <2>1. UNCHANGED <<buffer, hashed, refs, sent>> /\ pc[r] \in Polling
    BY <1>3, PollEffect
  <2>2. row[r].id = Task(r) /\ Len(outputs[r]) = at[r] - 1
    BY <2>1 DEF Sound, ReportsCreated, KeepsCount, Polling
  <2>3. PICK last \in Row :
           /\ last.id = Task(r)
           /\ StopsAt(r, last) \/ MovesOn(r, last) \/ PollsAgain(r, last)
    BY <1>3, <2>2, PollEffect
  <2>4. CASE StopsAt(r, last)
    <3>1. /\ pc'[r] = "done" /\ outputs'[r] = Append(outputs[r], last)
          /\ UNCHANGED <<at, copied>>
      BY <2>4 DEF StopsAt, StopWith, Return, TypeOK
    <3> QED BY <2>1, <2>2, <2>3, <3>1 DEF Polling
  <2>5. CASE MovesOn(r, last)
    <3>1. Advance(r, last)
      BY <2>5 DEF MovesOn
    <3> QED BY <2>1, <2>2, <2>3, <3>1, AdvanceLabels DEF Polling
  <2>6. CASE PollsAgain(r, last)
    <3>1. pc'[r] \in {"proofs", "sleep"} /\ UNCHANGED <<at, copied, outputs>>
      BY <2>6 DEF PollsAgain, Goto, TypeOK
    <3> QED BY <2>1, <3>1 DEF Polling
  <2> QED BY <2>3, <2>4, <2>5, <2>6
<1> QED BY <1>1, <1>2, <1>3

(* The outputs and the mappings of an execution stay in order.             *)
LEMMA StepOrder ==
    ASSUME TypeOK, NEW r \in Runs, Sound(r), KeepsOrder(r),
           Execute(r) \/ StepDeadline(r) \/ EngineEndsContext(r)
    PROVE  KeepsOrder(r)'
<1>1. /\ at[r] \in 1 .. NLinks /\ NLinks \in Nat /\ copied[r] \in Nat
      /\ Len(Link(r).inputs) \in Nat
  BY InHand, LinkFacts DEF TypeOK
<1>2. CASE \/ Begin(r) \/ CopyInput(r) \/ AssignRefs(r) \/ CheckWorkload(r) \/ BuildTask(r)
           \/ PollTimerFires(r) \/ StepDeadline(r) \/ EngineEndsContext(r)
  <2>1. CopyInput(r) => copied' = copied /\ copied[r] < Len(Link(r).inputs)
    BY DEF CopyInput
  <2>2. AssignRefs(r) => copied'[r] = copied[r] + 1 /\ pc[r] = "append" /\ pc'[r] = "map"
    BY DEF AssignRefs, Goto, TypeOK
  <2> QED BY <1>1, <1>2, <2>1, <2>2, LocalEffect DEF KeepsOrder
<1>3. CASE SubmitSucceeds(r) \/ SubmitFails(r) \/ Polls(r)
  <2>1. \A i \in 1 .. Len(outputs'[r]) : outputs'[r][i].id = TaskOf[r][i]
    <3>1. CASE outputs'[r] = outputs[r]
      BY <3>1 DEF KeepsOrder
    <3>2. CASE /\ Len(outputs[r]) = at[r] - 1
               /\ \E last \in Row : last.id = Task(r) /\ outputs'[r] = Append(outputs[r], last)
      BY <3>2, OutputsInOrder DEF KeepsOrder
    <3> QED BY <1>3, <3>1, <3>2, RemoteEffect
  <2>2. \/ pc'[r] \in {"done", "list", "proofs", "sleep"} /\ at'[r] = at[r] /\ copied'[r] = copied[r]
        \/ /\ pc'[r] = "map" /\ at'[r] = at[r] + 1 /\ at[r] + 1 \in 1 .. NLinks
           /\ copied'[r] = 0
    BY <1>3, RemoteEffect
  <2>3. copied'[r] <= Len(Links[at'[r]].inputs)
    BY <1>1, <2>2, LinkFacts DEF KeepsOrder, Link
  <2> QED BY <2>1, <2>2, <2>3 DEF KeepsOrder, Link
<1> QED BY <1>2, <1>3 DEF Execute, Polls

LEMMA InitOrder == Init => \A r \in Runs : KeepsOrder(r)
BY LinkFacts DEF Init, KeepsOrder, Link

(* They do so in every execution, whatever the others do.                  *)
THEOREM InOrder == SafetySpec => [](\A r \in Runs : KeepsOrder(r))
<1> DEFINE Ordered == \A r \in Runs : KeepsOrder(r)
<1>1. Init => Ordered
  BY InitOrder
<1>2. IInv /\ Ordered /\ [Next]_vars => Ordered'
  <2> SUFFICES ASSUME IInv, Ordered, [Next]_vars, NEW v \in Runs PROVE KeepsOrder(v)'
    OBVIOUS
  <2>1. CASE Server \/ UNCHANGED vars
    BY <2>1 DEF Server, vars, chainVars, localVars, KeepsOrder, Link
  <2>2. ASSUME NEW r \in Runs, Execute(r) \/ StepDeadline(r) \/ EngineEndsContext(r)
        PROVE  KeepsOrder(v)'
    <3>1. CASE v = r
      BY <2>2, <3>1, StepOrder DEF IInv
    <3>2. CASE v # r
      BY <2>2, <3>2, OthersUntouched DEF IInv, KeepsOrder, Link
    <3> QED BY <3>1, <3>2
  <2> QED BY <2>1, <2>2 DEF Next, Finished
<1> QED BY <1>1, <1>2, Inductive, PTL DEF SafetySpec

(* A list that gets another reference of link k still holds only those.    *)
LEMMA AppendOnlyCopied ==
    ASSUME NEW k, NEW list \in Seq(Tasks), OnlyCopied(k, list),
           NEW q \in Runs, NEW i \in DOMAIN Links[k].inputs, Source(q, k, i) \in Tasks
    PROVE  OnlyCopied(k, Append(list, Source(q, k, i)))
<1>1. \A j \in 1 .. Len(list) + 1 : j \in 1 .. Len(list) \/ j = Len(list) + 1
  OBVIOUS
<1>2. /\ Len(Append(list, Source(q, k, i))) = Len(list) + 1
      /\ Append(list, Source(q, k, i))[Len(list) + 1] = Source(q, k, i)
      /\ \A j \in 1 .. Len(list) : Append(list, Source(q, k, i))[j] = list[j]
  OBVIOUS
<1> QED BY <1>1, <1>2 DEF OnlyCopied

(* What a mapping copies is the output of the link that it names.          *)
LEMMA CopiesSource ==
    ASSUME TypeOK, NEW r \in Runs, Sound(r), KeepsOrder(r), CopyInput(r), pc'[r] = "append"
    PROVE  /\ copied[r] + 1 \in 1 .. Len(Link(r).inputs)
           /\ DOMAIN Link(r).inputs = 1 .. Len(Link(r).inputs)
           /\ Source(r, at[r], copied[r] + 1) \in Tasks
           /\ buffer' = [buffer EXCEPT ![r] =
                            Append(refs[at[r]], Source(r, at[r], copied[r] + 1))]
           /\ UNCHANGED <<at, copied, refs>>
<1> DEFINE k == Link(r).inputs[copied[r] + 1].step
<1>1. copied[r] + 1 \in 1 .. Len(Link(r).inputs) /\ Len(outputs[r]) = at[r] - 1
  BY InHand DEF CopyInput, Sound, KeepsCount, BeforeSubmission, TypeOK
<1>2. k \in 1 .. at[r] - 1 /\ at[r] \in 1 .. NLinks /\ NLinks \in Nat
  BY <1>1, InHand, LinkFacts
<1>3. outputs[r][k].id = TaskOf[r][k] /\ TaskOf[r][k] \in Tasks
  <2>1. k \in 1 .. Len(outputs[r]) /\ k \in 1 .. NLinks
    BY <1>1, <1>2
  <2>2. \A i \in 1 .. Len(outputs[r]) : outputs[r][i].id = TaskOf[r][i]
    BY DEF KeepsOrder
  <2>3. \A i \in 1 .. NLinks : TaskOf[r][i] \in Tasks
    BY InHand
  <2> HIDE DEF k
  <2> QED BY <2>1, <2>2, <2>3
<1>4. TaskOf[r][k] = Source(r, at[r], copied[r] + 1)
  BY DEF Link, Source
<1>5. /\ buffer' = [buffer EXCEPT ![r] = Append(refs[at[r]], outputs[r][k].id)]
      /\ UNCHANGED <<at, copied, refs>>
  BY DEF CopyInput, Return, TypeOK
<1>6. DOMAIN Link(r).inputs = 1 .. Len(Link(r).inputs)
  BY InHand
<1> HIDE DEF k
<1> QED BY <1>1, <1>3, <1>4, <1>5, <1>6

(* No step brings a reference into a list but by a mapping of its link.    *)
LEMMA NextOnlyCopies ==
    ASSUME IInv, \A r \in Runs : KeepsOrder(r), HoldsOnlyCopies, [Next]_vars
    PROVE  HoldsOnlyCopies'
<1>1. CASE Server \/ UNCHANGED vars
  BY <1>1 DEF Server, vars, chainVars, localVars, HoldsOnlyCopies, OnlyCopied
<1>2. ASSUME NEW r \in Runs, Execute(r) \/ StepDeadline(r) \/ EngineEndsContext(r)
      PROVE  HoldsOnlyCopies'
  <2>1. /\ TypeOK /\ Sound(r) /\ KeepsOrder(r)
        /\ at[r] \in 1 .. NLinks /\ NLinks \in Nat
        /\ refs[at[r]] \in Seq(Tasks) /\ sent[r] \in Seq(Seq(Tasks))
    BY LinkFacts DEF IInv, TypeOK
  <2>2. \A v \in Runs \ {r} : /\ pc'[v] = pc[v] /\ at'[v] = at[v]
                              /\ buffer'[v] = buffer[v] /\ sent'[v] = sent[v]
    BY <1>2, <2>1, OthersUntouched
  <2>3. \A k \in 1 .. NLinks : OnlyCopied(k, refs'[k])
    <3>1. CASE refs' = refs
      BY <3>1 DEF HoldsOnlyCopies
    <3>2. CASE AssignRefs(r)
      <4>1. pc[r] = "append" /\ refs' = [refs EXCEPT ![at[r]] = buffer[r]]
        BY <3>2 DEF AssignRefs
      <4>2. \A k \in 1 .. NLinks : refs'[k] = IF k = at[r] THEN buffer[r] ELSE refs[k]
        BY <2>1, <4>1 DEF TypeOK
      <4> QED BY <4>1, <4>2 DEF HoldsOnlyCopies
    <3>3. refs' = refs \/ AssignRefs(r)
      BY <1>2, <2>1, RemoteEffect
         DEF Execute, Polls, Begin, CopyInput, CheckWorkload, BuildTask, PollTimerFires,
             StepDeadline, EngineEndsContext
    <3> QED BY <3>1, <3>2, <3>3
  <2>4. pc'[r] = "append" => OnlyCopied(at'[r], buffer'[r])
    <3> SUFFICES ASSUME pc'[r] = "append" PROVE OnlyCopied(at'[r], buffer'[r])
      OBVIOUS
    <3>1. CASE CopyInput(r)
      <4>1. /\ copied[r] + 1 \in DOMAIN Link(r).inputs
            /\ Source(r, at[r], copied[r] + 1) \in Tasks
            /\ at' = at
            /\ buffer'[r] = Append(refs[at[r]], Source(r, at[r], copied[r] + 1))
        BY <2>1, <3>1, CopiesSource DEF TypeOK
      <4>2. OnlyCopied(at[r], refs[at[r]])
        BY <2>1 DEF HoldsOnlyCopies
      <4> QED BY <2>1, <4>1, <4>2, AppendOnlyCopied DEF Link
    <3>2. CASE pc[r] = "append" /\ UNCHANGED <<at, buffer>>
      BY <3>2 DEF HoldsOnlyCopies
    <3>3. \/ CopyInput(r)
          \/ pc[r] = "append" /\ UNCHANGED <<at, buffer>>
      <4>1. CASE SubmitSucceeds(r) \/ SubmitFails(r) \/ Polls(r)
        BY <2>1, <4>1, RemoteEffect
      <4>2. CASE AssignRefs(r)
        BY <2>1, <4>2 DEF AssignRefs, Goto, TypeOK
      <4>3. CASE \/ Begin(r) \/ CopyInput(r) \/ CheckWorkload(r) \/ BuildTask(r)
                 \/ PollTimerFires(r) \/ StepDeadline(r) \/ EngineEndsContext(r)
        BY <2>1, <4>3
           DEF Begin, CopyInput, CheckWorkload, BuildTask, PollTimerFires, StepDeadline,
               EngineEndsContext, Goto, Return, TypeOK
      <4> QED BY <1>2, <4>1, <4>2, <4>3 DEF Execute, Polls
    <3> QED BY <3>1, <3>2, <3>3
  <2>5. \A k \in 1 .. Len(sent'[r]) : OnlyCopied(k, sent'[r][k])
    <3>1. CASE sent' = sent
      BY <3>1 DEF HoldsOnlyCopies
    <3>2. CASE pc[r] = "submit" /\ Posted(r)
      <4>1. Len(sent[r]) = at[r] - 1
        BY <3>2 DEF IInv, Sound, KeepsCount, BeforeSubmission
      <4>2. sent'[r] = Append(sent[r], refs[at[r]])
        BY <2>1, <3>2, PostedEffect DEF TypeOK
      <4>3. /\ Len(sent'[r]) = at[r]
            /\ sent'[r][at[r]] = refs[at[r]]
            /\ \A k \in 1 .. at[r] - 1 : sent'[r][k] = sent[r][k]
        BY <2>1, <4>1, <4>2
      <4>4. \A k \in 1 .. at[r] : k \in 1 .. at[r] - 1 \/ k = at[r]
        BY <2>1
      <4> QED BY <2>1, <4>1, <4>3, <4>4 DEF HoldsOnlyCopies
    <3>3. \/ sent' = sent
          \/ pc[r] = "submit" /\ Posted(r)
      BY <1>2, <2>1, RemoteEffect, LocalEffect DEF Execute, Polls
    <3> QED BY <3>1, <3>2, <3>3
  <2>6. ASSUME NEW v \in Runs
        PROVE  /\ pc'[v] = "append" => OnlyCopied(at'[v], buffer'[v])
               /\ \A k \in 1 .. Len(sent'[v]) : OnlyCopied(k, sent'[v][k])
    <3>1. CASE v = r
      BY <2>4, <2>5, <3>1
    <3>2. CASE v # r
      BY <2>2, <3>2 DEF HoldsOnlyCopies
    <3> QED BY <3>1, <3>2
  <2> QED BY <2>3, <2>6 DEF HoldsOnlyCopies, OnlyCopied
<1> QED BY <1>1, <1>2 DEF Next, Finished

(* However executions of one instance are interleaved, every reference     *)
(* sent for a link is one that a mapping of that link has copied.          *)
THEOREM OnlyCopies == SafetySpec => []SendsOnlyCopies
<1> DEFINE Ordered == \A r \in Runs : KeepsOrder(r)
<1>1. Init => HoldsOnlyCopies
  BY DEF Init, HoldsOnlyCopies, OnlyCopied
<1>2. IInv /\ Ordered /\ HoldsOnlyCopies /\ [Next]_vars => HoldsOnlyCopies'
  BY NextOnlyCopies
<1>3. IInv /\ HoldsOnlyCopies => SendsOnlyCopies
  <2> SUFFICES ASSUME IInv, HoldsOnlyCopies,
                      NEW r \in Runs, NEW k \in 1 .. Len(sent[r]), NEW j \in DOMAIN sent[r][k]
               PROVE  \E q \in Runs, i \in DOMAIN Links[k].inputs : sent[r][k][j] = Source(q, k, i)
    BY DEF SendsOnlyCopies
  <2>1. sent[r][k] \in Seq(Tasks)
    <3> DEFINE S == Seq(Tasks)
    <3>1. sent[r] \in Seq(S)
      BY DEF IInv, TypeOK
    <3> HIDE DEF S
    <3>2. sent[r][k] \in S
      BY <3>1
    <3> QED BY <3>2 DEF S
  <2>2. j \in 1 .. Len(sent[r][k])
    BY <2>1
  <2> QED BY <2>2 DEF HoldsOnlyCopies, OnlyCopied
<1> QED BY <1>1, <1>2, <1>3, Inductive, InOrder, PTL DEF SafetySpec

(* Having appended to a list is for good.                                  *)
LEMMA MappedForGood ==
    ASSUME IInv, NEW r \in Runs, KeepsOrder(r),
           Execute(r) \/ StepDeadline(r) \/ EngineEndsContext(r),
           NEW k \in 1 .. NLinks, HasMapped(r, k)
    PROVE  HasMapped(r, k)'
<1>1. /\ TypeOK /\ Sound(r) /\ NLinks \in Nat
      /\ at[r] \in 1 .. NLinks /\ copied[r] \in Nat /\ copied[r] <= Len(Link(r).inputs)
  BY LinkFacts DEF IInv, TypeOK, KeepsOrder
<1>2. \/ at'[r] = at[r] /\ (copied'[r] = copied[r] \/ copied'[r] = copied[r] + 1)
      \/ at'[r] = at[r] + 1
  <2>1. CASE SubmitSucceeds(r) \/ SubmitFails(r) \/ Polls(r)
    BY <1>1, <2>1, RemoteEffect
  <2>2. CASE AssignRefs(r)
    BY <1>1, <2>2 DEF AssignRefs, TypeOK
  <2>3. CASE \/ Begin(r) \/ CopyInput(r) \/ CheckWorkload(r) \/ BuildTask(r)
             \/ PollTimerFires(r) \/ StepDeadline(r) \/ EngineEndsContext(r)
    BY <2>3 DEF Begin, CopyInput, CheckWorkload, BuildTask, PollTimerFires,
                StepDeadline, EngineEndsContext
  <2> QED BY <2>1, <2>2, <2>3 DEF Execute, Polls
<1>3. at[r] = k /\ copied[r] > 0 => Links[k].inputs # <<>>
  BY <1>1 DEF Link
<1> QED BY <1>1, <1>2, <1>3 DEF HasMapped

(* Between hash and submission only an append of another execution can     *)
(* have changed the list.                                                  *)
LEMMA NextUnlessShared ==
    ASSUME IInv, \A r \in Runs : KeepsOrder(r), ListedAsSignedUnlessShared, [Next]_vars
    PROVE  ListedAsSignedUnlessShared'
<1> SUFFICES ASSUME NEW r \in Runs, NEW k, k = at'[r], pc'[r] = "submit",
                    hashed'[r] # refs'[k]
             PROVE  \E q \in Runs \ {r} : HasMapped(q, k)'
  BY DEF ListedAsSignedUnlessShared, HasMapped
<1>1. CASE Server \/ UNCHANGED vars
  BY <1>1 DEF Server, vars, chainVars, localVars, ListedAsSignedUnlessShared, HasMapped
<1>2. ASSUME NEW v \in Runs, Execute(v) \/ StepDeadline(v) \/ EngineEndsContext(v)
      PROVE  \E q \in Runs \ {r} : HasMapped(q, k)'
  <2>1. TypeOK /\ Sound(v) /\ at[r] \in 1 .. NLinks /\ at[v] \in 1 .. NLinks
    BY DEF IInv, TypeOK
  <2>2. \A q \in Runs \ {v} : /\ pc'[q] = pc[q] /\ at'[q] = at[q]
                              /\ copied'[q] = copied[q] /\ hashed'[q] = hashed[q]
    BY <1>2, <2>1, OthersUntouched
  <2>3. ASSUME k \in 1 .. NLinks, NEW q \in Runs, HasMapped(q, k)
        PROVE  HasMapped(q, k)'
    <3>1. CASE q = v
      BY <1>2, <2>3, <3>1, MappedForGood
    <3>2. CASE q # v
      BY <2>2, <2>3, <3>2 DEF HasMapped
    <3> QED BY <3>1, <3>2
  <2>4. CASE v = r
    <3>1. UNCHANGED <<at, refs>> /\ pc[r] = "submit" /\ UNCHANGED hashed
      BY <1>2, <2>1, <2>4, HashedBeforeSent
    <3> QED BY <2>1, <2>3, <3>1 DEF ListedAsSignedUnlessShared
  <2>5. CASE v # r
    <3>1. pc[r] = "submit" /\ at[r] = k /\ hashed'[r] = hashed[r]
      BY <2>2, <2>5
    <3>2. CASE refs'[k] = refs[k]
      BY <2>1, <2>3, <3>1, <3>2 DEF ListedAsSignedUnlessShared
    <3>3. CASE AssignRefs(v) /\ at[v] = k
      <4>1. at'[v] = k /\ copied'[v] > 0
        BY <2>1, <3>3 DEF AssignRefs, TypeOK
      <4> QED BY <2>5, <4>1 DEF HasMapped
    <3>4. CASE AssignRefs(v) /\ at[v] # k
      <4>1. refs'[k] = refs[k]
        BY <2>1, <3>1, <3>4 DEF AssignRefs, TypeOK
      <4> QED BY <3>2, <4>1
    <3>5. refs' = refs \/ AssignRefs(v)
      BY <1>2, <2>1, RemoteEffect
         DEF Execute, Polls, Begin, CopyInput, CheckWorkload, BuildTask, PollTimerFires,
             StepDeadline, EngineEndsContext
    <3> QED BY <3>2, <3>3, <3>4, <3>5
  <2> QED BY <2>4, <2>5
<1> QED BY <1>1, <1>2 DEF Next, Finished

(* However executions of one instance are interleaved, what is sent for a  *)
(* link is what was signed, unless another execution has appended to the   *)
(* list of that very link.                                                 *)
THEOREM SignedUnlessShared == SafetySpec => SignsUnlessShared
<1> DEFINE Ordered == \A r \in Runs : KeepsOrder(r)
           Signs == \A r \in Runs :
                       LET k == Len(sent'[r])
                       IN  sent'[r] # sent[r] /\ sent'[r][k] # hashed[r] =>
                              \E q \in Runs \ {r} : HasMapped(q, k)
<1>1. Init => ListedAsSignedUnlessShared
  BY DEF Init, ListedAsSignedUnlessShared
<1>2. IInv /\ Ordered /\ ListedAsSignedUnlessShared /\ [Next]_vars
         => ListedAsSignedUnlessShared'
  BY NextUnlessShared
<1>3. IInv /\ ListedAsSignedUnlessShared /\ [Next]_vars => [Signs]_vars
  <2> SUFFICES ASSUME IInv, ListedAsSignedUnlessShared, Next,
                      NEW r \in Runs, sent'[r] # sent[r],
                      sent'[r][Len(sent'[r])] # hashed[r]
               PROVE  \E q \in Runs \ {r} : HasMapped(q, Len(sent'[r]))
    OBVIOUS
  <2>1. \E v \in Runs : Execute(v) \/ StepDeadline(v) \/ EngineEndsContext(v)
    BY DEF Next, Server, Finished, vars, chainVars
  <2>2. Execute(r) \/ StepDeadline(r) \/ EngineEndsContext(r)
    BY <2>1, OthersUntouched DEF IInv
  <2>3. Posted(r) /\ pc[r] = "submit"
    BY <2>2 DEF Execute, Begin, CopyInput, AssignRefs, CheckWorkload, BuildTask, SubmitSucceeds,
                SubmitFails, SnapshotArrives, ProofsArrive, RequestFails, PollTimerFires,
                SeesContextDone, StepDeadline, EngineEndsContext
  <2>4. /\ sent' = [sent EXCEPT ![r] = Append(sent[r], refs[at[r]])]
        /\ sent[r] \in Seq(Seq(Tasks)) /\ refs[at[r]] \in Seq(Tasks)
        /\ Len(sent[r]) = at[r] - 1 /\ at[r] \in 1 .. NLinks /\ NLinks \in Nat
    BY <2>3, PostedEffect, InHand, LinkFacts
       DEF IInv, TypeOK, Sound, KeepsCount, BeforeSubmission
  <2>5. sent'[r] = Append(sent[r], refs[at[r]])
    BY <2>4 DEF IInv, TypeOK
  <2>6. Len(sent'[r]) = at[r] /\ sent'[r][at[r]] = refs[at[r]]
    BY <2>4, <2>5
  <2> QED BY <2>3, <2>6 DEF ListedAsSignedUnlessShared
<1> QED BY <1>1, <1>2, <1>3, Inductive, InOrder, PTL DEF SafetySpec, SignsUnlessShared

-----------------------------------------------------------------------------
(* Executions of one instance that do not overlap: each adds what it has   *)
(* copied itself to the end of the lists.                                  *)

(* Appending what a mapping copies extends the end by one reference.       *)
LEMMA EndsWithNext ==
    ASSUME NEW r, NEW k, NEW list \in Seq(Tasks), NEW n \in Nat,
           EndsWithCopied(r, k, list, n), Source(r, k, n + 1) \in Tasks
    PROVE  EndsWithCopied(r, k, Append(list, Source(r, k, n + 1)), n + 1)
<1> DEFINE t == Source(r, k, n + 1)
           longer == Append(list, t)
<1>1. /\ Len(longer) = Len(list) + 1 /\ Len(list) \in Nat
      /\ longer[Len(list) + 1] = t
      /\ \A i \in 1 .. Len(list) : longer[i] = list[i]
  OBVIOUS
<1>2. Len(list) >= n /\ \A i \in 1 .. n : list[Len(list) - n + i] = Source(r, k, i)
  BY DEF EndsWithCopied
<1> HIDE DEF longer
<1>3. ASSUME NEW i \in 1 .. n + 1
      PROVE  longer[Len(longer) - (n + 1) + i] = Source(r, k, i)
  <2>1. Len(longer) - (n + 1) + i = Len(list) - n + i
    BY <1>1
  <2>2. CASE i = n + 1
    <3>1. Len(list) - n + i = Len(list) + 1
      BY <1>1, <2>2
    <3> QED BY <1>1, <2>1, <2>2, <3>1
  <2>3. CASE i \in 1 .. n
    <3>1. Len(list) - n + i \in 1 .. Len(list)
      BY <1>1, <1>2, <2>3
    <3> QED BY <1>1, <1>2, <2>1, <2>3, <3>1
  <2> QED BY <2>2, <2>3
<1>4. EndsWithCopied(r, k, longer, n + 1)
  BY <1>1, <1>2, <1>3 DEF EndsWithCopied
<1> QED BY <1>4 DEF longer

(* Before any mapping is applied there is nothing to end with.             *)
LEMMA EndsWithNothing ==
    ASSUME NEW r, NEW k, NEW list \in Seq(Tasks) PROVE EndsWithCopied(r, k, list, 0)
BY DEF EndsWithCopied

(* An execution's own steps add to the end of the lists it works on.       *)
LEMMA StepExtends ==
    ASSUME TypeOK, NEW r \in Runs, Sound(r), KeepsOrder(r), ExtendsItsLists(r),
           Execute(r) \/ StepDeadline(r) \/ EngineEndsContext(r)
    PROVE  ExtendsItsLists(r)'
<1>1. /\ at[r] \in 1 .. NLinks /\ NLinks \in Nat /\ copied[r] \in Nat
      /\ Len(Link(r).inputs) \in Nat /\ Link(r) = Links[at[r]]
      /\ refs[at[r]] \in Seq(Tasks) /\ sent[r] \in Seq(Seq(Tasks))
  BY InHand, LinkFacts DEF TypeOK, Link
<1>2. CASE \/ Begin(r) \/ CopyInput(r) \/ AssignRefs(r) \/ CheckWorkload(r) \/ BuildTask(r)
           \/ PollTimerFires(r) \/ StepDeadline(r) \/ EngineEndsContext(r)
  <2>1. UNCHANGED <<at, sent>>
    BY <1>2, LocalEffect
  <2>2. CASE CopyInput(r) /\ pc'[r] = "append"
    <3>1. /\ Source(r, at[r], copied[r] + 1) \in Tasks
          /\ buffer'[r] = Append(refs[at[r]], Source(r, at[r], copied[r] + 1))
          /\ UNCHANGED <<copied, refs>>
      BY <2>2, CopiesSource DEF TypeOK
    <3>2. EndsWithCopied(r, at[r], refs[at[r]], copied[r])
      BY <2>2 DEF CopyInput, ExtendsItsLists
    <3>3. EndsWithCopied(r, at[r], buffer'[r], copied[r] + 1)
      BY <1>1, <3>1, <3>2, EndsWithNext
    <3> QED BY <2>1, <2>2, <3>1, <3>2, <3>3 DEF ExtendsItsLists, EndsWithCopied
  <2>3. CASE AssignRefs(r)
    <3>1. /\ pc[r] = "append" /\ pc'[r] = "map" /\ refs'[at[r]] = buffer[r]
          /\ copied'[r] = copied[r] + 1
      BY <1>1, <2>3 DEF AssignRefs, Goto, TypeOK
    <3> QED BY <2>1, <3>1 DEF ExtendsItsLists, EndsWithCopied
  <2>4. CASE pc[r] = "start" /\ pc'[r] = "map" /\ UNCHANGED <<copied, refs>>
    <3>1. EndsWithCopied(r, at[r], refs[at[r]], 0)
      BY <1>1, EndsWithNothing
    <3>2. copied[r] = 0
      BY <2>4 DEF KeepsOrder
    <3> QED BY <2>1, <2>4, <3>1, <3>2 DEF ExtendsItsLists, EndsWithCopied
  <2>5. CASE /\ UNCHANGED <<copied, refs, buffer>>
             /\ \/ pc'[r] \in {"done", "list", pc[r]}
                \/ pc[r] = "map" /\ pc'[r] = "build"
                \/ pc[r] = "build" /\ pc'[r] = "submit"
    BY <2>1, <2>5 DEF ExtendsItsLists, EndsWithCopied
  <2> QED BY <1>2, <2>2, <2>3, <2>4, <2>5, LocalEffect
<1>3. CASE SubmitSucceeds(r) \/ SubmitFails(r) \/ Polls(r)
  <2>1. /\ UNCHANGED refs
        /\ \/ sent' = sent
           \/ pc[r] = "submit" /\ Posted(r)
        /\ \/ pc'[r] \in {"done", "list", "proofs", "sleep"}
           \/ pc'[r] = "map" /\ at'[r] \in 1 .. NLinks /\ copied'[r] = 0
    BY <1>3, RemoteEffect
  <2>2. ASSUME NEW k \in 1 .. Len(sent'[r])
        PROVE  EndsWithCopied(r, k, sent'[r][k], Len(Links[k].inputs))
    <3>1. CASE sent' = sent
      BY <3>1 DEF ExtendsItsLists
    <3>2. CASE pc[r] = "submit" /\ Posted(r)
      <4>1. Len(sent[r]) = at[r] - 1
        BY <3>2 DEF Sound, KeepsCount, BeforeSubmission
      <4>2. sent'[r] = Append(sent[r], refs[at[r]])
        BY <3>2, PostedEffect DEF TypeOK
      <4>3. /\ Len(sent'[r]) = at[r]
            /\ sent'[r][at[r]] = refs[at[r]]
            /\ \A j \in 1 .. at[r] - 1 : sent'[r][j] = sent[r][j]
        BY <1>1, <4>1, <4>2
      <4>4. k \in 1 .. at[r] - 1 \/ k = at[r]
        BY <1>1, <4>3
      <4>5. EndsWithCopied(r, at[r], refs[at[r]], Len(Links[at[r]].inputs))
        BY <1>1, <3>2 DEF ExtendsItsLists, KeepsOrder
      <4> QED BY <4>1, <4>3, <4>4, <4>5 DEF ExtendsItsLists
    <3> QED BY <2>1, <3>1, <3>2
  <2>3. CASE pc'[r] \in {"done", "list", "proofs", "sleep"}
    BY <2>2, <2>3 DEF ExtendsItsLists, EndsWithCopied
  <2>4. CASE pc'[r] = "map" /\ at'[r] \in 1 .. NLinks /\ copied'[r] = 0
    <3>1. refs'[at'[r]] \in Seq(Tasks)
      BY <2>1, <2>4 DEF TypeOK
    <3>2. EndsWithCopied(r, at'[r], refs'[at'[r]], copied'[r])
      BY <2>4, <3>1, EndsWithNothing
    <3> QED BY <2>2, <2>4, <3>2 DEF ExtendsItsLists, EndsWithCopied
  <2> QED BY <2>1, <2>3, <2>4
<1> QED BY <1>2, <1>3 DEF Execute, Polls

(* When executions of one instance follow one another, what is sent for a  *)
(* link ends with all the references its mappings copy from the            *)
(* execution's own outputs, in order: only earlier ones can precede them.  *)
THEOREM SerialInputs == SafetySpec /\ []OneAtATime => []EndsWithItsOwnInputs
<1> DEFINE Ordered == \A r \in Runs : KeepsOrder(r)
           Extends == \A r \in Runs : ExtendsItsLists(r)
<1>1. Init => Extends
  BY DEF Init, ExtendsItsLists
<1>2. IInv /\ Ordered /\ OneAtATime /\ Extends /\ [Next]_vars => Extends'
  <2> SUFFICES ASSUME IInv, Ordered, OneAtATime, Extends, [Next]_vars, NEW v \in Runs
               PROVE  ExtendsItsLists(v)'
    OBVIOUS
  <2>1. CASE Server \/ UNCHANGED vars
    BY <2>1 DEF Server, vars, chainVars, localVars, ExtendsItsLists, EndsWithCopied
  <2>2. ASSUME NEW r \in Runs, Execute(r) \/ StepDeadline(r) \/ EngineEndsContext(r)
        PROVE  ExtendsItsLists(v)'
    <3>1. CASE v = r
      BY <2>2, <3>1, StepExtends DEF IInv
    <3>2. CASE v # r
      <4>1. /\ pc'[v] = pc[v] /\ at'[v] = at[v] /\ copied'[v] = copied[v]
            /\ buffer'[v] = buffer[v] /\ sent'[v] = sent[v]
        BY <2>2, <3>2, OthersUntouched DEF IInv
      <4>2. CASE pc[v] \in {"map", "append", "build", "submit"}
        <5>1. pc[r] \in {"start", "done"}
          BY <3>2, <4>2 DEF OneAtATime, Busy
        <5>2. Begin(r) \/ EngineEndsContext(r)
          BY <2>2, <5>1
             DEF Execute, CopyInput, AssignRefs, CheckWorkload, BuildTask, SubmitSucceeds,
                 SubmitFails, SnapshotArrives, ProofsArrive, RequestFails, PollTimerFires,
                 SeesContextDone, StepDeadline, Working
        <5>3. UNCHANGED refs
          BY <5>2 DEF Begin, EngineEndsContext
        <5> QED BY <4>1, <5>3 DEF ExtendsItsLists, EndsWithCopied
      <4>3. CASE pc[v] \notin {"map", "append", "build", "submit"}
        BY <4>1, <4>3 DEF ExtendsItsLists, EndsWithCopied
      <4> QED BY <4>2, <4>3
    <3> QED BY <3>1, <3>2
  <2> QED BY <2>1, <2>2 DEF Next, Finished
<1>3. IInv /\ Extends => EndsWithItsOwnInputs
  <2> SUFFICES ASSUME IInv, Extends, NEW r \in Runs, NEW k \in 1 .. Len(sent[r])
               PROVE  /\ Len(sent[r][k]) - Len(Links[k].inputs) >= 0
                      /\ \A i \in 1 .. Len(Links[k].inputs) :
                            sent[r][k][Len(sent[r][k]) - Len(Links[k].inputs) + i] = Source(r, k, i)
    BY DEF EndsWithItsOwnInputs
  <2>1. /\ sent[r] \in Seq(Seq(Tasks)) /\ at[r] \in 1 .. NLinks /\ NLinks \in Nat
        /\ Len(sent[r]) <= at[r]
    BY LinkFacts DEF IInv, TypeOK, Sound, KeepsCount
  <2>2. k \in 1 .. NLinks
    BY <2>1
  <2>3. sent[r][k] \in Seq(Tasks)
    <3> DEFINE S == Seq(Tasks)
    <3>1. sent[r] \in Seq(S)
      BY <2>1
    <3> HIDE DEF S
    <3>2. sent[r][k] \in S
      BY <3>1
    <3> QED BY <3>2 DEF S
  <2>4. Len(sent[r][k]) \in Nat /\ Len(Links[k].inputs) \in Nat
    BY <2>2, <2>3, LinkFacts
  <2>5. EndsWithCopied(r, k, sent[r][k], Len(Links[k].inputs))
    BY DEF ExtendsItsLists
  <2>6. /\ Len(sent[r][k]) >= Len(Links[k].inputs)
        /\ \A i \in 1 .. Len(Links[k].inputs) :
              sent[r][k][Len(sent[r][k]) - Len(Links[k].inputs) + i] = Source(r, k, i)
    BY <2>5 DEF EndsWithCopied
  <2>7. \A m, n \in Nat : m >= n => m - n >= 0
    OBVIOUS
  <2> QED BY <2>4, <2>6, <2>7
<1> QED BY <1>1, <1>2, <1>3, Inductive, InOrder, PTL DEF SafetySpec

-----------------------------------------------------------------------------
(* step.compute_chain implements the contract of a waiting step. *)

AwaitedUpTo(n) == {k \in 1 .. n : Links[k].wait}

(* The awaited links are those left behind and, once its submission has    *)
(* been answered, the one in hand.                                         *)
LEMMA AwaitedLinks ==
    ASSUME NEW r \in Runs, NEW n \in Nat, at[r] = n
    PROVE  /\ pc[r] \in BeforeSubmission => Awaited(r) = AwaitedUpTo(n - 1)
           /\ pc[r] \in Polling => Awaited(r) = AwaitedUpTo(n)
<1>1. \A k \in 1 .. n : k < n <=> k \in 1 .. n - 1
  OBVIOUS
<1> QED BY <1>1 DEF Awaited, AwaitedUpTo, BeforeSubmission, Polling

(* The same after a step. *)
LEMMA AwaitedLinksNext ==
    ASSUME NEW r \in Runs, NEW n \in Nat, at'[r] = n
    PROVE  /\ (\/ pc'[r] \in BeforeSubmission
               \/ pc'[r] = "done" /\ result'[r] \in Result \ BeyondSubmission)
              => Awaited(r)' = AwaitedUpTo(n - 1)
           /\ (\/ pc'[r] \in Polling
               \/ pc'[r] = "done" /\ result'[r] \in BeyondSubmission)
              => Awaited(r)' = AwaitedUpTo(n)
<1>1. \A k \in 1 .. n : k < n <=> k \in 1 .. n - 1
  OBVIOUS
<1>2. ASSUME \/ pc'[r] \in BeforeSubmission
             \/ pc'[r] = "done" /\ result'[r] \in Result \ BeyondSubmission
      PROVE  Awaited(r)' = AwaitedUpTo(n - 1)
  BY <1>1, <1>2 DEF Awaited, AwaitedUpTo, BeforeSubmission
<1>3. ASSUME \/ pc'[r] \in Polling
             \/ pc'[r] = "done" /\ result'[r] \in BeyondSubmission
      PROVE  Awaited(r)' = AwaitedUpTo(n)
  BY <1>1, <1>3 DEF Awaited, AwaitedUpTo, Polling
<1> QED BY <1>2, <1>3

(* What a step of an execution is to the contract: at most one more link   *)
(* is awaited, and never by the step that ends the execution.              *)
LEMMA AwaitedStep ==
    ASSUME IInv, NEW r \in Runs, Execute(r) \/ StepDeadline(r) \/ EngineEndsContext(r)
    PROVE  /\ pc[r] # "done"
           /\ \/ Awaited(r)' = Awaited(r)
              \/ Awaited(r)' = Awaited(r) \cup {at[r]} /\ pc'[r] # "done"
<1>1. TypeOK /\ Sound(r)
  BY DEF IInv
<1>2. at[r] \in 1 .. NLinks /\ NLinks \in Nat /\ at[r] \in Nat /\ at[r] + 1 - 1 = at[r]
  BY <1>1, InHand, LinkFacts
<1>3. AwaitedUpTo(at[r]) = IF Link(r).wait THEN AwaitedUpTo(at[r] - 1) \cup {at[r]}
                                          ELSE AwaitedUpTo(at[r] - 1)
  <2>1. \A k : k \in 1 .. at[r] <=> k \in 1 .. at[r] - 1 \/ k = at[r]
    BY <1>2
  <2> QED BY <2>1 DEF AwaitedUpTo, Link
<1>4. ASSUME NEW last \in Row, Advance(r, last)
      PROVE  Awaited(r)' = AwaitedUpTo(at[r])
  <2>1. \/ at'[r] = at[r] /\ pc'[r] = "done" /\ result'[r] = "ok"
        \/ at'[r] = at[r] + 1 /\ pc'[r] = "map"
    <3>1. \/ at' = at /\ pc' = [pc EXCEPT ![r] = "done"] /\ result' = [result EXCEPT ![r] = "ok"]
          \/ at' = [at EXCEPT ![r] = at[r] + 1] /\ pc' = [pc EXCEPT ![r] = "map"]
      BY <1>1, <1>4, AdvanceEffect
    <3> QED BY <1>1, <3>1 DEF TypeOK
  <2>2. CASE at'[r] = at[r] /\ pc'[r] = "done" /\ result'[r] = "ok"
    BY <1>2, <2>2, AwaitedLinksNext DEF BeyondSubmission
  <2>3. CASE at'[r] = at[r] + 1 /\ pc'[r] = "map"
    BY <1>2, <2>3, AwaitedLinksNext DEF BeforeSubmission
  <2> QED BY <2>1, <2>2, <2>3
<1>5. CASE \/ Begin(r) \/ CopyInput(r) \/ AssignRefs(r) \/ CheckWorkload(r) \/ BuildTask(r)
           \/ PollTimerFires(r) \/ StepDeadline(r) \/ EngineEndsContext(r) \/ SubmitFails(r)
  <2>1. at'[r] = at[r]
    BY <1>5 DEF Begin, CopyInput, AssignRefs, CheckWorkload, BuildTask, PollTimerFires,
                StepDeadline, EngineEndsContext, SubmitFails
  <2>2. \/ pc[r] \in BeforeSubmission /\ pc'[r] \in BeforeSubmission
        \/ /\ pc[r] \in BeforeSubmission /\ pc'[r] = "done"
           /\ result'[r] \in {"client_error", "mapping_failed", "invalid_workload", "submit_failed"}
        \/ pc[r] \in Polling /\ pc'[r] \in Polling
    BY <1>1, <1>5
       DEF Begin, CopyInput, AssignRefs, CheckWorkload, BuildTask, PollTimerFires, StepDeadline,
           EngineEndsContext, SubmitFails, Goto, Return, TypeOK, BeforeSubmission, Polling, Working
  <2>3. Awaited(r)' = Awaited(r)
    BY <1>2, <2>1, <2>2, AwaitedLinks, AwaitedLinksNext DEF BeyondSubmission, Result
  <2> QED BY <2>2, <2>3 DEF BeforeSubmission, Polling
<1>6. CASE SubmitSucceeds(r)
  <2>1. pc[r] = "submit" /\ Posted(r)
    BY <1>6 DEF SubmitSucceeds
  <2>2. Awaited(r) = AwaitedUpTo(at[r] - 1)
    BY <1>2, <2>1, AwaitedLinks DEF BeforeSubmission
  <2>3. CASE Link(r).wait
    <3>1. at'[r] = at[r] /\ pc'[r] = "list"
      BY <1>1, <1>6, <2>3 DEF SubmitSucceeds, Goto, TypeOK
    <3>2. Awaited(r)' = AwaitedUpTo(at[r])
      BY <1>2, <3>1, AwaitedLinksNext DEF Polling
    <3> QED BY <1>3, <2>1, <2>2, <2>3, <3>1, <3>2
  <2>4. CASE ~Link(r).wait
    <3> DEFINE answer == [id |-> Task(r), status |-> status'[Task(r)], proof |-> "none"]
    <3>1. status'[Task(r)] \in Status
      BY <1>1, <2>1, PostedEffect
    <3>2. Advance(r, answer) /\ answer \in Row
      BY <1>1, <1>6, <2>4, <3>1, InHand DEF SubmitSucceeds, Row
    <3> HIDE DEF answer
    <3> QED BY <1>3, <1>4, <2>1, <2>2, <2>4, <3>2
  <2> QED BY <2>3, <2>4
<1>7. CASE Polls(r)
  <2>1. pc[r] \in Polling
    BY <1>1, <1>7, PollEffect
  <2>2. Awaited(r) = AwaitedUpTo(at[r])
    BY <1>2, <2>1, AwaitedLinks
  <2>3. PICK last \in Row : StopsAt(r, last) \/ MovesOn(r, last) \/ PollsAgain(r, last)
    BY <1>1, <1>7, PollEffect
  <2>4. Awaited(r)' = AwaitedUpTo(at[r])
    <3>1. CASE StopsAt(r, last)
      <4>1. at'[r] = at[r] /\ pc'[r] = "done" /\ result'[r] \in BeyondSubmission
        BY <1>1, <3>1 DEF StopsAt, StopWith, Return, TypeOK, BeyondSubmission
      <4> QED BY <1>2, <4>1, AwaitedLinksNext
    <3>2. CASE MovesOn(r, last)
      BY <1>4, <3>2 DEF MovesOn
    <3>3. CASE PollsAgain(r, last)
      <4>1. at'[r] = at[r] /\ pc'[r] \in Polling
        BY <1>1, <3>3 DEF PollsAgain, Goto, TypeOK, Polling
      <4> QED BY <1>2, <4>1, AwaitedLinksNext
    <3> QED BY <2>3, <3>1, <3>2, <3>3
  <2> QED BY <2>1, <2>2, <2>4 DEF Polling
<1> QED BY <1>5, <1>6, <1>7 DEF Execute, Polls

(* The tasks of the awaited links, as the contract speaks of them.         *)
AwaitedTasks == [r \in Runs |-> {TaskOf[r][k] : k \in Awaited(r)}]

(* The contract starts when every execution is still to begin. *)
LEMMA InitPromise == Init => Promise!Init
<1> SUFFICES ASSUME Init PROVE Promise!Init
  OBVIOUS
<1>1. Completed \subseteq Tasks /\ Proven \subseteq Tasks
  BY DEF Completed, Proven
<1>2. Outcome = [r \in Runs |-> "running"]
  BY DEF Init, Outcome
<1>3. ASSUME NEW r \in Runs PROVE {TaskOf[r][k] : k \in Awaited(r)} \subseteq Tasks
  <2>1. \A k \in Awaited(r) : k \in 1 .. NLinks
    BY LinkFacts DEF Init, Awaited
  <2>2. \A k \in 1 .. NLinks : TaskOf[r][k] \in Tasks
    BY TaskOfAssumption
  <2> QED BY <2>1, <2>2
<1>4. [r \in Runs |-> {TaskOf[r][k] : k \in Awaited(r)}] \in [Runs -> SUBSET Tasks]
  BY <1>3
<1> QED BY <1>1, <1>2, <1>4 DEF Promise!Init

(* A step of the control plane is progress, the answer to the submission   *)
(* of an awaited link is the contract's Await, a return its Proceed or     *)
(* Stop, and every other step changes nothing it speaks of.                *)
LEMMA NextPromise ==
    ASSUME IInv, [Next]_vars, IInv'
    PROVE  [Promise!Next]_(Promise!vars)
<1>1. CASE Server
  <2>1. Completed \subseteq Completed' /\ Proven \subseteq Proven'
    BY <1>1, ServerStepMonotone DEF Server, IInv, TypeOK
  <2>2. Completed' \subseteq Tasks /\ Proven' \subseteq Tasks
    BY DEF Completed, Proven
  <2>3. Outcome' = Outcome /\ AwaitedTasks' = AwaitedTasks
    BY <1>1 DEF Server, chainVars, localVars, Outcome, AwaitedTasks, Awaited
  <2> QED BY <2>1, <2>2, <2>3 DEF Promise!Next, Promise!Progress, AwaitedTasks
<1>2. CASE UNCHANGED vars
  BY <1>2 DEF vars, chainVars, localVars, serverVars, Outcome, Awaited, Completed, Proven,
              Promise!vars
<1>3. ASSUME NEW r \in Runs, Execute(r) \/ StepDeadline(r) \/ EngineEndsContext(r)
      PROVE  [Promise!Next]_(Promise!vars)
  <2>1. TypeOK /\ TypeOK' /\ Sound(r)'
    BY DEF IInv
  <2>2. Completed' = Completed /\ Proven' = Proven
    <3>1. CASE Posted(r)
      BY <2>1, <3>1, PostedEffect
    <3>2. CASE UNCHANGED serverVars
      BY <3>2 DEF serverVars, Completed, Proven
    <3>3. Posted(r) \/ UNCHANGED serverVars
      BY <1>3 DEF Execute, Begin, CopyInput, AssignRefs, CheckWorkload, BuildTask,
                  SubmitSucceeds, SubmitFails, SnapshotArrives, ProofsArrive, RequestFails,
                  PollTimerFires, SeesContextDone, StepDeadline, EngineEndsContext
    <3> QED BY <3>1, <3>2, <3>3
  <2>3. \A v \in Runs \ {r} : pc'[v] = pc[v] /\ at'[v] = at[v] /\ result'[v] = result[v]
    BY <1>3, <2>1, OthersUntouched
  <2>4. \A v \in Runs \ {r} : Outcome'[v] = Outcome[v]
    BY <2>3 DEF Outcome
  <2>5. \A v \in Runs \ {r} : Awaited(v)' = Awaited(v)
    BY <2>3 DEF Awaited
  <2>6. Outcome[r] = "running"
    BY <1>3, AwaitedStep DEF Outcome
  <2>7. Outcome' = [Outcome EXCEPT ![r] = Outcome'[r]]
    BY <2>4 DEF Outcome
  <2>8. CASE Awaited(r)' = Awaited(r)
    <3>1. AwaitedTasks' = AwaitedTasks
      BY <2>5, <2>8 DEF AwaitedTasks
    <3>2. CASE Outcome'[r] = "running"
      <4>1. Outcome' = Outcome
        BY <2>6, <2>7, <3>2 DEF Outcome
      <4> QED BY <2>2, <3>1, <4>1 DEF Promise!vars, AwaitedTasks
    <3>3. CASE Outcome'[r] = "proceed"
      <4>1. result'[r] = "ok"
        BY <3>3 DEF Outcome
      <4>2. \A k \in Awaited(r) : TaskOf[r][k] \in Completed /\ (r \in Strict => TaskOf[r][k] \in Proven)
        <5>1. /\ at'[r] \in 1 .. NLinks
              /\ Links[at'[r]].wait => Settled(r, at[r])'
              /\ \A k \in 1 .. at'[r] - 1 : Links[k].wait => Settled(r, k)'
          BY <2>1, <4>1 DEF TypeOK, Sound, LeavesSettledLinks, Link
        <5>2. \A k \in 1 .. at'[r] : Links[k].wait => Settled(r, k)'
          <6>1. \A k \in 1 .. at'[r] : k \in 1 .. at'[r] - 1 \/ k = at'[r]
            BY <5>1, LinkFacts
          <6> QED BY <5>1, <6>1 DEF Settled
        <5>3. \A k \in Awaited(r)' : k \in 1 .. at'[r] /\ Links[k].wait
          BY DEF Awaited
        <5> QED BY <2>2, <2>8, <5>2, <5>3 DEF Settled
      <4>3. /\ AwaitedTasks[r] \subseteq Completed
            /\ r \in Strict => AwaitedTasks[r] \subseteq Proven
        BY <4>2 DEF AwaitedTasks
      <4>4. Promise!Earned(r)
        BY <4>3 DEF Promise!Earned, AwaitedTasks
      <4>5. Promise!Proceed(r)
        BY <2>2, <2>6, <2>7, <3>1, <3>3, <4>4 DEF Promise!Proceed, AwaitedTasks
      <4> QED BY <4>5 DEF Promise!Next
    <3>4. CASE Outcome'[r] = "stop"
      <4>1. Promise!Stop(r)
        BY <2>2, <2>6, <2>7, <3>1, <3>4 DEF Promise!Stop, AwaitedTasks
      <4> QED BY <4>1 DEF Promise!Next
    <3> QED BY <3>2, <3>3, <3>4 DEF Outcome
  <2>9. CASE Awaited(r)' = Awaited(r) \cup {at[r]} /\ pc'[r] # "done"
    <3>1. Outcome' = Outcome
      BY <2>6, <2>7, <2>9 DEF Outcome
    <3>2. {TaskOf[r][k] : k \in Awaited(r)'} = {TaskOf[r][k] : k \in Awaited(r)} \cup {Task(r)}
      BY <2>9 DEF Task
    <3>3. AwaitedTasks' = [AwaitedTasks EXCEPT ![r] = AwaitedTasks[r] \cup {Task(r)}]
      BY <2>5, <3>2 DEF AwaitedTasks
    <3>4. Task(r) \in Tasks
      BY <2>1, InHand
    <3>5. Promise!Await(r)
      BY <2>2, <2>6, <3>1, <3>3, <3>4 DEF Promise!Await, AwaitedTasks
    <3> QED BY <3>5 DEF Promise!Next
  <2> QED BY <1>3, <2>8, <2>9, AwaitedStep
<1> QED BY <1>1, <1>2, <1>3 DEF Next, Finished

(* Every behaviour of the step is one the contract allows. *)
THEOREM ImplementsContract == SafetySpec => Promise!SafetySpec
<1>1. IInv /\ IInv' /\ [Next]_vars => [Promise!Next]_(Promise!vars)
  BY NextPromise
<1> QED
  BY <1>1, InitPromise, Inductive, PTL DEF SafetySpec, Promise!SafetySpec
=============================================================================
