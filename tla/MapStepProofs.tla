--------------------------- MODULE MapStepProofs ----------------------------
(***************************************************************************)
(* Proofs about MapStep, for every number of executions, every list of     *)
(* configured tasks (repeated ids included) and any number of receipts.    *)
(***************************************************************************)
EXTENDS MapStep, TaskViewProofs

(* Every execution has at least one task, and tasks are configured ids. *)
LEMMA JobsType ==
    ASSUME NEW m \in Maps
    PROVE  /\ Jobs[m] \in Seq(Tasks)
           /\ Len(Jobs[m]) \in Nat \ {0}
           /\ \A i \in 1 .. Len(Jobs[m]) : Jobs[m][i] \in Tasks
<1>1. Jobs[m] \in Seq(Tasks) /\ Jobs[m] # <<>>
  BY JobsAssumption
<1> QED BY <1>1

(* Before the last submission there is a next task to submit. *)
LEMMA NextJobType ==
    ASSUME IInv, NEW m \in Maps, pc[m] = "submit"
    PROVE  /\ NextJob(m) \in Tasks
           /\ NextJob(m) = Jobs[m][Len(submitted[m]) + 1]
           /\ Len(submitted[m]) \in Nat
           /\ Len(submitted[m]) < Len(Jobs[m])
<1>1. Len(submitted[m]) < Len(Jobs[m]) /\ submitted[m] \in Seq(Row)
  BY DEF IInv, SubmitsInOrder, TypeOK
<1> QED
  BY <1>1, JobsType DEF NextJob

(* A task is posted: the types are kept, and what was settled stays so. *)
LEMMA PostedKeeps ==
    ASSUME IInv, NEW m \in Maps, pc[m] = "submit", Posted(m)
    PROVE  /\ ServerTypeOK'
           /\ Completed' = Completed
           /\ Proven' = Proven
           /\ created' \in [Maps -> SUBSET Tasks]
           /\ created'[m] \subseteq created[m] \cup {NextJob(m)}
           /\ \A q \in Maps \ {m} : created'[q] = created[q]
<1> DEFINE t == NextJob(m)
<1>1. t \in Tasks
  BY NextJobType
<1>2. ServerTypeOK /\ created \in [Maps -> SUBSET Tasks]
  BY DEF IInv, TypeOK
<1>3. CASE Create(t) /\ created' = [created EXCEPT ![m] = @ \cup {t}]
  BY <1>1, <1>2, <1>3, CreateTypeOK, CreateMonotone
<1>4. CASE UNCHANGED <<serverVars, created>>
  BY <1>2, <1>4 DEF serverVars, ServerTypeOK, Completed, Proven
<1> QED
  BY <1>3, <1>4 DEF Posted

-----------------------------------------------------------------------------
(* What the two reads of a poll find, in terms of the rows they report. *)

(* How a poll stops at a task: r is the result, and the last row, the only *)
(* one that may have an error, is the first task with a reason to stop.    *)
StopsAtLast(m, rows, r) ==
    /\ r \in {"task_stopped", "not_found"}
    /\ Len(rows) > 0
    /\ \A i \in 1 .. Len(rows) : Culprit(m, rows[i].id) <=> i = Len(rows)
    /\ \A i \in 1 .. Len(rows) :
          rows[i].error # "none" <=> (i = Len(rows) /\ r = "task_stopped")

(* A task is a culprit exactly if it is gone or stops the step. *)
LEMMA CulpritCases ==
    ASSUME NEW m, NEW t \in Tasks, ServerTypeOK
    PROVE  Culprit(m, t) <=> t \notin listed \/ Stopped(status[t], stalls[t], m \in Strict)
<1>1. stalls[t] \subseteq {"queued_sla_exceeded", "proof_missing"}
  BY StallReasonsAssumption DEF ServerTypeOK
<1> QED BY <1>1 DEF Culprit, Stopped, ActionableStalls

(* The causes a stopped step can report are errors. *)
LEMMA StopCausesType ==
    ASSUME NEW t \in Tasks, NEW strict, ServerTypeOK
    PROVE  StopCauses(t, strict) \subseteq Cause \ {"none"}
<1>1. stalls[t] \subseteq StallReasons /\ "none" \notin StallReasons
  BY StallReasonsAssumption DEF ServerTypeOK
<1> QED BY <1>1 DEF StopCauses, ActionableStalls, Cause

(* An error changes nothing else of a row. *)
LEMMA WithErrorType ==
    ASSUME NEW row \in Row, NEW cause \in Cause
    PROVE  /\ WithError(row, cause) \in Row
           /\ WithError(row, cause).id = row.id
           /\ WithError(row, cause).status = row.status
           /\ WithError(row, cause).error = cause
BY DEF WithError, Row

(* A function on 1 .. k is a sequence. *)
LEMMA FunctionIsSeq ==
    ASSUME NEW S, NEW k \in Nat, NEW f, f = [i \in 1 .. k |-> f[i]],
           \A i \in 1 .. k : f[i] \in S
    PROVE  f \in Seq(S) /\ Len(f) = k
OBVIOUS

(* The rows up to k: what the control plane has of the first k tasks, but  *)
(* for the last row.                                                       *)
UpTo(m, k, last) == [[i \in 1 .. k |-> TaskRow(submitted[m][i].id)] EXCEPT ![k] = last]

LEMMA RowsUpTo ==
    ASSUME IInv, NEW m \in Maps, NEW k \in 1 .. Len(submitted[m]), NEW last \in Row,
           last.id = submitted[m][k].id
    PROVE  /\ UpTo(m, k, last) \in Seq(Row)
           /\ Len(UpTo(m, k, last)) = k
           /\ UpTo(m, k, last)[k] = last
           /\ \A i \in 1 .. k - 1 : UpTo(m, k, last)[i] = TaskRow(submitted[m][i].id)
           /\ \A i \in 1 .. k : UpTo(m, k, last)[i].id = submitted[m][i].id
<1> DEFINE rows == UpTo(m, k, last)
<1>1. submitted[m] \in Seq(Row) /\ status \in [Tasks -> Status] /\ k \in Nat
  BY DEF IInv, TypeOK, ServerTypeOK
<1>2. \A i \in 1 .. k : submitted[m][i] \in Row
  BY <1>1
<1>3. \A i \in 1 .. k : /\ TaskRow(submitted[m][i].id) \in Row
                        /\ TaskRow(submitted[m][i].id).id = submitted[m][i].id
  BY <1>1, <1>2 DEF TaskRow, Row, Cause
<1>4. rows = [i \in 1 .. k |-> IF i = k THEN last ELSE TaskRow(submitted[m][i].id)]
  BY DEF UpTo
<1> HIDE DEF rows
<1>5. \A i \in 1 .. k : rows[i] \in Row /\ rows[i].id = submitted[m][i].id
  BY <1>3, <1>4
<1>6. rows = [i \in 1 .. k |-> rows[i]]
  BY <1>4
<1>7. rows \in Seq(Row) /\ Len(rows) = k
  BY <1>1, <1>5, <1>6, FunctionIsSeq
<1>8. k \in 1 .. k /\ \A i \in 1 .. k - 1 : i \in 1 .. k /\ i # k
  BY <1>1
<1>9. rows[k] = last /\ \A i \in 1 .. k - 1 : rows[i] = TaskRow(submitted[m][i].id)
  BY <1>4, <1>8
<1> QED BY <1>5, <1>7, <1>9 DEF rows

(* The tasks are read: a culprit ends the rows, or every row is there. *)
LEMMA TasksRead ==
    ASSUME IInv, NEW m \in Maps, TasksArrive(m)
    PROVE  \E rows \in Seq(Row) :
              /\ outputs' = [outputs EXCEPT ![m] = rows]
              /\ Len(rows) <= Len(submitted[m])
              /\ \A i \in 1 .. Len(rows) : rows[i].id = submitted[m][i].id
              /\ \/ \E r \in {"task_stopped", "not_found"} :
                       Return(m, r) /\ StopsAtLast(m, rows, r)
                 \/ /\ Goto(m, "proofs")
                    /\ Len(rows) = Len(submitted[m])
                    /\ \A i \in 1 .. Len(rows) :
                          rows[i].status = "succeeded" /\ rows[i].id \in Completed
                 \/ /\ Goto(m, "sleep")
                    /\ Len(rows) = Len(submitted[m])
<1> DEFINE n == Len(submitted[m])
           id(i) == submitted[m][i].id
           read(k) == [i \in 1 .. k |-> TaskRow(id(i))]
           missing == {i \in 1 .. n : id(i) \notin listed}
           stopped == {i \in 1 .. n : Stopped(status[id(i)], stalls[id(i)], m \in Strict)}
           settled == \A i \in 1 .. n : IsTerminalTaskStatus(status[id(i)])
<1>1. submitted[m] \in Seq(Row) /\ n \in Nat /\ status \in [Tasks -> Status] /\ ServerTypeOK
  BY DEF IInv, TypeOK, ServerTypeOK
<1>2. \A i \in 1 .. n : submitted[m][i] \in Row /\ id(i) \in Tasks
  <2>1. \A i \in 1 .. n : submitted[m][i] \in Row
    BY <1>1
  <2> QED BY <2>1 DEF Row
<1>3. \A i \in 1 .. n :
         /\ TaskRow(id(i)) \in Row
         /\ TaskRow(id(i)).id = id(i)
         /\ TaskRow(id(i)).status = status[id(i)]
         /\ TaskRow(id(i)).error = "none"
         /\ submitted[m][i].error = "none"
  BY <1>1, <1>2 DEF TaskRow, Row, Cause, IInv, RowsInOrder
<1>4. \A i \in 1 .. n : Culprit(m, id(i)) <=> i \in missing \cup stopped
  BY <1>1, <1>2, CulpritCases
<1>5. ASSUME NEW r \in {"task_stopped", "not_found"}, Return(m, r),
             NEW k \in 1 .. n, IsFirst(k, missing \cup stopped),
             NEW last \in Row, last.id = id(k), last.error # "none" <=> r = "task_stopped",
             Report(m, [read(k) EXCEPT ![k] = last])
      PROVE  \E rows \in Seq(Row) :
                /\ outputs' = [outputs EXCEPT ![m] = rows]
                /\ Len(rows) <= n
                /\ \A i \in 1 .. Len(rows) : rows[i].id = submitted[m][i].id
                /\ Return(m, r) /\ StopsAtLast(m, rows, r)
  <2> DEFINE rows == [read(k) EXCEPT ![k] = last]
  <2>1. /\ rows \in Seq(Row) /\ Len(rows) = k /\ rows[k] = last
        /\ \A i \in 1 .. k - 1 : rows[i] = TaskRow(id(i))
        /\ \A i \in 1 .. k : rows[i].id = id(i)
    <3>1. rows = UpTo(m, k, last)
      BY DEF UpTo
    <3> HIDE DEF rows, read
    <3> QED BY <1>5, <3>1, RowsUpTo
  <2>2. k \in missing \cup stopped /\ \A j \in missing \cup stopped : k <= j
    BY <1>5 DEF IsFirst
  <2> HIDE DEF rows, read, missing, stopped
  <2>3. \A i \in 1 .. k : Culprit(m, id(i)) <=> i = k
    BY <1>1, <1>4, <2>2
  <2>4. \A i \in 1 .. k : rows[i].error # "none" <=> (i = k /\ r = "task_stopped")
    <3> SUFFICES ASSUME NEW i \in 1 .. k
                 PROVE  rows[i].error # "none" <=> (i = k /\ r = "task_stopped")
      OBVIOUS
    <3>1. CASE i = k
      BY <1>5, <2>1, <3>1
    <3>2. CASE i # k
      <4>1. i \in 1 .. k - 1 /\ i \in 1 .. n
        BY <1>1, <3>2
      <4> QED BY <1>3, <2>1, <3>2, <4>1
    <3> QED BY <3>1, <3>2
  <2>5. StopsAtLast(m, rows, r)
    BY <1>1, <2>1, <2>3, <2>4 DEF StopsAtLast
  <2>6. outputs' = [outputs EXCEPT ![m] = rows]
    BY <1>5 DEF Report, rows
  <2>7. Len(rows) <= n /\ \A i \in 1 .. Len(rows) : rows[i].id = submitted[m][i].id
    BY <1>1, <2>1
  <2> QED BY <1>5, <2>1, <2>5, <2>6, <2>7
<1>6. CASE missing \cup stopped = {} /\ Report(m, read(n))
           /\ Goto(m, IF settled THEN "proofs" ELSE "sleep")
  <2>1. read(n) \in Seq(Row) /\ Len(read(n)) = n
        /\ \A i \in 1 .. n : read(n)[i] = TaskRow(id(i))
    <3> HIDE DEF id
    <3> QED BY <1>1, <1>3
  <2>2. settled => \A i \in 1 .. n :
                      read(n)[i].status = "succeeded" /\ read(n)[i].id \in Completed
    <3> SUFFICES ASSUME settled, NEW i \in 1 .. n
                 PROVE  status[id(i)] = "succeeded"
      BY <1>2, <1>3, <2>1 DEF Completed
    <3>1. IsTerminalTaskStatus(status[id(i)])
      OBVIOUS
    <3>2. status[id(i)] \notin {"failed", "stalled"}
      BY <1>6 DEF Stopped
    <3> QED BY <3>1, <3>2 DEF IsTerminalTaskStatus
  <2>3. \A i \in 1 .. n : read(n)[i].id = submitted[m][i].id
    BY <1>3, <2>1
  <2>4. outputs' = [outputs EXCEPT ![m] = read(n)]
    BY <1>6 DEF Report
  <2>5. (Goto(m, "proofs") /\ settled) \/ Goto(m, "sleep")
    BY <1>6
  <2> DEFINE rows == read(n)
  <2> HIDE DEF read, settled, rows
  <2>6. /\ rows \in Seq(Row) /\ Len(rows) = n /\ n <= n
        /\ outputs' = [outputs EXCEPT ![m] = rows]
        /\ \A i \in 1 .. n : rows[i].id = submitted[m][i].id
        /\ settled => \A i \in 1 .. n : rows[i].status = "succeeded" /\ rows[i].id \in Completed
    BY <1>1, <2>1, <2>2, <2>3, <2>4 DEF rows
  <2> QED BY <2>5, <2>6
<1>7. ASSUME NEW k \in missing, IsFirst(k, missing \cup stopped),
             Report(m, [read(k) EXCEPT ![k] = submitted[m][k]]), Return(m, "not_found")
      PROVE  \E rows \in Seq(Row) :
                /\ outputs' = [outputs EXCEPT ![m] = rows]
                /\ Len(rows) <= n
                /\ \A i \in 1 .. Len(rows) : rows[i].id = submitted[m][i].id
                /\ Return(m, "not_found") /\ StopsAtLast(m, rows, "not_found")
  <2>1. k \in 1 .. n /\ submitted[m][k] \in Row /\ submitted[m][k].error = "none"
    BY <1>2, <1>3
  <2> HIDE DEF read, missing, stopped
  <2> QED BY <1>5, <1>7, <2>1
<1>8. ASSUME NEW k \in stopped \ missing, NEW cause \in Cause,
             IsFirst(k, missing \cup stopped), cause \in StopCauses(id(k), m \in Strict),
             Report(m, [read(k) EXCEPT ![k] = WithError(@, cause)]), Return(m, "task_stopped")
      PROVE  \E rows \in Seq(Row) :
                /\ outputs' = [outputs EXCEPT ![m] = rows]
                /\ Len(rows) <= n
                /\ \A i \in 1 .. Len(rows) : rows[i].id = submitted[m][i].id
                /\ Return(m, "task_stopped") /\ StopsAtLast(m, rows, "task_stopped")
  <2> DEFINE last == WithError(TaskRow(id(k)), cause)
  <2>1. k \in 1 .. n /\ id(k) \in Tasks /\ cause # "none"
    BY <1>1, <1>2, <1>8, StopCausesType
  <2>2. last \in Row /\ last.id = id(k) /\ last.error = cause
    BY <1>3, <2>1, WithErrorType
  <2>3. [read(k) EXCEPT ![k] = WithError(@, cause)] = [read(k) EXCEPT ![k] = last]
    BY <2>1
  <2> HIDE DEF read, missing, stopped, last
  <2> QED BY <1>5, <1>8, <2>1, <2>2, <2>3
<1> QED
  BY <1>6, <1>7, <1>8 DEF TasksArrive

(* The proofs are read: rows keep their task and status and take a receipt. *)
LEMMA ProofsRead ==
    ASSUME IInv, NEW m \in Maps, ProofsArrive(m)
    PROVE  \E rows \in Seq(Row) :
              /\ outputs' = [outputs EXCEPT ![m] = rows]
              /\ Len(rows) = Len(outputs[m])
              /\ \A i \in 1 .. Len(rows) : rows[i].id = outputs[m][i].id
                                           /\ rows[i].status = outputs[m][i].status
              /\ \/ Return(m, "proof_rejected")
                 \/ /\ Return(m, "ok")
                    /\ \A i \in 1 .. Len(rows) :
                          /\ rows[i].proof # "rejected"
                          /\ m \in Strict => rows[i].proof = "accepted"
                                             /\ rows[i].id \in Proven
                 \/ Goto(m, "sleep")
<1> DEFINE n == Len(outputs[m])
           receipt(i) == LastReceipt(receipts[outputs[m][i].id])
           decision(i) == ProofDecision(receipt(i), m \in Strict)
           rejected == {i \in 1 .. n : decision(i) = "stop"}
           proven == \A i \in 1 .. n : decision(i) = "proceed"
           row(k, i) == IF i <= k THEN [outputs[m][i] EXCEPT !.proof = receipt(i)]
                                  ELSE outputs[m][i]
           read(k) == [i \in 1 .. n |-> row(k, i)]
           keeps(rows) == /\ rows \in Seq(Row)
                          /\ Len(rows) = n
                          /\ \A i \in 1 .. n : /\ rows[i].id = outputs[m][i].id
                                                /\ rows[i].status = outputs[m][i].status
<1>1. outputs[m] \in Seq(Row) /\ n \in Nat /\ receipts \in [Tasks -> Seq(Verdict)]
  BY DEF IInv, TypeOK, ServerTypeOK
<1>2. \A i \in 1 .. n : outputs[m][i] \in Row
  BY <1>1
<1>3. \A i \in 1 .. n : outputs[m][i].id \in Tasks
  BY <1>2 DEF Row
<1>4. \A i \in 1 .. n :
         /\ receipt(i) \in Verdict \cup {"none"}
         /\ receipt(i) = "accepted" => outputs[m][i].id \in Proven
  <2> SUFFICES ASSUME NEW i \in 1 .. n
               PROVE  /\ receipt(i) \in Verdict \cup {"none"}
                      /\ receipt(i) = "accepted" => outputs[m][i].id \in Proven
    OBVIOUS
  <2>1. outputs[m][i].id \in Tasks /\ receipts[outputs[m][i].id] \in Seq(Verdict)
    BY <1>1, <1>3
  <2>2. /\ receipt(i) \in Verdict \cup {"none"}
        /\ receipt(i) # "none" =>
              \E j \in 1 .. Len(receipts[outputs[m][i].id]) :
                 receipts[outputs[m][i].id][j] = receipt(i)
    BY <2>1, LastReceiptType
  <2> HIDE DEF receipt
  <2> QED BY <2>1, <2>2 DEF Proven
<1>5. \A k \in 0 .. n, i \in 1 .. n :
         /\ row(k, i) \in Row
         /\ row(k, i).id = outputs[m][i].id
         /\ row(k, i).status = outputs[m][i].status
         /\ i <= k => row(k, i).proof = receipt(i)
  <2> HIDE DEF receipt, n
  <2> QED BY <1>2, <1>4 DEF Row
<1>6. \A k \in 0 .. n : /\ keeps(read(k))
                        /\ \A i \in 1 .. n : read(k)[i] = row(k, i)
  <2> HIDE DEF row
  <2> QED BY <1>1, <1>5
<1>7. CASE Report(m, read(n)) /\ (IF proven THEN Return(m, "ok") ELSE Goto(m, "sleep"))
  <2>1. proven => \A i \in 1 .. n :
           /\ read(n)[i].proof # "rejected"
           /\ m \in Strict => read(n)[i].proof = "accepted" /\ outputs[m][i].id \in Proven
    <3> SUFFICES ASSUME NEW i \in 1 .. n, decision(i) = "proceed"
                 PROVE  /\ read(n)[i].proof # "rejected"
                        /\ m \in Strict => read(n)[i].proof = "accepted"
                                           /\ outputs[m][i].id \in Proven
      OBVIOUS
    <3>1. receipt(i) \in Verdict \cup {"none"} /\ (m \in Strict) \in BOOLEAN
      BY <1>4
    <3>2. read(n)[i].proof = receipt(i)
      <4> n \in 0 .. n /\ i <= n
        BY <1>1
      <4> HIDE DEF row, receipt, read
      <4> QED BY <1>5, <1>6
    <3> HIDE DEF receipt, read
    <3>3. receipt(i) = "accepted" \/ (receipt(i) = "none" /\ m \notin Strict)
      BY <3>1, ProofDecisionCases
    <3> QED BY <1>4, <3>2, <3>3
  <2>2. n \in 0 .. n /\ outputs' = [outputs EXCEPT ![m] = read(n)]
    BY <1>1, <1>7 DEF Report
  <2>3. keeps(read(n))
    BY <1>6, <2>2
  <2> HIDE DEF read, proven, decision, receipt, row
  <2> QED BY <1>7, <2>1, <2>2, <2>3
<1>8. ASSUME NEW k \in rejected, Report(m, [read(k) EXCEPT ![k] = WithError(@, "proof")]),
             Return(m, "proof_rejected")
      PROVE  \E rows \in Seq(Row) :
                /\ outputs' = [outputs EXCEPT ![m] = rows]
                /\ Len(rows) = n
                /\ \A i \in 1 .. n : /\ rows[i].id = outputs[m][i].id
                                      /\ rows[i].status = outputs[m][i].status
                /\ Return(m, "proof_rejected")
  <2> DEFINE rows == [read(k) EXCEPT ![k] = WithError(@, "proof")]
  <2>1. k \in 1 .. n /\ k \in 0 .. n
    BY <1>1
  <2>9. keeps(read(k))
    <3> HIDE DEF keeps, read
    <3> QED BY <1>6, <2>1
  <2>2. \A i \in 1 .. n : read(k)[i] \in Row
    <3> HIDE DEF read
    <3> QED BY <1>1, <2>9
  <2>3. rows = [i \in 1 .. n |-> IF i = k THEN WithError(read(k)[k], "proof")
                                          ELSE read(k)[i]]
    BY <2>1
  <2> HIDE DEF row, read
  <2>4. \A i \in 1 .. n : /\ rows[i] \in Row
                          /\ rows[i].id = read(k)[i].id
                          /\ rows[i].status = read(k)[i].status
    <3>1. "proof" \in Cause
      BY DEF Cause
    <3> QED BY <2>1, <2>2, <2>3, <3>1, WithErrorType
  <2>5. rows \in Seq(Row) /\ Len(rows) = n
    <3>1. rows = [i \in 1 .. n |-> rows[i]]
      BY <2>3
    <3>2. \A i \in 1 .. n : rows[i] \in Row
      BY <2>4
    <3> HIDE DEF rows
    <3> QED BY <1>1, <3>1, <3>2, FunctionIsSeq
  <2>6. outputs' = [outputs EXCEPT ![m] = rows]
    BY <1>8 DEF Report
  <2> HIDE DEF rows
  <2> QED BY <1>8, <2>9, <2>4, <2>5, <2>6
<1> HIDE DEF read, proven, row, receipt
<1>9. \/ Report(m, read(n)) /\ (IF proven THEN Return(m, "ok") ELSE Goto(m, "sleep"))
      \/ \E k \in rejected : /\ Report(m, [read(k) EXCEPT ![k] = WithError(@, "proof")])
                              /\ Return(m, "proof_rejected")
  BY DEF ProofsArrive, read, proven, row, receipt
<1> QED
  BY <1>7, <1>8, <1>9

-----------------------------------------------------------------------------
(* The inductive invariant. *)

(* No execution has sent or read anything in the beginning. *)
LEMMA InitIInv == Init => IInv
<1> SUFFICES ASSUME Init PROVE IInv
  OBVIOUS
<1>1. TypeOK
  BY ServerInitTypeOK DEF Init, TypeOK, Result, Waiting
<1>2. SubmitsInOrder
  <2>1. \A m \in Maps : Len(Jobs[m]) \in Nat \ {0}
    BY JobsType
  <2> QED BY <2>1 DEF Init, SubmitsInOrder, Waiting, AfterSubmission
<1>3. EndsWithResult /\ RowsInOrder /\ SuccessIsFinal /\ AcceptanceIsFinal
  BY DEF Init, EndsWithResult, RowsInOrder, SuccessIsFinal, AcceptanceIsFinal
<1>4. CreatedIsSubmitted
  BY DEF Init, CreatedIsSubmitted
<1> QED
  BY <1>1, <1>2, <1>3, <1>4 DEF IInv

(* The control plane preserves the invariant, whoever else is there to see *)
(* it move: it keeps what was read true.                                   *)
LEMMA ServerStepIInv ==
    ASSUME IInv, NEW t \in Tasks, ServerStep(t), UNCHANGED mapVars
    PROVE  IInv'
<1> USE DEF IInv
<1>1. UNCHANGED <<pc, ctx, submitted, outputs, result, created>>
  BY DEF mapVars
<1>2. TypeOK'
  BY <1>1, ServerStepTypeOK DEF TypeOK
<1>3. Completed \subseteq Completed' /\ Proven \subseteq Proven'
  BY ServerStepMonotone DEF TypeOK
<1>4. EndsWithResult' /\ SubmitsInOrder' /\ RowsInOrder'
  BY <1>1 DEF EndsWithResult, SubmitsInOrder, RowsInOrder
<1>5. SuccessIsFinal' /\ AcceptanceIsFinal'
  BY <1>1, <1>3 DEF SuccessIsFinal, AcceptanceIsFinal
<1>6. CreatedIsSubmitted'
  BY <1>1 DEF CreatedIsSubmitted, IdSet, NextJob
<1> QED
  BY <1>2, <1>4, <1>5, <1>6

(* A task is submitted and joins the submitted ones. *)
LEMMA SubmitSucceedsIInv ==
    ASSUME IInv, NEW m \in Maps, SubmitSucceeds(m)
    PROVE  IInv'
<1> DEFINE t == NextJob(m)
           r == [TaskRow(t) EXCEPT !.status = status'[t]]
           n == Len(submitted[m])
<1>1. /\ pc[m] = "submit"
      /\ Posted(m)
      /\ submitted' = [submitted EXCEPT ![m] = Append(@, r)]
      /\ Goto(m, IF n + 1 = Len(Jobs[m]) THEN "list" ELSE "submit")
      /\ UNCHANGED <<ctx, outputs>>
  BY DEF SubmitSucceeds
<1>2. /\ t \in Tasks
      /\ t = Jobs[m][n + 1]
      /\ n \in Nat
      /\ n < Len(Jobs[m])
  BY <1>1, NextJobType
<1>3. /\ ServerTypeOK'
      /\ Completed' = Completed /\ Proven' = Proven
      /\ created' \in [Maps -> SUBSET Tasks]
      /\ created'[m] \subseteq created[m] \cup {t}
      /\ \A q \in Maps \ {m} : created'[q] = created[q]
  BY <1>1, PostedKeeps
<1>4. r \in Row /\ r.id = t /\ r.error = "none"
  BY <1>2, <1>3 DEF Row, Cause, TaskRow, ServerTypeOK
<1> USE DEF IInv
<1> HIDE DEF t, r
<1>5. /\ submitted[m] \in Seq(Row)
      /\ submitted'[m] = Append(submitted[m], r)
      /\ submitted' \in [Maps -> Seq(Row)]
      /\ \A q \in Maps \ {m} : submitted'[q] = submitted[q]
  BY <1>1, <1>4 DEF TypeOK
<1>6. /\ pc' = [pc EXCEPT ![m] = IF n + 1 = Len(Jobs[m]) THEN "list" ELSE "submit"]
      /\ result' = result
  BY <1>1 DEF Goto
<1>7. result[m] = "none"
  BY <1>1 DEF EndsWithResult
<1>8. TypeOK'
  BY <1>1, <1>3, <1>5, <1>6 DEF TypeOK, Waiting
<1>9. EndsWithResult'
  BY <1>1, <1>6, <1>7 DEF EndsWithResult, TypeOK
<1>10. /\ Len(submitted'[m]) = n + 1
       /\ \A i \in 1 .. n : submitted'[m][i] = submitted[m][i]
       /\ submitted'[m][n + 1] = r
  BY <1>2, <1>4, <1>5
<1>11. /\ Len(Jobs[m]) \in Nat
       /\ pc'[m] = IF n + 1 = Len(Jobs[m]) THEN "list" ELSE "submit"
       /\ \A q \in Maps \ {m} : pc'[q] = pc[q]
  BY <1>6, JobsType DEF TypeOK
<1>12. SubmitsInOrder'
  <2>1. \A i \in 1 .. n + 1 : submitted'[m][i].id = Jobs[m][i]
    <3>1. \A i \in 1 .. n : submitted[m][i].id = Jobs[m][i]
      BY DEF SubmitsInOrder
    <3>2. \A i \in 1 .. n + 1 : i \in 1 .. n \/ i = n + 1
      BY <1>2
    <3> HIDE DEF n
    <3> QED BY <1>2, <1>4, <1>10, <3>1, <3>2
  <2>2. pc'[m] = "submit" => n + 1 < Len(Jobs[m])
    BY <1>2, <1>11
  <2>3. pc'[m] \in Waiting => n + 1 = Len(Jobs[m])
    BY <1>11 DEF Waiting
  <2>4. pc'[m] # "start" /\ result'[m] = "none"
    BY <1>6, <1>7, <1>11
  <2> HIDE DEF n
  <2> SUFFICES ASSUME NEW q \in Maps
               PROVE  /\ Len(submitted'[q]) <= Len(Jobs[q])
                      /\ \A i \in 1 .. Len(submitted'[q]) : submitted'[q][i].id = Jobs[q][i]
                      /\ pc'[q] = "start" \/ result'[q] = "client_error" => submitted'[q] = <<>>
                      /\ pc'[q] = "submit" \/ result'[q] = "submit_failed" =>
                            Len(submitted'[q]) < Len(Jobs[q])
                      /\ pc'[q] \in Waiting \/ result'[q] \in AfterSubmission =>
                            Len(submitted'[q]) = Len(Jobs[q])
    BY DEF SubmitsInOrder, AfterSubmission
  <2>5. CASE q # m
    <3>1. submitted'[q] = submitted[q] /\ pc'[q] = pc[q] /\ result'[q] = result[q]
      BY <1>5, <1>6, <1>11, <2>5
    <3>2. /\ Len(submitted[q]) <= Len(Jobs[q])
          /\ \A i \in 1 .. Len(submitted[q]) : submitted[q][i].id = Jobs[q][i]
          /\ pc[q] = "start" \/ result[q] = "client_error" => submitted[q] = <<>>
          /\ pc[q] = "submit" \/ result[q] = "submit_failed" =>
                Len(submitted[q]) < Len(Jobs[q])
          /\ pc[q] \in Waiting \/ result[q] \in AfterSubmission =>
                Len(submitted[q]) = Len(Jobs[q])
      BY DEF SubmitsInOrder
    <3> QED BY ONLY <3>1, <3>2
  <2>6. CASE q = m
    BY <1>2, <1>10, <1>11, <2>1, <2>2, <2>3, <2>4, <2>6 DEF AfterSubmission
  <2> QED BY <2>5, <2>6
<1>13. RowsInOrder'
  <2>1. Len(outputs[m]) \in Nat /\ Len(outputs[m]) <= n
    BY DEF TypeOK, RowsInOrder
  <2>2. Len(outputs[m]) <= Len(submitted'[m]) /\ pc'[m] \notin {"proofs", "sleep"}
    BY <1>2, <1>10, <1>11, <2>1
  <2>3. \A i \in 1 .. Len(submitted'[m]) : submitted'[m][i].error = "none"
    <3>1. \A i \in 1 .. n : submitted[m][i].error = "none"
      BY DEF RowsInOrder
    <3>2. \A i \in 1 .. n + 1 : i \in 1 .. n \/ i = n + 1
      BY <1>2
    <3> HIDE DEF n
    <3> QED BY <1>4, <1>10, <3>1, <3>2
  <2> HIDE DEF n
  <2> QED
    BY <1>1, <1>5, <1>6, <1>7, <1>11, <2>2, <2>3 DEF RowsInOrder
<1>14. SuccessIsFinal' /\ AcceptanceIsFinal'
  BY <1>1, <1>3, <1>6, <1>7 DEF SuccessIsFinal, AcceptanceIsFinal, TypeOK
<1>15. CreatedIsSubmitted'
  <2>1. IdSet(submitted'[m]) = IdSet(submitted[m]) \cup {t}
    <3>1. DOMAIN submitted[m] = 1 .. n /\ DOMAIN submitted'[m] = (1 .. n) \cup {n + 1}
      BY <1>2, <1>4, <1>5
    <3> QED BY <1>4, <1>10, <3>1 DEF IdSet
  <2>2. created[m] \subseteq IdSet(submitted[m])
    BY <1>7 DEF CreatedIsSubmitted
  <2>3. \A q \in Maps \ {m} : NextJob(q)' = NextJob(q)
    BY <1>5 DEF NextJob
  <2>4. \A q \in Maps \ {m} : IdSet(submitted'[q]) = IdSet(submitted[q])
    BY <1>5
  <2> QED
    BY <1>3, <1>6, <1>7, <2>1, <2>2, <2>3, <2>4 DEF CreatedIsSubmitted
<1> QED
  BY <1>8, <1>9, <1>12, <1>13, <1>14, <1>15

(* A submission fails, with or without a task created, and ends the step. *)
LEMMA SubmitFailsIInv ==
    ASSUME IInv, NEW m \in Maps, SubmitFails(m)
    PROVE  IInv'
<1> DEFINE t == NextJob(m)
<1>1. /\ pc[m] = "submit"
      /\ Posted(m) \/ UNCHANGED <<serverVars, created>>
      /\ outputs' = [outputs EXCEPT ![m] = submitted[m]]
      /\ pc' = [pc EXCEPT ![m] = "done"]
      /\ result' = [result EXCEPT ![m] = "submit_failed"]
      /\ UNCHANGED <<ctx, submitted>>
  BY DEF SubmitFails, Report, Return
<1>2. /\ ServerTypeOK'
      /\ Completed' = Completed /\ Proven' = Proven
      /\ created' \in [Maps -> SUBSET Tasks]
      /\ created'[m] \subseteq created[m] \cup {t}
      /\ \A q \in Maps \ {m} : created'[q] = created[q]
  <2>1. CASE Posted(m)
    BY <1>1, <2>1, PostedKeeps
  <2>2. CASE UNCHANGED <<serverVars, created>>
    BY <2>2 DEF IInv, TypeOK, ServerTypeOK, serverVars, Completed, Proven
  <2> QED BY <1>1, <2>1, <2>2
<1> USE DEF IInv
<1>3. TypeOK'
  BY <1>1, <1>2 DEF TypeOK, Result
<1>4. EndsWithResult'
  BY <1>1 DEF EndsWithResult, TypeOK
<1>5. SubmitsInOrder'
  BY <1>1 DEF SubmitsInOrder, TypeOK, AfterSubmission, Waiting
<1>6. RowsInOrder'
  <2>1. /\ outputs'[m] = submitted[m]
        /\ result'[m] = "submit_failed"
        /\ pc'[m] = "done"
        /\ \A q \in Maps \ {m} : outputs'[q] = outputs[q] /\ result'[q] = result[q]
                                 /\ pc'[q] = pc[q]
        /\ submitted' = submitted
    BY <1>1 DEF TypeOK
  <2>2. Len(submitted[m]) \in Nat
    BY DEF TypeOK
  <2>3. \A i \in 1 .. Len(submitted[m]) : submitted[m][i].id = Jobs[m][i]
                                             /\ submitted[m][i].error = "none"
    BY DEF SubmitsInOrder, RowsInOrder
  <2> QED
    BY <2>1, <2>2, <2>3 DEF RowsInOrder
<1>7. SuccessIsFinal' /\ AcceptanceIsFinal'
  BY <1>1, <1>2 DEF SuccessIsFinal, AcceptanceIsFinal, TypeOK
<1>8. CreatedIsSubmitted'
  <2>1. created[m] \subseteq IdSet(submitted[m])
    BY <1>1 DEF CreatedIsSubmitted, EndsWithResult
  <2>2. \A q \in Maps : NextJob(q)' = NextJob(q) /\ IdSet(submitted[q])' = IdSet(submitted[q])
    BY <1>1 DEF NextJob, IdSet
  <2> QED
    BY <1>1, <1>2, <2>1, <2>2 DEF CreatedIsSubmitted, TypeOK
<1> QED
  BY <1>3, <1>4, <1>5, <1>6, <1>7, <1>8

(* What a step of the polls owes the invariant: it replaces the rows, goes  *)
(* to l and ends with r, or with "none" if it goes on.                     *)
PollStep(m, rows, l, r) ==
    /\ rows \in Seq(Row)
    /\ l \in Waiting \cup {"done"}
    /\ r \in Result \ {"client_error", "submit_failed"}
    /\ l = "done" <=> r # "none"
    /\ outputs' = [outputs EXCEPT ![m] = rows]
    /\ pc' = [pc EXCEPT ![m] = l]
    /\ result' = [result EXCEPT ![m] = r]
    /\ Len(rows) <= Len(submitted[m])
    /\ \A i \in 1 .. Len(rows) : rows[i].id = submitted[m][i].id
    /\ l = "list" \/ r \in {"task_stopped", "not_found"} \/ Len(rows) = Len(submitted[m])
    /\ l = "proofs" \/ r = "ok" =>
          \A i \in 1 .. Len(rows) :
             rows[i].status = "succeeded" /\ rows[i].id \in Completed
    /\ r = "ok" =>
          \A i \in 1 .. Len(rows) :
             /\ rows[i].proof # "rejected"
             /\ m \in Strict => rows[i].proof = "accepted" /\ rows[i].id \in Proven

(* A step of the polls, all tasks being submitted, preserves the invariant. *)
LEMMA PollIInv ==
    ASSUME IInv, NEW m \in Maps, pc[m] \in Waiting,
           UNCHANGED <<serverVars, submitted, created>>,
           ctx' \in [Maps -> {"live", "expired", "cancelled"}],
           NEW rows, NEW l, NEW r, PollStep(m, rows, l, r)
    PROVE  IInv'
<1> USE DEF IInv, PollStep
<1>1. /\ ServerTypeOK' /\ Completed' = Completed /\ Proven' = Proven
      /\ submitted' = submitted /\ created' = created
  BY DEF TypeOK, ServerTypeOK, serverVars, Completed, Proven
<1>2. /\ pc'[m] = l /\ result'[m] = r /\ outputs'[m] = rows
      /\ \A q \in Maps \ {m} : pc'[q] = pc[q] /\ result'[q] = result[q]
                               /\ outputs'[q] = outputs[q]
  BY DEF TypeOK
<1>3. /\ result[m] = "none"
      /\ Len(submitted[m]) = Len(Jobs[m])
      /\ \A i \in 1 .. Len(submitted[m]) : submitted[m][i].id = Jobs[m][i]
  BY DEF EndsWithResult, SubmitsInOrder, Waiting
<1>4. Len(rows) \in Nat /\ Len(submitted[m]) \in Nat
  BY DEF TypeOK
<1>5. TypeOK'
  BY <1>1 DEF TypeOK
<1>6. EndsWithResult'
  BY <1>2 DEF EndsWithResult
<1>7. SubmitsInOrder'
  <2>1. l # "start" /\ l # "submit"
    BY DEF Waiting
  <2> QED
    BY <1>1, <1>2, <1>3, <2>1 DEF SubmitsInOrder
<1>8. RowsInOrder'
  <2>1. \A i \in 1 .. Len(rows) : rows[i].id = Jobs[m][i]
    BY <1>3, <1>4
  <2>2. l = "list" => r = "none"
    OBVIOUS
  <2> SUFFICES ASSUME NEW q \in Maps
               PROVE  /\ \A i \in 1 .. Len(submitted[q]) : submitted[q][i].error = "none"
                      /\ Len(outputs'[q]) <= Len(submitted[q])
                      /\ \A i \in 1 .. Len(outputs'[q]) : outputs'[q][i].id = Jobs[q][i]
                      /\ \/ pc'[q] \in {"proofs", "sleep"}
                         \/ result'[q] \in {"submit_failed", "tasks_unavailable",
                                           "proofs_unavailable", "proof_rejected",
                                           "timed_out", "ok"}
                         => Len(outputs'[q]) = Len(submitted[q])
    BY <1>1 DEF RowsInOrder
  <2>3. CASE q # m
    <3>1. pc'[q] = pc[q] /\ result'[q] = result[q] /\ outputs'[q] = outputs[q]
      BY <1>2, <2>3
    <3> HIDE DEF PollStep
    <3> QED BY <3>1 DEF RowsInOrder
  <2>4. CASE q = m
    <3>1. pc'[q] = l /\ result'[q] = r /\ outputs'[q] = rows
      BY <1>2, <2>4
    <3>2. Len(rows) <= Len(submitted[m])
      OBVIOUS
    <3>3. \/ l \in {"proofs", "sleep"}
          \/ r \in {"submit_failed", "tasks_unavailable", "proofs_unavailable",
                    "proof_rejected", "timed_out", "ok"}
          => Len(rows) = Len(submitted[m])
      BY <2>2
    <3>4. \A i \in 1 .. Len(submitted[m]) : submitted[m][i].error = "none"
      BY DEF RowsInOrder
    <3> QED BY ONLY <2>1, <2>4, <3>1, <3>2, <3>3, <3>4
  <2> QED BY <2>3, <2>4
<1>9. SuccessIsFinal' /\ AcceptanceIsFinal'
  BY <1>1, <1>2 DEF SuccessIsFinal, AcceptanceIsFinal
<1>10. CreatedIsSubmitted'
  <2>1. created[m] \subseteq IdSet(submitted[m])
    BY <1>3 DEF CreatedIsSubmitted
  <2>2. \A q \in Maps : NextJob(q)' = NextJob(q)
    BY <1>1 DEF NextJob
  <2> QED
    BY <1>1, <1>2, <2>1, <2>2 DEF CreatedIsSubmitted
<1> QED
  BY <1>5, <1>6, <1>7, <1>8, <1>9, <1>10

(* The tasks have been read. *)
LEMMA TasksArriveIInv ==
    ASSUME IInv, NEW m \in Maps, TasksArrive(m)
    PROVE  IInv'
<1>1. /\ pc[m] = "list"
      /\ UNCHANGED <<serverVars, ctx, submitted, created>>
  BY DEF TasksArrive
<1>2. /\ ctx' \in [Maps -> {"live", "expired", "cancelled"}]
      /\ pc[m] \in Waiting /\ result[m] = "none"
      /\ result \in [Maps -> Result]
  BY <1>1 DEF IInv, TypeOK, Waiting, EndsWithResult
<1>3. PICK rows \in Seq(Row) :
         /\ outputs' = [outputs EXCEPT ![m] = rows]
         /\ Len(rows) <= Len(submitted[m])
         /\ \A i \in 1 .. Len(rows) : rows[i].id = submitted[m][i].id
         /\ \/ Return(m, "not_found") \/ Return(m, "task_stopped")
            \/ /\ Goto(m, "proofs")
               /\ Len(rows) = Len(submitted[m])
               /\ \A i \in 1 .. Len(rows) :
                     rows[i].status = "succeeded" /\ rows[i].id \in Completed
            \/ /\ Goto(m, "sleep")
               /\ Len(rows) = Len(submitted[m])
  BY TasksRead
<1>4. result = [result EXCEPT ![m] = "none"]
  BY <1>2
<1>5. ASSUME NEW r \in {"not_found", "task_stopped"}, Return(m, r)
      PROVE  IInv'
  <2>1. PollStep(m, rows, "done", r)
    BY <1>3, <1>5 DEF PollStep, Return, Result, Waiting
  <2> QED
    BY <1>1, <1>2, <2>1, PollIInv
<1>6. ASSUME Goto(m, "proofs"),
             Len(rows) = Len(submitted[m]),
             \A i \in 1 .. Len(rows) :
                rows[i].status = "succeeded" /\ rows[i].id \in Completed
      PROVE  IInv'
  <2>1. PollStep(m, rows, "proofs", "none")
    BY <1>3, <1>4, <1>6 DEF PollStep, Goto, Result, Waiting
  <2> QED
    BY <1>1, <1>2, <2>1, PollIInv
<1>7. ASSUME Goto(m, "sleep"), Len(rows) = Len(submitted[m])
      PROVE  IInv'
  <2>1. PollStep(m, rows, "sleep", "none")
    BY <1>3, <1>4, <1>7 DEF PollStep, Goto, Result, Waiting
  <2> QED
    BY <1>1, <1>2, <2>1, PollIInv
<1> QED
  BY <1>3, <1>5, <1>6, <1>7

(* The proofs have been read, for rows that all report a success. *)
LEMMA ProofsArriveIInv ==
    ASSUME IInv, NEW m \in Maps, ProofsArrive(m)
    PROVE  IInv'
<1>1. /\ pc[m] = "proofs"
      /\ UNCHANGED <<serverVars, ctx, submitted, created>>
  BY DEF ProofsArrive
<1>2. /\ ctx' \in [Maps -> {"live", "expired", "cancelled"}]
      /\ pc[m] \in Waiting /\ result[m] = "none"
      /\ result \in [Maps -> Result]
  BY <1>1 DEF IInv, TypeOK, Waiting, EndsWithResult
<1>3. PICK rows \in Seq(Row) :
         /\ outputs' = [outputs EXCEPT ![m] = rows]
         /\ Len(rows) = Len(outputs[m])
         /\ \A i \in 1 .. Len(rows) : rows[i].id = outputs[m][i].id
                                      /\ rows[i].status = outputs[m][i].status
         /\ \/ Return(m, "proof_rejected")
            \/ /\ Return(m, "ok")
               /\ \A i \in 1 .. Len(rows) :
                     /\ rows[i].proof # "rejected"
                     /\ m \in Strict => rows[i].proof = "accepted" /\ rows[i].id \in Proven
            \/ Goto(m, "sleep")
  BY ProofsRead
<1>4. /\ Len(outputs[m]) = Len(submitted[m])
      /\ Len(submitted[m]) = Len(Jobs[m])
      /\ \A i \in 1 .. Len(outputs[m]) : outputs[m][i].id = submitted[m][i].id
      /\ \A i \in 1 .. Len(outputs[m]) :
            outputs[m][i].status = "succeeded" /\ outputs[m][i].id \in Completed
  BY <1>1, <1>2 DEF IInv, RowsInOrder, SubmitsInOrder, SuccessIsFinal
<1>5. /\ Len(rows) \in Nat
      /\ Len(rows) <= Len(submitted[m])
      /\ Len(rows) = Len(submitted[m])
      /\ \A i \in 1 .. Len(rows) : rows[i].id = submitted[m][i].id
      /\ \A i \in 1 .. Len(rows) :
            rows[i].status = "succeeded" /\ rows[i].id \in Completed
  BY <1>3, <1>4
<1>6. result = [result EXCEPT ![m] = "none"]
  BY <1>2
<1>7. CASE Return(m, "proof_rejected")
  <2>1. PollStep(m, rows, "done", "proof_rejected")
    BY <1>3, <1>5, <1>7 DEF PollStep, Return, Result, Waiting
  <2> QED
    BY <1>1, <1>2, <2>1, PollIInv
<1>8. CASE Goto(m, "sleep")
  <2>1. PollStep(m, rows, "sleep", "none")
    BY <1>3, <1>5, <1>6, <1>8 DEF PollStep, Goto, Result, Waiting
  <2> QED
    BY <1>1, <1>2, <2>1, PollIInv
<1>9. CASE Return(m, "ok") /\ \A i \in 1 .. Len(rows) :
              /\ rows[i].proof # "rejected"
              /\ m \in Strict => rows[i].proof = "accepted" /\ rows[i].id \in Proven
  <2>1. PollStep(m, rows, "done", "ok")
    BY <1>3, <1>5, <1>9 DEF PollStep, Return, Result, Waiting
  <2> QED
    BY <1>1, <1>2, <2>1, PollIInv
<1> QED
  BY <1>3, <1>7, <1>8, <1>9

(* Failed reads, the select and the deadline of a poll. *)
LEMMA PollEndsIInv ==
    ASSUME IInv, NEW m \in Maps,
           \/ TasksFail(m) \/ ProofsFail(m) \/ PollTimerFires(m)
           \/ SeesContextDone(m) \/ StepDeadline(m)
    PROVE  IInv'
<1>1. /\ pc[m] \in Waiting
      /\ UNCHANGED <<serverVars, submitted, created>>
  BY DEF TasksFail, ProofsFail, PollTimerFires, SeesContextDone, StepDeadline, Waiting
<1>2. /\ result[m] = "none"
      /\ outputs \in [Maps -> Seq(Row)] /\ outputs[m] \in Seq(Row)
      /\ submitted[m] \in Seq(Row)
      /\ pc \in [Maps -> {"start", "submit", "done"} \cup Waiting]
      /\ result \in [Maps -> Result]
      /\ ctx' \in [Maps -> {"live", "expired", "cancelled"}]
  BY <1>1 DEF IInv, TypeOK, EndsWithResult, Waiting,
         TasksFail, ProofsFail, PollTimerFires, SeesContextDone, StepDeadline
<1>3. /\ Len(submitted[m]) \in Nat /\ Len(outputs[m]) \in Nat
      /\ Len(outputs[m]) <= Len(submitted[m])
      /\ Len(submitted[m]) = Len(Jobs[m])
      /\ \A i \in 1 .. Len(submitted[m]) : submitted[m][i].id = Jobs[m][i]
      /\ \A i \in 1 .. Len(outputs[m]) : outputs[m][i].id = Jobs[m][i]
      /\ pc[m] \in {"proofs", "sleep"} => Len(outputs[m]) = Len(submitted[m])
  BY <1>1, <1>2 DEF IInv, RowsInOrder, SubmitsInOrder
<1>4. /\ outputs = [outputs EXCEPT ![m] = outputs[m]]
      /\ pc = [pc EXCEPT ![m] = pc[m]]
      /\ result = [result EXCEPT ![m] = "none"]
      /\ \A i \in 1 .. Len(outputs[m]) : outputs[m][i].id = submitted[m][i].id
  BY <1>2, <1>3
<1>5. CASE TasksFail(m)
  <2>1. /\ outputs' = [outputs EXCEPT ![m] = submitted[m]]
        /\ pc' = [pc EXCEPT ![m] = "done"]
    BY <1>5 DEF TasksFail, Report, Return
  <2>2. PICK r \in {"tasks_unavailable", "timed_out"} : result' = [result EXCEPT ![m] = r]
    BY <1>5 DEF TasksFail, FailureOf, Return
  <2>3. PollStep(m, submitted[m], "done", r)
    BY <1>2, <1>3, <2>1, <2>2 DEF PollStep, Result, Waiting
  <2> QED
    BY <1>1, <1>2, <2>3, PollIInv
<1>6. CASE ProofsFail(m)
  <2>1. /\ outputs' = outputs
        /\ pc' = [pc EXCEPT ![m] = "done"]
        /\ pc[m] = "proofs"
    BY <1>6 DEF ProofsFail, Return
  <2>2. PICK r \in {"proofs_unavailable", "timed_out"} : result' = [result EXCEPT ![m] = r]
    BY <1>6 DEF ProofsFail, FailureOf, Return
  <2>3. PollStep(m, outputs[m], "done", r)
    BY <1>2, <1>3, <1>4, <2>1, <2>2 DEF PollStep, Result, Waiting
  <2> QED
    BY <1>1, <1>2, <2>3, PollIInv
<1>7. CASE PollTimerFires(m)
  <2>1. /\ outputs' = outputs /\ result' = result
        /\ pc' = [pc EXCEPT ![m] = "list"]
    BY <1>7 DEF PollTimerFires, Goto
  <2>2. PollStep(m, outputs[m], "list", "none")
    BY <1>2, <1>3, <1>4, <2>1 DEF PollStep, Result, Waiting
  <2> QED
    BY <1>1, <1>2, <2>2, PollIInv
<1>8. CASE SeesContextDone(m)
  <2>1. /\ outputs' = outputs
        /\ pc' = [pc EXCEPT ![m] = "done"]
        /\ result' = [result EXCEPT ![m] = "timed_out"]
        /\ pc[m] = "sleep"
    BY <1>8 DEF SeesContextDone, Return
  <2>2. PollStep(m, outputs[m], "done", "timed_out")
    BY <1>2, <1>3, <1>4, <2>1 DEF PollStep, Result, Waiting
  <2> QED
    BY <1>1, <1>2, <2>2, PollIInv
<1>9. CASE StepDeadline(m)
  <2>1. UNCHANGED <<outputs, result, pc>>
    BY <1>9 DEF StepDeadline
  <2>2. pc[m] = "proofs" => \A i \in 1 .. Len(outputs[m]) :
           outputs[m][i].status = "succeeded" /\ outputs[m][i].id \in Completed
    BY DEF IInv, SuccessIsFinal
  <2>3. pc[m] = "list" \/ Len(outputs[m]) = Len(submitted[m])
    BY <1>1, <1>3 DEF Waiting
  <2>4. PollStep(m, outputs[m], pc[m], "none")
    BY <1>1, <1>2, <1>3, <1>4, <2>1, <2>2, <2>3 DEF PollStep, Result, Waiting
  <2> QED
    BY <1>1, <1>2, <2>4, PollIInv
<1> QED
  BY <1>5, <1>6, <1>7, <1>8, <1>9

(* A step that changes at most the state of a context preserves the invariant. *)
LEMMA ContextIInv ==
    ASSUME IInv, UNCHANGED <<serverVars, pc, submitted, outputs, result, created>>,
           ctx' \in [Maps -> {"live", "expired", "cancelled"}]
    PROVE  IInv'
<1> USE DEF IInv
<1>1. ServerTypeOK' /\ Completed' = Completed /\ Proven' = Proven
  BY DEF TypeOK, ServerTypeOK, serverVars, Completed, Proven
<1>2. TypeOK'
  BY <1>1 DEF TypeOK
<1>3. EndsWithResult' /\ SubmitsInOrder'
  BY DEF EndsWithResult, SubmitsInOrder
<1>4. RowsInOrder'
  BY DEF RowsInOrder
<1>5. SuccessIsFinal' /\ AcceptanceIsFinal'
  BY <1>1 DEF SuccessIsFinal, AcceptanceIsFinal
<1>6. CreatedIsSubmitted'
  BY DEF CreatedIsSubmitted, NextJob, IdSet
<1> QED
  BY <1>2, <1>3, <1>4, <1>5, <1>6

(* The start of an execution and the end of its context. *)
LEMMA OutsideIInv ==
    ASSUME IInv, NEW m \in Maps, Begin(m) \/ EngineEndsContext(m)
    PROVE  IInv'
<1> USE DEF IInv
<1>1. UNCHANGED <<serverVars, submitted, outputs, created>>
  BY DEF Begin, EngineEndsContext
<1>2. CASE EngineEndsContext(m)
  <2>1. UNCHANGED <<pc, result>> /\ ctx' \in [Maps -> {"live", "expired", "cancelled"}]
    BY <1>2 DEF EngineEndsContext, TypeOK
  <2> QED
    BY <1>1, <2>1, ContextIInv
<1>3. CASE Begin(m)
  <2>1. /\ pc[m] = "start" /\ ctx' = ctx
        /\ \/ pc' = [pc EXCEPT ![m] = "submit"] /\ result' = result
           \/ /\ pc' = [pc EXCEPT ![m] = "done"]
              /\ result' = [result EXCEPT ![m] = "client_error"]
    BY <1>3 DEF Begin, Goto, Return
  <2>2. /\ \A q \in Maps \ {m} : pc'[q] = pc[q] /\ result'[q] = result[q]
        /\ result[m] = "none"
        /\ \/ pc'[m] = "submit" /\ result'[m] = "none"
           \/ pc'[m] = "done" /\ result'[m] = "client_error"
    BY <2>1 DEF TypeOK, EndsWithResult
  <2>3. submitted[m] = <<>> /\ Len(submitted[m]) = 0 /\ Len(Jobs[m]) \in Nat \ {0}
    BY <2>1, JobsType DEF SubmitsInOrder
  <2>4. TypeOK'
    BY <1>1, <2>1 DEF TypeOK, ServerTypeOK, serverVars, Result, Waiting
  <2>5. EndsWithResult' /\ CreatedIsSubmitted'
    BY <1>1, <2>2 DEF EndsWithResult, CreatedIsSubmitted, NextJob, IdSet
  <2>6. SubmitsInOrder'
    BY <1>1, <2>2, <2>3 DEF SubmitsInOrder, Waiting, AfterSubmission
  <2>7. RowsInOrder'
    <3>1. pc'[m] \notin {"proofs", "sleep"} /\ result'[m] \in {"none", "client_error"}
      BY <2>2
    <3> QED
      BY <1>1, <2>2, <3>1 DEF RowsInOrder
  <2>8. SuccessIsFinal' /\ AcceptanceIsFinal'
    BY <1>1, <2>2 DEF SuccessIsFinal, AcceptanceIsFinal, serverVars, Completed, Proven
  <2> QED
    BY <2>4, <2>5, <2>6, <2>7, <2>8
<1> QED
  BY <1>2, <1>3

(* Every step preserves the invariant. *)
LEMMA NextIInv == IInv /\ [Next]_vars => IInv'
<1> SUFFICES ASSUME IInv, [Next]_vars PROVE IInv'
  OBVIOUS
<1>1. CASE UNCHANGED vars
  <2>1. ctx' \in [Maps -> {"live", "expired", "cancelled"}]
    BY <1>1 DEF vars, mapVars, IInv, TypeOK
  <2> QED
    BY <1>1, <2>1, ContextIInv DEF vars, mapVars
<1> QED
  BY <1>1, ServerStepIInv, SubmitSucceedsIInv, SubmitFailsIInv, TasksArriveIInv,
     ProofsArriveIInv, PollEndsIInv, OutsideIInv DEF Next, Server, Execute, Finished

(* The inductive invariant holds in every state. *)
THEOREM Inductive == SafetySpec => []IInv
BY InitIInv, NextIInv, PTL DEF SafetySpec

(* Every state of every behaviour is well typed. *)
THEOREM TypeCorrect == SafetySpec => []TypeOK
<1>1. IInv => TypeOK
  BY DEF IInv
<1> QED BY <1>1, Inductive, PTL

-----------------------------------------------------------------------------
(* The properties of step.compute_map. *)

(* What the invariant says of an execution that has reported every task. *)
LEMMA AllRows ==
    ASSUME IInv, NEW m \in Maps, result[m] \in {"ok", "timed_out"}
    PROVE  /\ Len(outputs[m]) = Len(Jobs[m])
           /\ Len(Jobs[m]) \in Nat
           /\ Jobs[m] \in Seq(Tasks)
           /\ outputs[m] \in Seq(Row)
           /\ \A i \in 1 .. Len(Jobs[m]) : outputs[m][i].id = Jobs[m][i]
<1>1. result[m] \in AfterSubmission
  BY DEF AfterSubmission, Result
<1> QED
  BY <1>1, JobsType DEF IInv, TypeOK, SubmitsInOrder, RowsInOrder

(* The rows of such an execution name the configured tasks, in order. *)
LEMMA AllIds ==
    ASSUME IInv, NEW m \in Maps, result[m] \in {"ok", "timed_out"}
    PROVE  Ids(outputs[m]) = Jobs[m]
<1>1. /\ DOMAIN outputs[m] = 1 .. Len(Jobs[m])
      /\ DOMAIN Jobs[m] = 1 .. Len(Jobs[m])
      /\ Jobs[m] = [i \in 1 .. Len(Jobs[m]) |-> Jobs[m][i]]
      /\ \A i \in 1 .. Len(Jobs[m]) : outputs[m][i].id = Jobs[m][i]
  BY AllRows
<1> QED BY <1>1 DEF Ids

(* The invariant says of a success what the rows that led to it were. *)
LEMMA EarnedByInvariant == IInv => OkIsEarned
<1> SUFFICES ASSUME IInv, NEW m \in Maps, result[m] = "ok", NEW i \in DOMAIN Jobs[m]
             PROVE  /\ Jobs[m][i] \in Completed
                    /\ m \in Strict => Jobs[m][i] \in Proven
  BY DEF OkIsEarned
<1>1. i \in 1 .. Len(outputs[m]) /\ outputs[m][i].id = Jobs[m][i]
  BY AllRows
<1> QED
  BY <1>1 DEF IInv, SuccessIsFinal, AcceptanceIsFinal

(* The pipeline goes on only when every configured task has succeeded and, *)
(* where a proof is required, is proven.                                   *)
THEOREM EarnedOk == SafetySpec => []OkIsEarned
BY EarnedByInvariant, Inductive, PTL

(* The rows of a success are of the configured tasks, as the invariant     *)
(* says of rows in general.                                                *)
LEMMA ReportedByInvariant == IInv => OkReportsEachTask
<1> SUFFICES ASSUME IInv, NEW m \in Maps, result[m] = "ok"
             PROVE  /\ Ids(outputs[m]) = Jobs[m]
                    /\ \A i \in DOMAIN outputs[m] :
                          /\ outputs[m][i].status = "succeeded"
                          /\ outputs[m][i].proof \in {"accepted"} \cup
                                (IF m \in Strict THEN {} ELSE {"none"})
  BY DEF OkReportsEachTask
<1>1. DOMAIN outputs[m] = 1 .. Len(outputs[m])
      /\ \A i \in 1 .. Len(outputs[m]) : outputs[m][i] \in Row
  BY AllRows
<1>2. \A i \in 1 .. Len(outputs[m]) :
         /\ outputs[m][i].status = "succeeded"
         /\ outputs[m][i].proof # "rejected"
         /\ m \in Strict => outputs[m][i].proof = "accepted"
  BY DEF IInv, SuccessIsFinal, AcceptanceIsFinal
<1>3. \A i \in 1 .. Len(outputs[m]) : outputs[m][i].proof \in {"accepted", "rejected", "none"}
  BY <1>1 DEF Row, Verdict
<1> QED
  BY <1>1, <1>2, <1>3, AllIds

(* A success reports the configured tasks, each with what earned it. *)
THEOREM SuccessIsReported == SafetySpec => []OkReportsEachTask
BY ReportedByInvariant, Inductive, PTL

(* Wherever the deadline falls, a timeout reports every submitted task. *)
THEOREM CompleteTimeout == SafetySpec => []TimeoutReportsEveryTask
<1>1. ASSUME IInv PROVE TimeoutReportsEveryTask
  BY <1>1, AllIds DEF TimeoutReportsEveryTask
<1> QED BY <1>1, Inductive, PTL

(* The first rows of an execution name the first configured tasks. *)
LEMMA FirstIds ==
    ASSUME NEW jobs \in Seq(Tasks), NEW rows \in Seq(Row), Len(rows) <= Len(jobs),
           \A i \in 1 .. Len(rows) : rows[i].id = jobs[i]
    PROVE  Ids(rows) = SubSeq(jobs, 1, Len(rows))
<1>1. SubSeq(jobs, 1, Len(rows)) = [i \in 1 .. Len(rows) |-> jobs[i]]
  OBVIOUS
<1>2. Ids(rows) = [i \in 1 .. Len(rows) |-> jobs[i]]
  BY DEF Ids
<1> QED BY <1>1, <1>2

(* Only the read of the tasks stops an execution for the sake of a task. *)
LEMMA StoppedByRead ==
    ASSUME IInv, [Next]_vars, NEW m \in Maps,
           result[m] = "none", result'[m] \in {"task_stopped", "not_found"}
    PROVE  TasksArrive(m)
<1>1. result \in [Maps -> Result] /\ result'[m] # result[m]
  BY DEF IInv, TypeOK
<1>2. PICK q \in Maps : Execute(q)
  BY <1>1 DEF Next, Server, StepDeadline, EngineEndsContext, Finished, vars, mapVars
<1>3. ASSUME ~TasksArrive(q), q = m PROVE FALSE
  <2>1. CASE ProofsArrive(q)
    <3>1. Return(q, "proof_rejected") \/ Return(q, "ok") \/ Goto(q, "sleep")
      BY <2>1, ProofsRead
    <3> QED BY <1>1, <1>3, <3>1 DEF Return, Goto
  <2>2. CASE ~ProofsArrive(q)
    BY <1>1, <1>2, <1>3, <2>2 DEF Execute, Begin, SubmitSucceeds, SubmitFails, TasksFail,
       ProofsFail, PollTimerFires, SeesContextDone, Return, Goto, FailureOf
  <2> QED BY <2>1, <2>2
<1>4. CASE q # m
  <2>1. CASE ProofsArrive(q)
    <3>1. Return(q, "proof_rejected") \/ Return(q, "ok") \/ Goto(q, "sleep")
      BY <2>1, ProofsRead
    <3> QED BY <1>1, <1>4, <3>1 DEF Return, Goto
  <2>2. CASE TasksArrive(q)
    <3>1. \/ Return(q, "not_found") \/ Return(q, "task_stopped")
          \/ Goto(q, "proofs") \/ Goto(q, "sleep")
      BY <2>2, TasksRead
    <3> QED BY <1>1, <1>4, <3>1 DEF Return, Goto
  <2>3. CASE ~ProofsArrive(q) /\ ~TasksArrive(q)
    BY <1>1, <1>2, <1>4, <2>3 DEF Execute, Begin, SubmitSucceeds, SubmitFails, TasksFail,
       ProofsFail, PollTimerFires, SeesContextDone, Return, Goto
  <2> QED BY <2>1, <2>2, <2>3
<1> QED BY <1>3, <1>4

(* The task that stops the step is the last one reported, the only one of  *)
(* the reported that there was a reason to stop at, and the only one with  *)
(* an error.                                                               *)
THEOREM CulpritReported == SafetySpec => CulpritIsLast
<1> DEFINE reported(m) ==
        LET rows == outputs'[m]
            n == Len(rows)
        IN  /\ n > 0
            /\ Ids(rows) = SubSeq(Jobs[m], 1, n)
            /\ \A i \in 1 .. n : Culprit(m, Jobs[m][i]) <=> i = n
            /\ \A i \in 1 .. n :
                  rows[i].error # "none" <=> (i = n /\ result'[m] = "task_stopped")
           P == \A m \in Maps :
                   (result[m] = "none" /\ result'[m] \in {"task_stopped", "not_found"})
                   => reported(m)
<1>1. IInv /\ [Next]_vars => [P]_vars
  <2> SUFFICES ASSUME IInv, [Next]_vars, NEW m \in Maps,
                      result[m] = "none", result'[m] \in {"task_stopped", "not_found"}
               PROVE  reported(m)
    OBVIOUS
  <2>1. TasksArrive(m)
    BY StoppedByRead
  <2>2. PICK rows \in Seq(Row) :
           /\ outputs' = [outputs EXCEPT ![m] = rows]
           /\ Len(rows) <= Len(submitted[m])
           /\ \A i \in 1 .. Len(rows) : rows[i].id = submitted[m][i].id
           /\ \/ \E r \in {"task_stopped", "not_found"} :
                    Return(m, r) /\ StopsAtLast(m, rows, r)
              \/ Goto(m, "proofs")
              \/ Goto(m, "sleep")
    BY <2>1, TasksRead
  <2>3. outputs'[m] = rows /\ result \in [Maps -> Result]
    BY <2>2 DEF IInv, TypeOK
  <2>4. StopsAtLast(m, rows, result'[m])
    BY <2>2, <2>3 DEF Return, Goto
  <2>5. /\ Jobs[m] \in Seq(Tasks)
        /\ Len(rows) \in Nat
        /\ Len(rows) <= Len(Jobs[m])
        /\ \A i \in 1 .. Len(rows) : rows[i].id = Jobs[m][i]
    <3>1. /\ submitted[m] \in Seq(Row) /\ Len(submitted[m]) <= Len(Jobs[m])
          /\ \A i \in 1 .. Len(submitted[m]) : submitted[m][i].id = Jobs[m][i]
      BY DEF IInv, TypeOK, SubmitsInOrder
    <3> QED BY <2>2, <3>1, JobsType
  <2>6. Ids(rows) = SubSeq(Jobs[m], 1, Len(rows))
    BY <2>5, FirstIds
  <2> QED
    BY <2>3, <2>4, <2>5, <2>6 DEF StopsAtLast
<1>2. IInv /\ [Next]_vars => [P]_vars
  BY <1>1
<1> HIDE DEF P
<1>3. SafetySpec => [][P]_vars
  BY <1>2, Inductive, PTL DEF SafetySpec
<1> QED
  BY <1>3 DEF CulpritIsLast, P

(* What an execution leaves behind can be found from its output, but for   *)
(* the two cases that NoTaskIsLost names.                                  *)
THEOREM TasksAreReported == SafetySpec => []NoTaskIsLost
<1>1. ASSUME IInv PROVE NoTaskIsLost
  <2> DEFINE rest(m) == {Jobs[m][i] : i \in (Len(outputs[m]) + 1) .. Len(Jobs[m])}
  <2> SUFFICES ASSUME NEW m \in Maps, pc[m] = "done"
               PROVE  created[m] \subseteq IdSet(outputs[m]) \cup
                         (IF result[m] = "submit_failed" THEN {NextJob(m)} ELSE
                          IF result[m] \in {"task_stopped", "not_found"} THEN rest(m) ELSE {})
    BY DEF NoTaskIsLost
  <2>1. created[m] \subseteq IdSet(submitted[m]) \cup
           (IF result[m] = "submit_failed" THEN {NextJob(m)} ELSE {})
    BY <1>1 DEF IInv, CreatedIsSubmitted
  <2>2. outputs[m] \in Seq(Row) /\ submitted[m] \in Seq(Row) /\ result[m] \in Result \ {"none"}
    BY <1>1 DEF IInv, TypeOK, EndsWithResult
  <2>3. \A i \in 1 .. Len(submitted[m]) : submitted[m][i].id = Jobs[m][i]
    BY <1>1 DEF IInv, SubmitsInOrder
  <2>4. CASE result[m] = "client_error"
    <3>1. submitted[m] = <<>>
      BY <1>1, <2>4 DEF IInv, SubmitsInOrder
    <3> QED BY <2>1, <2>4, <3>1 DEF IdSet
  <2>5. CASE result[m] \in {"task_stopped", "not_found"}
    <3>1. created[m] \subseteq IdSet(submitted[m])
      BY <2>1, <2>5
    <3>2. /\ Len(submitted[m]) <= Len(Jobs[m]) /\ Len(Jobs[m]) \in Nat
          /\ \A i \in 1 .. Len(outputs[m]) : outputs[m][i].id = Jobs[m][i]
      BY <1>1, JobsType DEF IInv, RowsInOrder, SubmitsInOrder
    <3>3. /\ DOMAIN outputs[m] = 1 .. Len(outputs[m]) /\ Len(outputs[m]) \in Nat
          /\ DOMAIN submitted[m] = 1 .. Len(submitted[m]) /\ Len(submitted[m]) \in Nat
      BY <2>2
    <3>4. ASSUME NEW i \in 1 .. Len(submitted[m])
          PROVE  submitted[m][i].id \in IdSet(outputs[m]) \cup rest(m)
      <4>1. CASE i <= Len(outputs[m])
        <5>1. i \in DOMAIN outputs[m] /\ outputs[m][i].id = submitted[m][i].id
          BY <2>3, <3>2, <3>3, <3>4, <4>1
        <5> QED BY <5>1 DEF IdSet
      <4>2. CASE ~(i <= Len(outputs[m]))
        BY <2>3, <3>2, <3>3, <3>4, <4>2
      <4> QED BY <4>1, <4>2
    <3> QED BY <2>5, <3>1, <3>3, <3>4 DEF IdSet
  <2>6. CASE result[m] \notin {"client_error", "task_stopped", "not_found"}
    <3>1. Len(outputs[m]) = Len(submitted[m])
          /\ \A i \in 1 .. Len(outputs[m]) : outputs[m][i].id = Jobs[m][i]
      BY <1>1, <2>2, <2>6 DEF IInv, RowsInOrder, Result
    <3>2. DOMAIN outputs[m] = 1 .. Len(outputs[m])
          /\ DOMAIN submitted[m] = 1 .. Len(outputs[m])
      BY <2>2, <3>1
    <3>3. IdSet(submitted[m]) \subseteq IdSet(outputs[m])
      BY <2>3, <3>1, <3>2 DEF IdSet
    <3> QED BY <2>1, <2>6, <3>3
  <2> QED BY <2>4, <2>5, <2>6
<1> QED BY <1>1, Inductive, PTL

-----------------------------------------------------------------------------
(* step.compute_map implements the contract of a waiting step. *)

(* The contract starts when no task has been submitted. *)
LEMMA InitPromise == Init => Promise!Init
<1> SUFFICES ASSUME Init PROVE Promise!Init
  OBVIOUS
<1>1. \A m \in Maps : IdSet(submitted[m]) \subseteq Tasks
  BY DEF Init, IdSet
<1>2. Outcome = [m \in Maps |-> "running"]
  BY DEF Init, Outcome
<1> QED
  BY <1>1, <1>2 DEF Promise!Init, Completed, Proven

(* What a step of one execution is to the contract, by its new outcome. *)
LEMMA ExecutionStep ==
    ASSUME IInv, IInv', NEW m \in Maps, pc[m] # "done",
           Completed' = Completed, Proven' = Proven, submitted' = submitted,
           \A q \in Maps \ {m} : pc'[q] = pc[q] /\ result'[q] = result[q]
    PROVE  [Promise!Next]_(Promise!vars)
<1>1. Outcome[m] = "running" /\ Outcome' = [Outcome EXCEPT ![m] = Outcome'[m]]
  BY DEF Outcome
<1>2. [q \in Maps |-> IdSet(submitted[q])]' = [q \in Maps |-> IdSet(submitted[q])]
  BY DEF IdSet
<1>3. CASE Outcome'[m] = "running"
  <2>1. Outcome' = Outcome
    BY <1>1, <1>3 DEF Outcome
  <2> QED
    BY <1>2, <2>1 DEF Promise!vars
<1>4. CASE Outcome'[m] = "proceed"
  <2>1. result'[m] = "ok"
    BY <1>4 DEF Outcome
  <2>2. /\ \A i \in 1 .. Len(outputs'[m]) : /\ outputs'[m][i].id \in Completed
                                            /\ m \in Strict => outputs'[m][i].id \in Proven
        /\ \A i \in 1 .. Len(outputs'[m]) : outputs'[m][i].id = Jobs[m][i]
        /\ Len(outputs'[m]) = Len(submitted[m])
    BY <2>1 DEF IInv, SuccessIsFinal, AcceptanceIsFinal, RowsInOrder
  <2>3. /\ \A i \in 1 .. Len(submitted[m]) : submitted[m][i].id = Jobs[m][i]
        /\ DOMAIN submitted[m] = 1 .. Len(submitted[m])
    BY DEF IInv, TypeOK, SubmitsInOrder
  <2>4. IdSet(submitted[m]) \subseteq Completed /\ (m \in Strict => IdSet(submitted[m]) \subseteq Proven)
    BY <2>2, <2>3 DEF IdSet
  <2>5. Promise!Earned(m)
    BY <2>4 DEF Promise!Earned
  <2>6. Promise!Proceed(m)
    BY <1>1, <1>2, <1>4, <2>5 DEF Promise!Proceed
  <2> QED BY <2>6 DEF Promise!Next
<1>5. CASE Outcome'[m] = "stop"
  <2>1. Promise!Stop(m)
    BY <1>1, <1>2, <1>5 DEF Promise!Stop
  <2> QED BY <2>1 DEF Promise!Next
<1> QED
  BY <1>3, <1>4, <1>5 DEF Outcome

(* Each submission takes on one more task. *)
LEMMA SubmissionStep ==
    ASSUME IInv, NEW m \in Maps, SubmitSucceeds(m)
    PROVE  Promise!Next
<1> DEFINE t == NextJob(m)
           r == [TaskRow(t) EXCEPT !.status = status'[t]]
<1>1. /\ pc[m] = "submit" /\ Posted(m)
      /\ submitted' = [submitted EXCEPT ![m] = Append(@, r)]
      /\ Goto(m, IF Len(submitted[m]) + 1 = Len(Jobs[m]) THEN "list" ELSE "submit")
  BY DEF SubmitSucceeds
<1>2. t \in Tasks /\ Completed' = Completed /\ Proven' = Proven
  BY <1>1, NextJobType, PostedKeeps
<1>3. Outcome' = Outcome /\ Outcome[m] = "running"
  BY <1>1 DEF Goto, Outcome, IInv, TypeOK
<1>4. IdSet(submitted'[m]) = IdSet(submitted[m]) \cup {t}
  <2> r.id = t
    BY DEF TaskRow
  <2> HIDE DEF t, r
  <2>1. submitted[m] \in Seq(Row) /\ submitted'[m] = Append(submitted[m], r)
    BY <1>1 DEF IInv, TypeOK
  <2> DEFINE n == Len(submitted[m])
  <2>2. /\ n \in Nat
        /\ DOMAIN submitted[m] = 1 .. n /\ DOMAIN submitted'[m] = (1 .. n) \cup {n + 1}
        /\ \A i \in 1 .. n : submitted'[m][i] = submitted[m][i]
        /\ submitted'[m][n + 1] = r
    BY <2>1
  <2> QED BY <2>2 DEF IdSet
<1>5. \A q \in Maps \ {m} : submitted'[q] = submitted[q]
  BY <1>1 DEF IInv, TypeOK
<1> HIDE DEF t
<1>6. [q \in Maps |-> IdSet(submitted[q])]' =
          [[q \in Maps |-> IdSet(submitted[q])] EXCEPT ![m] = @ \cup {t}]
  BY <1>4, <1>5
<1>7. Promise!Await(m)
  BY <1>2, <1>3, <1>6 DEF Promise!Await
<1> QED BY <1>7 DEF Promise!Next

(* Every step is one of the contract, or changes nothing it speaks of. *)
LEMMA NextPromise ==
    ASSUME IInv, [Next]_vars, IInv'
    PROVE  [Promise!Next]_(Promise!vars)
<1>1. CASE Server
  <2>1. Completed \subseteq Completed' /\ Proven \subseteq Proven'
    BY <1>1, ServerStepMonotone DEF Server, IInv, TypeOK
  <2>2. Completed' \subseteq Tasks /\ Proven' \subseteq Tasks
    BY DEF Completed, Proven
  <2>3. Outcome' = Outcome /\ submitted' = submitted
    BY <1>1 DEF Server, mapVars, Outcome
  <2>4. [q \in Maps |-> IdSet(submitted[q])]' = [q \in Maps |-> IdSet(submitted[q])]
    BY <2>3 DEF IdSet
  <2> QED
    BY <2>1, <2>2, <2>3, <2>4 DEF Promise!Next, Promise!Progress
<1>2. ASSUME NEW m \in Maps, SubmitSucceeds(m) PROVE [Promise!Next]_(Promise!vars)
  BY <1>2, SubmissionStep
<1>3. ASSUME NEW m \in Maps, SubmitFails(m) PROVE [Promise!Next]_(Promise!vars)
  <2>1. /\ pc[m] = "submit" /\ submitted' = submitted
        /\ \A q \in Maps \ {m} : pc'[q] = pc[q] /\ result'[q] = result[q]
    BY <1>3 DEF SubmitFails, Return, IInv, TypeOK
  <2>2. CASE Posted(m)
    BY <1>3, <2>1, <2>2, PostedKeeps, ExecutionStep
  <2>3. CASE UNCHANGED <<serverVars, created>>
    <3>1. Completed' = Completed /\ Proven' = Proven
      BY <2>3 DEF serverVars, Completed, Proven
    <3> QED BY <2>1, <3>1, ExecutionStep
  <2> QED BY <1>3, <2>2, <2>3 DEF SubmitFails
<1>4. ASSUME NEW m \in Maps,
             \/ Begin(m) \/ TasksArrive(m) \/ TasksFail(m) \/ ProofsArrive(m)
             \/ ProofsFail(m) \/ PollTimerFires(m) \/ SeesContextDone(m)
             \/ StepDeadline(m) \/ EngineEndsContext(m)
      PROVE  [Promise!Next]_(Promise!vars)
  <2>1. pc[m] # "done" /\ submitted' = submitted /\ UNCHANGED serverVars
    BY <1>4 DEF Begin, TasksArrive, TasksFail, ProofsArrive, ProofsFail, PollTimerFires,
       SeesContextDone, StepDeadline, EngineEndsContext, Waiting
  <2>2. Completed' = Completed /\ Proven' = Proven
    BY <2>1 DEF serverVars, Completed, Proven
  <2>3. \A q \in Maps \ {m} : pc'[q] = pc[q] /\ result'[q] = result[q]
    <3>1. CASE TasksArrive(m)
      <4>1. \/ Return(m, "not_found") \/ Return(m, "task_stopped")
            \/ Goto(m, "proofs") \/ Goto(m, "sleep")
        BY <3>1, TasksRead
      <4> QED BY <4>1 DEF Goto, Return, IInv, TypeOK
    <3>2. CASE ProofsArrive(m)
      <4>1. Return(m, "proof_rejected") \/ Return(m, "ok") \/ Goto(m, "sleep")
        BY <3>2, ProofsRead
      <4> QED BY <4>1 DEF Goto, Return, IInv, TypeOK
    <3> QED
      BY <1>4, <3>1, <3>2 DEF Begin, TasksFail, ProofsFail, PollTimerFires,
         SeesContextDone, StepDeadline, EngineEndsContext, Goto, Return, IInv, TypeOK
  <2> QED BY <2>1, <2>2, <2>3, ExecutionStep
<1>5. CASE UNCHANGED vars
  <2>1. UNCHANGED <<Outcome, submitted, Completed, Proven>>
    BY <1>5 DEF vars, serverVars, mapVars, Outcome, Completed, Proven
  <2>2. [q \in Maps |-> IdSet(submitted[q])]' = [q \in Maps |-> IdSet(submitted[q])]
    BY <2>1 DEF IdSet
  <2> QED BY <2>1, <2>2 DEF Promise!vars
<1> QED
  BY <1>1, <1>2, <1>3, <1>4, <1>5 DEF Next, Execute, Finished

(* Every behaviour of the step is one the contract allows. *)
THEOREM ImplementsContract == SafetySpec => Promise!SafetySpec
<1>1. Init => Promise!Init
  BY InitPromise
<1>2. IInv /\ IInv' /\ [Next]_vars => [Promise!Next]_(Promise!vars)
  BY NextPromise
<1> QED
  BY <1>1, <1>2, Inductive, PTL DEF SafetySpec, Promise!SafetySpec
=============================================================================
