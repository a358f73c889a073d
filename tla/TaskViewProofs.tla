--------------------------- MODULE TaskViewProofs ---------------------------
(***************************************************************************)
(* What the steps may rely on: types of the control plane's state, what it *)
(* never takes back, and what the functions of TaskView return.  The       *)
(* proofs about the steps rest on these lemmas and on nothing else about   *)
(* the service.                                                            *)
(***************************************************************************)
EXTENDS TaskView, TLAPS

(* The control plane starts in a state of its types. *)
LEMMA ServerInitTypeOK == ServerInit => ServerTypeOK
BY DEF ServerInit, ServerTypeOK, Status

(* Posting a new task keeps the types of the control plane's state. *)
LEMMA CreateTypeOK ==
    ASSUME NEW t \in Tasks, ServerTypeOK, Create(t)
    PROVE  ServerTypeOK'
BY DEF Create, ServerTypeOK, Status

(* Posting a new task changes no other task and no receipt. *)
LEMMA CreateMonotone ==
    ASSUME NEW t \in Tasks, ServerTypeOK, Create(t)
    PROVE  /\ Completed' = Completed
           /\ Proven' = Proven
           /\ receipts' = receipts
BY DEF Create, ServerTypeOK, Status, Completed, Proven

(* A new receipt keeps the types, is the only change, and goes to an end   *)
(* of the list that depends on the order in which receipts are listed.     *)
LEMMA ReceiptIsAdded ==
    ASSUME NEW t \in Tasks, ServerTypeOK, AddReceipt(t)
    PROVE  /\ ServerTypeOK'
           /\ status' = status
           /\ \A u \in Tasks \ {t} : receipts'[u] = receipts[u]
           /\ \E v \in Verdict : receipts'[t] = IF NewestFirst THEN <<v>> \o receipts[t]
                                                ELSE Append(receipts[t], v)
<1>1. PICK v \in Verdict :
          receipts' = [receipts EXCEPT ![t] = IF NewestFirst THEN <<v>> \o @
                                              ELSE Append(@, v)]
  BY DEF AddReceipt
<1>2. receipts[t] \in Seq(Verdict)
  BY DEF ServerTypeOK
<1>3. <<v>> \o receipts[t] \in Seq(Verdict) /\ Append(receipts[t], v) \in Seq(Verdict)
  BY <1>2
<1>4. receipts' \in [Tasks -> Seq(Verdict)]
  BY <1>1, <1>3 DEF ServerTypeOK
<1> QED
  BY <1>1, <1>4 DEF AddReceipt, ServerTypeOK

(* No accepted receipt gets lost when another one is added. *)
LEMMA AcceptedStays ==
    ASSUME NEW v \in Verdict, NEW s \in Seq(Verdict), NEW i \in 1 .. Len(s),
           s[i] = "accepted",
           NEW s2, s2 = IF NewestFirst THEN <<v>> \o s ELSE Append(s, v)
    PROVE  \E j \in 1 .. Len(s2) : s2[j] = "accepted"
<1>1. CASE NewestFirst
  <2>1. i + 1 \in 1 .. Len(<<v>> \o s) /\ (<<v>> \o s)[i + 1] = s[i]
    OBVIOUS
  <2> QED BY <1>1, <2>1
<1>2. CASE ~NewestFirst
  <2>1. i \in 1 .. Len(Append(s, v)) /\ Append(s, v)[i] = s[i]
    OBVIOUS
  <2> QED BY <1>2, <2>1
<1> QED BY <1>1, <1>2

(* Whatever happens on the control plane keeps its types. *)
LEMMA ServerStepTypeOK ==
    ASSUME NEW t \in Tasks, ServerTypeOK, ServerStep(t)
    PROVE  ServerTypeOK'
<1>1. CASE t \in SharedTasks /\ Create(t)
  BY <1>1, CreateTypeOK
<1>2. CASE Lease(t) \/ Finish(t) \/ Requeue(t)
  BY <1>2 DEF Lease, Finish, Requeue, ServerTypeOK, Status
<1>3. CASE RaiseStall(t) \/ ClearStall(t)
  BY <1>3 DEF RaiseStall, ClearStall, ServerTypeOK
<1>4. CASE AddReceipt(t)
  BY <1>4, ReceiptIsAdded
<1>5. CASE Delist(t)
  BY <1>5 DEF Delist, ServerTypeOK
<1> QED
  BY <1>1, <1>2, <1>3, <1>4, <1>5 DEF ServerStep

(* A task that has succeeded stays so, and so does an accepted receipt.    *)
LEMMA ServerStepMonotone ==
    ASSUME NEW t \in Tasks, ServerTypeOK, ServerStep(t)
    PROVE  Completed \subseteq Completed' /\ Proven \subseteq Proven'
<1>1. CASE t \in SharedTasks /\ Create(t)
  BY <1>1, CreateMonotone
<1>2. CASE Lease(t) \/ Finish(t) \/ Requeue(t)
  BY <1>2 DEF Lease, Finish, Requeue, ServerTypeOK, Completed, Proven
<1>3. CASE RaiseStall(t) \/ ClearStall(t) \/ Delist(t)
  BY <1>3 DEF RaiseStall, ClearStall, Delist, Completed, Proven
<1>4. CASE AddReceipt(t)
  <2>1. Completed' = Completed
    BY <1>4 DEF AddReceipt, Completed
  <2>2. SUFFICES ASSUME NEW u \in Tasks, NEW i \in 1 .. Len(receipts[u]),
                        receipts[u][i] = "accepted"
                 PROVE  \E j \in 1 .. Len(receipts'[u]) : receipts'[u][j] = "accepted"
    BY <2>1 DEF Proven
  <2>3. CASE u # t
    BY <2>2, <2>3, <1>4, ReceiptIsAdded
  <2>4. CASE u = t
    <3>1. PICK v \in Verdict : receipts'[t] = IF NewestFirst THEN <<v>> \o receipts[t]
                                              ELSE Append(receipts[t], v)
      BY <1>4, ReceiptIsAdded
    <3>2. receipts[t] \in Seq(Verdict)
      BY DEF ServerTypeOK
    <3> QED
      BY <2>2, <2>4, <3>1, <3>2, AcceptedStays
  <2> QED BY <2>3, <2>4
<1> QED
  BY <1>1, <1>2, <1>3, <1>4 DEF ServerStep

(* When the oldest receipt is listed first, no receipt displaces it. *)
LEMMA ServerStepKeepsFirst ==
    ASSUME NEW t \in Tasks, ServerTypeOK, ServerStep(t), ~NewestFirst,
           NEW u \in Tasks, receipts[u] # <<>>
    PROVE  receipts'[u] # <<>> /\ receipts'[u][1] = receipts[u][1]
<1>1. CASE AddReceipt(t) /\ u = t
  <2>1. PICK v \in Verdict : receipts'[t] = Append(receipts[t], v)
    BY <1>1, ReceiptIsAdded
  <2>2. receipts[t] \in Seq(Verdict)
    BY DEF ServerTypeOK
  <2> QED
    BY <1>1, <2>1, <2>2
<1>2. CASE AddReceipt(t) /\ u # t
  BY <1>2, ReceiptIsAdded
<1>3. CASE ~AddReceipt(t)
  <2>1. receipts' = receipts
    BY <1>3 DEF ServerStep, Create, Lease, Finish, Requeue, RaiseStall, ClearStall, Delist
  <2> QED BY <2>1
<1> QED BY <1>1, <1>2, <1>3

-----------------------------------------------------------------------------
(* The functions that read a task. *)

(* The first receipt of a list is a verdict of it, or none.                *)
LEMMA FirstReceiptType ==
    ASSUME NEW list \in Seq(Verdict)
    PROVE  /\ FirstReceipt(list) \in Verdict \cup {"none"}
           /\ FirstReceipt(list) # "none" =>
                 /\ list # <<>>
                 /\ 1 \in 1 .. Len(list)
                 /\ list[1] = FirstReceipt(list)
<1>1. CASE list = <<>>
  BY <1>1 DEF FirstReceipt
<1>2. CASE list # <<>>
  <2>1. Len(list) \in Nat \ {0} /\ list[1] \in Verdict
    BY <1>2
  <2> QED BY <1>2, <2>1 DEF FirstReceipt, Verdict
<1> QED BY <1>1, <1>2

(* The last receipt of a list is a verdict of it, or none.                 *)
LEMMA LastReceiptType ==
    ASSUME NEW list \in Seq(Verdict)
    PROVE  /\ LastReceipt(list) \in Verdict \cup {"none"}
           /\ LastReceipt(list) # "none" =>
                 /\ Len(list) \in 1 .. Len(list)
                 /\ list[Len(list)] = LastReceipt(list)
<1>1. CASE list = <<>>
  BY <1>1 DEF LastReceipt
<1>2. CASE list # <<>>
  <2>1. Len(list) \in Nat \ {0} /\ list[Len(list)] \in Verdict
    BY <1>2
  <2> QED BY <1>2, <2>1 DEF LastReceipt, Verdict
<1> QED BY <1>1, <1>2

(* A receipt decides: rejected stops, accepted lets the step proceed, and  *)
(* none is a reason to poll again exactly where a proof is required.       *)
LEMMA ProofDecisionCases ==
    ASSUME NEW receipt \in Verdict \cup {"none"}, NEW strict \in BOOLEAN
    PROVE  /\ ProofDecision(receipt, strict) \in {"stop", "proceed", "poll"}
           /\ ProofDecision(receipt, strict) = "stop" <=> receipt = "rejected"
           /\ ProofDecision(receipt, strict) = "proceed" <=>
                 receipt = "accepted" \/ (receipt = "none" /\ ~strict)
           /\ ProofDecision(receipt, strict) = "poll" <=> receipt = "none" /\ strict
BY DEF ProofDecision, Verdict
=============================================================================
