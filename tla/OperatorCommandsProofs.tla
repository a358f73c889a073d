----------------------- MODULE OperatorCommandsProofs -----------------------
(***************************************************************************)
(* Proofs about OperatorCommands: running a command again creates nothing  *)
(* twice under a given id, and a receipt tells what runs.                  *)
(***************************************************************************)
EXTENDS OperatorCommands, FiniteSetTheorems, TLAPS

(* Every initial state satisfies the inductive invariant. *)
LEMMA InitIInv == Init => IInv
<1>1. Init => TypeOK
  BY MaxAttemptsAssumption DEF Init, TypeOK, NoReceipt, Receipt
<1>2. Init => GivenIdIsUsed
  BY DEF Init, GivenIdIsUsed
<1>3. Init => ReceiptIsOfStore
  BY DEF Init, ReceiptIsOfStore
<1> QED BY <1>1, <1>2, <1>3 DEF IInv

(* Every command names resources of one kind. *)
LEMMA ResourceType ==
    ASSUME TypeOK, NEW o \in Operators, NEW i \in Ids
    PROVE  Resource(o, i) \in Kinds \X Ids
<1>1. command[o] \in Commands
  BY DEF TypeOK, Input
<1>2. KindOf(command[o]) \in Kinds
  BY <1>1 DEF KindOf, Kinds, Commands, TaskCommands, ServerNamed
<1> QED
  BY <1>2 DEF Resource

(* What a receipt names depends on nothing else that changes. *)
LEMMA ResourceStays ==
    ASSUME NEW p \in Operators, command' = command, receipt'[p] = receipt[p]
    PROVE  Resource(p, receipt[p].id)' = Resource(p, receipt[p].id)
BY DEF Resource

(* A receipt that an earlier step has printed stays true while the store   *)
(* loses and replaces nothing.                                             *)
LEMMA ReceiptStays ==
    ASSUME IInv, NEW p \in Operators, command' = command, receipt'[p] = receipt[p],
           result[p] = "ok",
           \A x \in Kinds \X Ids : store[x] # "nobody" => store'[x] = store[x]
    PROVE  /\ receipt[p].id' \in Ids
           /\ receipt[p].content' = store'[Resource(p, receipt[p].id)']
           /\ receipt[p].content' # "nobody"
<1>1. /\ receipt[p].id \in Ids
      /\ receipt[p].content = store[Resource(p, receipt[p].id)]
      /\ receipt[p].content # "nobody"
  BY DEF IInv, ReceiptIsOfStore
<1>2. Resource(p, receipt[p].id) \in Kinds \X Ids
  BY <1>1, ResourceType DEF IInv
<1>3. store'[Resource(p, receipt[p].id)] = store[Resource(p, receipt[p].id)]
  BY <1>1, <1>2
<1> QED BY <1>1, <1>3, ResourceStays

(* What a request does to the store: at most one new entry, of the operator *)
(* that sent it, under the id of the request when it has one.              *)
LEMMA RequestOfOne ==
    ASSUME IInv, NEW o \in Operators, NEW i \in Ids, Request(o, i)
    PROVE  /\ store' \in [Kinds \X Ids -> Operators \cup {"nobody"}]
           /\ created' \in [Operators -> SUBSET Ids]
           /\ store'[Resource(o, i)] \in Operators
           /\ \A j \in Kinds \X Ids : store[j] # "nobody" => store'[j] = store[j]
           /\ \A p \in Operators \ {o} : created'[p] = created[p]
           /\ created'[o] \subseteq created[o] \cup {i}
           /\ given[o] # NoId => i = id[o]
<1>1. PICK known \in SUBSET Operators : Post(o, i, known)
  BY DEF Request, SubmitTask, EnrollAgent, RegisterOrBridge, ClaimInvite
<1>2. given[o] # NoId => i = id[o]
  BY DEF Request, SubmitTask, EnrollAgent, RegisterOrBridge, ClaimInvite, IInv, TypeOK, Input
<1> DEFINE x == Resource(o, i)
<1>5. x \in Kinds \X Ids
  BY ResourceType DEF IInv
<1> HIDE DEF x
<1>3. CASE store[x] \in known /\ UNCHANGED <<store, created>>
  BY <1>2, <1>3, <1>5 DEF IInv, TypeOK, x
<1>4. CASE /\ store[x] = "nobody"
           /\ store' = [store EXCEPT ![x] = o]
           /\ created' = [created EXCEPT ![o] = @ \cup {i}]
  BY <1>2, <1>4, <1>5 DEF IInv, TypeOK, x
<1> QED BY <1>1, <1>3, <1>4 DEF Post, x

(* A request that is answered ends the command with a receipt of the store. *)
LEMMA SucceedsKeepsIInv ==
    ASSUME IInv, NEW o \in Operators, Succeeds(o)
    PROVE  IInv'
<1>1. PICK i \in Ids : Request(o, i) /\ receipt' = [receipt EXCEPT ![o] = ReceiptFor(o, i)]
  BY DEF Succeeds
<1>2. /\ store' \in [Kinds \X Ids -> Operators \cup {"nobody"}]
      /\ created' \in [Operators -> SUBSET Ids]
      /\ store'[Resource(o, i)] \in Operators
      /\ \A j \in Kinds \X Ids : store[j] # "nobody" => store'[j] = store[j]
      /\ \A p \in Operators \ {o} : created'[p] = created[p]
      /\ created'[o] \subseteq created[o] \cup {i}
      /\ given[o] # NoId => i = id[o]
  BY <1>1, RequestOfOne
<1>3. /\ pc[o] = "send"
      /\ pc' = [pc EXCEPT ![o] = "done"]
      /\ result' = [result EXCEPT ![o] = "ok"]
      /\ UNCHANGED <<input, attempts, now, id>>
  BY DEF Succeeds, Exit
<1>4. ReceiptFor(o, i) = [id |-> i, content |-> store'[Resource(o, i)]]
  BY DEF ReceiptFor
<1>5. TypeOK'
  BY <1>1, <1>2, <1>3, <1>4 DEF IInv, TypeOK, Input, input, Receipt
<1>6. GivenIdIsUsed'
  BY <1>2, <1>3 DEF IInv, TypeOK, GivenIdIsUsed, input
<1>7. ReceiptIsOfStore'
  <2> SUFFICES ASSUME NEW p \in Operators, result'[p] = "ok"
               PROVE  /\ receipt[p].id' \in Ids
                      /\ receipt[p].content' = store'[Resource(p, receipt[p].id)']
                      /\ receipt[p].content' # "nobody"
    BY DEF ReceiptIsOfStore
  <2>1. CASE p = o
    <3>1. receipt'[p] = [id |-> i, content |-> store'[Resource(o, i)]]
      BY <2>1, <1>1, <1>4 DEF IInv, TypeOK
    <3>2. Resource(p, receipt[p].id)' = Resource(o, i)
      BY <2>1, <3>1, <1>3 DEF Resource, input
    <3> QED BY <3>1, <3>2, <1>2, OperatorsAssumption
  <2>2. CASE p # o
    <3>1. receipt'[p] = receipt[p] /\ result[p] = "ok"
      BY <2>2, <1>1, <1>3 DEF IInv, TypeOK
    <3> QED BY <3>1, <1>2, <1>3, ReceiptStays DEF input
  <2> QED BY <2>1, <2>2
<1> QED BY <1>5, <1>6, <1>7 DEF IInv

(* A request that fails may still have left its resource behind. *)
LEMMA FailsKeepsIInv ==
    ASSUME IInv, NEW o \in Operators, Fails(o)
    PROVE  IInv'
<1>1. /\ pc[o] = "send"
      /\ pc' = [pc EXCEPT ![o] = "done"]
      /\ result' = [result EXCEPT ![o] = "failed"]
      /\ UNCHANGED <<input, attempts, now, id, receipt>>
  BY DEF Fails, Exit
<1>2. /\ store' \in [Kinds \X Ids -> Operators \cup {"nobody"}]
      /\ created' \in [Operators -> SUBSET Ids]
      /\ \A j \in Kinds \X Ids : store[j] # "nobody" => store'[j] = store[j]
      /\ \A p \in Operators \ {o} : created'[p] = created[p]
      /\ given[o] # NoId => created'[o] \subseteq created[o] \cup {id[o]}
  <2>1. CASE UNCHANGED <<store, created>>
    BY <2>1 DEF IInv, TypeOK
  <2>2. CASE \E i \in Ids : Request(o, i)
    BY <2>2, RequestOfOne
  <2> QED BY <2>1, <2>2 DEF Fails
<1>3. TypeOK'
  BY <1>1, <1>2 DEF IInv, TypeOK, Input, input
<1>4. GivenIdIsUsed'
  BY <1>1, <1>2 DEF IInv, TypeOK, GivenIdIsUsed, input
<1>5. ReceiptIsOfStore'
  <2> SUFFICES ASSUME NEW p \in Operators, result'[p] = "ok"
               PROVE  /\ receipt[p].id' \in Ids
                      /\ receipt[p].content' = store'[Resource(p, receipt[p].id)']
                      /\ receipt[p].content' # "nobody"
    BY DEF ReceiptIsOfStore
  <2>1. receipt'[p] = receipt[p] /\ result[p] = "ok"
    BY <1>1 DEF IInv, TypeOK
  <2> QED BY <2>1, <1>1, <1>2, ReceiptStays DEF input
<1> QED BY <1>3, <1>4, <1>5 DEF IInv

(* A step that prints and sends nothing keeps every receipt true. *)
LEMMA LocalStepKeepsReceipts ==
    ASSUME IInv, UNCHANGED <<input, receipt, store>>,
           \A p \in Operators : result'[p] = "ok" => result[p] = "ok"
    PROVE  ReceiptIsOfStore'
<1> SUFFICES ASSUME NEW p \in Operators, result'[p] = "ok"
             PROVE  /\ receipt[p].id' \in Ids
                    /\ receipt[p].content' = store'[Resource(p, receipt[p].id)']
                    /\ receipt[p].content' # "nobody"
  BY DEF ReceiptIsOfStore
<1> QED BY ReceiptStays DEF input

(* The steps that create nothing. *)
LEMMA LocalStepKeepsIInv ==
    ASSUME IInv, NEW o \in Operators,
           CheckLocally(o) \/ BuildRequest(o) \/ Preview(o) \/ RunAgain(o)
    PROVE  IInv'
<1>1. ASSUME CheckLocally(o) \/ Preview(o) PROVE IInv'
  <2> USE <1>1 DEF CheckLocally, Preview, Goto, Exit, input
  <2>1. TypeOK' BY DEF IInv, TypeOK, Input
  <2>2. GivenIdIsUsed' BY DEF IInv, TypeOK, GivenIdIsUsed
  <2>3. \A p \in Operators : result'[p] = "ok" => result[p] = "ok"
    BY DEF IInv, TypeOK
  <2> QED BY <2>1, <2>2, <2>3, LocalStepKeepsReceipts DEF IInv
<1>2. ASSUME BuildRequest(o) PROVE IInv'
  <2> USE <1>2 DEF BuildRequest, Goto, input
  <2>1. RequestId(o) \in Ids \cup {NoId}
    BY HashOfAssumption DEF RequestId, IInv, TypeOK, Input
  <2>2. TypeOK' BY <2>1 DEF IInv, TypeOK, Input
  <2>3. given[o] # NoId => RequestId(o) = given[o]
    BY DEF RequestId
  <2>4. GivenIdIsUsed' BY <2>3 DEF IInv, TypeOK, GivenIdIsUsed
  <2> QED BY <2>2, <2>4, LocalStepKeepsReceipts DEF IInv
<1>3. ASSUME RunAgain(o) PROVE IInv'
  <2> USE <1>3 DEF RunAgain, input
  <2>1. attempts[o] + 1 \in 1 .. MaxAttempts
    BY MaxAttemptsAssumption DEF IInv, TypeOK
  <2>2. TypeOK' BY <2>1 DEF IInv, TypeOK, Input
  <2>3. GivenIdIsUsed' BY DEF IInv, TypeOK, GivenIdIsUsed
  <2>4. \A p \in Operators : result'[p] = "ok" => result[p] = "ok"
    BY DEF IInv, TypeOK
  <2> QED BY <2>2, <2>3, <2>4, LocalStepKeepsReceipts DEF IInv
<1> QED BY <1>1, <1>2, <1>3

(* Every step preserves the inductive invariant. *)
LEMMA NextIInv == IInv /\ [Next]_vars => IInv'
<1> SUFFICES ASSUME IInv, [Next]_vars PROVE IInv'
  OBVIOUS
<1>1. ASSUME NEW o \in Operators, Command(o) \/ RunAgain(o) PROVE IInv'
  BY <1>1, LocalStepKeepsIInv, SucceedsKeepsIInv, FailsKeepsIInv DEF Command
<1>2. CASE ClockMoves
  <2>1. TypeOK' /\ GivenIdIsUsed'
    BY <1>2 DEF ClockMoves, IInv, TypeOK, Input, input, GivenIdIsUsed
  <2> QED BY <1>2, <2>1, LocalStepKeepsReceipts DEF IInv, ClockMoves
<1>3. CASE UNCHANGED vars
  <2>1. TypeOK' /\ GivenIdIsUsed'
    BY <1>3 DEF vars, IInv, TypeOK, Input, input, GivenIdIsUsed
  <2> QED BY <1>3, <2>1, LocalStepKeepsReceipts DEF IInv, vars
<1> QED BY <1>1, <1>2, <1>3 DEF Next, Finished

(* The inductive invariant holds in every reachable state. *)
THEOREM Inductive == SafetySpec => []IInv
BY InitIInv, NextIInv, PTL DEF SafetySpec

(* Every reachable state is well typed, the receipts included. *)
THEOREM TypeCorrect == SafetySpec => []TypeOK
<1>1. IInv => TypeOK
  BY DEF IInv
<1> QED BY <1>1, Inductive, PTL

(* However often a command with a given id is run again, and whatever is   *)
(* lost, it creates at most one resource.                                  *)
THEOREM CreatesOnce == SafetySpec => []RunningAgainCreatesOnce
<1>1. ASSUME IInv PROVE RunningAgainCreatesOnce
  <2> SUFFICES ASSUME NEW o \in Operators, given[o] # NoId
               PROVE  Cardinality(created[o]) <= 1
    BY DEF RunningAgainCreatesOnce
  <2>1. created[o] = {} \/ created[o] = {given[o]}
    BY <1>1 DEF IInv, GivenIdIsUsed
  <2>2. Cardinality({}) = 0 /\ Cardinality({given[o]}) = 1
    BY FS_EmptySet, FS_Singleton
  <2> QED BY <2>1, <2>2
<1> QED BY <1>1, Inductive, PTL

(* A receipt tells its operator what runs under the id it names, also when *)
(* another operator's content was there first.                             *)
THEOREM TruthfulReceipt == SafetySpec => []ReceiptTellsWhatRuns
<1>1. IInv => ReceiptTellsWhatRuns
  BY DEF IInv, ReceiptIsOfStore, ReceiptTellsWhatRuns
<1> QED BY <1>1, Inductive, PTL
=============================================================================
