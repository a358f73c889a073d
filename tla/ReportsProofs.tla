--------------------------- MODULE ReportsProofs ----------------------------
(***************************************************************************)
(* Proofs about Reports, for every number of agents, tasks, receipts and   *)
(* contributions and every assignment to pools: what the summaries count,  *)
(* an inductive invariant that relates the answers a command has to the    *)
(* control plane as it has become since, and from both the properties.     *)
(***************************************************************************)
EXTENDS Reports, FiniteSetTheorems, WellFoundedInduction, TLAPS

-----------------------------------------------------------------------------
(* auditProofs: what the fold over the receipts computes.                  *)

(* Among sets of subsets of a finite set there is a least one: induction   *)
(* over finite sets, in a form without an operator as parameter.           *)
LEMMA LeastSubset ==
    ASSUME NEW S, IsFiniteSet(S), NEW T, \A t \in T : t \subseteq S, T # {}
    PROVE  \E s \in T : \A r \in T : r \subseteq s => r = s
<1>1. T \subseteq FiniteSubsetsOf(S)
  BY FS_Subset DEF FiniteSubsetsOf
<1>2. IsWellFoundedOn(StrictSubsetOrdering(S), FiniteSubsetsOf(S))
  BY FS_StrictSubsetOrderingWellFounded
<1>3. PICK s \in T : \A r \in T : <<r, s>> \notin StrictSubsetOrdering(S)
  <2> HIDE DEF StrictSubsetOrdering, FiniteSubsetsOf
  <2> QED BY <1>1, <1>2, WFMin
<1> QED BY <1>3 DEF StrictSubsetOrdering

(* A set of positions that is not empty has a last one.                    *)
LEMMA MaxOfPositions ==
    ASSUME NEW n \in Nat, NEW s \in SUBSET (1 .. n), s # {}
    PROVE  Max(s) \in s
<1> DEFINE from(i) == {j \in s : i <= j}
           T == {from(i) : i \in s}
<1>1. IsFiniteSet(s)
  <2>1. IsFiniteSet(1 .. n)
    BY FS_Interval
  <2> QED BY <2>1, FS_Subset
<1>2. PICK t \in T : \A r \in T : r \subseteq t => r = t
  <2>1. (\A t \in T : t \subseteq s) /\ T # {}
    OBVIOUS
  <2> HIDE DEF T
  <2> QED BY <1>1, <2>1, LeastSubset
<1>3. PICK i \in s : t = from(i)
  OBVIOUS
<1>4. \A j \in s : i >= j
  <2> SUFFICES ASSUME NEW j \in s, j > i PROVE FALSE
    OBVIOUS
  <2>1. \A k \in from(j) : k \in from(i)
    OBVIOUS
  <2>2. i \in from(i) /\ i \notin from(j) /\ from(j) \in T
    OBVIOUS
  <2> HIDE DEF from
  <2> QED BY <1>2, <1>3, <2>1, <2>2
<1> QED BY <1>4 DEF Max

Start(n) == [proofs |-> n, accepted |-> 0, rejected |-> 0, unknown |-> 0]

Add(sum, v) == [c \in DOMAIN sum |-> IF c = VerdictColumn(v) THEN sum[c] + 1 ELSE sum[c]]

Verdicts == {"accepted", "rejected", "unknown"}

\* The positions among s whose receipt is counted in column c.
InColumn(list, c, s) == {i \in s : VerdictColumn(list[i]) = c}

Sums(list, s) ==
    [proofs   |-> Len(list),
     accepted |-> Cardinality(InColumn(list, "accepted", s)),
     rejected |-> Cardinality(InColumn(list, "rejected", s)),
     unknown  |-> Cardinality(InColumn(list, "unknown", s))]

(* The sums with one more receipt. *)
LEMMA SumsAdd ==
    ASSUME NEW list \in Seq(Verification), NEW s \in SUBSET DOMAIN list, NEW x \in s
    PROVE  Sums(list, s) = Add(Sums(list, s \ {x}), list[x])
<1>1. list[x] \in Verification /\ DOMAIN list = 1 .. Len(list) /\ Len(list) \in Nat
  OBVIOUS
<1>2. IsFiniteSet(s)
  <2>1. IsFiniteSet(1 .. Len(list))
    BY <1>1, FS_Interval
  <2> QED BY <1>1, <2>1, FS_Subset
<1>3. ASSUME NEW c
      PROVE  /\ Cardinality(InColumn(list, c, s \ {x})) \in Nat
             /\ Cardinality(InColumn(list, c, s)) =
                   Cardinality(InColumn(list, c, s \ {x}))
                      + (IF VerdictColumn(list[x]) = c THEN 1 ELSE 0)
  <2> DEFINE less == InColumn(list, c, s \ {x})
  <2>1. less \subseteq s /\ x \notin less
    BY DEF InColumn
  <2>2. InColumn(list, c, s) = IF VerdictColumn(list[x]) = c THEN less \cup {x} ELSE less
    BY DEF InColumn
  <2> HIDE DEF less
  <2>3. IsFiniteSet(less)
    BY <1>2, <2>1, FS_Subset
  <2>4. Cardinality(less) \in Nat /\ Cardinality(less \cup {x}) = Cardinality(less) + 1
    BY <2>1, <2>3, FS_CardinalityType, FS_AddElement
  <2> SUFFICES /\ Cardinality(less) \in Nat
               /\ Cardinality(InColumn(list, c, s)) =
                     Cardinality(less) + (IF VerdictColumn(list[x]) = c THEN 1 ELSE 0)
    BY DEF less
  <2> QED BY <2>2, <2>4
<1>4. VerdictColumn(list[x]) \in Verdicts
  BY <1>1 DEF Verification, VerdictColumn, Verdicts
<1> DEFINE before == Sums(list, s \ {x})
<1>5. DOMAIN before = {"proofs"} \cup Verdicts
  BY DEF Sums, Verdicts
<1>6. Add(before, list[x]) =
         [c \in {"proofs"} \cup Verdicts |->
             IF c = VerdictColumn(list[x]) THEN before[c] + 1 ELSE before[c]]
  BY <1>5 DEF Add
<1>7. Sums(list, s) = [c \in {"proofs"} \cup Verdicts |-> Sums(list, s)[c]]
  BY DEF Sums, Verdicts
<1>8. ASSUME NEW c \in {"proofs"} \cup Verdicts
      PROVE  Sums(list, s)[c] = IF c = VerdictColumn(list[x]) THEN before[c] + 1 ELSE before[c]
  BY <1>3, <1>4 DEF Sums, Verdicts
<1> QED BY <1>6, <1>7, <1>8

(* FoldLeft goes through the list from its last position to the first.     *)
LEMMA AuditUnfolds ==
    ASSUME NEW list
    PROVE  \E sum : /\ AuditProofs(list) = sum[DOMAIN list]
                    /\ sum = CHOOSE f : f = [s \in SUBSET DOMAIN list |->
                                 IF s = {} THEN Start(Len(list))
                                 ELSE Add(f[s \ {Max(s)}], list[Max(s)])]
BY DEF AuditProofs, FoldLeft, MapThenFoldSet, Start, Add

(* Each receipt is counted once, in the column of its verdict.             *)
LEMMA AuditCounts ==
    ASSUME NEW list \in Seq(Verification)
    PROVE  AuditProofs(list) = Sums(list, DOMAIN list)
<1> DEFINE positions == DOMAIN list
           step(f, s) == IF s = {} THEN Start(Len(list))
                         ELSE Add(f[s \ {Max(s)}], list[Max(s)])
           closed == [s \in SUBSET positions |-> Sums(list, s)]
<1>1. positions = 1 .. Len(list) /\ Len(list) \in Nat /\ IsFiniteSet(positions)
  BY FS_Interval
<1>2. \A s \in SUBSET positions : s # {} => Max(s) \in s
  BY <1>1, MaxOfPositions
<1>3. Sums(list, {}) = Start(Len(list))
  BY FS_EmptySet DEF Sums, Start, InColumn
<1>4. \A s \in SUBSET positions : Sums(list, s) = step(closed, s)
  <2> SUFFICES ASSUME NEW s \in SUBSET positions, s # {}
               PROVE  Sums(list, s) = Add(closed[s \ {Max(s)}], list[Max(s)])
    BY <1>3
  <2> QED BY <1>2, SumsAdd
<1>5. closed = [s \in SUBSET positions |-> step(closed, s)]
  BY <1>4
<1>6. PICK sum : /\ AuditProofs(list) = sum[positions]
                 /\ sum = CHOOSE f : f = [s \in SUBSET positions |-> step(f, s)]
  BY AuditUnfolds
<1>7. sum = [s \in SUBSET positions |-> step(sum, s)]
  <2> DEFINE solves(f) == f = [s \in SUBSET positions |-> step(f, s)]
  <2>1. solves(closed) /\ sum = CHOOSE f : solves(f)
    <3> HIDE DEF closed, step
    <3> QED BY <1>5, <1>6
  <2>2. solves(sum)
    <3> HIDE DEF solves, closed
    <3> QED BY <2>1
  <2> QED BY <2>2
<1>8. \A s \in SUBSET positions : sum[s] = Sums(list, s)
  <2> DEFINE wrong == {s \in SUBSET positions : sum[s] # Sums(list, s)}
  <2> SUFFICES ASSUME wrong # {} PROVE FALSE
    OBVIOUS
  <2>1. PICK s \in wrong : \A r \in wrong : r \subseteq s => r = s
    <3>1. \A r \in wrong : r \subseteq positions
      OBVIOUS
    <3> HIDE DEF wrong, positions
    <3> QED BY <1>1, <3>1, LeastSubset
  <2>2. sum[s] = step(sum, s)
    BY <1>7
  <2>3. CASE s = {}
    BY <1>3, <2>2, <2>3
  <2>4. CASE s # {}
    <3>1. Max(s) \in s
      BY <1>2, <2>4
    <3>2. s \ {Max(s)} \notin wrong
      BY <2>1, <3>1
    <3>3. sum[s \ {Max(s)}] = Sums(list, s \ {Max(s)})
      BY <3>2
    <3> QED BY <2>2, <2>4, <3>1, <3>3, SumsAdd
  <2> QED BY <2>3, <2>4
<1> QED BY <1>6, <1>8

-----------------------------------------------------------------------------
(* The inductive invariant IInv: first the initial states, then one lemma  *)
(* for each kind of step.                                                  *)

LEMMA NothingReadYet ==
    ASSUME AnswersInOrder, pc = "start"
    PROVE  DOMAIN answers = {}
BY DEF AnswersInOrder

LEMMA InitIInv == Init => IInv
<1> SUFFICES ASSUME Init PROVE IInv
  OBVIOUS
<1>1. /\ MaxContributions \in Nat /\ MaxReceipts \in Nat
      /\ 0 \in 0 .. MaxContributions
  BY BoundsAssumption
<1>2. DOMAIN answers = {}
  BY DEF Init
<1>3. WorldOK
  <2>1. world \in World
    BY <1>1 DEF Init, World, AgentStatus, TaskStatus
  <2> QED BY <1>1, <2>1 DEF Init, WorldOK
<1>4. HistoryOK
  BY <1>1 DEF Init, HistoryOK, AgentStatus, TaskStatus
<1>5. AnswersInOrder
  BY <1>2 DEF Init, AnswersInOrder
<1>6. AnswersWereTrue
  BY <1>2 DEF AnswersWereTrue
<1> QED BY <1>3, <1>4, <1>5, <1>6 DEF Init, IInv

(* What the invariant says of the command stays so while the answers do.   *)
LEMMA SameAnswers ==
    ASSUME IInv, UNCHANGED commandVars
    PROVE  /\ AnswersInOrder'
           /\ report' = IF pc' = "printed" THEN Summary(answers)' ELSE NoReport
<1>1. /\ UNCHANGED <<command, account, pc, answers, report>>
  BY DEF commandVars
<1>2. AnswersInOrder'
  BY <1>1 DEF IInv, AnswersInOrder
<1>3. Summary(answers)' = Summary(answers)
  BY <1>1 DEF Summary
<1> QED BY <1>1, <1>2, <1>3 DEF IInv

(* A status that becomes true is kept, and nothing that was read is lost.  *)
LEMMA HistoryGrows ==
    ASSUME IInv, UNCHANGED commandVars,
           NEW x \in Agents \cup Tasks, NEW s \in AgentStatus \cup TaskStatus, Becomes(x, s)
    PROVE  /\ had' \in [Agents \cup Tasks -> SUBSET (AgentStatus \cup TaskStatus)]
           /\ s \in had'[x]
           /\ \A y \in (Agents \cup Tasks) \ {x} : had'[y] = had[y]
           /\ pc # "start" => had[x] \subseteq had'[x]
<1>1. had \in [Agents \cup Tasks -> SUBSET (AgentStatus \cup TaskStatus)]
  BY DEF IInv, HistoryOK
<1>2. had' = [had EXCEPT ![x] = IF pc = "start" THEN {s} ELSE had[x] \cup {s}]
  BY DEF Becomes
<1> QED BY <1>1, <1>2

(* The answers that were true are, whatever agents and tasks do then.      *)
LEMMA PoolsMove ==
    ASSUME IInv, UNCHANGED <<commandVars, settled>>,
           NEW x \in Agents \cup Tasks, NEW s \in AgentStatus \cup TaskStatus, Becomes(x, s),
           UNCHANGED <<world.proofs, world.contributions, world.rewards>>
    PROVE  AnswersWereTrue'
<1>1. pc = "start" => DOMAIN answers = {}
  BY NothingReadYet DEF IInv
<1>2. pc # "start" => \A y \in Agents \cup Tasks : had[y] \subseteq had'[y]
  BY HistoryGrows
<1>3. answers' = answers
  BY DEF commandVars
<1> QED BY <1>1, <1>2, <1>3 DEF IInv, AnswersWereTrue

LEMMA AgentMovesIInv ==
    ASSUME IInv, NEW a \in Agents, AgentMoves(a)
    PROVE  IInv'
<1>1. PICK s \in AgentStatus \ {world.agents[a]} :
         world' = [world EXCEPT !.agents[a] = s] /\ Becomes(a, s)
  BY DEF AgentMoves
<1>2. UNCHANGED <<commandVars, settled>>
  BY DEF AgentMoves
<1>3. /\ a \in Agents \cup Tasks /\ a \notin Tasks
      /\ s \in AgentStatus /\ s \in AgentStatus \cup TaskStatus
  BY <1>1, IdsAssumption DEF AgentStatus
<1>4. /\ had' \in [Agents \cup Tasks -> SUBSET (AgentStatus \cup TaskStatus)]
      /\ s \in had'[a]
      /\ \A y \in (Agents \cup Tasks) \ {a} : had'[y] = had[y]
  BY <1>1, <1>2, <1>3, HistoryGrows
<1>5. /\ world' = [world EXCEPT !.agents = [world.agents EXCEPT ![a] = s]]
      /\ world \in World
  BY <1>1 DEF IInv, WorldOK
<1>6. /\ world' \in World
      /\ UNCHANGED <<world.tasks, world.proofs, world.contributions, world.rewards>>
      /\ world'.agents = [world.agents EXCEPT ![a] = s]
      /\ world.agents \in [Agents -> AgentStatus]
  BY <1>3, <1>5 DEF World
<1>7. WorldOK'
  BY <1>6 DEF IInv, WorldOK
<1>8. HistoryOK'
  <2>1. \A b \in Agents : world'.agents[b] \in had'[b]
    BY <1>4, <1>6 DEF IInv, HistoryOK
  <2>2. \A t \in Tasks : world'.tasks[t] \in had'[t]
    BY <1>3, <1>4, <1>6 DEF IInv, HistoryOK
  <2> QED BY <1>2, <1>4, <1>6, <2>1, <2>2 DEF IInv, HistoryOK
<1>9. AnswersWereTrue'
  BY <1>1, <1>2, <1>3, <1>6, PoolsMove
<1> QED BY <1>2, <1>7, <1>8, <1>9, SameAnswers DEF IInv

LEMMA TaskMovesIInv ==
    ASSUME IInv, NEW t \in Tasks, TaskMoves(t)
    PROVE  IInv'
<1>1. PICK s \in NextStatus(world.tasks[t]) :
         world' = [world EXCEPT !.tasks[t] = s] /\ Becomes(t, s)
  BY DEF TaskMoves
<1>2. UNCHANGED <<commandVars, settled>>
  BY DEF TaskMoves
<1>3. /\ t \in Agents \cup Tasks /\ t \notin Agents
      /\ s \in TaskStatus /\ s \in AgentStatus \cup TaskStatus
  BY <1>1, IdsAssumption DEF NextStatus, TaskStatus, Column
<1>4. /\ had' \in [Agents \cup Tasks -> SUBSET (AgentStatus \cup TaskStatus)]
      /\ s \in had'[t]
      /\ \A y \in (Agents \cup Tasks) \ {t} : had'[y] = had[y]
  BY <1>1, <1>2, <1>3, HistoryGrows
<1>5. /\ world' = [world EXCEPT !.tasks = [world.tasks EXCEPT ![t] = s]]
      /\ world \in World
  BY <1>1 DEF IInv, WorldOK
<1>6. /\ world' \in World
      /\ UNCHANGED <<world.agents, world.proofs, world.contributions, world.rewards>>
      /\ world'.tasks = [world.tasks EXCEPT ![t] = s]
      /\ world.tasks \in [Tasks -> TaskStatus]
  BY <1>3, <1>5 DEF World
<1>7. WorldOK'
  BY <1>6 DEF IInv, WorldOK
<1>8. HistoryOK'
  <2>1. \A u \in Tasks : world'.tasks[u] \in had'[u]
    BY <1>4, <1>6 DEF IInv, HistoryOK
  <2>2. \A a \in Agents : world'.agents[a] \in had'[a]
    BY <1>3, <1>4, <1>6 DEF IInv, HistoryOK
  <2> QED BY <1>2, <1>4, <1>6, <2>1, <2>2 DEF IInv, HistoryOK
<1>9. AnswersWereTrue'
  BY <1>1, <1>2, <1>3, <1>6, PoolsMove
<1> QED BY <1>2, <1>7, <1>8, <1>9, SameAnswers DEF IInv

LEMMA ReceiptIsRecordedIInv ==
    ASSUME IInv, ReceiptIsRecorded
    PROVE  IInv'
<1>1. PICK v \in Verification : world' = [world EXCEPT !.proofs = Append(@, v)]
  BY DEF ReceiptIsRecorded
<1>2. UNCHANGED <<commandVars, had, settled>>
  BY DEF ReceiptIsRecorded
<1>3. world \in World /\ world.proofs \in Seq(Verification)
  BY DEF IInv, WorldOK, World
<1>4. /\ world' \in World
      /\ UNCHANGED <<world.agents, world.tasks, world.contributions, world.rewards>>
      /\ world'.proofs = Append(world.proofs, v)
  <2>1. Append(world.proofs, v) \in Seq(Verification)
    BY <1>3
  <2>2. world' = [world EXCEPT !.proofs = Append(world.proofs, v)]
    BY <1>1
  <2> QED BY <1>3, <2>1, <2>2 DEF World
<1>5. Len(world'.proofs) = Len(world.proofs) + 1 /\ Len(world.proofs) \in Nat
  BY <1>3, <1>4
<1>6. WorldOK'
  BY <1>4, <1>5, BoundsAssumption DEF IInv, WorldOK, ReceiptIsRecorded
<1>7. HistoryOK'
  BY <1>2, <1>4 DEF IInv, HistoryOK
<1>8. AnswersWereTrue'
  <2>1. ASSUME NEW n \in 0 .. Len(world.proofs)
        PROVE  /\ n \in 0 .. Len(world'.proofs)
               /\ SubSeq(world'.proofs, 1, n) = SubSeq(world.proofs, 1, n)
    BY <1>3, <1>4, <1>5
  <2> QED BY <1>2, <1>4, <2>1 DEF IInv, AnswersWereTrue, commandVars
<1> QED BY <1>2, <1>6, <1>7, <1>8, SameAnswers DEF IInv

LEMMA ContributionIsRecordedIInv ==
    ASSUME IInv, NEW a \in Accounts, ContributionIsRecorded(a)
    PROVE  IInv'
<1>1. /\ world.contributions[a] < MaxContributions
      /\ world' = [world EXCEPT !.contributions =
                      [world.contributions EXCEPT ![a] = world.contributions[a] + 1]]
      /\ UNCHANGED <<commandVars, had, settled>>
  BY DEF ContributionIsRecorded
<1>2. world \in World /\ MaxContributions \in Nat
  BY BoundsAssumption DEF IInv, WorldOK
<1>3. /\ world.contributions \in [Accounts -> 0 .. MaxContributions]
      /\ world.rewards \in [Accounts -> 0 .. MaxContributions]
      /\ UNCHANGED <<world.agents, world.tasks, world.proofs, world.rewards>>
      /\ world'.contributions =
            [world.contributions EXCEPT ![a] = world.contributions[a] + 1]
  BY <1>1, <1>2 DEF World
<1>4. /\ world'.contributions \in [Accounts -> 0 .. MaxContributions]
      /\ \A b \in Accounts : world.contributions[b] <= world'.contributions[b]
  BY <1>1, <1>2, <1>3
<1>5. world' \in World
  BY <1>1, <1>2, <1>4 DEF World
<1>6. WorldOK'
  BY <1>2, <1>3, <1>4, <1>5 DEF IInv, WorldOK
<1>7. HistoryOK'
  BY <1>1, <1>3 DEF IInv, HistoryOK
<1>8. AnswersWereTrue'
  <2>1. "rewards" \in DOMAIN answers => \A b \in Accounts : answers.rewards[b] <= world'.contributions[b]
    BY <1>2, <1>3, <1>4 DEF IInv, AnswersWereTrue
  <2> QED BY <1>1, <1>3, <2>1 DEF IInv, AnswersWereTrue, commandVars
<1> QED BY <1>1, <1>6, <1>7, <1>8, SameAnswers DEF IInv

LEMMA RewardIsGrantedIInv ==
    ASSUME IInv, NEW a \in Accounts, RewardIsGranted(a)
    PROVE  IInv'
<1>1. /\ world.rewards[a] < world.contributions[a]
      /\ world' = [world EXCEPT !.rewards =
                      [world.rewards EXCEPT ![a] = world.contributions[a]]]
      /\ UNCHANGED <<commandVars, had, settled>>
  BY DEF RewardIsGranted
<1>2. world \in World /\ MaxContributions \in Nat
  BY BoundsAssumption DEF IInv, WorldOK
<1>3. /\ world.contributions \in [Accounts -> 0 .. MaxContributions]
      /\ world.rewards \in [Accounts -> 0 .. MaxContributions]
      /\ UNCHANGED <<world.agents, world.tasks, world.proofs, world.contributions>>
      /\ world'.rewards = [world.rewards EXCEPT ![a] = world.contributions[a]]
  BY <1>1, <1>2 DEF World
<1>4. /\ world'.rewards \in [Accounts -> 0 .. MaxContributions]
      /\ \A b \in Accounts : world.rewards[b] <= world'.rewards[b]
      /\ \A b \in Accounts : world'.rewards[b] <= world.contributions[b]
  BY <1>1, <1>2, <1>3 DEF IInv, WorldOK
<1>5. world' \in World
  BY <1>1, <1>2, <1>4 DEF World
<1>6. WorldOK'
  BY <1>3, <1>4, <1>5 DEF IInv, WorldOK
<1>7. HistoryOK'
  <2>1. \A b \in Accounts : settled[b] <= world'.rewards[b]
    BY <1>2, <1>3, <1>4 DEF IInv, HistoryOK
  <2> QED BY <1>1, <1>3, <2>1 DEF IInv, HistoryOK
<1>8. AnswersWereTrue'
  BY <1>1, <1>3 DEF IInv, AnswersWereTrue, commandVars
<1> QED BY <1>1, <1>6, <1>7, <1>8, SameAnswers DEF IInv

-----------------------------------------------------------------------------
(* The steps of the command. *)

(* Where a command is in its requests, and what it asks for next.          *)
LEMMA WhatIsAsked ==
    ASSUME AnswersInOrder, pc = "reading"
    PROVE  \/ /\ command = "pools" /\ DOMAIN answers = {}
              /\ InFlight = "agents" /\ Last(Requests(command)) = "tasks"
           \/ /\ command = "pools" /\ DOMAIN answers = {"agents"}
              /\ InFlight = "tasks" /\ Last(Requests(command)) = "tasks"
           \/ /\ command = "audit" /\ DOMAIN answers = {}
              /\ InFlight = "proofs" /\ Last(Requests(command)) = "proofs"
           \/ /\ command = "accounting" /\ DOMAIN answers = {}
              /\ InFlight = "contributions" /\ Last(Requests(command)) = "rewards"
           \/ /\ command = "accounting" /\ DOMAIN answers = {"contributions"}
              /\ InFlight = "rewards" /\ Last(Requests(command)) = "rewards"
<1>1. /\ Cardinality({}) = 0
      /\ Cardinality({"agents"}) = 1 /\ Cardinality({"contributions"}) = 1
  BY FS_EmptySet, FS_Singleton
<1>2. CASE command = "pools"
  <2>1. Requests(command) = <<"agents", "tasks">>
    BY <1>2 DEF Requests
  <2>2. DOMAIN answers \in {{}, {"agents"}}
    BY <1>2 DEF AnswersInOrder
  <2>3. Last(Requests(command)) = "tasks"
    BY <2>1 DEF Last
  <2>4. CASE DOMAIN answers = {}
    BY <1>1, <1>2, <2>1, <2>3, <2>4 DEF InFlight
  <2>5. CASE DOMAIN answers = {"agents"}
    BY <1>1, <1>2, <2>1, <2>3, <2>5 DEF InFlight
  <2> QED BY <2>2, <2>4, <2>5
<1>3. CASE command = "audit"
  <2>1. Requests(command) = <<"proofs">>
    BY <1>3 DEF Requests
  <2>2. DOMAIN answers = {}
    BY <1>3 DEF AnswersInOrder
  <2> QED BY <1>1, <1>3, <2>1, <2>2 DEF InFlight, Last
<1>4. CASE command = "accounting"
  <2>1. Requests(command) = <<"contributions", "rewards">>
    BY <1>4 DEF Requests
  <2>2. DOMAIN answers \in {{}, {"contributions"}}
    BY <1>4 DEF AnswersInOrder
  <2>3. Last(Requests(command)) = "rewards"
    BY <2>1 DEF Last
  <2>4. CASE DOMAIN answers = {}
    BY <1>1, <1>4, <2>1, <2>3, <2>4 DEF InFlight
  <2>5. CASE DOMAIN answers = {"contributions"}
    BY <1>1, <1>4, <2>1, <2>3, <2>5 DEF InFlight
  <2> QED BY <2>2, <2>4, <2>5
<1> QED BY <1>2, <1>3, <1>4 DEF AnswersInOrder, Command

LEMMA AnswerArrivesIInv ==
    ASSUME IInv, AnswerArrives
    PROVE  IInv'
<1> DEFINE resource == InFlight
<1>1. /\ pc = "reading"
      /\ answers' = [r \in DOMAIN answers \cup {resource} |->
                        IF r = resource THEN world[r] ELSE answers[r]]
      /\ IF resource = Last(Requests(command))
         THEN pc' = "printed" /\ report' = Summary(answers')
         ELSE UNCHANGED <<pc, report>>
      /\ settled' = IF resource = "contributions" THEN world.rewards ELSE settled
      /\ UNCHANGED <<world, command, account, had>>
  BY DEF AnswerArrives
<1>2. /\ DOMAIN answers' = DOMAIN answers \cup {resource}
      /\ \A r \in DOMAIN answers \ {resource} : answers'[r] = answers[r]
      /\ answers'[resource] = world[resource]
  BY <1>1
<1> HIDE DEF resource
<1>3. \/ /\ command = "pools" /\ DOMAIN answers = {}
         /\ resource = "agents" /\ Last(Requests(command)) = "tasks"
      \/ /\ command = "pools" /\ DOMAIN answers = {"agents"}
         /\ resource = "tasks" /\ Last(Requests(command)) = "tasks"
      \/ /\ command = "audit" /\ DOMAIN answers = {}
         /\ resource = "proofs" /\ Last(Requests(command)) = "proofs"
      \/ /\ command = "accounting" /\ DOMAIN answers = {}
         /\ resource = "contributions" /\ Last(Requests(command)) = "rewards"
      \/ /\ command = "accounting" /\ DOMAIN answers = {"contributions"}
         /\ resource = "rewards" /\ Last(Requests(command)) = "rewards"
  BY <1>1, WhatIsAsked DEF IInv, resource
<1>4. WorldOK'
  BY <1>1 DEF IInv, WorldOK
<1>5. /\ world.agents \in [Agents -> AgentStatus] /\ world.tasks \in [Tasks -> TaskStatus]
      /\ world.proofs \in Seq(Verification)
      /\ world.contributions \in [Accounts -> 0 .. MaxContributions]
      /\ world.rewards \in [Accounts -> 0 .. MaxContributions]
      /\ \A a \in Accounts : world.rewards[a] <= world.contributions[a]
  BY DEF IInv, WorldOK, World
<1>6. /\ settled' \in [Accounts -> 0 .. MaxContributions]
      /\ \A a \in Accounts : settled'[a] <= world.rewards[a]
  BY <1>1, <1>5, BoundsAssumption DEF IInv, HistoryOK
<1>7. HistoryOK'
  BY <1>1, <1>6 DEF IInv, HistoryOK
<1>8. AnswersInOrder'
  <2>1. {Requests("pools")[i] : i \in DOMAIN Requests("pools")} = {"agents", "tasks"}
    BY DEF Requests
  <2>2. {Requests("audit")[i] : i \in DOMAIN Requests("audit")} = {"proofs"}
    BY DEF Requests
  <2>3. {Requests("accounting")[i] : i \in DOMAIN Requests("accounting")} = {"contributions", "rewards"}
    BY DEF Requests
  <2>4. command' = command /\ account' = account /\ Requests(command)' = Requests(command)
    BY <1>1 DEF Requests
  <2>5. command \in Command /\ account \in Accounts
    BY DEF IInv, AnswersInOrder
  <2>6. CASE resource = Last(Requests(command))
    <3>1. DOMAIN answers' = {Requests(command)[i] : i \in DOMAIN Requests(command)}
      <4>1. CASE command = "pools"
        <5>1. DOMAIN answers = {"agents"} /\ resource = "tasks"
          BY <1>3, <2>6, <4>1
        <5>2. {"agents"} \cup {"tasks"} = {"agents", "tasks"}
          OBVIOUS
        <5> QED BY <1>2, <2>1, <4>1, <5>1, <5>2
      <4>2. CASE command = "audit"
        BY <1>2, <1>3, <2>2, <2>6, <4>2
      <4>3. CASE command = "accounting"
        BY <1>2, <1>3, <2>3, <2>6, <4>3
      <4> QED BY <1>3, <4>1, <4>2, <4>3
    <3> QED BY <1>1, <2>4, <2>5, <2>6, <3>1 DEF AnswersInOrder
  <2>7. CASE resource # Last(Requests(command))
    BY <1>1, <1>2, <1>3, <2>4, <2>5, <2>7 DEF AnswersInOrder
  <2> QED BY <2>6, <2>7
<1>9. AnswersWereTrue'
  <2>1. CASE resource \in {"agents", "tasks"}
    BY <1>1, <1>2, <1>3, <1>5, <2>1 DEF IInv, HistoryOK, AnswersWereTrue
  <2>2. CASE resource = "proofs"
    <3>1. /\ Len(world.proofs) \in 0 .. Len(world.proofs)
          /\ SubSeq(world.proofs, 1, Len(world.proofs)) = world.proofs
      BY <1>5
    <3> QED BY <1>1, <1>2, <1>3, <2>2, <3>1 DEF AnswersWereTrue
  <2>3. CASE resource = "contributions"
    BY <1>1, <1>2, <1>3, <1>5, <2>3 DEF AnswersWereTrue
  <2>4. CASE resource = "rewards"
    BY <1>1, <1>2, <1>3, <1>5, <1>6, <2>4 DEF IInv, AnswersWereTrue
  <2> QED BY <1>3, <2>1, <2>2, <2>3, <2>4
<1>10. report' = IF pc' = "printed" THEN Summary(answers)' ELSE NoReport
  <2>1. Summary(answers)' = Summary(answers')
    BY <1>1 DEF Summary
  <2> QED BY <1>1, <2>1 DEF IInv
<1> QED BY <1>4, <1>7, <1>8, <1>9, <1>10 DEF IInv

(* Of what was read a command that begins or fails changes nothing.        *)
LEMMA BeginOrFailIInv ==
    ASSUME IInv, Begin \/ RequestFails
    PROVE  IInv'
<1>1. /\ pc \in {"start", "reading"} /\ pc' \in {"reading", "failed"}
      /\ UNCHANGED <<world, command, account, answers, report, had, settled>>
  BY DEF Begin, RequestFails
<1>2. WorldOK' /\ HistoryOK' /\ AnswersWereTrue'
  BY <1>1 DEF IInv, WorldOK, HistoryOK, AnswersWereTrue
<1>3. AnswersInOrder'
  BY <1>1 DEF IInv, AnswersInOrder
<1> QED BY <1>1, <1>2, <1>3 DEF IInv

LEMMA StutterIInv ==
    ASSUME IInv, UNCHANGED vars
    PROVE  IInv'
<1>1. UNCHANGED <<world, commandVars, had, settled>>
  BY DEF vars
<1>2. WorldOK' /\ HistoryOK' /\ AnswersWereTrue'
  BY <1>1 DEF IInv, WorldOK, HistoryOK, AnswersWereTrue, commandVars
<1> QED BY <1>1, <1>2, SameAnswers DEF IInv

(* Compute pools, audit and accounting export: what was read has been true *)
(* and what it says cannot be taken back.                                  *)
THEOREM Inductive == Spec => []IInv
<1>1. IInv /\ [Next]_vars => IInv'
  BY AgentMovesIInv, TaskMovesIInv, ReceiptIsRecordedIInv, ContributionIsRecordedIInv,
     RewardIsGrantedIInv, AnswerArrivesIInv, BeginOrFailIInv, StutterIInv DEF Next, Finished
<1> QED BY <1>1, InitIInv, PTL DEF Spec

-----------------------------------------------------------------------------
(* summarizePools: what the rows count.                                    *)

Present(list) == {x \in DOMAIN list : list[x] # "absent"}

\* The agents or tasks of pool k that list has in one of the statuses.
Counted(list, k, statuses) ==
    {x \in Present(list) : Key(x) = k /\ list[x] \in statuses}

(* What compute pools has read when it prints, and what it prints.         *)
LEMMA PoolsPrinted ==
    ASSUME IInv, pc = "printed", command = "pools"
    PROVE  /\ report.rows = SummarizePools(answers.agents, answers.tasks)
           /\ answers.agents \in [Agents -> AgentStatus]
           /\ answers.tasks \in [Tasks -> TaskStatus]
           /\ \A a \in Agents : answers.agents[a] \in had[a]
           /\ \A t \in Tasks : answers.tasks[t] \in had[t]
<1>1. Requests(command) = <<"agents", "tasks">>
  BY DEF Requests
<1>2. "agents" \in DOMAIN answers /\ "tasks" \in DOMAIN answers
  BY <1>1 DEF IInv, AnswersInOrder
<1>3. report = [kind |-> "pools", rows |-> SummarizePools(answers.agents, answers.tasks)]
  BY DEF IInv, Summary
<1> QED BY <1>2, <1>3 DEF IInv, AnswersWereTrue

(* There is a row for each pool that is listed, with a number per column.  *)
LEMMA RowsPrinted ==
    ASSUME IInv, pc = "printed", command = "pools"
    PROVE  /\ \A k : k \in DOMAIN report.rows <=>
                       \E x \in Present(answers.agents) \cup Present(answers.tasks) : Key(x) = k
           /\ \A k \in DOMAIN report.rows :
                 /\ report.rows[k] = [c \in Column \cup {"agents", "online"} |-> report.rows[k][c]]
                 /\ report.rows[k].agents = Cardinality(Counted(answers.agents, k, AgentStatus))
                 /\ report.rows[k].online = Cardinality(Counted(answers.agents, k, {"online"}))
                 /\ \A c \in Column :
                       report.rows[k][c] = Cardinality(Counted(answers.tasks, k, {c}))
<1> DEFINE agents == answers.agents
           tasks == answers.tasks
           rows == report.rows
           listed == {Key(x) : x \in Present(agents) \cup Present(tasks)}
<1>1. rows = [k \in listed |->
                 [c \in Column \cup {"agents", "online"} |->
                     CASE c = "agents"  -> Cardinality(Counted(agents, k, AgentStatus))
                       [] c = "online"  -> Cardinality(Counted(agents, k, {"online"}))
                       [] c \in Column -> Cardinality(Counted(tasks, k, {c}))]]
  BY PoolsPrinted DEF SummarizePools, Present, Counted
<1>2. "agents" \notin Column /\ "online" \notin Column
  BY DEF Column
<1>3. \A k : k \in listed <=> \E x \in Present(agents) \cup Present(tasks) : Key(x) = k
  OBVIOUS
<1> HIDE DEF agents, tasks, rows, listed
<1>4. DOMAIN rows = listed
  BY <1>1
<1>5. ASSUME NEW k \in DOMAIN rows
      PROVE  /\ rows[k] = [c \in Column \cup {"agents", "online"} |-> rows[k][c]]
             /\ rows[k].agents = Cardinality(Counted(agents, k, AgentStatus))
             /\ rows[k].online = Cardinality(Counted(agents, k, {"online"}))
             /\ \A c \in Column : rows[k][c] = Cardinality(Counted(tasks, k, {c}))
  <2>1. rows[k] = [c \in Column \cup {"agents", "online"} |->
                     CASE c = "agents"  -> Cardinality(Counted(agents, k, AgentStatus))
                       [] c = "online"  -> Cardinality(Counted(agents, k, {"online"}))
                       [] c \in Column -> Cardinality(Counted(tasks, k, {c}))]
    BY <1>1, <1>4
  <2> QED BY <1>2, <2>1
<1> QED BY <1>3, <1>4, <1>5 DEF agents, tasks, rows

LEMMA CountedIsFinite ==
    ASSUME NEW S \in SUBSET (Agents \cup Tasks), NEW list, DOMAIN list = S, NEW k, NEW statuses
    PROVE  /\ IsFiniteSet(Counted(list, k, statuses))
           /\ Cardinality(Counted(list, k, statuses)) \in Nat
<1>1. Counted(list, k, statuses) \subseteq Agents \cup Tasks
  BY DEF Counted, Present
<1>2. IsFiniteSet(Counted(list, k, statuses))
  BY <1>1, IdsAssumption, FS_Subset
<1> QED BY <1>2, FS_CardinalityType

(* A number in a row is what its column counts; a pool without a row has   *)
(* nothing to count.                                                       *)
LEMMA ReportedIsCounted ==
    ASSUME IInv, pc = "printed", command = "pools", NEW k
    PROVE  /\ Reported(k, "agents") = Cardinality(Counted(answers.agents, k, AgentStatus))
           /\ Reported(k, "online") = Cardinality(Counted(answers.agents, k, {"online"}))
           /\ \A c \in Column : Reported(k, c) = Cardinality(Counted(answers.tasks, k, {c}))
<1>1. CASE k \in DOMAIN report.rows
  BY <1>1, RowsPrinted DEF Reported
<1>2. CASE k \notin DOMAIN report.rows
  <2>1. \A x \in Present(answers.agents) \cup Present(answers.tasks) : Key(x) # k
    BY <1>2, RowsPrinted
  <2>2. \A statuses : /\ Counted(answers.agents, k, statuses) = {}
                      /\ Counted(answers.tasks, k, statuses) = {}
    BY <2>1 DEF Counted
  <2>3. \A c : Reported(k, c) = 0
    BY <1>2 DEF Reported
  <2> QED BY <2>2, <2>3, FS_EmptySet
<1> QED BY <1>1, <1>2

\* The agents or tasks that had one of the statuses all the time, or ever.
Always(S, k, statuses) == {x \in {y \in S : PoolOf[y] = k} : had[x] \subseteq statuses}
Ever(S, k, statuses) == {x \in {y \in S : PoolOf[y] = k} : had[x] \cap statuses # {}}

(* What is counted in a list that was true lies in between.                *)
LEMMA CountLiesInBetween ==
    ASSUME NEW S \in SUBSET (Agents \cup Tasks), NEW list, DOMAIN list = S,
           \A x \in S : list[x] \in had[x],
           NEW statuses, "absent" \notin statuses, NEW k
    PROVE  /\ Cardinality(Counted(list, k, statuses)) >= Cardinality(Always(S, k, statuses))
           /\ Cardinality(Counted(list, k, statuses)) <= Cardinality(Ever(S, k, statuses))
<1>1. Always(S, k, statuses) \subseteq Counted(list, k, statuses)
  BY DEF Always, Counted, Present, Key
<1>2. Counted(list, k, statuses) \subseteq Ever(S, k, statuses)
  BY DEF Ever, Counted, Present, Key
<1>3. Ever(S, k, statuses) \subseteq Agents \cup Tasks
  BY DEF Ever
<1>4. /\ IsFiniteSet(Counted(list, k, statuses)) /\ IsFiniteSet(Ever(S, k, statuses))
      /\ Cardinality(Counted(list, k, statuses)) \in Nat
  BY <1>3, IdsAssumption, CountedIsFinite, FS_Subset
<1>5. Cardinality(Always(S, k, statuses)) <= Cardinality(Counted(list, k, statuses))
  BY <1>1, <1>4, FS_Subset
<1>6. Cardinality(Counted(list, k, statuses)) <= Cardinality(Ever(S, k, statuses))
  BY <1>2, <1>4, FS_Subset
<1>7. Cardinality(Always(S, k, statuses)) \in Nat
  <2>1. IsFiniteSet(Always(S, k, statuses))
    BY <1>1, <1>4, FS_Subset
  <2> QED BY <2>1, FS_CardinalityType
<1> QED BY <1>4, <1>5, <1>6, <1>7

(* compute pools: two reads of different moments, but every number between *)
(* what was so all the time and what was ever so, for every pool.          *)
THEOREM CountsInBetween == Spec => []CountsLieInBetween
<1>1. IInv => CountsLieInBetween
  <2> DEFINE online  == {"online", "offline"}
             present == online \cup (TaskStatus \ {"absent"})
  <2> SUFFICES ASSUME IInv, pc = "printed", command = "pools"
               PROVE  CountsLieInBetween
    BY DEF CountsLieInBetween
  <2> DEFINE agents == answers.agents
             tasks  == answers.tasks
  <2>1. /\ DOMAIN agents = Agents /\ DOMAIN tasks = Tasks
        /\ \A a \in Agents : agents[a] \in AgentStatus /\ agents[a] \in had[a]
        /\ \A t \in Tasks : tasks[t] \in TaskStatus /\ tasks[t] \in had[t]
    BY PoolsPrinted
  <2>2. \A k : k \in DOMAIN report.rows <=>
                  \E x \in Present(agents) \cup Present(tasks) : PoolOf[x] = k
    BY RowsPrinted DEF Key
  <2>3. /\ Present(agents) \cup Present(tasks) \subseteq DOMAIN PoolOf
        /\ Agents \in SUBSET (Agents \cup Tasks) /\ Tasks \in SUBSET (Agents \cup Tasks)
        /\ DOMAIN PoolOf = Agents \cup Tasks
    BY <2>1, PoolOfAssumption DEF Present
  <2> HIDE DEF agents, tasks
  <2>4. ASSUME NEW k
        PROVE  /\ Reported(k, "agents") >= Cardinality(Always(Agents, k, online))
               /\ Reported(k, "agents") <= Cardinality(Ever(Agents, k, online))
               /\ Reported(k, "online") >= Cardinality(Always(Agents, k, {"online"}))
               /\ Reported(k, "online") <= Cardinality(Ever(Agents, k, {"online"}))
               /\ \A c \in Column : /\ Reported(k, c) >= Cardinality(Always(Tasks, k, {c}))
                                    /\ Reported(k, c) <= Cardinality(Ever(Tasks, k, {c}))
    <3>1. Counted(agents, k, AgentStatus) = Counted(agents, k, online)
      BY DEF Counted, Present, AgentStatus
    <3>2. /\ Reported(k, "agents") = Cardinality(Counted(agents, k, online))
          /\ Reported(k, "online") = Cardinality(Counted(agents, k, {"online"}))
          /\ \A c \in Column : Reported(k, c) = Cardinality(Counted(tasks, k, {c}))
      BY <3>1, ReportedIsCounted DEF agents, tasks
    <3>3. "absent" \notin online /\ "absent" \notin {"online"} /\ \A c \in Column : "absent" \notin {c}
      BY DEF Column
    <3>4. /\ Cardinality(Counted(agents, k, online)) >= Cardinality(Always(Agents, k, online))
          /\ Cardinality(Counted(agents, k, online)) <= Cardinality(Ever(Agents, k, online))
      BY <2>1, <2>3, <3>3, CountLiesInBetween
    <3>5. /\ Cardinality(Counted(agents, k, {"online"})) >= Cardinality(Always(Agents, k, {"online"}))
          /\ Cardinality(Counted(agents, k, {"online"})) <= Cardinality(Ever(Agents, k, {"online"}))
      BY <2>1, <2>3, <3>3, CountLiesInBetween
    <3>6. ASSUME NEW c \in Column
          PROVE  /\ Cardinality(Counted(tasks, k, {c})) >= Cardinality(Always(Tasks, k, {c}))
                 /\ Cardinality(Counted(tasks, k, {c})) <= Cardinality(Ever(Tasks, k, {c}))
      BY <2>1, <2>3, <3>3, CountLiesInBetween
    <3> HIDE DEF online
    <3> QED BY <3>2, <3>4, <3>5, <3>6
  <2>5. ASSUME NEW k, NEW x \in {y \in DOMAIN PoolOf : PoolOf[y] = k}, had[x] \subseteq present
        PROVE  k \in DOMAIN report.rows
    <3>1. x \in Present(agents) \cup Present(tasks)
      BY <2>1, <2>3, <2>5 DEF Present, TaskStatus, Column
    <3> QED BY <2>2, <2>5, <3>1
  <2>6. ASSUME NEW k \in DOMAIN report.rows
        PROVE  \E x \in {y \in DOMAIN PoolOf : PoolOf[y] = k} : had[x] \cap present # {}
    <3>1. PICK x \in Present(agents) \cup Present(tasks) : k = PoolOf[x]
      BY <2>2
    <3>2. had[x] \cap present # {}
      BY <2>1, <3>1 DEF Present, AgentStatus
    <3> QED BY <2>3, <3>1, <3>2
  <2> QED BY <2>4, <2>5, <2>6 DEF CountsLieInBetween, Always, Ever
<1> QED BY <1>1, Inductive, PTL

-----------------------------------------------------------------------------
(* What compute audit and compute accounting export print.                 *)

LEMMA AuditPrinted ==
    ASSUME IInv, pc = "printed", command = "audit"
    PROVE  \E n \in 0 .. Len(world.proofs) :
              LET list == SubSeq(world.proofs, 1, n)
              IN  /\ report.sums = Sums(list, DOMAIN list)
                  /\ list \in Seq(Verification) /\ Len(list) = n
                  /\ \A i \in 1 .. n : list[i] = world.proofs[i] /\ world.proofs[i] \in Verification
<1>1. Requests(command) = <<"proofs">>
  BY DEF Requests
<1>2. "proofs" \in DOMAIN answers
  BY <1>1 DEF IInv, AnswersInOrder
<1>3. PICK n \in 0 .. Len(world.proofs) : answers.proofs = SubSeq(world.proofs, 1, n)
  BY <1>2 DEF IInv, AnswersWereTrue
<1>4. report = [kind |-> "audit", sums |-> AuditProofs(answers.proofs)]
  BY DEF IInv, Summary
<1> DEFINE list == SubSeq(world.proofs, 1, n)
<1>5. world.proofs \in Seq(Verification)
  BY DEF IInv, WorldOK, World
<1>6. /\ list \in Seq(Verification) /\ Len(list) = n
      /\ \A i \in 1 .. n : list[i] = world.proofs[i] /\ world.proofs[i] \in Verification
  BY <1>5
<1>7. report.sums = Sums(list, DOMAIN list)
  <2> HIDE DEF list
  <2>1. answers.proofs = list
    BY <1>3 DEF list
  <2> QED BY <1>4, <1>6, <2>1, AuditCounts
<1> QED BY <1>6, <1>7

(* compute audit: the numbers are those of the receipts of one moment, for *)
(* any number of receipts.                                                 *)
THEOREM AuditOfOneMoment == Spec => []AuditIsOfOneMoment
<1>1. IInv => AuditIsOfOneMoment
  <2> SUFFICES ASSUME IInv, pc = "printed", command = "audit"
               PROVE  AuditIsOfOneMoment
    BY DEF AuditIsOfOneMoment
  <2>1. PICK n \in 0 .. Len(world.proofs) :
           LET list == SubSeq(world.proofs, 1, n)
           IN  /\ report.sums = Sums(list, DOMAIN list)
               /\ list \in Seq(Verification) /\ Len(list) = n
               /\ \A i \in 1 .. n : list[i] = world.proofs[i] /\ world.proofs[i] \in Verification
    BY AuditPrinted
  <2> DEFINE list == SubSeq(world.proofs, 1, n)
             with(S) == {i \in 1 .. n : world.proofs[i] \in S}
  <2>2. /\ report.sums = Sums(list, DOMAIN list)
        /\ DOMAIN list = 1 .. n /\ Len(list) = n
        /\ \A i \in 1 .. n : list[i] = world.proofs[i] /\ world.proofs[i] \in Verification
    BY <2>1
  <2> HIDE DEF list
  <2>3. /\ InColumn(list, "accepted", 1 .. n) = with({"accepted"})
        /\ InColumn(list, "rejected", 1 .. n) = with({"rejected"})
        /\ InColumn(list, "unknown", 1 .. n) = with({"other"})
    BY <2>2 DEF InColumn, VerdictColumn, Verification
  <2>4. report.sums = [proofs |-> n, accepted |-> Cardinality(with({"accepted"})),
                       rejected |-> Cardinality(with({"rejected"})),
                       unknown |-> Cardinality(with({"other"}))]
    BY <2>2, <2>3 DEF Sums
  <2> QED BY <2>4 DEF AuditIsOfOneMoment
<1> QED BY <1>1, Inductive, PTL

LEMMA AccountingPrinted ==
    ASSUME IInv, pc = "printed", command = "accounting"
    PROVE  /\ report.total = answers.contributions[account]
           /\ answers.contributions \in [Accounts -> 0 .. MaxContributions]
           /\ answers.rewards \in [Accounts -> 0 .. MaxContributions]
           /\ settled[account] <= answers.rewards[account]
           /\ answers.rewards[account] <= world.contributions[account]
           /\ \A row \in report.rewards :
                 row = [account |-> account, units |-> answers.rewards[account]]
           /\ answers.rewards[account] > 0 => report.rewards # {}
           /\ report.rewards # {} => answers.rewards[account] > 0
           /\ account \in Accounts
<1>1. Requests(command) = <<"contributions", "rewards">>
  BY DEF Requests
<1>2. "contributions" \in DOMAIN answers /\ "rewards" \in DOMAIN answers
  BY <1>1 DEF IInv, AnswersInOrder
<1>3. report = [kind |-> "accounting", total |-> answers.contributions[account],
                rewards |-> RewardsForAccount(answers.rewards, account)]
  BY DEF IInv, Summary
<1>4. account \in Accounts
  BY DEF IInv, AnswersInOrder
<1>5. /\ answers.contributions \in [Accounts -> 0 .. MaxContributions]
      /\ answers.rewards \in [Accounts -> 0 .. MaxContributions]
      /\ settled[account] <= answers.rewards[account]
      /\ answers.rewards[account] <= world.contributions[account]
  BY <1>2, <1>4 DEF IInv, AnswersWereTrue
<1>6. report.rewards =
         {[account |-> b, units |-> answers.rewards[b]] :
             b \in {b \in Accounts : answers.rewards[b] > 0 /\ b = account}}
  BY <1>3, <1>5 DEF RewardsForAccount
<1> QED BY <1>3, <1>4, <1>5, <1>6

(* compute accounting export: the rewards are not older than the           *)
(* contributions and are those of the account.                             *)
THEOREM RewardsNoOlder == Spec => []RewardsAreNoOlder
<1>1. IInv => RewardsAreNoOlder
  <2> SUFFICES ASSUME IInv, pc = "printed", command = "accounting"
               PROVE  RewardsAreNoOlder
    BY DEF RewardsAreNoOlder
  <2>1. settled[account] \in Int /\ answers.rewards[account] \in Int
    BY AccountingPrinted DEF IInv, HistoryOK
  <2> QED BY <2>1, AccountingPrinted DEF RewardsAreNoOlder
<1> QED BY <1>1, Inductive, PTL

-----------------------------------------------------------------------------
(* Sums of positions are never more than the positions.                    *)
LEMMA SumsAreBounded ==
    ASSUME NEW list \in Seq(Verification)
    PROVE  Sums(list, DOMAIN list) \in
              [{"proofs", "accepted", "rejected", "unknown"} -> 0 .. Len(list)]
<1>1. DOMAIN list = 1 .. Len(list) /\ Len(list) \in Nat
  OBVIOUS
<1>2. IsFiniteSet(1 .. Len(list)) /\ Cardinality(1 .. Len(list)) = Len(list)
  BY <1>1, FS_Interval
<1>3. ASSUME NEW c PROVE Cardinality(InColumn(list, c, DOMAIN list)) \in 0 .. Len(list)
  <2>1. InColumn(list, c, DOMAIN list) \subseteq 1 .. Len(list)
    BY <1>1 DEF InColumn
  <2>2. /\ IsFiniteSet(InColumn(list, c, DOMAIN list))
        /\ Cardinality(InColumn(list, c, DOMAIN list)) <= Cardinality(1 .. Len(list))
    BY <1>2, <2>1, FS_Subset
  <2>3. Cardinality(InColumn(list, c, DOMAIN list)) \in Nat
    BY <2>2, FS_CardinalityType
  <2> QED BY <1>1, <1>2, <2>2, <2>3
<1> QED BY <1>1, <1>3 DEF Sums

(* What is printed is one summary of the command that was given.           *)
THEOREM TypeCorrect == Spec => []TypeOK
<1>1. IInv => TypeOK
  <2> SUFFICES ASSUME IInv PROVE TypeOK
    OBVIOUS
  <2>1. /\ pc \in {"start", "reading", "printed", "failed"} /\ command \in Command
        /\ pc # "printed" => report = NoReport
    BY DEF IInv, AnswersInOrder
  <2>2. CASE pc = "printed" /\ command = "pools"
    <3>1. /\ DOMAIN answers.agents = Agents /\ DOMAIN answers.tasks = Tasks
      BY <2>2, PoolsPrinted
    <3>2. ASSUME NEW k, NEW statuses
          PROVE  /\ Cardinality(Counted(answers.agents, k, statuses)) \in Nat
                 /\ Cardinality(Counted(answers.tasks, k, statuses)) \in Nat
      BY <3>1, CountedIsFinite
    <3>3. ASSUME NEW k \in DOMAIN report.rows PROVE report.rows[k] \in Row
      <4> DEFINE row == report.rows[k]
      <4>1. row = [c \in Column \cup {"agents", "online"} |-> row[c]]
        BY <2>2, <3>3, RowsPrinted
      <4>2. /\ row.agents = Cardinality(Counted(answers.agents, k, AgentStatus))
            /\ row.online = Cardinality(Counted(answers.agents, k, {"online"}))
            /\ \A c \in Column : row[c] = Cardinality(Counted(answers.tasks, k, {c}))
        BY <2>2, <3>3, RowsPrinted
      <4> HIDE DEF row
      <4>3. row.agents \in Nat /\ row.online \in Nat
        BY <3>2, <4>2
      <4>4. ASSUME NEW c \in Column PROVE row[c] \in Nat
        <5>1. Cardinality(Counted(answers.tasks, k, {c})) \in Nat
          BY <3>2
        <5> QED BY <4>2, <5>1
      <4>5. row \in [Column \cup {"agents", "online"} -> Nat]
        BY <4>1, <4>3, <4>4
      <4> QED BY <4>5 DEF Row, row
    <3> QED BY <2>1, <2>2, <3>1, <3>3 DEF TypeOK
  <2>3. CASE pc = "printed" /\ command = "audit"
    <3>1. PICK n \in 0 .. Len(world.proofs) :
             /\ report.sums = Sums(SubSeq(world.proofs, 1, n), DOMAIN SubSeq(world.proofs, 1, n))
             /\ SubSeq(world.proofs, 1, n) \in Seq(Verification)
             /\ Len(SubSeq(world.proofs, 1, n)) = n
      BY <2>3, AuditPrinted
    <3>2. report.sums \in [{"proofs", "accepted", "rejected", "unknown"} -> 0 .. n]
      BY <3>1, SumsAreBounded
    <3>3. 0 .. n \subseteq 0 .. MaxReceipts
      <4>1. /\ Len(world.proofs) <= MaxReceipts /\ Len(world.proofs) \in Nat
            /\ MaxReceipts \in Nat
        BY BoundsAssumption DEF IInv, WorldOK, World
      <4> QED BY <4>1
    <3>4. report.sums \in [{"proofs", "accepted", "rejected", "unknown"} -> 0 .. MaxReceipts]
      BY <3>2, <3>3
    <3> QED BY <2>1, <2>3, <3>4 DEF TypeOK
  <2>4. CASE pc = "printed" /\ command = "accounting"
    <3>1. MaxContributions \in Nat
      BY BoundsAssumption
    <3>2. report.total \in 0 .. MaxContributions
      BY <2>4, AccountingPrinted
    <3>3. report.rewards \subseteq [account : Accounts, units : 1 .. MaxContributions]
      BY <2>4, <3>1, AccountingPrinted
    <3> QED BY <2>1, <2>4, <3>2, <3>3 DEF TypeOK
  <2>5. CASE pc # "printed"
    BY <2>1, <2>5 DEF TypeOK
  <2> QED BY <2>1, <2>2, <2>3, <2>4, <2>5 DEF Command
<1> QED BY <1>1, Inductive, PTL
=============================================================================
