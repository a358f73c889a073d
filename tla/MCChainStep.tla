---------------------------- MODULE MCChainStep -----------------------------
(* Small instances of ChainStep. *)
EXTENDS ChainStep

CONSTANTS r1, r2, t1, t2, t3

\* The second link copies two fields of the first link's proof, as
\* publish_stream does in the example of README.md.
MCPair ==
    LET copy == [step |-> 1, field |-> "proof"]
    IN  <<[wait |-> TRUE, inputs |-> <<>>], [wait |-> TRUE, inputs |-> <<copy, copy>>]>>

\* The link in the middle is submitted and not awaited.  The last one copies
\* its task_id, and a field of the first link's proof.
MCDetached ==
    <<[wait |-> TRUE,  inputs |-> <<>>],
      [wait |-> FALSE, inputs |-> <<>>],
      [wait |-> TRUE,  inputs |-> <<[step |-> 2, field |-> "task"],
                                    [step |-> 1, field |-> "proof"]>>]>>

\* The second link copies the task_id of the first, twice.
MCHandoff ==
    LET copy == [step |-> 1, field |-> "task"]
    IN  <<[wait |-> TRUE, inputs |-> <<>>], [wait |-> FALSE, inputs |-> <<copy, copy>>]>>

\* One execution: a task for each link.
MCOwnTasks == [r \in Runs |-> [k \in 1 .. NLinks |-> <<t1, t2, t3>>[k]]]

\* The first link's id is generated anew, the second link's is configured.
MCSecondShared == [r \in Runs |-> IF r = r1 THEN <<t1, t2>> ELSE <<t3, t2>>]

\* Executions that do not overlap.
MCOneAfterTheOther ==
    /\ Init
    /\ [][Next /\ OneAtATime']_vars
    /\ Fairness
=============================================================================
