----------------------------- MODULE MCVerdicts -----------------------------
(* A small instance of Verdicts: a wait, and a map in which the task it    *)
(* waits for is configured twice.                                          *)
EXTENDS Verdicts

CONSTANTS w1, m1, t1

MCTaskOf == [w \in Waiters |-> t1]
MCJobs == [m \in Maps |-> <<t1, t1>>]
=============================================================================
