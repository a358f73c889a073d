----------------------------- MODULE MCWaitStep -----------------------------
(* Small instances of WaitStep: executions that wait for the same task. *)
EXTENDS WaitStep

CONSTANTS w1, w2, t1

MCTaskOf == [w \in Waiters |-> t1]
=============================================================================
