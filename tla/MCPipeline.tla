----------------------------- MODULE MCPipeline -----------------------------
(* A small instance of Pipeline: two executions of a dispatch step whose   *)
(* id is configured, so that both submit and await the same task.          *)
EXTENDS Pipeline

CONSTANTS p1, p2, t1

MCSameId == [p \in Waiters |-> t1]
=============================================================================
