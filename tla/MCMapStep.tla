----------------------------- MODULE MCMapStep ------------------------------
(* Small instances of MapStep. *)
EXTENDS MapStep

CONSTANTS m1, t1, t2

\* Two different tasks.
MCJobs == [m \in Maps |-> <<t1, t2>>]
=============================================================================
