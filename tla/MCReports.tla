----------------------------- MODULE MCReports ------------------------------
(* A small instance of Reports: two orgs with a pool of the same id.       *)
EXTENDS Reports

CONSTANTS a1, a2, t1, t2

MCPoolOf == [x \in Agents \cup Tasks |->
                [org |-> IF x \in {a1, t1} THEN "org-1" ELSE "org-2", pool |-> "pool-1"]]
=============================================================================
