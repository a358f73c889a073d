------------------------- MODULE MCOperatorCommands -------------------------
(* Two operators with any two commands; the ids made of the clock are among *)
(* those that may be given.                                                *)
EXTENDS OperatorCommands

CONSTANTS o1, o2, i1, i2

MCHashOf == [t \in Instants |-> IF t = 1 THEN i1 ELSE i2]
=============================================================================
