---------------------------- MODULE MCCanDriver ----------------------------
(***************************************************************************)
(* CanDriver with two ESCs and two thrusters that are crossed on the bus,  *)
(* one of them mounted in reverse.                                         *)
(***************************************************************************)
EXTENDS CanDriver

CONSTANTS e1, e2

MCEscs == {e1, e2}
MCDronecanToGlobal == [d \in 0 .. 1 |-> 1 - d]
MCSigns == [d \in 0 .. 1 |-> IF d = 0 THEN -1 ELSE 1]

=============================================================================
