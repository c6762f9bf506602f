--------------------------- MODULE MCServoDriver ---------------------------
(***************************************************************************)
(* Two servos and angles 0 .. 3.  Servo 1's window is wider than the       *)
(* limits it has after a power cycle; servo 2's ends at 1.                 *)
(* The tasks: a move; one of both servos, servo 2 beyond its window but    *)
(* within the tolerance; one that is outside.                              *)
(***************************************************************************)
EXTENDS ServoDriver

MCWindow == <<<<0, 3>>, <<0, 1>>>>
MCPowerOn == <<<<2, 3>>, <<0, 1>>>>
MCTasks == {<<<<1, 3>>>>, <<<<1, 0>>, <<2, 2>>>>, <<<<2, 3>>>>}

=============================================================================
