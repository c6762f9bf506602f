--------------------------- MODULE MCXdaCallback ---------------------------
(***************************************************************************)
(* A counter of six values that rolls over once.  Packets as the sensor    *)
(* sends them: orientation with UTC, rate of turn and acceleration without *)
(* it, and one without a sample time.                                      *)
(***************************************************************************)
EXTENDS XdaCallback

MCContents ==
  {[has |-> {"orientation"}, utc |-> TRUE, fine |-> TRUE],
   [has |-> {"rateOfTurn", "acceleration"}, utc |-> FALSE, fine |-> TRUE],
   [has |-> {"orientation"}, utc |-> FALSE, fine |-> FALSE]}

=============================================================================
