----------------------------- MODULE KillSwitch -----------------------------
(***************************************************************************)
(* What the thruster driver promises about its kill latch, whatever the    *)
(* watchdog, the autonomy stack and the battery do: once killed it stays   *)
(* killed, and from then on the only thing it ever puts on the CAN bus is  *)
(* the off command.  can_driver.py states it as "BIGARM is authoritative   *)
(* on the wire" and "nothing sets BIGARM back to True".                    *)
(***************************************************************************)

CONSTANTS
  Commands,   \* everything a broadcast can carry
  Off         \* the broadcast that disarms and stops every thruster; one of them

VARIABLES
  killed,     \* the latch
  output      \* the last broadcast

kvars == <<killed, output>>

Init ==
  /\ killed \in BOOLEAN
  /\ output = Off

(* Not killed: any command may go out. *)
Drive ==
  /\ ~killed
  /\ output' \in Commands
  /\ UNCHANGED killed

(* The latch trips, between two broadcasts or in the one that turns off. *)
Kill ==
  /\ ~killed
  /\ killed' = TRUE
  /\ output' \in {output, Off}

(* Killed: the next broadcast is the off command. *)
TurnOff ==
  /\ killed
  /\ output' = Off
  /\ UNCHANGED killed

Next == Drive \/ Kill \/ TurnOff

Spec == Init /\ [][Next]_kvars

=============================================================================
