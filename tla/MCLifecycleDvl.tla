--------------------------- MODULE MCLifecycleDvl ---------------------------
(***************************************************************************)
(* Numbers of two different digits, so that a repeated byte shows.         *)
(***************************************************************************)
EXTENDS LifecycleDvl

MCLines == {[kind |-> "report", valid |-> TRUE, digits |-> <<"1", "2">>],
            [kind |-> "report", valid |-> FALSE, digits |-> <<"2">>],
            [kind |-> "position", valid |-> TRUE, digits |-> <<"2", "1">>],
            [kind |-> "response", valid |-> TRUE, digits |-> <<"1">>]}
MCDigits == {"0", "1", "2"}
MCZero == <<"0">>

=============================================================================
