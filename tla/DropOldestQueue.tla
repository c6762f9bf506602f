-------------------------- MODULE DropOldestQueue --------------------------
(***************************************************************************)
(* What a ring buffer promises: a first-in first-out queue of at most      *)
(* Capacity elements, to which adding one too many drops the oldest.       *)
(***************************************************************************)
EXTENDS Naturals, Sequences

CONSTANTS Elements, Capacity

VARIABLE queue

Init == queue = <<>>

Push(x) ==
  queue' = IF Len(queue) < Capacity THEN Append(queue, x)
                                    ELSE Append(Tail(queue), x)

Pop == queue' = IF queue = <<>> THEN queue ELSE Tail(queue)

Clear == queue' = <<>>

Next == (\E x \in Elements : Push(x)) \/ Pop \/ Clear

Spec == Init /\ [][Next]_queue

=============================================================================
