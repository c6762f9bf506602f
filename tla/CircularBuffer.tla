--------------------------- MODULE CircularBuffer ---------------------------
(***************************************************************************)
(* A CircularBuffer and the calls that change it, shown to implement a     *)
(* DropOldestQueue.                                                        *)
(***************************************************************************)
EXTENDS RingBuffers

VARIABLE buf

Init == \E slots \in [Slots -> T] : buf = fresh(slots)

Add(x) == buf' = add(buf, x)
Remove == buf' = remove(buf)
Reset == buf' = reset

Next == (\E x \in T : Add(x)) \/ Remove \/ Reset

Spec == Init /\ [][Next]_buf

-----------------------------------------------------------------------------
(* circular_buffer.h:99-101: size_ and the two indices, kept separately,   *)
(* always describe the same elements; this is also the type invariant.     *)
SizeMatchesIterators == WellFormed(buf)

(* circular_buffer.h:57-102: through its iterators the buffer is a queue   *)
(* that drops its oldest element when one too many is added.               *)
Queue == INSTANCE DropOldestQueue
           WITH queue <- Contents(buf), Elements <- T, Capacity <- N
QueueSpec == Queue!Spec

=============================================================================
