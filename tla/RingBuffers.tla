---------------------------- MODULE RingBuffers ----------------------------
(***************************************************************************)
(* The template CircularBuffer<T, N> of the KVH driver, as operators on    *)
(* the record of its fields.  Every operation returns the new record.      *)
(* The array has one slot more than the capacity N, so that begin() and    *)
(* end() differ when the buffer is full.                                   *)
(***************************************************************************)
EXTENDS Integers, Sequences

CONSTANTS
  T,      \* the elements
  Zero,   \* what memset leaves in a slot
  N       \* the capacity

ASSUME NAssumption == N \in Nat \ {0}
ASSUME ZeroAssumption == Zero \in T

Slots == 0 .. N

Buffers == [buffer_ : [Slots -> T], head_idx_ : Slots, tail_idx_ : Slots,
            size_ : 0 .. N]

modCapacity(idx) == idx % N      \* without the spare slot
mod(idx) == idx % (N + 1)

empty(b) == b.size_ = 0
full(b) == b.size_ = N

(* The indices and the size are initialised, the array is not; reset()     *)
(* also clears the array.                                                  *)
fresh(slots) ==
  [buffer_ |-> slots, head_idx_ |-> 0, tail_idx_ |-> 0, size_ |-> 0]
reset == fresh([i \in Slots |-> Zero])

(* The element goes in before full() is asked; when it was full, the tail  *)
(* moves on and the size stays.                                            *)
addOverrunning(b, x) ==      \* leaves the tail where it is
  [buffer_ |-> [b.buffer_ EXCEPT ![b.head_idx_] = x],
   head_idx_ |-> mod(b.head_idx_ + 1),
   tail_idx_ |-> b.tail_idx_,
   size_ |-> IF full(b) THEN b.size_ ELSE b.size_ + 1]

add(b, x) ==
  [buffer_ |-> [b.buffer_ EXCEPT ![b.head_idx_] = x],
   head_idx_ |-> mod(b.head_idx_ + 1),
   tail_idx_ |-> IF full(b) THEN mod(b.tail_idx_ + 1) ELSE b.tail_idx_,
   size_ |-> IF full(b) THEN b.size_ ELSE b.size_ + 1]

removed(b) ==
  [buffer_ |-> b.buffer_, head_idx_ |-> b.head_idx_,
   tail_idx_ |-> mod(b.tail_idx_ + 1), size_ |-> b.size_ - 1]

removeUnchecked(b) == removed(b)      \* without the test for an empty buffer
remove(b) == IF empty(b) THEN b ELSE removed(b)

(* The iterator steps from slot N back to slot 0, never through mod: the   *)
(* slot i steps after slot s, and the steps from begin() to end().         *)
Ahead(s, i) == IF s + i <= N THEN s + i ELSE s + i - (N + 1)

Distance(b) ==
  IF b.tail_idx_ <= b.head_idx_
  THEN b.head_idx_ - b.tail_idx_
  ELSE b.head_idx_ - b.tail_idx_ + (N + 1)

(* What a range-for over the buffer visits, oldest first. *)
Contents(b) ==
  [i \in 1 .. Distance(b) |-> b.buffer_[Ahead(b.tail_idx_, i - 1)]]

(* The size that is counted and the distance the iterators cover agree. *)
WellFormed(b) == b \in Buffers /\ b.size_ = Distance(b)

=============================================================================
