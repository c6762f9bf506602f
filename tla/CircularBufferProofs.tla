------------------------ MODULE CircularBufferProofs ------------------------
(***************************************************************************)
(* What the operations of a CircularBuffer do to what its iterators visit, *)
(* for every capacity: the facts every user of the buffer rests on.  From  *)
(* these, CircularBuffer keeps its indices and its size consistent and     *)
(* implements a DropOldestQueue.                                           *)
(***************************************************************************)
EXTENDS CircularBuffer, TLAPS

(* mod, circular_buffer.h:137: on the indices it is given it does what the *)
(* iterators do, a step back to slot 0 after slot N.                       *)
LEMMA ModIsAhead ==
  ASSUME NEW i \in Slots
  PROVE  mod(i + 1) = Ahead(i, 1) /\ mod(i + 1) \in Slots
<1>1. i \in Nat /\ i <= N /\ N \in Nat
  BY NAssumption DEF Slots
<1>2. CASE i < N
  BY <1>1, <1>2 DEF mod, Ahead, Slots
<1>3. CASE i = N
  BY <1>1, <1>3 DEF mod, Ahead, Slots
<1>4. QED
  BY <1>1, <1>2, <1>3

(* The slots stay in the array: iterating from slot s, at most N steps     *)
(* ahead, reaches slots of the array, and different ones.                  *)
LEMMA AheadInSlots ==
  ASSUME NEW s \in Slots, NEW i \in 0 .. N
  PROVE  Ahead(s, i) \in Slots
BY NAssumption DEF Ahead, Slots

LEMMA AheadInjective ==
  ASSUME NEW s \in Slots, NEW i \in 0 .. N, NEW j \in 0 .. N,
         Ahead(s, i) = Ahead(s, j)
  PROVE  i = j
BY NAssumption DEF Ahead, Slots

LEMMA AheadOfNext ==
  ASSUME NEW s \in Slots, NEW i \in 0 .. N - 1
  PROVE  Ahead(Ahead(s, 1), i) = Ahead(s, i + 1)
BY NAssumption DEF Ahead, Slots

(* The head is the slot after the last one the iterators visit. *)
LEMMA HeadIsAhead ==
  ASSUME NEW b \in Buffers
  PROVE  Distance(b) \in 0 .. N /\ Ahead(b.tail_idx_, Distance(b)) = b.head_idx_
BY NAssumption DEF Buffers, Distance, Ahead, Slots

LEMMA ContentsIsSeq ==
  ASSUME NEW b, WellFormed(b)
  PROVE  /\ Contents(b) \in Seq(T)
         /\ Len(Contents(b)) = b.size_
         /\ b.size_ \in 0 .. N
<1>1. b \in Buffers /\ b.size_ = Distance(b) /\ b.size_ \in 0 .. N
  BY HeadIsAhead DEF WellFormed
<1>2. \A i \in 1 .. Distance(b) : b.buffer_[Ahead(b.tail_idx_, i - 1)] \in T
  <2>1. SUFFICES ASSUME NEW i \in 1 .. Distance(b)
                 PROVE  b.buffer_[Ahead(b.tail_idx_, i - 1)] \in T
    OBVIOUS
  <2>2. i - 1 \in 0 .. N /\ b.tail_idx_ \in Slots
    BY <1>1, NAssumption DEF Buffers
  <2>3. QED
    BY <1>1, <2>2, AheadInSlots DEF Buffers
<1>3. QED
  BY <1>1, <1>2, NAssumption DEF Contents

-----------------------------------------------------------------------------
(* A new buffer, and one that has been reset, is empty, whatever is in the *)
(* array.                                                                  *)
LEMMA FreshContents ==
  ASSUME NEW slots \in [Slots -> T]
  PROVE  WellFormed(fresh(slots)) /\ Contents(fresh(slots)) = <<>>
<1> DEFINE b == fresh(slots)
<1>1. /\ b.buffer_ = slots /\ b.head_idx_ = 0 /\ b.tail_idx_ = 0 /\ b.size_ = 0
      /\ b \in Buffers
  BY NAssumption DEF fresh, Buffers, Slots
<1>2. Distance(b) = 0
  BY <1>1 DEF Distance
<1>3. WellFormed(b)
  BY <1>1, <1>2 DEF WellFormed
<1>4. Contents(b) \in Seq(T) /\ Len(Contents(b)) = 0
  BY <1>1, <1>3, ContentsIsSeq
<1>5. QED
  BY <1>3, <1>4

LEMMA ResetContents == WellFormed(reset) /\ Contents(reset) = <<>>
BY FreshContents, ZeroAssumption DEF reset

(* remove drops the oldest element, if there is one. *)
LEMMA RemoveContents ==
  ASSUME NEW b, WellFormed(b)
  PROVE  /\ WellFormed(remove(b))
         /\ b.size_ = 0 => remove(b) = b
         /\ b.size_ # 0 => /\ remove(b).size_ = b.size_ - 1
                           /\ Contents(remove(b)) = Tail(Contents(b))
<1>1. CASE b.size_ = 0
  BY <1>1 DEF remove, empty
<1>2. CASE b.size_ # 0
  <2> DEFINE c == remove(b)
  <2>1. /\ b \in Buffers /\ b.size_ = Distance(b)
        /\ b.size_ \in 1 .. N /\ b.tail_idx_ \in Slots
    BY <1>2, NAssumption DEF WellFormed, Buffers
  <2>2. /\ mod(b.tail_idx_ + 1) = Ahead(b.tail_idx_, 1)
        /\ mod(b.tail_idx_ + 1) \in Slots
    BY <2>1, ModIsAhead
  <2>3. /\ c.buffer_ = b.buffer_ /\ c.head_idx_ = b.head_idx_
        /\ c.tail_idx_ = Ahead(b.tail_idx_, 1) /\ c.size_ = b.size_ - 1
        /\ c \in Buffers
    BY <1>2, <2>1, <2>2, NAssumption DEF remove, removed, empty, Buffers
  <2>4. Distance(c) = b.size_ - 1
    BY <2>1, <2>3, NAssumption DEF Distance, Ahead, Slots, Buffers
  <2>5. WellFormed(c)
    BY <2>3, <2>4 DEF WellFormed
  <2>6. ASSUME NEW i \in 1 .. b.size_ - 1
        PROVE  Contents(c)[i] = Contents(b)[i + 1]
    <3>1. i - 1 \in 0 .. N - 1 /\ i + 1 \in 1 .. Distance(b) /\ i \in 1 .. Distance(c)
      BY <2>1, <2>4, NAssumption
    <3>2. Ahead(c.tail_idx_, i - 1) = Ahead(b.tail_idx_, i)
      <4>1. Ahead(Ahead(b.tail_idx_, 1), i - 1) = Ahead(b.tail_idx_, (i - 1) + 1)
        BY <2>1, <3>1, AheadOfNext
      <4>2. (i - 1) + 1 = i
        OBVIOUS
      <4>3. QED
        BY <2>3, <4>1, <4>2
    <3>3. Contents(c)[i] = c.buffer_[Ahead(c.tail_idx_, i - 1)]
      BY <3>1 DEF Contents
    <3>4. Contents(b)[i + 1] = b.buffer_[Ahead(b.tail_idx_, (i + 1) - 1)]
      BY <3>1 DEF Contents
    <3>5. (i + 1) - 1 = i
      OBVIOUS
    <3>6. QED
      BY <2>3, <3>2, <3>3, <3>4, <3>5
  <2>7. Contents(c) = Tail(Contents(b))
    <3>1. /\ Contents(b) \in Seq(T) /\ Len(Contents(b)) = b.size_
          /\ Contents(c) \in Seq(T) /\ Len(Contents(c)) = b.size_ - 1
      BY <2>1, <2>3, <2>5, ContentsIsSeq DEF WellFormed
    <3>2. Len(Tail(Contents(b))) = b.size_ - 1 /\ Tail(Contents(b)) \in Seq(T)
      BY <2>1, <3>1
    <3>3. \A i \in 1 .. b.size_ - 1 : Contents(c)[i] = Tail(Contents(b))[i]
      BY <2>1, <2>6, <3>1
    <3>4. QED
      BY <2>1, <3>1, <3>2, <3>3
  <2>8. QED
    BY <1>2, <2>3, <2>5, <2>7
<1>3. QED
  BY <1>1, <1>2

(* The buffer after add: the same elements and the new one at the head's   *)
(* slot, without the oldest if the buffer was full.                        *)
LEMMA AddContents ==
  ASSUME NEW b, WellFormed(b), NEW x \in T
  PROVE  /\ WellFormed(add(b, x))
         /\ b.size_ < N => /\ add(b, x).size_ = b.size_ + 1
                           /\ Contents(add(b, x)) = Append(Contents(b), x)
         /\ b.size_ = N => /\ add(b, x).size_ = N
                           /\ Contents(add(b, x)) = Append(Tail(Contents(b)), x)
<1> DEFINE c == add(b, x)
<1>1. /\ b \in Buffers /\ b.size_ = Distance(b) /\ b.size_ \in 0 .. N
      /\ b.tail_idx_ \in Slots /\ b.head_idx_ \in Slots /\ b.buffer_ \in [Slots -> T]
  BY NAssumption DEF WellFormed, Buffers
<1>2. /\ mod(b.tail_idx_ + 1) = Ahead(b.tail_idx_, 1)
      /\ mod(b.tail_idx_ + 1) \in Slots
      /\ mod(b.head_idx_ + 1) = Ahead(b.head_idx_, 1)
      /\ mod(b.head_idx_ + 1) \in Slots
  BY <1>1, ModIsAhead
<1>3. /\ c.buffer_ = [b.buffer_ EXCEPT ![b.head_idx_] = x]
      /\ c.head_idx_ = Ahead(b.head_idx_, 1)
      /\ c.tail_idx_ = IF b.size_ = N THEN Ahead(b.tail_idx_, 1) ELSE b.tail_idx_
      /\ c.size_ = IF b.size_ = N THEN N ELSE b.size_ + 1
  BY <1>1, <1>2 DEF add, full
<1>4. c \in Buffers
  BY <1>1, <1>2, NAssumption DEF add, full, Buffers
<1>5. Distance(c) = c.size_
  <2>1. /\ b.tail_idx_ \in 0 .. N /\ b.head_idx_ \in 0 .. N /\ N \in Nat /\ N > 0
        /\ b.size_ = IF b.tail_idx_ <= b.head_idx_ THEN b.head_idx_ - b.tail_idx_
                     ELSE b.head_idx_ - b.tail_idx_ + (N + 1)
    BY <1>1, NAssumption DEF Slots, Distance
  <2>2. /\ c.head_idx_ = IF b.head_idx_ = N THEN 0 ELSE b.head_idx_ + 1
        /\ c.tail_idx_ = IF b.size_ # N THEN b.tail_idx_
                         ELSE IF b.tail_idx_ = N THEN 0 ELSE b.tail_idx_ + 1
    BY <1>3, <2>1 DEF Ahead
  <2>3. Distance(c) = IF c.tail_idx_ <= c.head_idx_ THEN c.head_idx_ - c.tail_idx_
                      ELSE c.head_idx_ - c.tail_idx_ + (N + 1)
    BY DEF Distance
  <2> HIDE DEF c
  <2>4. CASE b.size_ = N
    BY <1>3, <2>1, <2>2, <2>3, <2>4
  <2>5. CASE b.size_ # N
    BY <1>3, <2>1, <2>2, <2>3, <2>5
  <2>6. QED
    BY <2>4, <2>5
<1>6. WellFormed(c)
  BY <1>4, <1>5 DEF WellFormed
<1>7. /\ Contents(b) \in Seq(T) /\ Len(Contents(b)) = b.size_
      /\ Contents(c) \in Seq(T) /\ Len(Contents(c)) = c.size_
  BY <1>6, ContentsIsSeq
<1>8. Ahead(b.tail_idx_, b.size_) = b.head_idx_
  BY <1>1, HeadIsAhead
\* the slots the iterators visited before still hold what they held
<1>9. ASSUME NEW i \in 0 .. b.size_ - 1
      PROVE  c.buffer_[Ahead(b.tail_idx_, i)] = Contents(b)[i + 1]
  <2>1. i \in 0 .. N /\ i # b.size_ /\ i + 1 \in 1 .. Distance(b) /\ (i + 1) - 1 = i
    BY <1>1, NAssumption
  <2>2. Ahead(b.tail_idx_, i) \in Slots /\ Ahead(b.tail_idx_, i) # b.head_idx_
    BY <1>1, <1>8, <2>1, AheadInSlots, AheadInjective
  <2>3. c.buffer_[Ahead(b.tail_idx_, i)] = b.buffer_[Ahead(b.tail_idx_, i)]
    BY <1>1, <1>3, <2>2
  <2>4. Contents(b)[i + 1] = b.buffer_[Ahead(b.tail_idx_, (i + 1) - 1)]
    BY <2>1 DEF Contents
  <2>5. QED
    BY <2>1, <2>3, <2>4
<1>10. c.buffer_[Ahead(b.tail_idx_, b.size_)] = x
  BY <1>1, <1>3, <1>8
<1>11. CASE b.size_ < N
  <2>1. c.size_ = b.size_ + 1 /\ c.tail_idx_ = b.tail_idx_
    BY <1>1, <1>3, <1>11
  <2>2. ASSUME NEW i \in 1 .. b.size_ + 1
        PROVE  Contents(c)[i] = c.buffer_[Ahead(b.tail_idx_, i - 1)]
    BY <1>5, <2>1 DEF Contents
  <2>3. ASSUME NEW i \in 1 .. b.size_
        PROVE  Contents(c)[i] = Contents(b)[i]
    <3>1. i - 1 \in 0 .. b.size_ - 1 /\ (i - 1) + 1 = i /\ i \in 1 .. b.size_ + 1
      BY <1>1
    <3>2. c.buffer_[Ahead(b.tail_idx_, i - 1)] = Contents(b)[(i - 1) + 1]
      BY <1>9, <3>1
    <3>3. QED
      BY <2>2, <3>1, <3>2
  <2>4. Contents(c)[b.size_ + 1] = x
    <3>1. b.size_ + 1 \in 1 .. b.size_ + 1 /\ (b.size_ + 1) - 1 = b.size_
      BY <1>1
    <3>2. QED
      BY <1>10, <2>2, <3>1
  <2>5. Contents(c) = Append(Contents(b), x)
    <3>1. /\ Append(Contents(b), x) \in Seq(T)
          /\ Len(Append(Contents(b), x)) = b.size_ + 1
          /\ \A i \in 1 .. b.size_ : Append(Contents(b), x)[i] = Contents(b)[i]
          /\ Append(Contents(b), x)[b.size_ + 1] = x
      BY <1>1, <1>7
    <3>2. \A i \in 1 .. b.size_ + 1 : Contents(c)[i] = Append(Contents(b), x)[i]
      BY <1>1, <2>3, <2>4, <3>1
    <3>3. QED
      BY <1>1, <1>7, <2>1, <3>1, <3>2
  <2>6. QED
    BY <1>6, <1>11, <2>1, <2>5, NAssumption
<1>12. CASE b.size_ = N
  <2>1. c.size_ = N /\ c.tail_idx_ = Ahead(b.tail_idx_, 1)
    BY <1>1, <1>3, <1>12
  <2>2. ASSUME NEW i \in 1 .. N
        PROVE  Contents(c)[i] = c.buffer_[Ahead(b.tail_idx_, i)]
    <3>1. i - 1 \in 0 .. N - 1 /\ (i - 1) + 1 = i
      BY NAssumption
    <3>2. Ahead(Ahead(b.tail_idx_, 1), i - 1) = Ahead(b.tail_idx_, (i - 1) + 1)
      BY <1>1, <3>1, AheadOfNext
    <3>3. Contents(c)[i] = c.buffer_[Ahead(c.tail_idx_, i - 1)]
      BY <1>5, <2>1 DEF Contents
    <3>4. QED
      BY <2>1, <3>1, <3>2, <3>3
  <2>3. ASSUME NEW i \in 1 .. N - 1
        PROVE  Contents(c)[i] = Contents(b)[i + 1]
    <3>1. i \in 0 .. b.size_ - 1 /\ i \in 1 .. N
      BY <1>12, NAssumption
    <3>2. QED
      BY <1>9, <2>2, <3>1
  <2>4. Contents(c)[N] = x
    BY <1>10, <1>12, <2>2, NAssumption
  <2>5. Contents(c) = Append(Tail(Contents(b)), x)
    <3>1. /\ Tail(Contents(b)) \in Seq(T) /\ Len(Tail(Contents(b))) = N - 1
          /\ \A i \in 1 .. N - 1 : Tail(Contents(b))[i] = Contents(b)[i + 1]
      BY <1>7, <1>12, NAssumption
    <3>2. /\ Append(Tail(Contents(b)), x) \in Seq(T)
          /\ Len(Append(Tail(Contents(b)), x)) = N
          /\ \A i \in 1 .. N - 1 :
               Append(Tail(Contents(b)), x)[i] = Contents(b)[i + 1]
          /\ Append(Tail(Contents(b)), x)[N] = x
      BY <3>1, NAssumption
    <3>3. \A i \in 1 .. N : Contents(c)[i] = Append(Tail(Contents(b)), x)[i]
      BY <2>3, <2>4, <3>2, NAssumption
    <3>4. QED
      BY <1>7, <2>1, <3>2, <3>3
  <2>6. QED
    BY <1>6, <1>12, <2>1, <2>5, NAssumption
<1>13. QED
  BY <1>1, <1>11, <1>12, NAssumption

-----------------------------------------------------------------------------
(* circular_buffer.h:99-101: size_ and the distance between the indices    *)
(* never disagree.  The invariant is inductive as it stands.               *)
THEOREM SizeAlwaysMatches == Spec => []SizeMatchesIterators
<1>1. Init => SizeMatchesIterators
  BY FreshContents DEF Init, SizeMatchesIterators
<1>2. SizeMatchesIterators /\ [Next]_buf => SizeMatchesIterators'
  <2>1. SUFFICES ASSUME WellFormed(buf), [Next]_buf PROVE WellFormed(buf')
    BY DEF SizeMatchesIterators
  <2>2. ASSUME NEW x \in T, Add(x) PROVE WellFormed(buf')
    BY <2>1, <2>2, AddContents DEF Add
  <2>3. CASE Remove
    BY <2>1, <2>3, RemoveContents DEF Remove
  <2>4. CASE Reset
    BY <2>4, ResetContents DEF Reset
  <2>5. CASE UNCHANGED buf
    BY <2>1, <2>5
  <2>6. QED
    BY <2>1, <2>2, <2>3, <2>4, <2>5 DEF Next
<1>3. QED
  BY <1>1, <1>2, PTL DEF Spec

(* circular_buffer.h:57-102: every call on the buffer is a call on the     *)
(* queue of what its iterators visit: add drops the oldest element exactly *)
(* when N are stored, remove takes the oldest and leaves an empty buffer   *)
(* alone.                                                                  *)
THEOREM BufferIsAQueue == Spec => QueueSpec
<1>1. Init => Queue!Init
  BY FreshContents DEF Init, Queue!Init
<1>2. SizeMatchesIterators /\ [Next]_buf => [Queue!Next]_(Contents(buf))
  <2>1. SUFFICES ASSUME WellFormed(buf), [Next]_buf
                 PROVE  [Queue!Next]_(Contents(buf))
    BY DEF SizeMatchesIterators
  <2>2. /\ Contents(buf) \in Seq(T) /\ Len(Contents(buf)) = buf.size_
        /\ buf.size_ \in 0 .. N
    BY <2>1, ContentsIsSeq
  <2>3. ASSUME NEW x \in T, Add(x) PROVE Queue!Push(x)
    <3>1. CASE buf.size_ < N
      BY <2>1, <2>2, <2>3, <3>1, AddContents DEF Add, Queue!Push
    <3>2. CASE buf.size_ = N
      BY <2>1, <2>2, <2>3, <3>2, AddContents, NAssumption DEF Add, Queue!Push
    <3>3. QED
      BY <2>2, <3>1, <3>2, NAssumption
  <2>4. ASSUME Remove PROVE Queue!Pop
    <3>1. CASE buf.size_ = 0
      BY <2>1, <2>2, <2>4, <3>1, RemoveContents DEF Remove, Queue!Pop
    <3>2. CASE buf.size_ # 0
      BY <2>1, <2>2, <2>4, <3>2, RemoveContents DEF Remove, Queue!Pop
    <3>3. QED
      BY <3>1, <3>2
  <2>5. CASE Reset
    BY <2>5, ResetContents DEF Reset, Queue!Clear, Queue!Next
  <2>6. CASE UNCHANGED buf
    BY <2>6 DEF Contents, Distance
  <2>7. QED
    BY <2>1, <2>3, <2>4, <2>5, <2>6 DEF Next, Queue!Next
<1>3. QED
  BY <1>1, <1>2, SizeAlwaysMatches, PTL DEF Spec, QueueSpec, Queue!Spec

=============================================================================
