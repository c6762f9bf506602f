------------------------- MODULE XdaCallbackProofs -------------------------
(***************************************************************************)
(* Proofs about XdaCallback, for every range of the counter, every size of *)
(* the buffers and every kind of packet.                                   *)
(***************************************************************************)
EXTENDS XdaCallback, SequenceTheorems, WellFoundedInduction, TLAPS

-----------------------------------------------------------------------------
(* The arithmetic of a counter that wraps *)

LEMMA DivMod ==
  ASSUME NEW t \in Int
  PROVE  /\ t \div W \in Int /\ t % W \in 0 .. W - 1
         /\ t = W * (t \div W) + (t % W)
BY RangeAssumption

LEMMA HalfRange ==
  /\ m_RollOver \in Nat /\ m_RollOver = W - 1
  /\ WRAP_THRESHOLD \in Nat /\ 2 * WRAP_THRESHOLD + 2 = W
  /\ m_RollOver \div 2 = WRAP_THRESHOLD /\ W \div 2 = WRAP_THRESHOLD + 1
BY RangeAssumption DEF m_RollOver, WRAP_THRESHOLD

LEMMA Distributes ==
  ASSUME NEW a \in Int, NEW b \in Int
  PROVE  /\ W * a \in Int /\ W * b \in Int /\ W * (a - b) \in Int
         /\ W * (a - b) = (W * a) - (W * b)
BY RangeAssumption

(* Two times are apart by whole turns of the counter and by what it shows. *)
LEMMA Turns ==
  ASSUME NEW t1 \in Int, NEW t2 \in Int
  PROVE  /\ Rollovers(t1, t2) \in Int
         /\ W * Rollovers(t1, t2) \in Int
         /\ t2 - t1 = (W * Rollovers(t1, t2)) + (SampleTimeFine(t2) - SampleTimeFine(t1))
         /\ SampleTimeFine(t1) \in 0 .. W - 1 /\ SampleTimeFine(t2) \in 0 .. W - 1
<1> DEFINE q1 == t1 \div W
           q2 == t2 \div W
           a == W * q1
           b == W * q2
           c == W * (q2 - q1)
           r1 == t1 % W
           r2 == t2 % W
<1>1. q1 \in Int /\ r1 \in 0 .. W - 1 /\ t1 = a + r1
  BY DivMod
<1>2. q2 \in Int /\ r2 \in 0 .. W - 1 /\ t2 = b + r2
  BY DivMod
<1>3. c = b - a /\ a \in Int /\ b \in Int /\ c \in Int
  <2> HIDE DEF q1, q2
  <2> QED
    BY <1>1, <1>2, Distributes
<1>4. t2 - t1 = c + (r2 - r1)
  <2> HIDE DEF q1, q2, a, b, c, r1, r2
  <2> QED
    BY <1>1, <1>2, <1>3, RangeAssumption
<1>5. q2 - q1 \in Int
  <2> HIDE DEF q1, q2
  <2> QED
    BY <1>1, <1>2
<1> QED
  BY <1>1, <1>2, <1>3, <1>4, <1>5 DEF SampleTimeFine, Rollovers

LEMMA RolloversAdd ==
  ASSUME NEW t1 \in Int, NEW t2 \in Int, NEW t3 \in Int
  PROVE  /\ Rollovers(t1, t2) \in Int /\ Rollovers(t2, t3) \in Int
         /\ Rollovers(t1, t3) = Rollovers(t1, t2) + Rollovers(t2, t3)
<1> DEFINE q1 == t1 \div W
           q2 == t2 \div W
           q3 == t3 \div W
<1>1. q1 \in Int /\ q2 \in Int /\ q3 \in Int
  BY RangeAssumption
<1>2. /\ q2 - q1 \in Int /\ q3 - q2 \in Int
      /\ q3 - q1 = (q2 - q1) + (q3 - q2)
  <2> HIDE DEF q1, q2, q3
  <2> QED
    BY <1>1
<1> QED
  BY <1>2 DEF Rollovers

LEMMA SmallMultiple ==
  ASSUME NEW q \in Int, -2 * W < W * q, W * q < 2 * W
  PROVE  /\ q \in {-1, 0, 1}
         /\ q = -1 => W * q = -W
         /\ q = 0 => W * q = 0
         /\ q = 1 => W * q = W
<1>1. CASE q >= 2
  BY <1>1, RangeAssumption
<1>2. CASE q <= -2
  BY <1>2, RangeAssumption
<1>3. CASE q \in {-1, 0, 1}
  BY <1>3, RangeAssumption
<1> QED
  BY <1>1, <1>2, <1>3

(* The wrapped difference is the true one up to half the counter's range. *)
LEMMA DifferenceIsTrue ==
  ASSUME NEW t1 \in Int, NEW t2 \in Int, Near(t1, t2)
  PROVE  computeTimeDifference(t1, t2) = t2 - t1
<1> DEFINE s1 == SampleTimeFine(t1)
           s2 == SampleTimeFine(t2)
           q == Rollovers(t1, t2)
           m == W * q
<1>1. /\ q \in Int /\ m \in Int /\ t2 - t1 = m + (s2 - s1)
      /\ s1 \in 0 .. W - 1 /\ s2 \in 0 .. W - 1
  BY Turns
<1>2. -2 * W < m /\ m < 2 * W
  <2> HIDE DEF s1, s2, q, m
  <2> QED
    BY <1>1, HalfRange, RangeAssumption DEF Near
<1>3. m \in {-W, 0, W}
  <2> HIDE DEF q
  <2> QED
    BY <1>1, <1>2, SmallMultiple
<1>4. IF s2 - s1 > WRAP_THRESHOLD THEN t2 - t1 = s2 - s1 - W
      ELSE IF s2 - s1 < -WRAP_THRESHOLD THEN t2 - t1 = s2 - s1 + W
      ELSE t2 - t1 = s2 - s1
  <2> HIDE DEF s1, s2, q, m
  <2> QED
    BY <1>1, <1>3, HalfRange, RangeAssumption DEF Near
<1> QED
  BY <1>4 DEF computeTimeDifference

(* The time handler loses one tick at a rollover, and nothing else. *)
LEMMA ElapsedIsTrue ==
  ASSUME NEW last \in Int, NEW at \in Int, Reaches(last, at)
  PROVE  Elapsed(last, at) = at - last - Rollovers(last, at)
<1> DEFINE s1 == SampleTimeFine(last)
           s2 == SampleTimeFine(at)
           q == Rollovers(last, at)
           m == W * q
<1>1. /\ q \in Int /\ m \in Int /\ at - last = m + (s2 - s1)
      /\ s1 \in 0 .. W - 1 /\ s2 \in 0 .. W - 1
  BY Turns
<1>2. q >= 0
  <2>1. last \div W \in Int /\ at \div W \in Int /\ at \div W >= last \div W
    BY DivMod DEF Reaches
  <2> QED
    BY <2>1 DEF Rollovers
<1>3. at - last \in -WRAP_THRESHOLD .. WRAP_THRESHOLD + 1
  BY HalfRange DEF Reaches
<1>4. -2 * W < m /\ m < 2 * W
  <2> HIDE DEF s1, s2, q, m
  <2> QED
    BY <1>1, <1>3, HalfRange, RangeAssumption
<1>5. (q = 0 /\ m = 0) \/ (q = 1 /\ m = W)
  <2> HIDE DEF q
  <2> QED
    BY <1>1, <1>2, <1>4, SmallMultiple
<1>6. IF s2 - s1 < -WRAP_THRESHOLD THEN s2 - s1 + (W - 1) = at - last - q
                                   ELSE s2 - s1 = at - last - q
  <2> HIDE DEF s1, s2, q, m
  <2> QED
    BY <1>1, <1>3, <1>5, HalfRange, RangeAssumption
<1> QED
  BY <1>6, HalfRange DEF Elapsed

LEMMA DifferenceType ==
  ASSUME NEW t1 \in Int, NEW t2 \in Int
  PROVE  computeTimeDifference(t1, t2) \in Int /\ Elapsed(t1, t2) \in Int
<1>1. SampleTimeFine(t1) \in Int /\ SampleTimeFine(t2) \in Int
  BY DivMod DEF SampleTimeFine
<1> QED
  BY <1>1, HalfRange, RangeAssumption DEF computeTimeDifference, Elapsed

LEMMA ClampedType ==
  ASSUME NEW n \in Int, NEW d \in Int
  PROVE  Clamped(n, d) \in Factors
BY DEF Clamped, Factors

-----------------------------------------------------------------------------
(* The buffers *)

LEMMA MinExists ==
  ASSUME NEW S, S \subseteq Nat, S # {}
  PROVE  Min(S) \in S
<1>1. PICK x \in S : \A y \in S : ~(<<y, x>> \in OpToRel(<, Nat))
  BY NatLessThanWellFounded, WFMin
<1>2. \A y \in S : ~(y < x)
  BY <1>1 DEF OpToRel
<1>3. ASSUME NEW y \in S PROVE x <= y
  <2>1. x \in Nat /\ y \in Nat
    OBVIOUS
  <2> QED
    BY <1>2, <2>1
<1> QED
  BY <1>3 DEF Min

(* Adding to a full queue drops the oldest: the limit is kept, and nothing *)
(* comes in but the new element.                                           *)
LEMMA DropOldest ==
  ASSUME NEW S, NEW q \in Seq(S), NEW x \in S, NEW max \in Nat \ {0}, Len(q) <= max,
         NEW r, r = Append(IF Len(q) = max THEN Tail(q) ELSE q, x)
  PROVE  /\ r \in Seq(S) /\ Len(r) <= max
         /\ \A i \in 1 .. Len(r) : r[i] = x \/ \E j \in 1 .. Len(q) : r[i] = q[j]
<1>1. CASE Len(q) = max
  <2>1. q # <<>>
    BY <1>1
  <2>2. /\ Tail(q) \in Seq(S) /\ Len(Tail(q)) = Len(q) - 1
        /\ \A i \in 1 .. Len(Tail(q)) : Tail(q)[i] = q[i + 1]
    BY <2>1, HeadTailProperties
  <2>3. /\ r \in Seq(S) /\ Len(r) = Len(q)
        /\ \A i \in 1 .. Len(q) - 1 : r[i] = q[i + 1]
        /\ r[Len(q)] = x
    BY <1>1, <2>2, AppendProperties
  <2>4. ASSUME NEW i \in 1 .. Len(r) PROVE r[i] = x \/ \E j \in 1 .. Len(q) : r[i] = q[j]
    <3>1. CASE i = Len(q)
      BY <3>1, <2>3
    <3>2. CASE i # Len(q)
      <4>1. i \in 1 .. Len(q) - 1 /\ i + 1 \in 1 .. Len(q)
        BY <3>2, <2>3
      <4> QED
        BY <4>1, <2>3
    <3> QED
      BY <3>1, <3>2
  <2> QED
    BY <1>1, <2>3, <2>4
<1>2. CASE Len(q) # max
  <2>1. /\ r \in Seq(S) /\ Len(r) = Len(q) + 1
        /\ \A i \in 1 .. Len(q) : r[i] = q[i]
        /\ r[Len(q) + 1] = x
    BY <1>2, AppendProperties
  <2> QED
    BY <1>2, <2>1
<1> QED
  BY <1>1, <1>2

LEMMA TakeFirst ==
  ASSUME NEW S, NEW q \in Seq(S), q # <<>>
  PROVE  /\ Tail(q) \in Seq(S) /\ Len(Tail(q)) <= Len(q)
         /\ \A i \in 1 .. Len(Tail(q)) : \E j \in 1 .. Len(q) : Tail(q)[i] = q[j]
<1>1. /\ Tail(q) \in Seq(S) /\ Len(Tail(q)) = Len(q) - 1
      /\ \A i \in 1 .. Len(Tail(q)) : Tail(q)[i] = q[i + 1]
  BY HeadTailProperties
<1> QED
  BY <1>1

LEMMA AddType ==
  ASSUME NEW q \in Seq(Nat), NEW at \in Nat, Len(q) <= m_bufferSize
  PROVE  Add(q, at) \in Seq(Nat) /\ Len(Add(q, at)) <= m_bufferSize
<1>1. CASE Len(q) < m_bufferSize
  BY <1>1, AppendProperties, InterpolatorAssumption DEF Add
<1>2. CASE ~(Len(q) < m_bufferSize)
  <2>1. q # <<>>
    BY <1>2, InterpolatorAssumption
  <2>2. Tail(q) \in Seq(Nat) /\ Len(Tail(q)) = Len(q) - 1
    BY <2>1, HeadTailProperties
  <2> QED
    BY <1>2, <2>2, AppendProperties, InterpolatorAssumption DEF Add
<1> QED
  BY <1>1, <1>2

LEMMA CleanType ==
  ASSUME NEW q \in Seq(Nat), NEW now \in Nat, Len(q) <= m_bufferSize
  PROVE  cleanOldData(q, now) \in Seq(Nat) /\ Len(cleanOldData(q, now)) <= m_bufferSize
<1> DEFINE kept == {i \in 1 .. Len(q) :
                      ~(computeTimeDifference(q[i], now) < -TIME_WINDOW)}
<1>0. kept \subseteq 1 .. Len(q) /\ kept \subseteq Nat
  OBVIOUS
<1>1. CASE kept = {}
  BY <1>1, InterpolatorAssumption DEF cleanOldData
<1>2. CASE kept # {}
  <2>2. cleanOldData(q, now) = SubSeq(q, Min(kept), Len(q))
    BY <1>2 DEF cleanOldData
  <2> HIDE DEF kept
  <2>1. Min(kept) \in 1 .. Len(q)
    BY <1>0, <1>2, MinExists
  <2>3. /\ SubSeq(q, Min(kept), Len(q)) \in Seq(Nat)
        /\ Len(SubSeq(q, Min(kept), Len(q))) = Len(q) - Min(kept) + 1
    <3> DEFINE m == Min(kept)
    <3>1. m \in 1 .. Len(q)
      BY <2>1
    <3> HIDE DEF m
    <3>2. /\ SubSeq(q, m, Len(q)) \in Seq(Nat)
          /\ Len(SubSeq(q, m, Len(q))) = Len(q) - m + 1
      BY <3>1, SubSeqProperties
    <3> QED
      BY <3>2 DEF m
  <2> QED
    BY <2>1, <2>2, <2>3, InterpolatorAssumption
<1> QED
  BY <1>1, <1>2

(* What an interpolation takes are two samples, with the factor of their   *)
(* true times when the counter can tell them apart, and the newest two if  *)
(* it must extrapolate.                                                    *)
LEMMA InterpolateIsTrue ==
  ASSUME NEW q \in Seq(Nat), Len(q) >= 2, NEW at \in Nat
  PROVE  /\ Interpolate(q, at) \in Pairs
         /\ TrueFactor(Interpolate(q, at), at) /\ TakesNewest(q, at)
<1> DEFINE found == {i \in 1 .. Len(q) - 1 : Encloses(q, i, at)}
           i == Place(q, at)
           b == q[i]
           a == q[i + 1]
<1>1. i \in 1 .. Len(q) - 1
  <2>0. found \subseteq 1 .. Len(q) - 1 /\ found \subseteq Nat
    OBVIOUS
  <2>1. CASE found = {}
    BY <2>1 DEF Place
  <2>2. CASE found # {}
    <3>1. i = Min(found)
      BY <2>2 DEF Place
    <3> HIDE DEF found
    <3> QED
      BY <2>0, <2>2, <3>1, MinExists
  <2> QED
    BY <2>1, <2>2
<1>2. b \in Nat /\ a \in Nat
  <2>1. i + 1 \in 1 .. Len(q) /\ i \in 1 .. Len(q)
    <3> HIDE DEF i
    <3> QED
      BY <1>1
  <2> HIDE DEF i
  <2> QED
    BY <2>1, ElementOfSeq
(* Neighbours are taken for enclosing a target that no sample is ahead of  *)
(* only if the first was taken at it.                                      *)
<1>6. ASSUME \A k \in 1 .. Len(q) : q[k] <= at /\ Near(q[k], at)
      PROVE  b = at \/ (b = q[Len(q) - 1] /\ a = q[Len(q)])
  <2>1. CASE found = {}
    <3>1. i = Len(q) - 1
      BY <2>1 DEF Place
    <3>2. i + 1 = Len(q)
      BY <3>1
    <3> HIDE DEF i
    <3> QED
      BY <3>1, <3>2
  <2>2. CASE found # {}
    <3>1. i = Min(found) /\ found \subseteq Nat
      BY <2>2 DEF Place
    <3>2. i \in found
      <4> HIDE DEF found
      <4> QED
        BY <2>2, <3>1, MinExists
    <3>3. computeTimeDifference(b, at) <= 0
      BY <3>2 DEF Encloses
    <3>4. b <= at /\ Near(b, at)
      <4> HIDE DEF i
      <4> QED
        BY <1>1, <1>6
    <3> HIDE DEF b
    <3>5. computeTimeDifference(b, at) = at - b
      BY <1>2, <3>4, DifferenceIsTrue
    <3> QED
      BY <1>2, <3>3, <3>4, <3>5
  <2> QED
    BY <2>1, <2>2
<1>3. Interpolate(q, at) = [before |-> b, after |-> a,
                            factor |-> Clamped(computeTimeDifference(b, at),
                                               computeTimeDifference(b, a))]
  BY DEF Interpolate, computeInterpolationFactor
<1> HIDE DEF i, b, a
<1>4. Clamped(computeTimeDifference(b, at), computeTimeDifference(b, a)) \in Factors
  BY <1>2, DifferenceType, ClampedType
<1>5. Near(b, at) /\ Near(b, a)
      => Clamped(computeTimeDifference(b, at), computeTimeDifference(b, a))
         = Clamped(at - b, a - b)
  BY <1>2, DifferenceIsTrue
<1> QED
  <2>1. Interpolate(q, at) \in Pairs /\ TrueFactor(Interpolate(q, at), at)
    BY <1>2, <1>3, <1>4, <1>5 DEF Pairs, TrueFactor
  <2>2. TakesNewest(q, at)
    BY <1>3, <1>6 DEF TakesNewest
  <2> QED
    BY <2>1, <2>2

-----------------------------------------------------------------------------
(* The inductive invariant: the handler's time moves with the stamps that  *)
(* wait in the queue, so each new stamp keeps its distance to all of them. *)

InStep ==
  inReach =>
    \A i \in 1 .. Len(m_buffer) :
      LET p == m_buffer[i]
      IN  p.clock = "sample"
          => /\ ~m_timeHandler.isFirstFrame
             /\ m_timeHandler.time - p.stamp
                = m_timeHandler.prev - p.at - Rollovers(p.at, m_timeHandler.prev)

IInv == TypeOK /\ NoLostWakeup /\ InStep /\ FactorsTrue

LEMMA InitInv == Init => IInv
<1> SUFFICES ASSUME Init PROVE IInv
  OBVIOUS
<1>1. /\ m_buffer \in Seq(Packets) /\ Len(m_buffer) = 0
      /\ orientations \in Seq(Nat) /\ Len(orientations) = 0
      /\ ratesOfTurn \in Seq(Nat) /\ Len(ratesOfTurn) = 0
  BY DEF Init
<1>2. m_timeHandler \in [isFirstFrame : BOOLEAN, prev : Nat, time : Int]
  BY DEF Init, InitHandler
<1>3. m_interpolationEnabled \in BOOLEAN
  BY Zenon DEF Init, Validated
<1>4. sensorTime \in Nat
  BY CallbackAssumption DEF Init
<1>5. TypeOK
  BY <1>1, <1>2, <1>3, <1>4, CallbackAssumption, InterpolatorAssumption DEF Init, TypeOK
<1> QED
  BY <1>1, <1>5 DEF IInv, NoLostWakeup, InStep, FactorsTrue, Init

(* What the steps of the main thread, and of the notification, leave: the  *)
(* queue loses its first packet at most.                                   *)
LEMMA QueueShrinks ==
  ASSUME IInv, UNCHANGED <<configuration, sensor>>,
         sdk' \in {"outside", "notifying"},
         ros' \in {"outside", "waiting", "woken", "timedOut", "publishing"},
         NoLostWakeup',
         m_buffer' = m_buffer \/ (m_buffer # <<>> /\ m_buffer' = Tail(m_buffer))
  PROVE  IInv'
<1> USE DEF IInv
<1>1. /\ m_buffer' \in Seq(Packets) /\ Len(m_buffer') <= Len(m_buffer)
      /\ \A i \in 1 .. Len(m_buffer') : \E j \in 1 .. Len(m_buffer) : m_buffer'[i] = m_buffer[j]
  <2>1. m_buffer \in Seq(Packets)
    BY DEF TypeOK
  <2>2. CASE m_buffer' = m_buffer
    BY <2>1, <2>2
  <2>3. CASE m_buffer # <<>> /\ m_buffer' = Tail(m_buffer)
    BY <2>1, <2>3, TakeFirst
  <2> QED
    BY <2>2, <2>3
<1>2. Len(m_buffer) \in Nat /\ Len(m_buffer') \in Nat
  BY <1>1 DEF TypeOK
<1>3. TypeOK'
  BY <1>1, <1>2, CallbackAssumption DEF TypeOK, configuration, sensor, interpolator
<1>4. InStep'
  <2>1. UNCHANGED <<m_timeHandler, inReach>>
    BY DEF sensor
  <2> QED
    BY <1>1, <2>1 DEF InStep
<1>5. FactorsTrue'
  <2> SUFFICES ASSUME NEW i \in 1 .. Len(m_buffer'), NEW k \in 1 .. Len(m_buffer'[i].pairs)
               PROVE  TrueFactor(m_buffer'[i].pairs[k], m_buffer'[i].at)
    BY DEF FactorsTrue, TrueFactor
  <2>1. PICK j \in 1 .. Len(m_buffer) : m_buffer'[i] = m_buffer[j]
    BY <1>1
  <2> QED
    BY <2>1 DEF FactorsTrue, TrueFactor
<1> QED
  BY <1>3, <1>4, <1>5

LEMMA MainInv == ASSUME IInv, Main PROVE IInv'
<1> USE DEF IInv
<1>1. m_buffer \in Seq(Packets) /\ sdk \in {"outside", "notifying"}
      /\ ros \in {"outside", "waiting", "woken", "timedOut", "publishing"}
  BY DEF TypeOK
<1>2. CASE CallNext
  BY <1>1, <1>2, QueueShrinks DEF CallNext, TakeOr, NoLostWakeup
<1>3. CASE LookAgain
  BY <1>1, <1>3, QueueShrinks DEF LookAgain, TakeOr, NoLostWakeup
<1>4. CASE LookOnceMore
  BY <1>1, <1>4, QueueShrinks DEF LookOnceMore, TakeOr, NoLostWakeup
<1>5. CASE Publish
  BY <1>1, <1>5, QueueShrinks DEF Publish, NoLostWakeup
<1> QED
  BY <1>2, <1>3, <1>4, <1>5 DEF Main

LEMMA OtherInv == ASSUME IInv, NotifyOne \/ WakeSpuriously \/ TimeOut PROVE IInv'
<1> USE DEF IInv
<1>1. m_buffer \in Seq(Packets) /\ sdk \in {"outside", "notifying"}
      /\ ros \in {"outside", "waiting", "woken", "timedOut", "publishing"}
  BY DEF TypeOK
<1>2. CASE NotifyOne
  BY <1>1, <1>2, QueueShrinks DEF NotifyOne, NoLostWakeup
<1>3. CASE WakeSpuriously
  BY <1>1, <1>3, QueueShrinks DEF WakeSpuriously, NoLostWakeup
<1>4. CASE TimeOut
  BY <1>1, <1>4, QueueShrinks DEF TimeOut, NoLostWakeup
<1> QED
  BY <1>2, <1>3, <1>4

-----------------------------------------------------------------------------
(* A packet of the sensor *)

LEMMA PacketType ==
  ASSUME NEW at \in Times, NEW c \in Contents
  PROVE  PacketOf(at, c).at = at /\ at \in Nat
BY CallbackAssumption DEF PacketOf, Times

(* Pushing, with the pairs of an interpolation or without any. *)
LEMMA PushInv ==
  ASSUME IInv, NEW packet, packet.at \in Nat, NEW pairs,
         pairs = <<>> \/ pairs \in Pairs \X Pairs,
         \A k \in 1 .. Len(pairs) : TrueFactor(pairs[k], packet.at),
         Push(packet, pairs)
  PROVE  /\ m_buffer' \in Seq(Packets) /\ Len(m_buffer') <= m_maxBufferSize
         /\ m_timeHandler' \in [isFirstFrame : BOOLEAN, prev : Nat, time : Int]
         /\ inReach' \in BOOLEAN
         /\ sdk' = "notifying"
         /\ InStep' /\ FactorsTrue'
<1> USE DEF IInv
<1> DEFINE new == Stamped(packet, pairs)
           H == [isFirstFrame : BOOLEAN, prev : Nat, time : Int]
<1>1. /\ m_timeHandler \in H /\ m_timeHandler.prev \in Nat /\ m_timeHandler.time \in Int
      /\ m_timeHandler.isFirstFrame \in BOOLEAN
  BY DEF TypeOK
<1>2. /\ Frame(m_timeHandler, packet.at).time \in Int
      /\ Frame(m_timeHandler, packet.at) \in H
  <2>1. Elapsed(m_timeHandler.prev, packet.at) \in Int
    <3>1. m_timeHandler.prev \in Int /\ packet.at \in Int
      BY <1>1
    <3> QED
      BY <3>1, DifferenceType
  <2> QED
    BY <1>1, <2>1 DEF Frame
<1>3. Clock(m_time_option, packet) \in {"utc", "sample", "host"}
  <2>1. m_time_option \in {0, 1, 2}
    BY DEF TypeOK, Options
  <2> QED
    BY <2>1 DEF Clock
<1>4. /\ new \in Packets /\ new.at = packet.at /\ new.pairs = pairs
      /\ new.clock = Clock(m_time_option, packet)
      /\ new.clock = "sample" => new.stamp = Frame(m_timeHandler, packet.at).time
  BY <1>2, <1>3 DEF Stamped, Packets
<1> HIDE DEF new
<1>5. /\ m_buffer' \in Seq(Packets) /\ Len(m_buffer') <= m_maxBufferSize
      /\ \A i \in 1 .. Len(m_buffer') :
           m_buffer'[i] = new \/ \E j \in 1 .. Len(m_buffer) : m_buffer'[i] = m_buffer[j]
  <2>1. m_buffer' = Append(IF Len(m_buffer) = m_maxBufferSize THEN Tail(m_buffer) ELSE m_buffer,
                           new)
    BY DEF Push, new
  <2> QED
    <3>1. /\ m_buffer \in Seq(Packets) /\ Len(m_buffer) <= m_maxBufferSize
          /\ new \in Packets /\ m_maxBufferSize \in Nat \ {0}
      BY <1>4, CallbackAssumption DEF TypeOK
    <3> QED
      BY <2>1, <3>1, DropOldest
<1>6. m_timeHandler' \in H /\ inReach' \in BOOLEAN
  <2>1. CASE Clock(m_time_option, packet) = "sample"
    BY <1>2, <2>1, Zenon DEF Push, Stamp, TypeOK
  <2>2. CASE Clock(m_time_option, packet) # "sample"
    BY <1>1, <2>2 DEF Push, Stamp, TypeOK
  <2> QED
    BY <2>1, <2>2
<1>7. InStep'
  <2>1. CASE Clock(m_time_option, packet) # "sample"
    <3>1. UNCHANGED <<m_timeHandler, inReach>>
      BY <2>1 DEF Push, Stamp
    <3> QED
      BY <1>4, <1>5, <2>1, <3>1 DEF InStep
  <2>2. CASE Clock(m_time_option, packet) = "sample"
    <3> SUFFICES ASSUME inReach', NEW i \in 1 .. Len(m_buffer'), m_buffer'[i].clock = "sample"
                 PROVE  /\ ~m_timeHandler'.isFirstFrame
                        /\ m_timeHandler'.time - m_buffer'[i].stamp
                           = m_timeHandler'.prev - m_buffer'[i].at
                             - Rollovers(m_buffer'[i].at, m_timeHandler'.prev)
      BY DEF InStep
    <3>1. /\ m_timeHandler' = Frame(m_timeHandler, packet.at)
          /\ inReach
          /\ m_timeHandler.isFirstFrame \/ Reaches(m_timeHandler.prev, packet.at)
      BY <2>2 DEF Push, Stamp
    <3>2. /\ ~m_timeHandler'.isFirstFrame /\ m_timeHandler'.prev = packet.at
          /\ m_timeHandler'.time = Frame(m_timeHandler, packet.at).time
      BY <3>1 DEF Frame
    <3>3. CASE m_buffer'[i] = new
      <4>1. Rollovers(packet.at, packet.at) = 0
        <5>1. packet.at \div W \in Int
          BY RangeAssumption
        <5> QED
          BY <5>1 DEF Rollovers
      <4> QED
        BY <1>2, <1>4, <2>2, <3>2, <3>3, <4>1
    <3>4. ASSUME NEW j \in 1 .. Len(m_buffer), m_buffer'[i] = m_buffer[j]
          PROVE  m_timeHandler'.time - m_buffer'[i].stamp
                 = m_timeHandler'.prev - m_buffer'[i].at
                   - Rollovers(m_buffer'[i].at, m_timeHandler'.prev)
      <4> DEFINE at == m_buffer[j].at
                 stamp == m_buffer[j].stamp
                 prev == m_timeHandler.prev
                 time == m_timeHandler.time
      <4>1. /\ ~m_timeHandler.isFirstFrame
            /\ time - stamp = prev - at - Rollovers(at, prev)
        BY <3>1, <3>4 DEF InStep
      <4>2. m_buffer[j] \in Packets
        BY ElementOfSeq DEF TypeOK
      <4>3. at \in Nat /\ stamp \in Int /\ prev \in Nat /\ time \in Int
        BY <1>1, <4>2 DEF Packets
      <4>4. m_timeHandler'.time = time + (packet.at - prev - Rollovers(prev, packet.at))
        BY <3>1, <3>2, <4>1, <4>3, ElapsedIsTrue DEF Frame
      <4>5. /\ Rollovers(at, packet.at) = Rollovers(at, prev) + Rollovers(prev, packet.at)
            /\ Rollovers(at, prev) \in Int /\ Rollovers(prev, packet.at) \in Int
        <5> DEFINE current == packet.at
        <5>1. at \in Int
          BY <4>3
        <5>2. prev \in Int
          BY <4>3
        <5>3. current \in Int
          OBVIOUS
        <5> HIDE DEF at, prev, current
        <5>4. Rollovers(at, prev) \in Int
          BY <5>1, <5>2, <5>3, RolloversAdd
        <5>5. Rollovers(prev, current) \in Int
          BY <5>1, <5>2, <5>3, RolloversAdd
        <5>6. Rollovers(at, current) = Rollovers(at, prev) + Rollovers(prev, current)
          BY <5>1, <5>2, <5>3, RolloversAdd
        <5> QED
          BY <5>4, <5>5, <5>6 DEF current
      <4> HIDE DEF at, stamp, prev, time
      <4>6. m_timeHandler'.time - stamp = packet.at - at - Rollovers(at, packet.at)
        <5>1. time \in Int /\ stamp \in Int /\ prev \in Int /\ at \in Int /\ packet.at \in Int
          BY <4>3
        <5>2. time - stamp = prev - at - Rollovers(at, prev)
          BY <4>1
        <5> DEFINE current == packet.at
                   stamp2 == m_timeHandler'.time
                   x == Rollovers(at, prev)
                   y == Rollovers(prev, current)
                   z == Rollovers(at, current)
        <5>3. /\ time \in Int /\ current \in Int /\ x \in Int /\ y \in Int
              /\ time - stamp = prev - at - x
              /\ stamp2 = time + (current - prev - y) /\ z = x + y
          BY <4>3, <4>4, <4>5, <5>1, <5>2
        <5> HIDE DEF current, stamp2, x, y, z
        <5>4. stamp2 - stamp = current - at - z
          BY <5>1, <5>3
        <5> QED
          BY <5>4 DEF current, stamp2, z
      <4> QED
        BY <3>2, <3>4, <4>6 DEF at, stamp
    <3> QED
      BY <1>5, <3>2, <3>3, <3>4
  <2> QED
    BY <2>1, <2>2
<1>8. FactorsTrue'
  <2> SUFFICES ASSUME NEW i \in 1 .. Len(m_buffer'), NEW k \in 1 .. Len(m_buffer'[i].pairs)
               PROVE  TrueFactor(m_buffer'[i].pairs[k], m_buffer'[i].at)
    BY DEF FactorsTrue, TrueFactor
  <2>1. CASE m_buffer'[i] = new
    BY <1>4, <2>1
  <2>2. ASSUME NEW j \in 1 .. Len(m_buffer), m_buffer'[i] = m_buffer[j]
        PROVE  TrueFactor(m_buffer'[i].pairs[k], m_buffer'[i].at)
    BY <2>2 DEF FactorsTrue, TrueFactor
  <2> QED
    BY <1>5, <2>1, <2>2
<1>9. sdk' = "notifying"
  BY DEF Push
<1> QED
  BY <1>5, <1>6, <1>7, <1>8, <1>9

LEMMA NewBuffersType ==
  ASSUME IInv, NEW packet, packet.at \in Nat
  PROVE  /\ NewOrientations(packet) \in Seq(Nat) /\ Len(NewOrientations(packet)) <= m_bufferSize
         /\ NewRatesOfTurn(packet) \in Seq(Nat) /\ Len(NewRatesOfTurn(packet)) <= m_bufferSize
BY AddType DEF IInv, TypeOK, NewOrientations, NewRatesOfTurn

LEMMA SensorInv ==
  ASSUME IInv, NEW at \in Times, NEW c \in Contents, onLiveDataAvailable(at, c)
  PROVE  IInv'
<1> USE DEF IInv
<1> DEFINE packet == PacketOf(at, c)
<1>1. packet.at \in Nat /\ at \in Nat
  BY PacketType
<1>2. /\ sensorTime' \in Nat /\ UNCHANGED <<configuration, ros>> /\ sdk = "outside"
      /\ PassThrough(packet) \/ KeepForLater(packet) \/ HandleInterpolation(packet)
  BY <1>1 DEF onLiveDataAvailable, PacketOf, TypeOK
<1> HIDE DEF packet
<1>3. /\ NewOrientations(packet) \in Seq(Nat) /\ Len(NewOrientations(packet)) <= m_bufferSize
      /\ NewRatesOfTurn(packet) \in Seq(Nat) /\ Len(NewRatesOfTurn(packet)) <= m_bufferSize
  BY <1>1, NewBuffersType
<1>4. CASE PassThrough(packet)
  <2>1. Push(packet, <<>>) /\ UNCHANGED <<orientations, ratesOfTurn>>
    BY <1>4 DEF PassThrough, interpolator
  <2>2. /\ m_buffer' \in Seq(Packets) /\ Len(m_buffer') <= m_maxBufferSize
        /\ m_timeHandler' \in [isFirstFrame : BOOLEAN, prev : Nat, time : Int]
        /\ inReach' \in BOOLEAN
        /\ sdk' = "notifying"
        /\ InStep' /\ FactorsTrue'
    BY <1>1, <2>1, PushInv
  <2>3. TypeOK'
    BY <1>2, <2>1, <2>2 DEF TypeOK, configuration
  <2> QED
    BY <2>2, <2>3 DEF NoLostWakeup
<1>5. CASE KeepForLater(packet)
  <2>1. /\ UNCHANGED <<m_buffer, m_timeHandler, inReach, sdk>>
        /\ orientations' = NewOrientations(packet) /\ ratesOfTurn' = NewRatesOfTurn(packet)
    BY <1>5 DEF KeepForLater
  <2>2. TypeOK'
    BY <1>2, <1>3, <2>1 DEF TypeOK, configuration
  <2>3. InStep' /\ FactorsTrue' /\ NoLostWakeup'
    BY <1>2, <2>1 DEF InStep, FactorsTrue, NoLostWakeup
  <2> QED
    BY <2>2, <2>3
<1>6. CASE HandleInterpolation(packet)
  <2> DEFINE o == Interpolate(NewOrientations(packet), packet.at)
             r == Interpolate(NewRatesOfTurn(packet), packet.at)
  <2>1. /\ Push(packet, <<o, r>>)
        /\ orientations' = cleanOldData(NewOrientations(packet), packet.at)
        /\ ratesOfTurn' = cleanOldData(NewRatesOfTurn(packet), packet.at)
        /\ Len(NewOrientations(packet)) >= 2 /\ Len(NewRatesOfTurn(packet)) >= 2
    BY <1>6 DEF HandleInterpolation, Interpolates
  <2>2. /\ o \in Pairs /\ TrueFactor(o, packet.at)
        /\ r \in Pairs /\ TrueFactor(r, packet.at)
    BY <1>1, <1>3, <2>1, InterpolateIsTrue
  <2> HIDE DEF o, r
  <2>3. /\ <<o, r>> \in Pairs \X Pairs
        /\ \A k \in 1 .. Len(<<o, r>>) : TrueFactor(<<o, r>>[k], packet.at)
    BY <2>2
  <2>4. /\ m_buffer' \in Seq(Packets) /\ Len(m_buffer') <= m_maxBufferSize
        /\ m_timeHandler' \in [isFirstFrame : BOOLEAN, prev : Nat, time : Int]
        /\ inReach' \in BOOLEAN
        /\ sdk' = "notifying"
        /\ InStep' /\ FactorsTrue'
    BY <1>1, <2>1, <2>3, PushInv
  <2>5. /\ orientations' \in Seq(Nat) /\ Len(orientations') <= m_bufferSize
        /\ ratesOfTurn' \in Seq(Nat) /\ Len(ratesOfTurn') <= m_bufferSize
    BY <1>1, <1>3, <2>1, CleanType
  <2>6. TypeOK'
    BY <1>2, <2>4, <2>5 DEF TypeOK, configuration
  <2> QED
    BY <2>4, <2>6 DEF NoLostWakeup
<1> QED
  BY <1>2, <1>4, <1>5, <1>6

LEMMA StepInv == IInv /\ [Next]_vars => IInv'
<1> SUFFICES ASSUME IInv, [Next]_vars PROVE IInv'
  OBVIOUS
<1>1. CASE Sensor
  BY <1>1, SensorInv DEF Sensor
<1>2. CASE Main
  BY <1>2, MainInv
<1>3. CASE NotifyOne \/ WakeSpuriously \/ TimeOut
  BY <1>3, OtherInv
<1>4. CASE UNCHANGED vars
  <2>1. UNCHANGED <<configuration, sensor, m_buffer, sdk, ros>>
    BY <1>4 DEF vars
  <2> QED
    BY <2>1, QueueShrinks DEF IInv, TypeOK, NoLostWakeup
<1> QED
  BY <1>1, <1>2, <1>3, <1>4 DEF Next

LEMMA Invariance == Spec => []IInv
BY InitInv, StepInv, PTL DEF Spec

-----------------------------------------------------------------------------
(* The types, and the limits of the three buffers, hold in every state. *)
THEOREM TypeCorrect == Spec => []TypeOK
<1>1. IInv => TypeOK
  BY DEF IInv
<1> QED
  BY <1>1, Invariance, PTL

(* Between the unlock and the notification no packet is left with a main   *)
(* thread that waits unnotified (xdacallback.cpp:182, :220).               *)
THEOREM NothingSleepsThrough == Spec => []NoLostWakeup
<1>1. IInv => NoLostWakeup
  BY DEF IInv
<1> QED
  BY <1>1, Invariance, PTL

(* The stamps keep the distances of the sample times, but for a tick at    *)
(* each rollover (xsens_time_handler.cpp:85-110).                          *)
THEOREM StampsInStep == Spec => []StampsFollowSensor
<1>1. IInv => StampsFollowSensor
  <2> SUFFICES ASSUME IInv, inReach,
                      NEW i \in 1 .. Len(m_buffer), NEW j \in 1 .. Len(m_buffer),
                      m_buffer[i].clock = "sample", m_buffer[j].clock = "sample"
               PROVE  m_buffer[j].stamp - m_buffer[i].stamp
                      = m_buffer[j].at - m_buffer[i].at - Rollovers(m_buffer[i].at, m_buffer[j].at)
    BY DEF StampsFollowSensor
  <2> DEFINE p == m_buffer[i]
             q == m_buffer[j]
             h == m_timeHandler
  <2>1. /\ h.time - p.stamp = h.prev - p.at - Rollovers(p.at, h.prev)
        /\ h.time - q.stamp = h.prev - q.at - Rollovers(q.at, h.prev)
    BY DEF IInv, InStep
  <2>2. p \in Packets /\ q \in Packets
    BY ElementOfSeq DEF IInv, TypeOK
  <2>3. /\ p.stamp \in Int /\ q.stamp \in Int /\ p.at \in Nat /\ q.at \in Nat
        /\ h.time \in Int /\ h.prev \in Nat
    BY <2>2 DEF Packets, IInv, TypeOK
  <2> DEFINE time == h.time
             prev == h.prev
             s1 == p.stamp
             s2 == q.stamp
             t1 == p.at
             t2 == q.at
             x == Rollovers(t1, prev)
             y == Rollovers(t2, prev)
             z == Rollovers(t1, t2)
  <2>4. /\ time \in Int /\ prev \in Int
        /\ s1 \in Int /\ s2 \in Int /\ t1 \in Int /\ t2 \in Int
    BY <2>3
  <2>5. time - s1 = prev - t1 - x /\ time - s2 = prev - t2 - y
    BY <2>1
  <2>6. x = z + y /\ z \in Int /\ y \in Int
    <3> HIDE DEF t1, t2, prev
    <3>1. t1 \in Int /\ t2 \in Int /\ prev \in Int
      BY <2>4
    <3> QED
      BY <3>1, RolloversAdd
  <2> HIDE DEF time, prev, s1, s2, t1, t2, x, y, z
  <2>7. s2 - s1 = t2 - t1 - z
    BY <2>4, <2>5, <2>6
  <2> QED
    BY <2>7 DEF s1, s2, t1, t2, z
<1> QED
  BY <1>1, Invariance, PTL

(* An interpolation has the factor of the true times of its two samples,   *)
(* and the newest two where no sample is ahead of the target               *)
(* (high_rate_interpolator.cpp:197-230, :292-321).                         *)
THEOREM InterpolationsAreTrue == Spec => []InterpolatesTrueTimes
<1>1. IInv => InterpolatesTrueTimes
  <2> SUFFICES ASSUME IInv PROVE NewestTaken
    BY DEF IInv, InterpolatesTrueTimes
  <2> SUFFICES ASSUME NEW at \in Times, NEW c \in Contents, Interpolates(PacketOf(at, c))
               PROVE  /\ TakesNewest(NewOrientations(PacketOf(at, c)), at)
                      /\ TakesNewest(NewRatesOfTurn(PacketOf(at, c)), at)
    BY DEF NewestTaken
  <2> DEFINE packet == PacketOf(at, c)
  <2>1. packet.at \in Nat /\ at \in Nat
    BY PacketType
  <2>2. Len(NewOrientations(packet)) >= 2 /\ Len(NewRatesOfTurn(packet)) >= 2
    BY DEF Interpolates
  <2> HIDE DEF packet
  <2>3. NewOrientations(packet) \in Seq(Nat) /\ NewRatesOfTurn(packet) \in Seq(Nat)
    BY <2>1, NewBuffersType
  <2>4. TakesNewest(NewOrientations(packet), at) /\ TakesNewest(NewRatesOfTurn(packet), at)
    BY <2>1, <2>2, <2>3, InterpolateIsTrue
  <2> QED
    BY <2>4 DEF packet
<1> QED
  BY <1>1, Invariance, PTL

-----------------------------------------------------------------------------
(* The queue between the threads *)

PacketQueue ==
  INSTANCE DropOldestQueue
    WITH queue <- m_buffer, Elements <- Packets, Capacity <- m_maxBufferSize

LEMMA PushQueues ==
  ASSUME IInv, IInv', NEW packet, NEW pairs, Push(packet, pairs)
  PROVE  PacketQueue!Next
<1> DEFINE kept == IF Len(m_buffer) = m_maxBufferSize THEN Tail(m_buffer) ELSE m_buffer
           new == Stamped(packet, pairs)
<1>1. /\ m_buffer \in Seq(Packets) /\ Len(m_buffer) <= m_maxBufferSize
      /\ Len(m_buffer) \in Nat /\ m_buffer' \in Seq(Packets)
      /\ m_maxBufferSize \in Nat \ {0}
  BY CallbackAssumption DEF IInv, TypeOK
<1>2. m_buffer' = Append(kept, new)
  BY DEF Push
<1>3. kept \in Seq(Packets)
  BY <1>1
<1> HIDE DEF kept, new
<1>4. new \in Packets
  <2>1. kept \in Seq(Packets \cup {new})
    BY <1>3, SeqMonotonic
  <2>2. /\ Len(m_buffer') = Len(kept) + 1 /\ m_buffer'[Len(kept) + 1] = new
        /\ Len(kept) \in Nat
    BY <1>2, <2>1, AppendProperties
  <2>3. Len(kept) + 1 \in 1 .. Len(m_buffer')
    BY <2>2
  <2>4. QED
    BY <1>1, <2>2, <2>3, ElementOfSeq
<1>5. PacketQueue!Push(new)
  <2>1. kept = IF Len(m_buffer) < m_maxBufferSize THEN m_buffer ELSE Tail(m_buffer)
    BY <1>1 DEF kept
  <2>2. QED
    BY <1>2, <2>1 DEF PacketQueue!Push
<1>6. QED
  BY <1>4, <1>5 DEF PacketQueue!Next

(* xdacallback.cpp:148-222: whatever the order in which the two threads    *)
(* run, and although next looks at the queue again after every wake-up,    *)
(* the main thread gets the packets in the order in which they came, each  *)
(* once, and only the oldest are lost when m_maxBufferSize are waiting.    *)
THEOREM PacketsAreQueued == Spec => PacketQueue!Spec
<1>1. Init => PacketQueue!Init
  BY DEF Init, PacketQueue!Init
<1>2. IInv /\ IInv' /\ [Next]_vars => [PacketQueue!Next]_m_buffer
  <2>1. SUFFICES ASSUME IInv, IInv', [Next]_vars
                 PROVE  PacketQueue!Next \/ m_buffer' = m_buffer
    OBVIOUS
  <2>2. CASE Main
    BY <2>2 DEF Main, CallNext, LookAgain, LookOnceMore, Publish, TakeOr,
                PacketQueue!Next, PacketQueue!Pop
  <2>3. ASSUME NEW at \in Times, NEW c \in Contents, onLiveDataAvailable(at, c)
        PROVE  PacketQueue!Next \/ m_buffer' = m_buffer
    <3>1. PICK packet :
            PassThrough(packet) \/ KeepForLater(packet) \/ HandleInterpolation(packet)
      BY <2>3 DEF onLiveDataAvailable
    <3>2. CASE KeepForLater(packet)
      BY <3>2 DEF KeepForLater
    <3>3. CASE PassThrough(packet)
      BY <2>1, <3>3, PushQueues DEF PassThrough
    <3>4. CASE HandleInterpolation(packet)
      BY <2>1, <3>4, PushQueues DEF HandleInterpolation
    <3>5. QED
      BY <3>1, <3>2, <3>3, <3>4
  <2>4. CASE NotifyOne \/ WakeSpuriously \/ TimeOut \/ UNCHANGED vars
    BY <2>4 DEF NotifyOne, WakeSpuriously, TimeOut, vars
  <2>5. QED
    BY <2>1, <2>2, <2>3, <2>4 DEF Next, Sensor
<1>3. QED
  BY <1>1, <1>2, Invariance, PTL DEF Spec, PacketQueue!Spec

=============================================================================
