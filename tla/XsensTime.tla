----------------------------- MODULE XsensTime -----------------------------
(***************************************************************************)
(* The sensor's sample time and what the node makes of it.  The sensor     *)
(* counts ticks of 100 us in 32 bits (SampleTimeFine); a time here is the  *)
(* number of ticks as if the counter never wrapped, and every operator     *)
(* sees no more of it than the counter, through SampleTimeFine(t).         *)
(*                                                                         *)
(* The node's stamps (rclcpp::Time) are numbers of ticks too.  The host's  *)
(* clock, read at the first frame, is taken to agree with the sensor's     *)
(* time at that moment: only the differences to it matter.                 *)
(***************************************************************************)
EXTENDS Integers

CONSTANT W   \* the counter's range, 2^32

ASSUME RangeAssumption == W \in Nat /\ W >= 4 /\ W % 2 = 0

m_RollOver == W - 1
WRAP_THRESHOLD == (W \div 2) - 1

SampleTimeFine(t) == t % W

-----------------------------------------------------------------------------
(* HighRateInterpolator's arithmetic *)

(* Without the wrap-around. *)
PlainDifference(t1, t2) == SampleTimeFine(t2) - SampleTimeFine(t1)

computeTimeDifference(t1, t2) ==
  LET diff == SampleTimeFine(t2) - SampleTimeFine(t1)
  IN  IF diff > WRAP_THRESHOLD THEN diff - W
      ELSE IF diff < -WRAP_THRESHOLD THEN diff + W
      ELSE diff

(* A factor is a fraction <<numerator, denominator>> with a positive       *)
(* denominator, limited to what the extrapolation may use, [0, 2].         *)
Factors == Nat \X (Nat \ {0})

Clamped(n, d) ==
  IF d = 0 THEN <<0, 1>>
  ELSE LET num == IF d < 0 THEN -n ELSE n
           den == IF d < 0 THEN -d ELSE d
       IN  IF num < 0 THEN <<0, 1>>
           ELSE IF num > 2 * den THEN <<2, 1>>
           ELSE <<num, den>>

computeInterpolationFactor(target, t1, t2) ==
  Clamped(computeTimeDifference(t1, target), computeTimeDifference(t1, t2))

-----------------------------------------------------------------------------
(* XsensTimeHandler *)

Options == {0, 1, 2}   \* the sensor's UTC, its sample time, otherwise the host's clock

InitHandler == [isFirstFrame |-> TRUE, prev |-> 0, time |-> 0]

(* Which of the three clocks a packet is stamped by. *)
Clock(option, packet) ==
  CASE option = 0 /\ packet.utc -> "utc"
    [] option \in {0, 1} /\ packet.fine /\ ~(option = 0 /\ packet.utc) -> "sample"
    [] OTHER -> "host"

(* Every step back taken for a rollover. *)
ElapsedForward(prev, current) ==
  LET timeDiff == SampleTimeFine(current) - SampleTimeFine(prev)
  IN  IF timeDiff < 0 THEN timeDiff + m_RollOver ELSE timeDiff

(* What the counter says has passed since the last frame. *)
Elapsed(prev, current) ==
  LET timeDiff == SampleTimeFine(current) - SampleTimeFine(prev)
  IN  IF timeDiff < -(m_RollOver \div 2) THEN timeDiff + m_RollOver ELSE timeDiff

(* The handler after it has stamped a packet by the sample time at; its    *)
(* time is the stamp.                                                      *)
Frame(handler, at) ==
  [isFirstFrame |-> FALSE,
   prev |-> at,
   time |-> IF handler.isFirstFrame THEN at ELSE handler.time + Elapsed(handler.prev, at)]

=============================================================================
