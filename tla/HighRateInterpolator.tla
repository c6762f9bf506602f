------------------------ MODULE HighRateInterpolator ------------------------
(***************************************************************************)
(* The interpolator's buffers, as the operators XdaCallback applies to     *)
(* them: sequences of the sample times at which orientations and rates of  *)
(* turn came in.  The values are left out; what is kept of an              *)
(* interpolation is which two samples it takes and with what factor.  The  *)
(* buffer of accelerations is filled and cleaned and never read.           *)
(***************************************************************************)
EXTENDS XsensTime, Sequences, FiniteSetsExt

CONSTANTS
  m_bufferSize,   \* high_rate_interpolator.h:33: 10
  TIME_WINDOW     \* high_rate_interpolator.cpp:354: 1000000

ASSUME InterpolatorAssumption == m_bufferSize \in Nat \ {0} /\ TIME_WINDOW \in Nat

Pairs == [before : Int, after : Int, factor : Factors]

(* Without the limit. *)
AddUnlimited(buffer, at) == Append(buffer, at)

(* Adding a sample; while the buffer is too long, the oldest goes. *)
Add(buffer, at) ==
  IF Len(buffer) < m_bufferSize THEN Append(buffer, at)
                                ELSE Append(Tail(buffer), at)

(* The search takes the first two neighbours of which the first is not     *)
(* before the target and the second is not after it.                       *)
Encloses(buffer, i, target) ==
  /\ computeTimeDifference(buffer[i], target) <= 0
  /\ computeTimeDifference(buffer[i + 1], target) >= 0

(* Extrapolating from the oldest two instead of the newest. *)
PlaceOldest(buffer, target) ==
  LET found == {i \in 1 .. Len(buffer) - 1 : Encloses(buffer, i, target)}
  IN  IF found = {} THEN 1 ELSE Min(found)

(* Where the first sample of the pair stands: without such neighbours it   *)
(* is the last but one.                                                    *)
Place(buffer, target) ==
  LET found == {i \in 1 .. Len(buffer) - 1 : Encloses(buffer, i, target)}
  IN  IF found = {} THEN Len(buffer) - 1 ELSE Min(found)

Interpolate(buffer, target) ==
  LET i == Place(buffer, target)
  IN  [before |-> buffer[i], after |-> buffer[i + 1],
       factor |-> computeInterpolationFactor(target, buffer[i], buffer[i + 1])]

(* The front is popped as long as its difference to now is below the window. *)
cleanOldData(buffer, now) ==
  LET kept == {i \in 1 .. Len(buffer) :
                 ~(computeTimeDifference(buffer[i], now) < -TIME_WINDOW)}
  IN  IF kept = {} THEN <<>> ELSE SubSeq(buffer, Min(kept), Len(buffer))

=============================================================================
