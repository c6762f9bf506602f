---------------------------- MODULE XdaCallback ----------------------------
(***************************************************************************)
(* The Xsens node's packets on their way from the SDK's thread, which      *)
(* calls onLiveDataAvailable, to the main thread, which waits for them in  *)
(* XdaCallback::next at most a timeout and hands them to the publishers.   *)
(* Both use m_buffer under m_mutex only, so what is done while the mutex   *)
(* is held is one step; notify_one is called after the unlock and is a     *)
(* step of its own, and a waiting thread that is woken, or gives up, takes *)
(* the mutex again in a later step.                                        *)
(*                                                                         *)
(* The environment is the sensor: packets with any content, a little late  *)
(* or with a gap before them.                                              *)
(***************************************************************************)
EXTENDS HighRateInterpolator

CONSTANTS
  m_maxBufferSize,   \* xdacallback.h:53: 5
  Contents,          \* what a packet may contain
  MaxGap, MaxLate,   \* the sensor's packets: bounds on a gap and on a delay
  StartTimes,        \* the sensor's time when the node connects to it
  MaxTime,           \* bound on the sensor's time
  MaxStamp           \* bound on the stamps, which late packets move away from it

ASSUME CallbackAssumption ==
  /\ m_maxBufferSize \in Nat \ {0}
  /\ MaxGap \in Nat /\ MaxLate \in Nat /\ MaxTime \in Nat /\ MaxStamp \in Nat /\ StartTimes \subseteq Nat
  /\ \A c \in Contents : /\ c.has \subseteq {"orientation", "rateOfTurn", "acceleration"}
                         /\ c.utc \in BOOLEAN /\ c.fine \in BOOLEAN

VARIABLES
  m_time_option, m_interpolationEnabled,   \* set by the constructor
  m_buffer,       \* the packets that wait, oldest first
  m_timeHandler,
  orientations,   \* m_orientationBuffer
  ratesOfTurn,    \* m_rateOfTurnBuffer
  sdk,            \* the SDK's thread: outside, or about to notify
  ros,            \* the main thread
  sensorTime,     \* the latest sample time of the sensor
  inReach         \* history: no sample time stamped was out of the reach of the last

configuration == <<m_time_option, m_interpolationEnabled>>
interpolator == <<orientations, ratesOfTurn>>
sensor == <<m_timeHandler, interpolator, sensorTime, inReach>>
vars == <<configuration, m_buffer, sensor, sdk, ros>>

(* checkHighRateParameters: interpolation stays enabled only when          *)
(* everything it needs is configured.                                      *)
Validated(p) ==
  /\ p.interpolate_orientation_high_rate
  /\ p.enable_high_rate /\ p.enable_deviceConfig
  /\ p.gyrohr <= p.acchr

Parameters ==
  [interpolate_orientation_high_rate : BOOLEAN, enable_high_rate : BOOLEAN,
   enable_deviceConfig : BOOLEAN, gyrohr : {400, 800}, acchr : {400, 1000}]

Init ==
  /\ m_time_option \in Options
  /\ \E p \in Parameters : m_interpolationEnabled = Validated(p)
  /\ m_buffer = <<>>
  /\ m_timeHandler = InitHandler
  /\ orientations = <<>> /\ ratesOfTurn = <<>>
  /\ sdk = "outside" /\ ros = "outside"
  /\ sensorTime \in StartTimes
  /\ inReach = TRUE

-----------------------------------------------------------------------------
(* The SDK's thread *)

(* The steps the handler follows: not more than half the counter's range,  *)
(* and not back across a rollover, which the handler takes for a step      *)
(* ahead although the counter would tell (see computeTimeDifference).      *)
Reaches(last, at) ==
  /\ at - last \in -(m_RollOver \div 2) .. W \div 2
  /\ at \div W >= last \div W

(* convertUtcTimeToRosTime, called with m_mutex held. *)
Stamp(packet) ==
  IF Clock(m_time_option, packet) = "sample"
  THEN /\ m_timeHandler' = Frame(m_timeHandler, packet.at)
       /\ inReach' = (inReach /\ (m_timeHandler.isFirstFrame
                                  \/ Reaches(m_timeHandler.prev, packet.at)))
  ELSE UNCHANGED <<m_timeHandler, inReach>>

(* Only the stamps by sample time are computed; the other clocks are not   *)
(* the node's.                                                             *)
Stamped(packet, pairs) ==
  [at |-> packet.at,
   clock |-> Clock(m_time_option, packet),
   stamp |-> IF Clock(m_time_option, packet) = "sample"
             THEN Frame(m_timeHandler, packet.at).time ELSE packet.at,
   pairs |-> pairs]

(* Without the notification. *)
PushSilently(packet, pairs) ==
  /\ m_buffer' = Append(IF Len(m_buffer) = m_maxBufferSize THEN Tail(m_buffer) ELSE m_buffer,
                        Stamped(packet, pairs))
  /\ Stamp(packet)
  /\ sdk' = "outside"

Push(packet, pairs) ==
  /\ m_buffer' = Append(IF Len(m_buffer) = m_maxBufferSize THEN Tail(m_buffer) ELSE m_buffer,
                        Stamped(packet, pairs))
  /\ Stamp(packet)
  /\ sdk' = "notifying"

PassThrough(packet) ==
  /\ ~m_interpolationEnabled
  /\ Push(packet, <<>>)
  /\ UNCHANGED interpolator

(* processPacket's buffers with this packet's samples added. *)
NewOrientations(packet) ==
  IF packet.fine /\ "orientation" \in packet.has THEN Add(orientations, packet.at)
                                                 ELSE orientations
NewRatesOfTurn(packet) ==
  IF packet.fine /\ "rateOfTurn" \in packet.has THEN Add(ratesOfTurn, packet.at)
                                                ELSE ratesOfTurn

Interpolates(packet) ==
  /\ packet.fine /\ "acceleration" \in packet.has
  /\ Len(NewOrientations(packet)) >= 2 /\ Len(NewRatesOfTurn(packet)) >= 2

(* A packet without acceleration, or one that comes before there are two   *)
(* samples of each kind, is only kept for later interpolations.            *)
KeepForLater(packet) ==
  /\ m_interpolationEnabled /\ ~Interpolates(packet)
  /\ orientations' = NewOrientations(packet) /\ ratesOfTurn' = NewRatesOfTurn(packet)
  /\ UNCHANGED <<m_buffer, m_timeHandler, inReach, sdk>>

HandleInterpolation(packet) ==
  /\ m_interpolationEnabled /\ Interpolates(packet)
  /\ Push(packet, <<Interpolate(NewOrientations(packet), packet.at),
                    Interpolate(NewRatesOfTurn(packet), packet.at)>>)
  /\ orientations' = cleanOldData(NewOrientations(packet), packet.at)
  /\ ratesOfTurn' = cleanOldData(NewRatesOfTurn(packet), packet.at)

PacketOf(at, content) ==
  [at |-> at, has |-> content.has, utc |-> content.utc, fine |-> content.fine]

(* The sensor measures at times that never go back, and a packet may come  *)
(* after one that was measured later.                                      *)
onLiveDataAvailable(at, content) ==
  LET packet == PacketOf(at, content)
  IN  /\ sdk = "outside"
      /\ at <= MaxTime /\ m_timeHandler.time <= MaxStamp
      /\ at - sensorTime \in -MaxLate .. MaxGap
      /\ sensorTime' = IF at > sensorTime THEN at ELSE sensorTime
      /\ PassThrough(packet) \/ KeepForLater(packet) \/ HandleInterpolation(packet)
      /\ UNCHANGED <<configuration, ros>>

(* notify_one wakes the main thread if it waits, and is lost if it does not. *)
NotifyOne ==
  /\ sdk = "notifying" /\ sdk' = "outside"
  /\ ros' = IF ros = "waiting" THEN "woken" ELSE ros
  /\ UNCHANGED <<configuration, m_buffer, sensor>>

-----------------------------------------------------------------------------
(* The main thread *)

(* With the mutex held: wait_for's predicate holds, and next takes the     *)
(* first packet; or it does not, and next waits or has waited long enough. *)
TakeOr(otherwise) ==
  IF m_buffer # <<>>
  THEN m_buffer' = Tail(m_buffer) /\ ros' = "publishing"
  ELSE ros' = otherwise /\ UNCHANGED m_buffer

(* Waiting before looking at the queue. *)
CallNextBlindly ==
  /\ ros = "outside" /\ ros' = "waiting"
  /\ UNCHANGED <<configuration, m_buffer, sensor, sdk>>

(* spinFor calls next. *)
CallNext ==
  /\ ros = "outside" /\ TakeOr("waiting")
  /\ UNCHANGED <<configuration, sensor, sdk>>

(* Woken by notify_one, or without a cause. *)
WakeSpuriously ==
  /\ ros = "waiting" /\ ros' = "woken"
  /\ UNCHANGED <<configuration, m_buffer, sensor, sdk>>

LookAgain ==
  /\ ros = "woken" /\ TakeOr("waiting")
  /\ UNCHANGED <<configuration, sensor, sdk>>

TimeOut ==
  /\ ros = "waiting" /\ ros' = "timedOut"
  /\ UNCHANGED <<configuration, m_buffer, sensor, sdk>>

(* After the timeout the predicate is looked at once more; without a       *)
(* packet next returns an empty one and nobody is called.                  *)
LookOnceMore ==
  /\ ros = "timedOut" /\ TakeOr("outside")
  /\ UNCHANGED <<configuration, sensor, sdk>>

(* spinFor's callbacks and the executor's spin_some, up to the next call. *)
Publish ==
  /\ ros = "publishing" /\ ros' = "outside"
  /\ UNCHANGED <<configuration, m_buffer, sensor, sdk>>

Main == CallNext \/ LookAgain \/ LookOnceMore \/ Publish
Times == 0 .. MaxTime
Sensor == \E at \in Times, c \in Contents : onLiveDataAvailable(at, c)

Next == Sensor \/ NotifyOne \/ Main \/ WakeSpuriously \/ TimeOut

Spec == Init /\ [][Next]_vars

(* Both threads go on.  Nothing is assumed of the clock: a thread that     *)
(* waits may never time out.                                               *)
FairSpec == Spec /\ WF_vars(NotifyOne) /\ WF_vars(Main)

-----------------------------------------------------------------------------
(* Properties *)

Packets ==
  [at : Nat, clock : {"utc", "sample", "host"}, stamp : Int,
   pairs : {<<>>} \union (Pairs \X Pairs)]

(* The types; the queue and both buffers of the interpolator keep to their *)
(* limits (xdacallback.cpp:158, :208, high_rate_interpolator.cpp:154).     *)
TypeOK ==
  /\ m_time_option \in Options /\ m_interpolationEnabled \in BOOLEAN
  /\ m_buffer \in Seq(Packets) /\ Len(m_buffer) <= m_maxBufferSize
  /\ m_timeHandler \in [isFirstFrame : BOOLEAN, prev : Nat, time : Int]
  /\ orientations \in Seq(Nat) /\ Len(orientations) <= m_bufferSize
  /\ ratesOfTurn \in Seq(Nat) /\ Len(ratesOfTurn) <= m_bufferSize
  /\ sdk \in {"outside", "notifying"}
  /\ ros \in {"outside", "waiting", "woken", "timedOut", "publishing"}
  /\ sensorTime \in Nat /\ inReach \in BOOLEAN

(* No wake-up is lost: while packets are there, the main thread does not   *)
(* wait unless the SDK's thread is about to notify it                      *)
(* (xdacallback.cpp:182, :220).                                            *)
NoLostWakeup == ros = "waiting" /\ m_buffer # <<>> => sdk = "notifying"

(* Once a packet is in the queue the main thread gets a packet, and never  *)
(* needs the timeout for it (xdacallback.cpp:176-191).                     *)
PacketsDelivered == m_buffer # <<>> ~> ros = "publishing"

(* The stamps of packets stamped by the sample time are apart as the       *)
(* packets were, but for one tick at each rollover of the counter between  *)
(* them, packets late within one turn of it included, as long as each      *)
(* sample time was within the handler's reach from the one before          *)
(* (xsens_time_handler.cpp:85-110).                                        *)
Rollovers(t1, t2) == (t2 \div W) - (t1 \div W)

StampsFollowSensor ==
  inReach =>
    \A i, j \in 1 .. Len(m_buffer) :
      LET p == m_buffer[i]
          q == m_buffer[j]
      IN  p.clock = "sample" /\ q.clock = "sample"
          => q.stamp - p.stamp = q.at - p.at - Rollovers(p.at, q.at)

(* Whatever the counter wrapped in the buffer, as long as its samples are  *)
(* less than half the counter's range from the target: an interpolation    *)
(* has the factor of the true times of its two samples, and the next one,  *)
(* whatever packet comes, takes the newest two if none was taken after the *)
(* target, or two that begin with one taken at the target                  *)
(* (high_rate_interpolator.cpp:197-230, :292-321).                         *)
Near(t1, t2) == t2 - t1 \in -WRAP_THRESHOLD .. WRAP_THRESHOLD

TrueFactor(pair, at) ==
  Near(pair.before, at) /\ Near(pair.before, pair.after)
  => pair.factor = Clamped(at - pair.before, pair.after - pair.before)

FactorsTrue ==
  \A i \in 1 .. Len(m_buffer) :
    \A k \in 1 .. Len(m_buffer[i].pairs) : TrueFactor(m_buffer[i].pairs[k], m_buffer[i].at)

TakesNewest(buffer, target) ==
  LET n == Len(buffer)
      pair == Interpolate(buffer, target)
  IN  (\A k \in 1 .. n : buffer[k] <= target /\ Near(buffer[k], target))
      => \/ pair.before = target
         \/ pair.before = buffer[n - 1] /\ pair.after = buffer[n]

NewestTaken ==
  \A at \in Times, c \in Contents :
    Interpolates(PacketOf(at, c)) => /\ TakesNewest(NewOrientations(PacketOf(at, c)), at)
                                     /\ TakesNewest(NewRatesOfTurn(PacketOf(at, c)), at)

InterpolatesTrueTimes == FactorsTrue /\ NewestTaken

=============================================================================
