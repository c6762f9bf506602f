-------------------------- MODULE CanDriverProofs --------------------------
(***************************************************************************)
(* The safety of the thruster driver for any number of ESCs and thrusters, *)
(* any mapping, any voltages and any hold time.                            *)
(***************************************************************************)
EXTENDS CanDriver, TLAPS

(* What the driver holds ready for the next broadcast is always what       *)
(* autonomy asked for last, or nothing.  This is what makes the properties *)
(* of the wire inductive: the two orders of "continue" and a disarming     *)
(* setpoint differ only in `armed`, never in `throttles`.                  *)
ReadyAsAsked ==
  throttles # NoThrust => asked # None /\ CarriesOut(throttles, asked)

(* The dip timer starts at the earliest when a check stops seeing the pack *)
(* fine, so it never runs ahead of the time since one last did.            *)
DipNotOverstated == lowFor # None => lowFor <= sinceGood

IInv == TypeOK /\ LiveOnlyWithTelemetry /\ ReadyAsAsked /\ DipNotOverstated

LEMMA ZeroIsAGain == NoThrust \in Gains /\ Off \in Commands
BY DEF NoThrust, Gains, Off, Commands, Channels

LEMMA InitInv == Init => IInv
<1>1. SUFFICES ASSUME Init PROVE IInv
  OBVIOUS
<1>2. TypeOK
  <2>1. telemetry \in [Escs -> Volts \cup {None}]
    BY <1>1 DEF Init
  <2>2. 0 \in 0 .. Hold
    BY VoltsAssumption
  <2>3. QED
    BY <1>1, <2>1, <2>2, ZeroIsAGain DEF Init, TypeOK
<1>3. LiveOnlyWithTelemetry /\ ReadyAsAsked /\ DipNotOverstated
  BY <1>1 DEF Init, LiveOnlyWithTelemetry, ReadyAsAsked, DipNotOverstated
<1>4. QED
  BY <1>2, <1>3 DEF IInv

(* The broadcast keeps the invariant, whether the timer or the shutdown    *)
(* calls it.                                                               *)
LEMMA SendTypes ==
  ASSUME TypeOK, NEW request \in BOOLEAN, NEW gains \in Gains,
         SendCommands(request, gains)
  PROVE  /\ BIGARM' \in BOOLEAN /\ armed' \in BOOLEAN /\ throttles' \in Gains
         /\ lowFor' \in (0 .. Hold) \cup {None}
         /\ wire' \in Commands /\ sinceGood' \in 0 .. Hold
         /\ throttles' \in {gains, NoThrust}
         /\ DipNotOverstated => DipNotOverstated'
         /\ BIGARM' => BIGARM
         /\ wire' = Off \/ (armed' /\ BIGARM' /\ wire'.cmd = throttles')
<1>1. BIGARM' \in BOOLEAN /\ armed' \in BOOLEAN /\ (BIGARM' => BIGARM)
  BY DEF SendCommands, CheckUndervoltage, TypeOK
<1>2. throttles' \in {gains, NoThrust} /\ throttles' \in Gains
  BY ZeroIsAGain DEF SendCommands, CheckUndervoltage
<1>3. lowFor' \in (0 .. Hold) \cup {None} /\ sinceGood' \in 0 .. Hold
  BY VoltsAssumption DEF SendCommands, CheckUndervoltage, DipTimer, TypeOK
<1>4. /\ wire' \in Commands
      /\ wire' = Off \/ (armed' /\ BIGARM' /\ wire'.cmd = throttles')
  BY <1>2, ZeroIsAGain DEF SendCommands, Commands
<1>5. DipNotOverstated => DipNotOverstated'
  BY VoltsAssumption, NoneAssumption
     DEF SendCommands, CheckUndervoltage, DipTimer, DipNotOverstated, TypeOK
<1>6. QED
  BY <1>1, <1>2, <1>3, <1>4, <1>5

LEMMA StepInv == IInv /\ [Next]_vars => IInv'
<1> SUFFICES ASSUME TypeOK, LiveOnlyWithTelemetry, ReadyAsAsked, DipNotOverstated,
                    [Next]_vars
             PROVE  IInv'
  BY DEF IInv
<1> USE ZeroIsAGain
<1>1. CASE FinishStartup
  <2>1. TypeOK'
    BY <1>1 DEF FinishStartup, Arm, Disarm, TypeOK
  <2>2. LiveOnlyWithTelemetry'
    BY <1>1 DEF FinishStartup, LiveOnlyWithTelemetry, StartupVoltageOk, Reporting
  <2>3. ReadyAsAsked' /\ DipNotOverstated'
    BY <1>1 DEF FinishStartup, Disarm, ReadyAsAsked, CarriesOut, DipNotOverstated
  <2>4. QED
    BY <2>1, <2>2, <2>3 DEF IInv
<1>2. ASSUME NEW e \in Escs, OnEscStatus(e) PROVE IInv'
  <2>1. TypeOK'
    BY <1>2 DEF OnEscStatus, TypeOK
  <2>2. Reporting \subseteq Reporting'
    BY <1>2, NoneAssumption DEF OnEscStatus, Reporting, TypeOK
  <2>3. LiveOnlyWithTelemetry' /\ ReadyAsAsked' /\ DipNotOverstated'
    BY <1>2, <2>2 DEF OnEscStatus, LiveOnlyWithTelemetry, ReadyAsAsked, CarriesOut,
                      DipNotOverstated
  <2>4. QED
    BY <2>1, <2>3 DEF IInv
<1>3. ASSUME NEW state \in {"continue", "kill"}, WatchdogCallback(state) PROVE IInv'
  <2>1. TypeOK'
    BY <1>3 DEF WatchdogCallback, Arm, TypeOK
  <2>2. LiveOnlyWithTelemetry'
    BY <1>3 DEF WatchdogCallback, LiveOnlyWithTelemetry, Reporting
  <2>3. ReadyAsAsked' /\ DipNotOverstated'
    BY <1>3 DEF WatchdogCallback, ReadyAsAsked, CarriesOut, DipNotOverstated
  <2>4. QED
    BY <2>1, <2>2, <2>3 DEF IInv
<1>4. ASSUME NEW msg \in ThrusterSetpoint, ThrusterCallback(msg) PROVE IInv'
  <2>1. msg.thrust \in [Channels -> Rpms]
    BY <1>4 DEF ThrusterSetpoint, ThrusterCallback
  <2>2. TypeOK'
    BY <1>4, <2>1 DEF ThrusterCallback, Arm, Disarm, RemapThrusts, TypeOK
  <2>3. LiveOnlyWithTelemetry'
    BY <1>4 DEF ThrusterCallback, LiveOnlyWithTelemetry, Reporting
  <2>4. ReadyAsAsked'
    <3>1. CASE Disarm
      BY <3>1 DEF Disarm, ReadyAsAsked
    <3>2. CASE msg.armed /\ throttles' \in RemapThrusts(msg.thrust)
      <4>1. asked' = msg.thrust /\ asked' # None
        BY <1>4, <3>2, <2>1, NoneAssumption DEF ThrusterCallback
      <4>2. CarriesOut(throttles', msg.thrust)
        <5>1. SUFFICES ASSUME NEW d \in Channels, throttles'[d] # 0
                       PROVE  throttles'[d] =
                                Signs[d] * msg.thrust[DronecanToGlobal[d]]
          BY DEF CarriesOut
        <5>2. PICK g \in rpm_to_gain(msg.thrust[DronecanToGlobal[d]]) :
                throttles'[d] = g * Signs[d]
          BY <3>2 DEF RemapThrusts
        <5>3. Signs[d] \in {-1, 1} /\ DronecanToGlobal[d] \in Channels
          BY MappingAssumption
        <5>4. msg.thrust[DronecanToGlobal[d]] \in {-1, 0, 1}
          BY <2>1, <5>3, MappingAssumption
        <5>5. QED
          BY <5>1, <5>2, <5>3, <5>4 DEF rpm_to_gain
      <4>3. QED
        BY <4>1, <4>2 DEF ReadyAsAsked, CarriesOut
    <3>3. QED
      BY <1>4, <3>1, <3>2 DEF ThrusterCallback
  <2>5. DipNotOverstated'
    BY <1>4 DEF ThrusterCallback, DipNotOverstated
  <2>6. QED
    BY <2>2, <2>3, <2>4, <2>5 DEF IInv
<1>5. CASE CommandTimer
  <2>1. armed \in BOOLEAN /\ throttles \in Gains /\ SendCommands(armed, throttles)
    BY <1>5 DEF CommandTimer, TypeOK
  <2>2. TypeOK'
    BY <1>5, <2>1, SendTypes DEF CommandTimer, TypeOK
  <2>3. LiveOnlyWithTelemetry'
    BY <1>5, <2>1, SendTypes DEF CommandTimer, LiveOnlyWithTelemetry, Reporting
  <2>4. ReadyAsAsked'
    BY <1>5, <2>1, SendTypes DEF CommandTimer, ReadyAsAsked, CarriesOut
  <2>5. DipNotOverstated'
    BY <2>1, SendTypes
  <2>6. QED
    BY <2>2, <2>3, <2>4, <2>5 DEF IInv
<1>6. CASE DestroyNode
  <2>1. SendCommands(FALSE, NoThrust)
    BY <1>6 DEF DestroyNode
  <2>2. TypeOK'
    BY <1>6, <2>1, SendTypes DEF DestroyNode, TypeOK
  <2>3. LiveOnlyWithTelemetry' /\ ReadyAsAsked'
    BY <1>6, <2>1, SendTypes DEF DestroyNode, LiveOnlyWithTelemetry, ReadyAsAsked
  <2>4. DipNotOverstated'
    BY <2>1, SendTypes
  <2>5. QED
    BY <2>2, <2>3, <2>4 DEF IInv
<1>7. CASE PackChanges
  BY <1>7 DEF PackChanges, driver, IInv, TypeOK, LiveOnlyWithTelemetry, Reporting,
              ReadyAsAsked, CarriesOut, DipNotOverstated
<1>8. ASSUME NEW e \in Escs, EscFallsSilent(e) PROVE IInv'
  BY <1>8 DEF EscFallsSilent, driver, IInv, TypeOK, LiveOnlyWithTelemetry,
              Reporting, ReadyAsAsked, CarriesOut, DipNotOverstated
<1>9. CASE Tick
  <2>1. lowFor' \in (0 .. Hold) \cup {None} /\ sinceGood' \in 0 .. Hold
    BY <1>9, VoltsAssumption DEF Tick, Older, TypeOK
  <2>2. DipNotOverstated'
    BY <1>9, VoltsAssumption, NoneAssumption DEF Tick, Older, TypeOK, DipNotOverstated
  <2>3. QED
    BY <1>9, <2>1, <2>2 DEF Tick, IInv, TypeOK, LiveOnlyWithTelemetry, Reporting,
                            ReadyAsAsked, CarriesOut
<1>10. CASE UNCHANGED vars
  BY <1>10 DEF vars, IInv, TypeOK, LiveOnlyWithTelemetry, Reporting,
               ReadyAsAsked, CarriesOut, DipNotOverstated
<1>11. QED
  BY <1>1, <1>2, <1>3, <1>4, <1>5, <1>6, <1>7, <1>8, <1>9, <1>10 DEF Next

LEMMA Invariance == Spec => []IInv
BY InitInv, StepInv, PTL DEF Spec

-----------------------------------------------------------------------------
(* Every variable of the driver keeps its type. *)
THEOREM TypeCorrect == Spec => []TypeOK
<1>1. IInv => TypeOK
  BY DEF IInv
<1>2. QED
  BY <1>1, Invariance, PTL

(* can_driver.py:202-226: a running driver that is not killed has heard an *)
(* ESC.                                                                    *)
THEOREM NeverBlind == Spec => []LiveOnlyWithTelemetry
<1>1. IInv => LiveOnlyWithTelemetry
  BY DEF IInv
<1>2. QED
  BY <1>1, Invariance, PTL

(* can_driver.py:309-356: every broadcast that moves a thruster carries    *)
(* out the latest accepted setpoint, which is armed, in whatever order the *)
(* watchdog, the setpoints, the telemetry and the timer are handled.       *)
THEOREM NeverMovesUnasked == Spec => MovesOnlyAsAsked
<1>1. IInv /\ [Next]_vars =>
        [wire' # wire /\ wire'.cmd # NoThrust =>
           asked # None /\ CarriesOut(wire'.cmd, asked)]_vars
  <2>1. SUFFICES ASSUME IInv, Next, wire' # wire, wire'.cmd # NoThrust
                 PROVE  asked # None /\ CarriesOut(wire'.cmd, asked)
    OBVIOUS
  <2>2. CommandTimer \/ DestroyNode
    BY <2>1 DEF Next, FinishStartup, OnEscStatus, WatchdogCallback, ThrusterCallback,
                PackChanges, EscFallsSilent, Tick, driver
  <2>3. Off.cmd = NoThrust
    BY DEF Off
  <2>4. CASE CommandTimer
    <3>1. armed \in BOOLEAN /\ throttles \in Gains /\ SendCommands(armed, throttles)
      BY <2>1, <2>4 DEF CommandTimer, IInv, TypeOK
    <3>2. wire'.cmd = throttles
      BY <2>1, <2>3, <3>1, SendTypes DEF IInv
    <3>3. QED
      BY <2>1, <3>2 DEF IInv, ReadyAsAsked
  <2>5. CASE DestroyNode
    <3>1. SendCommands(FALSE, NoThrust) /\ NoThrust \in Gains
      BY <2>5, ZeroIsAGain DEF DestroyNode
    <3>2. QED
      BY <2>1, <2>3, <3>1, SendTypes DEF IInv
  <2>6. QED
    BY <2>2, <2>4, <2>5
<1>2. QED
  BY <1>1, Invariance, PTL DEF Spec, MovesOnlyAsAsked

(* can_driver.py:228-263: however the pack voltage, the checks and the     *)
(* clock interleave, a dip kills only when no check has seen the pack fine *)
(* for all of the hold time.                                               *)
THEOREM ShortDipsNeverKill == Spec => UndervoltageNeedsHold
<1>1. IInv /\ [Next]_vars =>
        [BIGARM /\ ~BIGARM' /\ phase = "running" /\ ~WatchdogCallback("kill")
           => sinceGood >= Hold]_vars
  <2>1. SUFFICES ASSUME IInv, Next, BIGARM, ~BIGARM', phase = "running",
                        ~WatchdogCallback("kill")
                 PROVE  sinceGood >= Hold
    OBVIOUS
  <2>2. CommandTimer \/ DestroyNode
    <3>1. ASSUME NEW state \in {"continue", "kill"}, WatchdogCallback(state)
          PROVE  FALSE
      BY <2>1, <3>1 DEF WatchdogCallback
    <3>2. QED
      BY <2>1, <3>1 DEF Next, FinishStartup, OnEscStatus, ThrusterCallback,
                        PackChanges, EscFallsSilent, Tick, driver
  <2>3. HeldTooLong
    BY <2>1, <2>2 DEF CommandTimer, DestroyNode, SendCommands, CheckUndervoltage
  <2>4. lowFor # None /\ lowFor >= Hold /\ lowFor <= sinceGood
    BY <2>1, <2>3 DEF HeldTooLong, IInv, DipNotOverstated
  <2>5. QED
    BY <2>1, <2>4, VoltsAssumption DEF IInv, TypeOK
<1>2. QED
  BY <1>1, Invariance, PTL DEF Spec, UndervoltageNeedsHold

(* can_driver.py:134, 262, 322, 351: the driver implements the kill        *)
(* switch.  Whoever trips the latch, it stays tripped, and every broadcast *)
(* from then on is the off command.                                        *)
THEOREM ImplementsKillSwitch == Spec => KillSwitchSpec
<1>1. Init => Switch!Init
  BY DEF Init, Switch!Init
<1>2. IInv /\ [Next]_vars => [Switch!Next]_(Switch!kvars)
  <2>1. SUFFICES ASSUME IInv, Next PROVE [Switch!Next]_(Switch!kvars)
    BY DEF vars, Switch!kvars
  <2>2. BIGARM \in BOOLEAN /\ BIGARM' \in BOOLEAN /\ wire' \in Commands
    BY <2>1, StepInv DEF IInv, TypeOK
  <2> USE DEF Switch!Next, Switch!Drive, Switch!Kill, Switch!TurnOff, Switch!kvars
  <2>3. CASE FinishStartup
    BY <2>2, <2>3 DEF FinishStartup
  <2>4. ASSUME NEW e \in Escs, OnEscStatus(e) PROVE [Switch!Next]_(Switch!kvars)
    BY <2>4 DEF OnEscStatus
  <2>5. ASSUME NEW state \in {"continue", "kill"}, WatchdogCallback(state)
        PROVE  [Switch!Next]_(Switch!kvars)
    BY <2>2, <2>5 DEF WatchdogCallback
  <2>6. ASSUME NEW msg \in ThrusterSetpoint, ThrusterCallback(msg)
        PROVE  [Switch!Next]_(Switch!kvars)
    BY <2>6 DEF ThrusterCallback
  <2>7. ASSUME NEW request, NEW gains, SendCommands(request, gains)
        PROVE  [Switch!Next]_(Switch!kvars)
    <3>1. BIGARM' => BIGARM
      BY <2>7 DEF SendCommands, CheckUndervoltage
    <3>2. ~BIGARM' => wire' = Off
      BY <2>7 DEF SendCommands
    <3>3. QED
      BY <2>2, <3>1, <3>2
  <2>8. CASE CommandTimer
    BY <2>7, <2>8 DEF CommandTimer
  <2>9. CASE DestroyNode
    BY <2>7, <2>9 DEF DestroyNode
  <2>10. CASE PackChanges \/ Tick \/ \E e \in Escs : EscFallsSilent(e)
    BY <2>10 DEF PackChanges, Tick, EscFallsSilent, driver
  <2>11. QED
    BY <2>1, <2>3, <2>4, <2>5, <2>6, <2>8, <2>9, <2>10 DEF Next
<1>3. QED
  BY <1>1, <1>2, Invariance, PTL DEF Spec, KillSwitchSpec, Switch!Spec

=============================================================================
