------------------------------ MODULE CanDriver ------------------------------
(***************************************************************************)
(* The arming logic of tauv_dronecan's CANDriver: what the thrusters are   *)
(* told, given the autonomy stack's setpoints, the system watchdog, the    *)
(* pack voltage the ESCs report, and the order in which all of those       *)
(* arrive.  rclpy runs every callback on one thread, so a callback is one  *)
(* action; the hazards are the orders between callbacks.                   *)
(*                                                                         *)
(* Discovery (the loop in the constructor) is module EscDiscovery; here it *)
(* is the phase in which only ESC telemetry is handled.                    *)
(***************************************************************************)
EXTENDS Integers, FiniteSets, FiniteSetsExt

CONSTANTS
  Escs,              \* the ESCs that broadcast telemetry
  Volts,             \* the pack voltages considered
  StartupMin,        \* parameter startup_voltage_min_v
  Cutoff,            \* parameter undervoltage_cutoff_v
  Hold,              \* parameter undervoltage_hold_sec, in clock ticks
  EscCount,          \* parameter esc_count: the thrusters
  DronecanToGlobal,  \* mapping.py: index on the bus -> autonomy's index
  Signs,             \* mapping.py: -1 for a thruster mounted in reverse
  Rpms,              \* the demands: -1 reverse, 0 below 50 rpm, 1 forward
  None

Channels == 0 .. EscCount - 1

ASSUME EscsAssumption == IsFiniteSet(Escs) /\ Escs # {}
ASSUME VoltsAssumption ==
  Volts \subseteq Nat /\ StartupMin \in Nat /\ Cutoff \in Nat /\ Hold \in Nat
ASSUME MappingAssumption ==
  /\ EscCount \in Nat \ {0}
  /\ DronecanToGlobal \in [Channels -> Channels]
  /\ Signs \in [Channels -> {-1, 1}]
  /\ 0 \in Rpms /\ Rpms \subseteq {-1, 0, 1}
ASSUME NoneAssumption ==
  None \notin Volts /\ None \notin Nat /\ None \notin [Channels -> Rpms]

VARIABLES
  phase,      \* "discovering", "running" or "stopped"
  BIGARM,     \* the kill latch: FALSE is killed
  armed,      \* what autonomy and the watchdog last asked for
  throttles,  \* per bus channel, the direction of the gain to send
  telemetry,  \* the last voltage each ESC reported, None before the first
  lowFor,     \* time since _undervoltage_since, None while the pack is fine
  wire,       \* the last ArmingStatus and RawCommand on the bus
  pack,       \* the battery
  alive,      \* the ESCs that still broadcast
  asked,      \* history: the thrust of the last accepted setpoint if that
              \* was armed, None otherwise
  sinceGood   \* history: time since a check last saw the pack fine

driver == <<phase, BIGARM, armed, throttles, telemetry, lowFor, wire>>
vars == <<phase, BIGARM, armed, throttles, telemetry, lowFor, wire,
          pack, alive, asked, sinceGood>>

-----------------------------------------------------------------------------
(* Messages and commands *)

Gains == [Channels -> {-1, 0, 1}]
NoThrust == [d \in Channels |-> 0]
Off == [status |-> 0, cmd |-> NoThrust]
Commands == [status : {0, 255}, cmd : Gains]

(* A setpoint message may also have the wrong number of entries. *)
ThrusterSetpoint ==
  [armed : BOOLEAN,
   thrust : [Channels -> Rpms] \cup [0 .. EscCount - 2 -> Rpms]]

(* rpm_to_gain keeps the demand's direction, or gives 0 when the inverted  *)
(* motor equation has no root within the gain bounds at this voltage.      *)
rpm_to_gain(rpm) == {0, rpm}

(* The gains that may come out for a setpoint, in bus order and direction. *)
RemapThrusts(thrust) ==
  {out \in Gains : \A d \in Channels :
     \E g \in rpm_to_gain(thrust[DronecanToGlobal[d]]) : out[d] = g * Signs[d]}

-----------------------------------------------------------------------------
(* Pack voltage *)

Reporting == {e \in Escs : telemetry[e] # None}

(* avg_esc_voltage() < limit, with both sides times the number of reports. *)
AvgBelow(limit) ==
  MapThenSumSet(LAMBDA e : telemetry[e], Reporting)
    < limit * Cardinality(Reporting)

StartupVoltageTrusting == ~AvgBelow(StartupMin)  \* trusts the 16 V default
StartupVoltageOk == Reporting # {} /\ ~AvgBelow(StartupMin)

(* What _check_undervoltage finds: it looks at all only if it has          *)
(* telemetry and is not killed yet.                                        *)
Checking == BIGARM /\ Reporting # {}
SeesLow == Checking /\ AvgBelow(Cutoff)
SeesGood == Checking /\ ~AvgBelow(Cutoff)
HeldTooLong == SeesLow /\ lowFor # None /\ lowFor >= Hold

-----------------------------------------------------------------------------
Init ==
  /\ phase = "discovering"
  /\ BIGARM \in BOOLEAN            \* parameter BIGARM
  /\ armed = FALSE
  /\ throttles = NoThrust
  /\ telemetry = [e \in Escs |-> None]
  /\ lowFor = None
  /\ wire = Off
  /\ pack \in Volts
  /\ alive = Escs
  /\ asked = None
  /\ sinceGood = 0

Arm == armed' = TRUE
DisarmShort == armed' = FALSE /\ throttles' = [d \in 0 .. EscCount - 2 |-> 0]
DisarmKeeps == armed' = FALSE /\ UNCHANGED throttles
Disarm == armed' = FALSE /\ throttles' = NoThrust

(* The constructor after the discovery loop: arm, or refuse for good. *)
FinishStartup ==
  /\ phase = "discovering"
  /\ phase' = "running"
  /\ \/ StartupVoltageOk /\ Arm /\ UNCHANGED <<BIGARM, throttles>>
     \/ ~StartupVoltageOk /\ BIGARM' = FALSE /\ Disarm
  /\ UNCHANGED <<telemetry, lowFor, wire, pack, alive, asked, sinceGood>>

(* _on_esc_status: ESC e's Status broadcast is handled.  One that is lost  *)
(* on the bus is one that never is.                                        *)
OnEscStatus(e) ==
  /\ phase # "stopped"
  /\ e \in alive
  /\ telemetry' = [telemetry EXCEPT ![e] = pack]
  /\ UNCHANGED <<phase, BIGARM, armed, throttles, lowFor, wire,
                 pack, alive, asked, sinceGood>>

WatchdogRevives(state) ==        \* with line 312 not commented out
  /\ phase = "running"
  /\ \/ state = "continue" /\ Arm /\ BIGARM' = TRUE /\ UNCHANGED throttles
     \/ state = "kill" /\ BIGARM' = FALSE /\ throttles' = NoThrust /\ UNCHANGED armed
  /\ UNCHANGED <<phase, telemetry, lowFor, wire, pack, alive, asked, sinceGood>>

(* _watchdog_callback: a state that is neither string changes nothing. *)
WatchdogCallback(state) ==
  /\ phase = "running"
  /\ \/ state = "continue" /\ Arm /\ UNCHANGED <<BIGARM, throttles>>
     \/ /\ state = "kill"
        /\ BIGARM' = FALSE
        /\ throttles' = NoThrust
        /\ UNCHANGED armed
  /\ UNCHANGED <<phase, telemetry, lowFor, wire, pack, alive, asked,
                 sinceGood>>

(* _thruster_callback: a setpoint of the wrong length is dropped. *)
ThrusterCallback(msg) ==
  /\ phase = "running"
  /\ DOMAIN msg.thrust = Channels
  /\ asked' = IF msg.armed THEN msg.thrust ELSE None
  /\ \/ (~msg.armed \/ ~BIGARM) /\ Disarm
     \/ /\ msg.armed /\ BIGARM
        /\ Arm
        /\ throttles' \in RemapThrusts(msg.thrust)
  /\ UNCHANGED <<phase, BIGARM, telemetry, lowFor, wire, pack, alive,
                 sinceGood>>

-----------------------------------------------------------------------------
(* The dip timer: set by the first low check, cleared by one that is not.  *)
DipTimerKept == IF SeesLow /\ lowFor = None THEN 0 ELSE lowFor
DipTimerRestarted == IF SeesGood THEN None ELSE IF SeesLow THEN 0 ELSE lowFor
DipTimer == IF SeesGood THEN None
            ELSE IF SeesLow /\ lowFor = None THEN 0 ELSE lowFor

(* _check_undervoltage, as the first half of a broadcast.  request and     *)
(* gains are armed and throttles at the time of the call.                  *)
CheckUndervoltage(request, gains) ==
  /\ lowFor' = DipTimer
  /\ BIGARM' = (BIGARM /\ ~HeldTooLong)
  /\ armed' = (request /\ ~HeldTooLong)
  /\ throttles' = IF HeldTooLong THEN NoThrust ELSE gains
  /\ sinceGood' = IF SeesGood THEN 0 ELSE sinceGood

SendAsArmed(request, gains) ==   \* the latch left out of `armed`
  /\ CheckUndervoltage(request, gains)
  /\ wire' = IF armed' THEN [status |-> 255, cmd |-> throttles'] ELSE Off

(* _send_commands reads the latch after the check above has run. *)
SendCommands(request, gains) ==
  /\ CheckUndervoltage(request, gains)
  /\ wire' = IF armed' /\ BIGARM' THEN [status |-> 255, cmd |-> throttles']
                                  ELSE Off

(* The 50 Hz command timer. *)
CommandTimer ==
  /\ phase = "running"
  /\ SendCommands(armed, throttles)
  /\ UNCHANGED <<phase, telemetry, pack, alive, asked>>

(* destroy_node: disarm, one last broadcast, close the bus. *)
DestroyNode ==
  /\ phase = "running"
  /\ phase' = "stopped"
  /\ SendCommands(FALSE, NoThrust)
  /\ UNCHANGED <<telemetry, pack, alive, asked>>

-----------------------------------------------------------------------------
(* The environment *)

(* The pack sags and recovers. *)
PackChanges ==
  /\ phase # "stopped"
  /\ pack' \in Volts \ {pack}
  /\ UNCHANGED <<driver, alive, asked, sinceGood>>

(* An ESC stops broadcasting. *)
EscFallsSilent(e) ==
  /\ phase # "stopped"
  /\ e \in alive
  /\ alive' = alive \ {e}
  /\ UNCHANGED <<driver, pack, asked, sinceGood>>

(* Time passes.  Both clocks are only compared with Hold and stop there. *)
Older(t) == IF t < Hold THEN t + 1 ELSE t

Tick ==
  /\ phase = "running"
  /\ lowFor' = IF lowFor = None THEN None ELSE Older(lowFor)
  /\ sinceGood' = Older(sinceGood)
  /\ UNCHANGED <<phase, BIGARM, armed, throttles, telemetry, wire, pack,
                 alive, asked>>

Next ==
  \/ FinishStartup
  \/ \E e \in Escs : OnEscStatus(e)
  \/ \E state \in {"continue", "kill"} : WatchdogCallback(state)
  \/ \E msg \in ThrusterSetpoint : ThrusterCallback(msg)
  \/ CommandTimer
  \/ DestroyNode
  \/ PackChanges
  \/ \E e \in Escs : EscFallsSilent(e)
  \/ Tick

Spec == Init /\ [][Next]_vars

(* The timers fire and time passes; an ESC that is alive is heard again    *)
(* and again.  Messages, kills, sags and shutdown may never come.          *)
Fairness ==
  /\ WF_vars(FinishStartup) /\ WF_vars(CommandTimer) /\ WF_vars(Tick)
  /\ \A e \in Escs : WF_vars(OnEscStatus(e))

FairSpec == Spec /\ Fairness

-----------------------------------------------------------------------------
(* Properties *)

TypeOK ==
  /\ phase \in {"discovering", "running", "stopped"}
  /\ BIGARM \in BOOLEAN
  /\ armed \in BOOLEAN
  /\ throttles \in Gains
  /\ telemetry \in [Escs -> Volts \cup {None}]
  /\ lowFor \in (0 .. Hold) \cup {None}
  /\ wire \in Commands
  /\ pack \in Volts
  /\ alive \subseteq Escs
  /\ asked \in [Channels -> Rpms] \cup {None}
  /\ sinceGood \in 0 .. Hold

(* A command carries out a setpoint: it pushes a channel, if at all, the   *)
(* way the setpoint asks of the thruster behind that channel.              *)
CarriesOut(gains, thrust) ==
  \A d \in Channels :
    gains[d] # 0 => gains[d] = Signs[d] * thrust[DronecanToGlobal[d]]

(* can_driver.py:252, 262, 322, 351 and 134: from the moment the latch     *)
(* trips, whoever tripped it, no broadcast is anything but off.            *)
Switch == INSTANCE KillSwitch WITH killed <- ~BIGARM, output <- wire
KillSwitchSpec == Switch!Spec

(* can_driver.py:309-336: the watchdog's "continue" arms without looking   *)
(* at what autonomy asked for, so this is the property that the order of   *)
(* the two callbacks must not break: a broadcast that moves a thruster     *)
(* carries out the latest accepted setpoint, and that setpoint is armed.   *)
MovesOnlyAsAsked ==
  [][wire' # wire /\ wire'.cmd # NoThrust =>
       asked # None /\ CarriesOut(wire'.cmd, asked)]_vars

(* can_driver.py:202-226: while it is not killed a running driver has      *)
(* heard an ESC, so the 16 V that avg_esc_voltage makes up for want of     *)
(* telemetry never scales a command nor hides a flat pack.                 *)
LiveOnlyWithTelemetry ==
  phase = "running" /\ BIGARM => Reporting # {}

(* can_driver.py:228-263: a dip shorter than the hold time never kills;    *)
(* when a broadcast trips the latch, no check has seen the pack fine for   *)
(* all of the hold time.                                                   *)
UndervoltageNeedsHold ==
  [][BIGARM /\ ~BIGARM' /\ phase = "running" /\ ~WatchdogCallback("kill")
       => sinceGood >= Hold]_vars

(* can_driver.py:338-356: a killed driver that keeps running does put the  *)
(* off command on the bus, and leaves it there.                            *)
KillReachesTheBus == ~BIGARM ~> [](wire = Off)

(* can_driver.py:229: if the pack stays below the cutoff and every ESC     *)
(* that has reported keeps reporting, the driver is killed or shut down.   *)
PackLow == pack < Cutoff
LowPackKills ==
  <>[](PackLow /\ Reporting \subseteq alive /\ phase = "running") => <>(~BIGARM)

(* can_driver.py:229, as the docstring has it: it is enough that one of    *)
(* the ESCs that have reported is still heard.                             *)
LowPackAlwaysKills ==
  <>[](PackLow /\ phase = "running" /\ Reporting \cap alive # {}) => <>(~BIGARM)

=============================================================================
