----------------------------- MODULE ServoDriver -----------------------------
(***************************************************************************)
(* tauv_servo's ServoDriver: it scans the CAN bus, sets each servo's       *)
(* position limits, makes it hold where it was found, and then runs tasks, *)
(* each a list of moves that are verified by reading the servo back.       *)
(*                                                                         *)
(* The node has one thread, so the driver is sequential; it shares the     *)
(* servos with the physical world, which moves between any two of its      *)
(* requests.  One request with its retries (hitec_servo.py, _Protocol) is  *)
(* one step: it is answered, or it is not, which the caller sees as None,  *)
(* or the bus itself fails, which raises out of the driver.                *)
(***************************************************************************)
EXTENDS Integers, Sequences, FiniteSetsExt

CONSTANTS
  Servos,     \* the servo IDs scanned, 1 .. scan_max_id
  MaxAngle,   \* angles are 0 .. MaxAngle, in units larger than the rounding
              \* of the 14-bit registers
  Tolerance,  \* parameter angle_tolerance
  Window,     \* config: the limits <<lo, hi>> each servo is to have
  PowerOn,    \* the limits each servo has after a power cycle
  Tasks,      \* config: the task lists, of <<servo, angle>> actions
  None

Angles == 0 .. MaxAngle
Limits == Angles \X Angles

ASSUME ServosAssumption == Servos \subseteq Nat /\ Servos # {}
ASSUME ConfigAssumption ==
  /\ MaxAngle \in Nat /\ Tolerance \in Nat
  /\ Window \in [Servos -> Limits] /\ PowerOn \in [Servos -> Limits]
  /\ Tasks \subseteq Seq(Servos \X Angles) /\ <<>> \notin Tasks
ASSUME NoneAssumption ==
  None \notin Angles /\ None \notin Limits /\ None \notin Servos

VARIABLES
  (* the servos *)
  position,   \* register POSITION
  target,     \* register POSITION_NEW, None while the motor is idle
  lims,       \* registers POS_MIN_LIMIT and POS_MAX_LIMIT
  (* the driver *)
  bus,        \* the CAN bus came up
  pc,         \* the request the driver makes next
  todo,       \* the servos found that are not set up yet
  acked,      \* set_limits: the writes so far were all answered
  found,      \* the position read before the hold
  cache,      \* _limits, None for a servo that is not a key of it
  task,       \* the actions of the running task, <<>> between tasks
  at,         \* the index of the one it is at
  ok,         \* no action before it has failed
  expired,    \* verify_timeout is over
  status,     \* the last status published for the last task, None before it
  (* histories *)
  cycled,     \* the servo lost power since the driver learnt its limits
  reached     \* the actions whose servo has been at the angle since the start

servos == <<position, target, lims>>
setup == <<todo, acked, found>>
vars == <<servos, bus, pc, setup, cache, task, at, ok, expired, status,
          cycled, reached>>

STATUS_FAILED == 0
STATUS_SUCCESS == 1
STATUS_RUNNING == 2

Dist(a, b) == IF a < b THEN b - a ELSE a - b
Near(a, b) == Dist(a, b) <= Tolerance
Inside(l, a) == l[1] <= a /\ a <= l[2]
Clamp(l, a) == IF a < l[1] THEN l[1] ELSE IF a > l[2] THEN l[2] ELSE a

sid == task[at][1]
angle == task[at][2]
current == Min(todo)

(* The actions of a task whose servo is at its angle. *)
AtAngle(actions, pos) ==
  {k \in DOMAIN actions : Near(pos[actions[k][1]], actions[k][2])}

Init ==
  /\ position \in [Servos -> Angles]
  /\ target = [s \in Servos |-> None]
  /\ lims = PowerOn
  /\ bus \in BOOLEAN
  /\ pc = IF bus THEN "scan" ELSE "idle"
  /\ todo = {}
  /\ acked = TRUE
  /\ found = None
  /\ cache = [s \in Servos |-> None]
  /\ task = <<>>
  /\ at = 1
  /\ ok = TRUE
  /\ expired = FALSE
  /\ status = None
  /\ cycled = [s \in Servos |-> FALSE]
  /\ reached = {}

-----------------------------------------------------------------------------
(* _init_servos *)

(* A servo that does not answer the scan is left alone. *)
Scan ==
  /\ pc = "scan"
  /\ todo' \in SUBSET Servos
  /\ pc' = IF todo' = {} THEN "idle" ELSE "setMin"
  /\ UNCHANGED <<servos, bus, acked, found, cache, task, at, ok, expired,
                 status, cycled, reached>>

(* A write of a limit register: done and answered, or not answered and     *)
(* done or not.                                                            *)
WriteLimits(new) ==
  \/ lims' = [lims EXCEPT ![current] = new] /\ acked' \in {acked, FALSE}
  \/ UNCHANGED lims /\ acked' = FALSE

SetMin ==
  /\ pc = "setMin"
  /\ WriteLimits(<<Window[current][1], lims[current][2]>>)
  /\ pc' \in {"setMax", "busFailed"}
  /\ cycled' = [cycled EXCEPT ![current] = FALSE]
  /\ UNCHANGED <<position, target, bus, todo, found, cache, task, at, ok,
                 expired, status, reached>>

SetMax ==
  /\ pc = "setMax"
  /\ WriteLimits(<<lims[current][1], Window[current][2]>>)
  /\ pc' \in {"setMid", "busFailed"}
  /\ UNCHANGED <<position, target, bus, todo, found, cache, task, at, ok,
                 expired, status, cycled, reached>>

(* The limits are cached only if the writes were all answered. *)
AnyAcked(last) == acked \/ last
AllAcked(last) == acked /\ last

SetMid ==
  /\ pc = "setMid"
  /\ \E last \in BOOLEAN :
       cache' = IF AllAcked(last)
                THEN [cache EXCEPT ![current] = Window[current]]
                ELSE cache
  /\ pc' = "find"
  /\ UNCHANGED <<servos, bus, setup, task, at, ok, expired, status, cycled,
                 reached>>

NextServo ==
  /\ todo' = todo \ {current}
  /\ acked' = TRUE
  /\ pc' = IF todo' = {} THEN "idle" ELSE "setMin"

(* servo.position(): a servo that does not answer, or that rests outside   *)
(* its window, is not made to hold.                                        *)
HoldsAnyway(read) == read = None \/ Inside(Window[current], read)
Holds(read) == read # None /\ Inside(Window[current], read)

FindPosition ==
  /\ pc = "find"
  /\ \E read \in {position[current], None} :
       \/ Holds(read) /\ found' = read /\ pc' = "hold" /\ UNCHANGED <<todo, acked>>
       \/ ~Holds(read) /\ NextServo /\ UNCHANGED found
  /\ UNCHANGED <<servos, bus, cache, task, at, ok, expired, status, cycled,
                 reached>>

(* servo.move(pos); info() and telemetry() change nothing. *)
Hold ==
  /\ pc = "hold"
  /\ target' \in {target, [target EXCEPT ![current] = found]}
  /\ NextServo \/ (pc' = "busFailed" /\ UNCHANGED <<todo, acked>>)
  /\ found' = None
  /\ UNCHANGED <<position, lims, bus, cache, task, at, ok, expired,
                 status, cycled, reached>>

-----------------------------------------------------------------------------
(* _run_task *)

RefuseTask ==      \* an empty or unknown name, or no bus
  /\ pc = "idle"
  /\ status' = STATUS_FAILED
  /\ UNCHANGED <<servos, bus, pc, setup, cache, task, at, ok, expired, cycled,
                 reached>>

TakeTask(actions) ==
  /\ pc = "idle"
  /\ bus
  /\ task' = actions
  /\ pc' = "look"
  /\ at' = 1
  /\ ok' = TRUE
  /\ status' = None
  /\ reached' = AtAngle(actions, position)
  /\ UNCHANGED <<servos, bus, setup, cache, expired, cycled>>

Finish(code) ==
  /\ status' = code
  /\ pc' = "idle"
  /\ task' = <<>>
  /\ at' = 1
  /\ ok' = TRUE
  /\ reached' = {}

(* The comprehension at line 341 reads every servo of the task, also after *)
(* one that is not at its angle; position() is None when there is no       *)
(* answer, and None - angle raises out of the callback and of spin().      *)
LookRaises ==
  /\ pc = "look"
  /\ pc' = "crashed"
  /\ UNCHANGED <<servos, bus, setup, cache, task, at, ok, expired, status,
                 cycled, reached>>

Look ==
  /\ pc = "look"
  /\ LET there == ok /\ Near(position[sid], angle) IN
       \/ /\ at < Len(task)
          /\ at' = at + 1 /\ ok' = there
          /\ UNCHANGED <<pc, task, status, reached>>
       \/ /\ at = Len(task) /\ there
          /\ Finish(STATUS_SUCCESS)
       \/ /\ at = Len(task) /\ ~there
          /\ status' = STATUS_RUNNING
          /\ pc' = "check" /\ at' = 1 /\ ok' = TRUE
          /\ UNCHANGED <<task, reached>>
  /\ UNCHANGED <<servos, bus, setup, cache, expired, cycled>>

(* The comprehension at line 349 runs every action, also after a failure. *)
OnlyThis(success) == success
AllSoFar(success) == ok /\ success

ActionDone(success) ==
  IF at < Len(task)
  THEN /\ at' = at + 1 /\ ok' = AllSoFar(success) /\ pc' = "check"
       /\ UNCHANGED <<task, status, reached>>
  ELSE Finish(IF AllSoFar(success) THEN STATUS_SUCCESS ELSE STATUS_FAILED)

(* _within_limits, with the slack of a tolerance on both sides. *)
NotAbove(l) == angle <= l[2] + Tolerance
Within(l) == l[1] - Tolerance <= angle /\ angle <= l[2] + Tolerance

Judge(l) ==
  IF Within(l) THEN pc' = "move" /\ UNCHANGED <<task, at, ok, status, reached>>
               ELSE ActionDone(FALSE)

CheckCached ==
  /\ pc = "check"
  /\ cache[sid] # None
  /\ Judge(cache[sid])
  /\ UNCHANGED <<servos, bus, setup, cache, expired, cycled>>

LearnLimits ==
  /\ pc = "check"
  /\ cache[sid] = None
  /\ cache' = [cache EXCEPT ![sid] = lims[sid]]
  /\ cycled' = [cycled EXCEPT ![sid] = FALSE]
  /\ Judge(lims[sid])
  /\ UNCHANGED <<servos, bus, setup, expired>>

SkipCheck ==       \* get_limits() is None: the move is made all the same
  /\ pc = "check"
  /\ cache[sid] = None
  /\ pc' = "move"
  /\ UNCHANGED <<servos, bus, setup, cache, task, at, ok, expired, status,
                 cycled, reached>>

(* servo.move(angle): a write that was done may still go unanswered. *)
MoveServo ==
  /\ pc = "move"
  /\ target' \in {target, [target EXCEPT ![sid] = angle]}
  /\ \/ /\ target'[sid] = angle
        /\ pc' = "verify" /\ expired' = FALSE
        /\ UNCHANGED <<task, at, ok, status, reached>>
     \/ ActionDone(FALSE) /\ UNCHANGED expired
     \/ pc' = "busFailed" /\ UNCHANGED <<task, at, ok, status, reached, expired>>
  /\ UNCHANGED <<position, lims, bus, setup, cache, cycled>>

(* _verify_angle: one turn of its loop.  A reading that is None or not     *)
(* near changes nothing, and the loop goes on.                             *)
Verify ==
  /\ pc = "verify"
  /\ ~expired
  /\ Near(position[sid], angle)
  /\ ActionDone(TRUE)
  /\ UNCHANGED <<servos, bus, setup, cache, expired, cycled>>

DeadlinePasses ==
  /\ pc = "verify"
  /\ ~expired
  /\ expired' = TRUE
  /\ UNCHANGED <<servos, bus, pc, setup, cache, task, at, ok, status, cycled,
                 reached>>

TryAgain ==        \* with the deadline set anew in every turn
  /\ pc = "verify"
  /\ expired
  /\ expired' = FALSE
  /\ UNCHANGED <<servos, bus, pc, setup, cache, task, at, ok, status, cycled,
                 reached>>

GiveUp ==
  /\ pc = "verify"
  /\ expired
  /\ ActionDone(FALSE)
  /\ UNCHANGED <<servos, bus, setup, cache, expired, cycled>>

(* A request that reads: bus.recv raises, outside the try of _Protocol,    *)
(* and nothing up to main catches it.  For the writes, see their actions.  *)
Reads ==
  \/ pc \in {"setMid", "find", "look"}
  \/ pc = "check" /\ cache[sid] = None
  \/ pc = "verify" /\ ~expired

BusFails ==
  /\ Reads
  /\ pc' = "busFailed"
  /\ UNCHANGED <<servos, bus, setup, cache, task, at, ok, expired, status,
                 cycled, reached>>

-----------------------------------------------------------------------------
(* The servos and the mechanisms on them *)

SensePosition(s, p) ==
  /\ position' = [position EXCEPT ![s] = p]
  /\ reached' = reached \cup AtAngle(task, position')
  /\ UNCHANGED <<target, lims, bus, pc, setup, cache, task, at, ok, expired,
                 status, cycled>>

(* A servo drives towards its target, but not past its limits. *)
Drive(s) ==
  /\ target[s] # None
  /\ LET goal == Clamp(lims[s], target[s]) IN
       \/ position[s] < goal /\ SensePosition(s, position[s] + 1)
       \/ position[s] > goal /\ SensePosition(s, position[s] - 1)

(* An idle servo gives way to the load. *)
Sag(s) ==
  /\ target[s] = None
  /\ \E p \in Angles : Dist(p, position[s]) = 1 /\ SensePosition(s, p)

(* A power cycle leaves the motor idle and the limits as they were saved. *)
PowerCycle(s) ==
  /\ target' = [target EXCEPT ![s] = None]
  /\ lims' = [lims EXCEPT ![s] = PowerOn[s]]
  /\ cycled' = [cycled EXCEPT ![s] = TRUE]
  /\ UNCHANGED <<position, bus, pc, setup, cache, task, at, ok, expired,
                 status, reached>>

Startup == Scan \/ SetMin \/ SetMax \/ SetMid \/ FindPosition \/ Hold
RunTask ==
  LookRaises \/ Look \/ CheckCached \/ LearnLimits \/ SkipCheck \/ MoveServo
    \/ Verify \/ DeadlinePasses \/ GiveUp

Next ==
  \/ Startup
  \/ RefuseTask
  \/ \E actions \in Tasks : TakeTask(actions)
  \/ RunTask
  \/ BusFails
  \/ \E s \in Servos : Drive(s) \/ Sag(s) \/ PowerCycle(s)

Spec == Init /\ [][Next]_vars

(* The driver's thread goes on and time passes.  Nothing is assumed of     *)
(* the servos, nor that a task is ever asked for.                          *)
Fairness == WF_vars(Startup) /\ WF_vars(RunTask)

FairSpec == Spec /\ Fairness

-----------------------------------------------------------------------------
(* Properties *)

TypeOK ==
  /\ position \in [Servos -> Angles]
  /\ target \in [Servos -> Angles \cup {None}]
  /\ lims \in [Servos -> Limits]
  /\ bus \in BOOLEAN
  /\ pc \in {"scan", "setMin", "setMax", "setMid", "find", "hold", "idle",
             "look", "check", "move", "verify", "crashed", "busFailed"}
  /\ todo \subseteq Servos
  /\ acked \in BOOLEAN
  /\ found \in Angles \cup {None}
  /\ (pc = "hold" => found # None)
  /\ cache \in [Servos -> Limits \cup {None}]
  /\ task \in Tasks \cup {<<>>}
  /\ IF task = <<>> THEN at = 1 ELSE at \in DOMAIN task
  /\ ok \in BOOLEAN
  /\ expired \in BOOLEAN
  /\ status \in {STATUS_FAILED, STATUS_SUCCESS, STATUS_RUNNING, None}
  /\ cycled \in [Servos -> BOOLEAN]
  /\ reached \subseteq DOMAIN task

(* servo_driver.py:341-355: a task succeeds only if every servo in it has  *)
(* been at the angle asked of it since the task was taken, whichever of    *)
(* its moves failed, timed out or was not needed.                          *)
Succeeds == task # <<>> /\ task' = <<>> /\ status' = STATUS_SUCCESS
SuccessMeansReached == [][Succeeds => DOMAIN task \subseteq reached]_vars

(* servo_driver.py:189, 378-386, hitec_servo.py:491: what _limits says of  *)
(* a servo is what the servo enforces, whichever of the writes of          *)
(* set_limits went unanswered, unless it lost power since.                 *)
LimitsAsInServo ==
  \A s \in Servos : (cache[s] # None /\ ~cycled[s]) => cache[s] = lims[s]

(* servo_driver.py:361: no task drives a servo to a limit instead of to    *)
(* the angle, beyond the tolerance, whichever writes and readings of its   *)
(* limits failed: if they were learnt, and it did not lose power since.    *)
NeverClamped ==
  [][MoveServo /\ target' # target /\ cache[sid] # None /\ ~cycled[sid]
       => Near(Clamp(lims[sid], angle), angle)]_vars

(* servo_driver.py:318-418: a task comes to an end, whatever the servos    *)
(* do, even if only by raising.                                            *)
TaskEnds == task # <<>> ~> task = <<>> \/ pc \in {"crashed", "busFailed"}

(* servo_driver.py:19: it ends with a status, as "no ack" is one of the    *)
(* reasons for a failed one, unless the bus itself fails.                  *)
TaskReported ==
  task # <<>> ~> \/ task = <<>> /\ status \in {STATUS_FAILED, STATUS_SUCCESS}
                 \/ pc = "busFailed"

(* servo_driver.py:9-10: a task succeeds when its servos have reached      *)
(* their angles, not when they pass them on the way to others.             *)
SuccessStays ==
  [][Succeeds =>
       \A k \in DOMAIN task :
         target[task[k][1]] # None => Near(target[task[k][1]], task[k][2])]_vars

=============================================================================
