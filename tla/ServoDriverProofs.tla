-------------------------- MODULE ServoDriverProofs --------------------------
(***************************************************************************)
(* The safety of the servo driver for any servos, limits, tolerance and    *)
(* tasks.                                                                  *)
(***************************************************************************)
EXTENDS ServoDriver, SequenceTheorems, WellFoundedInduction, TLAPS

Setting == {"setMin", "setMax", "setMid", "find", "hold"}
Working == {"look", "check", "move", "verify"}

(* Which variables are in use where.  A servo that is still to be set up   *)
(* has no entry in _limits.                                                *)
Phases ==
  /\ pc \in Setting => todo # {}
  /\ pc \in Working => task # <<>>
  /\ pc \in Setting \cup {"scan", "idle"} => task = <<>>
  /\ pc = "scan" => \A s \in Servos : cache[s] = None
  /\ pc \in {"setMin", "setMax", "setMid"} => \A s \in todo : cache[s] = None
  /\ pc \in {"find", "hold"} => \A s \in todo \ {current} : cache[s] = None

(* What set_limits has achieved if every write so far was answered.        *)
Written ==
  /\ pc = "setMax" /\ acked /\ ~cycled[current]
       => lims[current][1] = Window[current][1]
  /\ pc = "setMid" /\ acked /\ ~cycled[current]
       => lims[current] = Window[current]

(* A move that is about to be sent was found to be within the limits.      *)
Judged == (pc = "move" /\ cache[sid] # None) => Within(cache[sid])

(* The actions behind the current one were successful, if none failed.     *)
Progress ==
  /\ AtAngle(task, position) \subseteq reached
  /\ (pc \in Working /\ ok) => 1 .. at - 1 \subseteq reached

IInv ==
  TypeOK /\ LimitsAsInServo /\ Phases /\ Written /\ Judged /\ Progress

-----------------------------------------------------------------------------
(* Lemmas about the operators *)

LEMMA CurrentIsFound ==
  ASSUME todo \subseteq Servos, todo # {}
  PROVE  current \in todo
<1>1. todo \subseteq Nat
  BY ServosAssumption
<1>2. PICK x \in todo : \A y \in todo : ~(<<y, x>> \in OpToRel(<, Nat))
  BY <1>1, NatLessThanWellFounded, WFMin
<1>3. \A y \in todo : ~(y < x)
  BY <1>1, <1>2 DEF OpToRel
<1>4. \A y \in todo : x <= y
  BY <1>1, <1>3
<1>5. QED
  BY <1>4 DEF current, Min

LEMMA NoActionsNoneAtAngle == \A pos : AtAngle(<<>>, pos) = {}
BY DEF AtAngle

(* A target within the tolerance of the limits is hardly clamped.          *)
LEMMA SlackBoundsClamp ==
  ASSUME NEW l \in Limits, angle \in Angles, Within(l)
  PROVE  Near(Clamp(l, angle), angle)
<1>1. l[1] \in Int /\ l[2] \in Int /\ angle \in Int /\ Tolerance \in Nat
  BY ConfigAssumption DEF Limits, Angles
<1>2. l[1] - Tolerance <= angle /\ angle <= l[2] + Tolerance
  BY DEF Within
<1>3. CASE angle < l[1]
  <2>1. Clamp(l, angle) = l[1]
    BY <1>3 DEF Clamp
  <2>2. QED
    BY <1>1, <1>2, <1>3, <2>1 DEF Near, Dist
<1>4. CASE ~(angle < l[1]) /\ angle > l[2]
  <2>1. Clamp(l, angle) = l[2]
    BY <1>4 DEF Clamp
  <2>2. QED
    BY <1>1, <1>2, <1>4, <2>1 DEF Near, Dist
<1>5. CASE ~(angle < l[1]) /\ ~(angle > l[2])
  <2>1. Clamp(l, angle) = angle
    BY <1>5 DEF Clamp
  <2>2. QED
    BY <1>1, <2>1 DEF Near, Dist
<1>6. QED
  BY <1>3, <1>4, <1>5

(* What is known of the current action.                                    *)
LEMMA CurrentAction ==
  ASSUME TypeOK, task # <<>>
  PROVE  /\ task \in Seq(Servos \X Angles)
         /\ Len(task) \in Nat
         /\ at \in 1 .. Len(task)
         /\ DOMAIN task = 1 .. Len(task)
         /\ sid \in Servos /\ angle \in Angles
<1>1. task \in Seq(Servos \X Angles)
  BY ConfigAssumption DEF TypeOK
<1>2. at \in DOMAIN task /\ DOMAIN task = 1 .. Len(task) /\ Len(task) \in Nat
  <2>1. at \in DOMAIN task
    BY DEF TypeOK
  <2>2. DOMAIN task = 1 .. Len(task) /\ Len(task) \in Nat
    BY <1>1, LenProperties
  <2>3. QED
    BY <2>1, <2>2
<1>3. task[at] \in Servos \X Angles
  BY <1>1, <1>2
<1>4. QED
  BY <1>1, <1>2, <1>3 DEF sid, angle

-----------------------------------------------------------------------------
LEMMA InitInv == Init => IInv
<1>1. SUFFICES ASSUME Init PROVE IInv
  OBVIOUS
<1>2. TypeOK
  BY <1>1, ConfigAssumption, NoneAssumption DEF Init, TypeOK, STATUS_FAILED,
     STATUS_SUCCESS, STATUS_RUNNING
<1>3. LimitsAsInServo /\ Phases /\ Written /\ Judged
  BY <1>1 DEF Init, LimitsAsInServo, Phases, Written, Judged, Setting, Working
<1>4. Progress
  BY <1>1, NoActionsNoneAtAngle DEF Init, Progress, Working
<1>5. QED
  BY <1>2, <1>3, <1>4 DEF IInv

-----------------------------------------------------------------------------
(* Startup *)

LEMMA ScanStep == IInv /\ Scan => IInv'
<1>1. SUFFICES ASSUME IInv, Scan PROVE IInv'
  OBVIOUS
<1>2. TypeOK'
  BY <1>1 DEF IInv, TypeOK, Scan, servos
<1>3. LimitsAsInServo' /\ Phases' /\ Written' /\ Judged'
  BY <1>1 DEF IInv, TypeOK, LimitsAsInServo, Phases, Written, Judged, Setting,
     Working, Scan, servos
<1>4. Progress'
  BY <1>1 DEF IInv, Progress, Working, Scan, servos, AtAngle
<1>5. QED
  BY <1>2, <1>3, <1>4 DEF IInv

(* A write of new limits to the servo being set up, by whichever register. *)
LEMMA WriteTypes ==
  ASSUME TypeOK, Phases, pc \in Setting, NEW new \in Limits, WriteLimits(new)
  PROVE  /\ current \in todo /\ current \in Servos
         /\ lims' \in [Servos -> Limits] /\ acked' \in BOOLEAN
         /\ \A s \in Servos \ {current} : lims'[s] = lims[s]
         /\ acked' => acked /\ lims'[current] = new
<1>1. current \in todo /\ current \in Servos
  BY CurrentIsFound DEF TypeOK, Phases
<1>2. lims' \in [Servos -> Limits] /\ acked' \in BOOLEAN
  BY DEF TypeOK, WriteLimits
<1>3. \A s \in Servos \ {current} : lims'[s] = lims[s]
  BY DEF TypeOK, WriteLimits
<1>4. acked' => acked /\ lims'[current] = new
  BY <1>1 DEF TypeOK, WriteLimits
<1>5. QED
  BY <1>1, <1>2, <1>3, <1>4

LEMMA SetMinStep == IInv /\ SetMin => IInv'
<1>1. SUFFICES ASSUME IInv, SetMin PROVE IInv'
  OBVIOUS
<1> DEFINE new == <<Window[current][1], lims[current][2]>>
<1>2. current \in Servos
  BY <1>1, CurrentIsFound DEF IInv, TypeOK, Phases, Setting, SetMin
<1>3. new \in Limits
  BY <1>1, <1>2, ConfigAssumption DEF IInv, TypeOK, Limits
<1>4. /\ current \in todo
      /\ lims' \in [Servos -> Limits] /\ acked' \in BOOLEAN
      /\ \A s \in Servos \ {current} : lims'[s] = lims[s]
      /\ acked' => lims'[current] = new
  BY <1>1, <1>3, WriteTypes DEF IInv, Setting, SetMin
<1>5. current' = current
  BY <1>1 DEF SetMin, current
<1>6. TypeOK'
  BY <1>1, <1>4 DEF IInv, TypeOK, SetMin
<1>7. LimitsAsInServo'
  BY <1>1, <1>2, <1>4 DEF IInv, TypeOK, LimitsAsInServo, Phases, SetMin
<1>8. Phases' /\ Judged'
  BY <1>1 DEF IInv, Phases, Judged, Setting, Working, SetMin
<1>9. Written'
  <2>1. acked' => lims'[current][1] = Window[current][1]
    BY <1>4
  <2>2. pc' \in {"setMax", "busFailed"}
    BY <1>1 DEF SetMin
  <2>3. QED
    BY <1>5, <2>1, <2>2 DEF Written
<1>10. Progress'
  BY <1>1 DEF IInv, Progress, Working, SetMin, AtAngle
<1>11. QED
  BY <1>6, <1>7, <1>8, <1>9, <1>10 DEF IInv

LEMMA SetMaxStep == IInv /\ SetMax => IInv'
<1>1. SUFFICES ASSUME IInv, SetMax PROVE IInv'
  OBVIOUS
<1> DEFINE new == <<lims[current][1], Window[current][2]>>
<1>2. current \in Servos
  BY <1>1, CurrentIsFound DEF IInv, TypeOK, Phases, Setting, SetMax
<1>3. new \in Limits
  BY <1>1, <1>2, ConfigAssumption DEF IInv, TypeOK, Limits
<1>4. /\ current \in todo
      /\ lims' \in [Servos -> Limits] /\ acked' \in BOOLEAN
      /\ \A s \in Servos \ {current} : lims'[s] = lims[s]
      /\ acked' => acked /\ lims'[current] = new
  BY <1>1, <1>3, WriteTypes DEF IInv, Setting, SetMax
<1>5. current' = current
  BY <1>1 DEF SetMax, current
<1>6. TypeOK'
  BY <1>1, <1>4 DEF IInv, TypeOK, SetMax
<1>7. LimitsAsInServo'
  BY <1>1, <1>2, <1>4 DEF IInv, TypeOK, LimitsAsInServo, Phases, SetMax
<1>8. Phases' /\ Judged'
  BY <1>1 DEF IInv, Phases, Judged, Setting, Working, SetMax
<1>9. Written'
  <2>1. Window[current] = <<Window[current][1], Window[current][2]>>
    BY <1>2, ConfigAssumption DEF Limits
  <2>2. acked' /\ ~cycled'[current] => lims'[current] = Window[current]
    BY <1>1, <1>4, <2>1 DEF IInv, Written, SetMax
  <2>3. QED
    BY <1>1, <1>5, <2>2 DEF Written, SetMax
<1>10. Progress'
  BY <1>1 DEF IInv, Progress, Working, SetMax, AtAngle
<1>11. QED
  BY <1>6, <1>7, <1>8, <1>9, <1>10 DEF IInv

LEMMA SetMidStep == IInv /\ SetMid => IInv'
<1>1. SUFFICES ASSUME IInv, SetMid PROVE IInv'
  OBVIOUS
<1>2. current \in todo /\ current \in Servos /\ current' = current
  BY <1>1, CurrentIsFound
     DEF IInv, TypeOK, Phases, Setting, SetMid, setup, current
<1>3. PICK last \in BOOLEAN :
        cache' = IF AllAcked(last)
                 THEN [cache EXCEPT ![current] = Window[current]]
                 ELSE cache
  BY <1>1 DEF SetMid
<1>4. /\ cache' \in [Servos -> Limits \cup {None}]
      /\ \A s \in Servos \ {current} : cache'[s] = cache[s]
  BY <1>1, <1>2, <1>3, ConfigAssumption DEF IInv, TypeOK
<1>5. TypeOK'
  BY <1>1, <1>4 DEF IInv, TypeOK, SetMid, servos, setup
<1>6. LimitsAsInServo'
  <2>1. CASE AllAcked(last)
    <3>1. acked /\ cache'[current] = Window[current]
      BY <1>1, <1>2, <1>3, <2>1 DEF AllAcked, IInv, TypeOK
    <3>2. ~cycled[current] => lims[current] = Window[current]
      BY <1>1, <3>1 DEF IInv, Written, SetMid
    <3>3. QED
      BY <1>1, <1>4, <3>1, <3>2 DEF IInv, LimitsAsInServo, SetMid, servos
  <2>2. CASE ~AllAcked(last)
    BY <1>1, <1>3, <2>2 DEF IInv, LimitsAsInServo, SetMid, servos
  <2>3. QED
    BY <2>1, <2>2
<1>7. Phases'
  <2>1. \A s \in todo \ {current} : cache'[s] = None
    BY <1>1, <1>4 DEF IInv, TypeOK, Phases, SetMid
  <2>2. QED
    BY <1>1, <1>2, <2>1 DEF IInv, Phases, Setting, Working, SetMid, setup
<1>8. Written' /\ Judged' /\ Progress'
  BY <1>1 DEF IInv, Written, Judged, Progress, Working, SetMid, servos, AtAngle
<1>9. QED
  BY <1>5, <1>6, <1>7, <1>8 DEF IInv

(* The step to the next servo, or to the end of the startup.               *)
LEMMA NextServoPhases ==
  ASSUME TypeOK, Phases, pc \in {"find", "hold"}, NextServo,
         UNCHANGED <<cache, task>>
  PROVE  /\ Phases' /\ Written' /\ Judged'
         /\ todo' \subseteq Servos /\ acked' \in BOOLEAN
         /\ pc' \in {"idle", "setMin"}
<1>1. \A s \in todo' : cache'[s] = None
  BY DEF Phases, NextServo
<1>2. task' = <<>>
  BY DEF Phases, Setting
<1>3. (pc' = "idle" /\ todo' = {}) \/ (pc' = "setMin" /\ todo' # {})
  BY DEF NextServo
<1>4. Phases'
  BY <1>1, <1>2, <1>3 DEF Phases, Setting, Working
<1>5. Written' /\ Judged'
  BY <1>3 DEF Written, Judged
<1>6. QED
  BY <1>3, <1>4, <1>5 DEF NextServo, TypeOK

LEMMA FindPositionStep == IInv /\ FindPosition => IInv'
<1>1. SUFFICES ASSUME IInv, FindPosition PROVE IInv'
  OBVIOUS
<1>2. current \in Servos
  BY <1>1, CurrentIsFound DEF IInv, TypeOK, Phases, Setting, FindPosition
<1>3. LimitsAsInServo' /\ Progress'
  <2>1. pc' \notin Working
    BY <1>1 DEF FindPosition, NextServo, Working
  <2>2. QED
    BY <1>1, <2>1 DEF IInv, LimitsAsInServo, Progress, FindPosition, servos,
       AtAngle
<1>4. PICK read \in {position[current], None} :
        \/ Holds(read) /\ found' = read /\ pc' = "hold" /\ UNCHANGED <<todo, acked>>
        \/ ~Holds(read) /\ NextServo /\ UNCHANGED found
  BY <1>1 DEF FindPosition
<1>5. CASE Holds(read) /\ found' = read /\ pc' = "hold" /\ UNCHANGED <<todo, acked>>
  <2>1. found' \in Angles /\ found' # None
    <3>1. read # None
      BY <1>5 DEF Holds
    <3>2. position[current] \in Angles
      BY <1>1, <1>2 DEF IInv, TypeOK
    <3>3. QED
      BY <1>4, <1>5, <3>1, <3>2
  <2>2. TypeOK'
    BY <1>1, <1>5, <2>1 DEF IInv, TypeOK, FindPosition, servos
  <2>3. Phases' /\ Written' /\ Judged'
    BY <1>1, <1>5 DEF IInv, Phases, Written, Judged, Setting, Working,
       FindPosition, current
  <2>4. QED
    BY <1>3, <2>2, <2>3 DEF IInv
<1>6. CASE ~Holds(read) /\ NextServo /\ UNCHANGED found
  <2>1. /\ Phases' /\ Written' /\ Judged'
        /\ todo' \subseteq Servos /\ acked' \in BOOLEAN
        /\ pc' \in {"idle", "setMin"}
    BY <1>1, <1>6, NextServoPhases DEF IInv, FindPosition
  <2>2. TypeOK'
    BY <1>1, <1>6, <2>1 DEF IInv, TypeOK, FindPosition, servos
  <2>3. QED
    BY <1>3, <2>1, <2>2 DEF IInv
<1>7. QED
  BY <1>4, <1>5, <1>6

LEMMA HoldStep == IInv /\ Hold => IInv'
<1>1. SUFFICES ASSUME IInv, Hold PROVE IInv'
  OBVIOUS
<1>2. current \in Servos
  BY <1>1, CurrentIsFound DEF IInv, TypeOK, Phases, Setting, Hold
<1>3. target' \in [Servos -> Angles \cup {None}]
  BY <1>1, <1>2 DEF IInv, TypeOK, Hold
<1>4. /\ Phases' /\ Written' /\ Judged'
      /\ todo' \subseteq Servos /\ acked' \in BOOLEAN
      /\ pc' \in {"idle", "setMin", "busFailed"}
  <2>1. CASE NextServo
    BY <1>1, <2>1, NextServoPhases DEF IInv, Hold
  <2>2. CASE pc' = "busFailed" /\ UNCHANGED <<todo, acked>>
    BY <1>1, <2>2 DEF IInv, TypeOK, Phases, Written, Judged, Setting, Working, Hold
  <2>3. QED
    BY <1>1, <2>1, <2>2 DEF Hold
<1>5. TypeOK'
  BY <1>1, <1>3, <1>4 DEF IInv, TypeOK, Hold
<1>6. LimitsAsInServo'
  BY <1>1 DEF IInv, LimitsAsInServo, Hold
<1>7. Progress'
  BY <1>1, <1>4 DEF IInv, Progress, Working, Hold, AtAngle
<1>8. QED
  BY <1>4, <1>5, <1>6, <1>7 DEF IInv

-----------------------------------------------------------------------------
(* Tasks *)

LEMMA RefuseTaskStep == IInv /\ RefuseTask => IInv'
<1>1. SUFFICES ASSUME IInv, RefuseTask PROVE IInv'
  OBVIOUS
<1>2. TypeOK'
  BY <1>1 DEF IInv, TypeOK, RefuseTask, servos, setup
<1>3. LimitsAsInServo' /\ Phases' /\ Written' /\ Judged'
  BY <1>1 DEF IInv, LimitsAsInServo, Phases, Written, Judged, Setting, Working,
     RefuseTask, servos, setup
<1>4. Progress'
  BY <1>1 DEF IInv, Progress, Working, RefuseTask, servos, AtAngle
<1>5. QED
  BY <1>2, <1>3, <1>4 DEF IInv

LEMMA TakeTaskStep ==
  ASSUME IInv, NEW actions \in Tasks, TakeTask(actions)
  PROVE  IInv'
<1>1. /\ actions \in Seq(Servos \X Angles) /\ actions # <<>>
      /\ DOMAIN actions = 1 .. Len(actions) /\ 1 \in DOMAIN actions
  <2>1. actions \in Seq(Servos \X Angles) /\ actions # <<>>
    BY ConfigAssumption
  <2>2. QED
    BY <2>1, LenProperties, EmptySeq
<1>2. TypeOK'
  <2>1. reached' \subseteq DOMAIN task'
    BY DEF TakeTask, AtAngle
  <2>2. task' # <<>> /\ at' \in DOMAIN task' /\ task' \in Tasks
    BY <1>1 DEF TakeTask
  <2>3. QED
    BY <2>1, <2>2 DEF IInv, TypeOK, TakeTask, servos, setup
<1>3. LimitsAsInServo' /\ Written' /\ Judged'
  BY DEF IInv, LimitsAsInServo, Written, Judged, TakeTask, servos
<1>4. Phases'
  BY <1>1 DEF Phases, Setting, Working, TakeTask
<1>5. Progress'
  <2>1. 1 .. at' - 1 = {}
    BY DEF TakeTask
  <2>2. QED
    BY <2>1 DEF Progress, TakeTask, servos, AtAngle
<1>6. QED
  BY <1>2, <1>3, <1>4, <1>5 DEF IInv

(* The end of an action, as the last step of one of the task's requests.   *)
LEMMA ActionDoneKeeps ==
  ASSUME IInv, pc \in Working, NEW success \in BOOLEAN, ActionDone(success),
         success => at \in reached
  PROVE  /\ pc' \in {"check", "idle"}
         /\ task' \in Tasks \cup {<<>>}
         /\ IF task' = <<>> THEN at' = 1 ELSE at' \in DOMAIN task'
         /\ ok' \in BOOLEAN
         /\ status' \in {STATUS_FAILED, STATUS_SUCCESS, STATUS_RUNNING, None}
         /\ reached' \subseteq DOMAIN task'
         /\ pc' = "check" => task' = task /\ task' # <<>> /\ reached' = reached
         /\ pc' = "idle" => task' = <<>>
         /\ (pc' = "check" /\ ok') => 1 .. at' - 1 \subseteq reached'
         /\ Succeeds => DOMAIN task \subseteq reached
<1>1. /\ task # <<>> /\ Len(task) \in Nat /\ at \in 1 .. Len(task)
      /\ DOMAIN task = 1 .. Len(task) /\ task \in Tasks
  BY CurrentAction DEF IInv, TypeOK, Phases
<1>2. /\ ok \in BOOLEAN /\ reached \subseteq DOMAIN task
      /\ status \in {STATUS_FAILED, STATUS_SUCCESS, STATUS_RUNNING, None}
  BY DEF IInv, TypeOK
<1>3. AllSoFar(success) => 1 .. at \subseteq reached
  <2>1. SUFFICES ASSUME AllSoFar(success) PROVE 1 .. at \subseteq reached
    OBVIOUS
  <2>2. ok /\ success
    BY <2>1 DEF AllSoFar
  <2>3. 1 .. at - 1 \subseteq reached /\ at \in reached
    BY <2>2 DEF IInv, Progress
  <2>4. \A k \in 1 .. at : k \in 1 .. at - 1 \/ k = at
    BY <1>1
  <2>5. QED
    BY <2>3, <2>4
<1>4. CASE at < Len(task)
  <2>1. /\ at' = at + 1 /\ ok' = AllSoFar(success) /\ pc' = "check"
        /\ task' = task /\ status' = status /\ reached' = reached
    BY <1>4 DEF ActionDone
  <2>2. at' \in DOMAIN task' /\ at' - 1 = at
    BY <1>1, <1>4, <2>1
  <2>3. ok' \in BOOLEAN
    BY <1>2, <2>1 DEF AllSoFar
  <2>4. ok' => 1 .. at' - 1 \subseteq reached'
    BY <1>3, <2>1, <2>2
  <2>5. ~Succeeds
    BY <1>1, <2>1 DEF Succeeds
  <2>6. QED
    BY <1>1, <1>2, <2>1, <2>2, <2>3, <2>4, <2>5
<1>5. CASE ~(at < Len(task))
  <2>1. Finish(IF AllSoFar(success) THEN STATUS_SUCCESS ELSE STATUS_FAILED)
    BY <1>5 DEF ActionDone
  <2>2. Succeeds => AllSoFar(success)
    BY <2>1 DEF Succeeds, Finish, STATUS_SUCCESS, STATUS_FAILED
  <2>3. at = Len(task)
    <3>1. at \in Int /\ Len(task) \in Int /\ at <= Len(task)
      BY <1>1
    <3>2. QED
      BY <1>5, <3>1
  <2>4. Succeeds => DOMAIN task \subseteq reached
    BY <1>1, <1>3, <2>2, <2>3
  <2>5. QED
    BY <2>1, <2>4 DEF Finish
<1>6. QED
  BY <1>4, <1>5

(* What an action of a task that leaves servos, limits and phase of the    *)
(* startup alone has to show for the rest of the invariant.                *)
LEMMA TaskStepKeeps ==
  ASSUME IInv, pc \in Working, UNCHANGED <<position, lims, bus, todo, found, acked>>,
         pc' \in {"check", "move", "verify", "idle"},
         task' \in Tasks \cup {<<>>},
         IF task' = <<>> THEN at' = 1 ELSE at' \in DOMAIN task',
         reached' \subseteq DOMAIN task',
         pc' # "idle" => task' = task /\ task' # <<>> /\ reached' = reached,
         pc' = "idle" => task' = <<>>
  PROVE  /\ Phases' /\ Written'
         /\ AtAngle(task', position') \subseteq reached'
<1>1. Phases'
  BY DEF Phases, Setting, Working
<1>2. Written'
  BY DEF Written
<1>3. AtAngle(task', position') \subseteq reached'
  BY NoActionsNoneAtAngle DEF IInv, Progress
<1>4. QED
  BY <1>1, <1>2, <1>3

(* A verdict on limits the driver knows.                                   *)
LEMMA JudgeKeeps ==
  ASSUME IInv, pc = "check", NEW l \in Limits, Judge(l),
         UNCHANGED <<servos, bus, setup, expired>>,
         cache' \in [Servos -> Limits \cup {None}], cache'[sid] = l,
         cycled' \in [Servos -> BOOLEAN], LimitsAsInServo'
  PROVE  IInv' /\ ~Succeeds
<1>1. CASE Within(l)
  <2>1. pc' = "move" /\ UNCHANGED <<task, at, ok, status, reached>>
    BY <1>1 DEF Judge
  <2>2. TypeOK'
    BY <2>1 DEF IInv, TypeOK, servos, setup
  <2>3. Phases' /\ Written'
    BY <2>1 DEF IInv, Phases, Written, Setting, Working
  <2>4. Judged'
    BY <1>1, <2>1 DEF Judged, Within, sid, angle
  <2>5. Progress'
    BY <2>1 DEF IInv, Progress, Working, servos, AtAngle
  <2>6. ~Succeeds
    BY <2>1 DEF Succeeds
  <2>7. QED
    BY <2>2, <2>3, <2>4, <2>5, <2>6 DEF IInv
<1>2. CASE ~Within(l)
  <2>1. ActionDone(FALSE)
    BY <1>2 DEF Judge
  <2>2. pc \in Working
    BY DEF Working
  <2>3. /\ pc' \in {"check", "idle"}
        /\ task' \in Tasks \cup {<<>>}
        /\ IF task' = <<>> THEN at' = 1 ELSE at' \in DOMAIN task'
        /\ ok' \in BOOLEAN
        /\ status' \in {STATUS_FAILED, STATUS_SUCCESS, STATUS_RUNNING, None}
        /\ reached' \subseteq DOMAIN task'
        /\ pc' = "check" => task' = task /\ task' # <<>> /\ reached' = reached
        /\ pc' = "idle" => task' = <<>>
        /\ (pc' = "check" /\ ok') => 1 .. at' - 1 \subseteq reached'
    BY <2>1, <2>2, ActionDoneKeeps
  <2>4. Phases' /\ Written' /\ AtAngle(task', position') \subseteq reached'
    BY <2>2, <2>3, TaskStepKeeps DEF servos, setup
  <2>5. TypeOK'
    BY <2>3 DEF IInv, TypeOK, servos, setup
  <2>6. Judged' /\ Progress'
    BY <2>3, <2>4 DEF Judged, Progress, Working
  <2>7. ~Succeeds
    BY <2>1, ConfigAssumption
       DEF Succeeds, ActionDone, AllSoFar, Finish, STATUS_FAILED, STATUS_SUCCESS
  <2>8. QED
    BY <2>4, <2>5, <2>6, <2>7 DEF IInv
<1>3. QED
  BY <1>1, <1>2

(* In a task step every conjunct of the invariant is kept, and a task that *)
(* succeeds in it has reached all its angles.                              *)
Earned == Succeeds => DOMAIN task \subseteq reached

LEMMA LookStep == IInv /\ Look => IInv' /\ Earned
<1>1. SUFFICES ASSUME IInv, Look PROVE IInv' /\ Earned
  OBVIOUS
<1>2. /\ task # <<>> /\ pc \in Working
      /\ Len(task) \in Nat /\ at \in 1 .. Len(task) /\ DOMAIN task = 1 .. Len(task)
      /\ task \in Tasks /\ sid \in Servos
  BY <1>1, CurrentAction DEF IInv, TypeOK, Phases, Working, Look
<1> DEFINE there == ok /\ Near(position[sid], angle)
<1>3. there => 1 .. at \subseteq reached
  <2>1. SUFFICES ASSUME there PROVE 1 .. at \subseteq reached
    OBVIOUS
  <2>2. at \in AtAngle(task, position)
    BY <1>2, <2>1 DEF AtAngle, sid, angle
  <2>3. at \in reached /\ 1 .. at - 1 \subseteq reached
    BY <1>1, <1>2, <2>1, <2>2 DEF IInv, Progress
  <2>4. \A k \in 1 .. at : k \in 1 .. at - 1 \/ k = at
    BY <1>2
  <2>5. QED
    BY <2>3, <2>4
<1>4. there \in BOOLEAN
  BY <1>1 DEF IInv, TypeOK
<1>5. LimitsAsInServo'
  BY <1>1 DEF IInv, LimitsAsInServo, Look, servos
<1>6. CASE /\ at < Len(task)
           /\ at' = at + 1 /\ ok' = there
           /\ UNCHANGED <<pc, task, status, reached>>
  <2>1. at' \in DOMAIN task /\ at' - 1 = at
    BY <1>2, <1>6
  <2>2. TypeOK'
    <3>1. ok' \in BOOLEAN
      BY <1>4, <1>6
    <3>2. QED
      BY <1>1, <1>2, <1>6, <2>1, <3>1 DEF IInv, TypeOK, Look, servos, setup
  <2>3. Phases' /\ Written' /\ Judged'
    BY <1>1, <1>6 DEF IInv, Phases, Written, Judged, Setting, Working, Look,
       servos, setup
  <2>4. Progress'
    <3>1. ok' => 1 .. at' - 1 \subseteq reached'
      BY <1>3, <1>6, <2>1
    <3>2. QED
      BY <1>1, <1>6, <3>1 DEF IInv, Progress, Look, servos, AtAngle
  <2>5. Earned
    BY <1>2, <1>6 DEF Earned, Succeeds
  <2>6. QED
    BY <1>5, <2>2, <2>3, <2>4, <2>5 DEF IInv
<1>7. CASE at = Len(task) /\ there /\ Finish(STATUS_SUCCESS)
  <2>1. TypeOK'
    BY <1>1, <1>7 DEF IInv, TypeOK, Look, Finish, servos, setup
  <2>2. Phases' /\ Written' /\ Judged'
    BY <1>1, <1>7 DEF IInv, Phases, Written, Judged, Setting, Working, Look,
       Finish, servos, setup
  <2>3. Progress'
    BY <1>7, NoActionsNoneAtAngle DEF Progress, Finish, Working
  <2>4. Earned
    BY <1>2, <1>3, <1>7 DEF Earned
  <2>5. QED
    BY <1>5, <2>1, <2>2, <2>3, <2>4 DEF IInv
<1>8. CASE /\ at = Len(task) /\ ~there
           /\ status' = STATUS_RUNNING
           /\ pc' = "check" /\ at' = 1 /\ ok' = TRUE
           /\ UNCHANGED <<task, reached>>
  <2>1. at' \in DOMAIN task /\ 1 .. at' - 1 = {}
    BY <1>2, <1>8
  <2>2. TypeOK'
    BY <1>1, <1>2, <1>8, <2>1 DEF IInv, TypeOK, Look, servos, setup
  <2>3. Phases' /\ Written' /\ Judged'
    BY <1>1, <1>8 DEF IInv, Phases, Written, Judged, Setting, Working, Look,
       servos, setup
  <2>4. Progress'
    BY <1>1, <1>8, <2>1 DEF IInv, Progress, Look, servos, AtAngle
  <2>5. Earned
    BY <1>2, <1>8 DEF Earned, Succeeds
  <2>6. QED
    BY <1>5, <2>2, <2>3, <2>4, <2>5 DEF IInv
<1>9. QED
  BY <1>1, <1>6, <1>7, <1>8 DEF Look

LEMMA CheckStep ==
  IInv /\ (CheckCached \/ LearnLimits \/ SkipCheck) => IInv' /\ Earned
<1>1. SUFFICES ASSUME IInv, CheckCached \/ LearnLimits \/ SkipCheck
               PROVE  IInv' /\ Earned
  OBVIOUS
<1>2. pc = "check" /\ sid \in Servos
  BY <1>1, CurrentAction
     DEF IInv, Phases, Working, CheckCached, LearnLimits, SkipCheck
<1>3. CASE CheckCached
  <2>1. cache[sid] \in Limits /\ cache' = cache
    BY <1>1, <1>2, <1>3 DEF IInv, TypeOK, CheckCached
  <2>2. LimitsAsInServo'
    BY <1>1, <1>3 DEF IInv, LimitsAsInServo, CheckCached, servos
  <2>3. cache' \in [Servos -> Limits \cup {None}] /\ cycled' \in [Servos -> BOOLEAN]
    BY <1>1, <1>3 DEF IInv, TypeOK, CheckCached
  <2>4. IInv' /\ ~Succeeds
    BY <1>1, <1>2, <1>3, <2>1, <2>2, <2>3, JudgeKeeps DEF CheckCached
  <2>5. QED
    BY <2>4 DEF Earned
<1>4. CASE LearnLimits
  <2>1. lims[sid] \in Limits
    BY <1>1, <1>2 DEF IInv, TypeOK
  <2>2. /\ cache' \in [Servos -> Limits \cup {None}] /\ cache'[sid] = lims[sid]
        /\ cycled' \in [Servos -> BOOLEAN]
        /\ \A s \in Servos \ {sid} : cache'[s] = cache[s] /\ cycled'[s] = cycled[s]
    BY <1>1, <1>2, <1>4, <2>1 DEF IInv, TypeOK, LearnLimits
  <2>3. LimitsAsInServo'
    BY <1>1, <1>2, <1>4, <2>2 DEF IInv, LimitsAsInServo, LearnLimits, servos
  <2>4. IInv' /\ ~Succeeds
    BY <1>1, <1>2, <1>4, <2>1, <2>2, <2>3, JudgeKeeps DEF LearnLimits
  <2>5. QED
    BY <2>4 DEF Earned
<1>5. CASE SkipCheck
  <2>1. TypeOK' /\ LimitsAsInServo' /\ Phases' /\ Written'
    BY <1>1, <1>5 DEF IInv, TypeOK, LimitsAsInServo, Phases, Written, Setting,
       Working, SkipCheck, servos, setup
  <2>2. Judged'
    BY <1>5 DEF Judged, SkipCheck, sid
  <2>3. Progress'
    BY <1>1, <1>5 DEF IInv, Progress, Working, SkipCheck, servos, AtAngle
  <2>4. Earned
    BY <1>1, <1>5 DEF Earned, Succeeds, SkipCheck
  <2>5. QED
    BY <2>1, <2>2, <2>3, <2>4 DEF IInv
<1>6. QED
  BY <1>1, <1>3, <1>4, <1>5

(* The end of an action that was at its move or at its verification.       *)
LEMMA EndOfAction ==
  ASSUME IInv, pc \in {"move", "verify"}, NEW success \in BOOLEAN,
         ActionDone(success), success => at \in reached,
         UNCHANGED <<position, lims, bus, todo, found, acked, cache, cycled>>,
         target' \in [Servos -> Angles \cup {None}], expired' \in BOOLEAN
  PROVE  IInv' /\ Earned
<1>1. pc \in Working
  BY DEF Working
<1>2. /\ pc' \in {"check", "idle"}
      /\ task' \in Tasks \cup {<<>>}
      /\ IF task' = <<>> THEN at' = 1 ELSE at' \in DOMAIN task'
      /\ ok' \in BOOLEAN
      /\ status' \in {STATUS_FAILED, STATUS_SUCCESS, STATUS_RUNNING, None}
      /\ reached' \subseteq DOMAIN task'
      /\ pc' = "check" => task' = task /\ task' # <<>> /\ reached' = reached
      /\ pc' = "idle" => task' = <<>>
      /\ (pc' = "check" /\ ok') => 1 .. at' - 1 \subseteq reached'
      /\ Succeeds => DOMAIN task \subseteq reached
  BY <1>1, ActionDoneKeeps
<1>3. Phases' /\ Written' /\ AtAngle(task', position') \subseteq reached'
  BY <1>1, <1>2, TaskStepKeeps
<1>4. TypeOK'
  BY <1>2 DEF IInv, TypeOK
<1>5. LimitsAsInServo'
  BY DEF IInv, LimitsAsInServo
<1>6. Judged' /\ Progress'
  BY <1>2, <1>3 DEF Judged, Progress, Working
<1>7. QED
  BY <1>2, <1>3, <1>4, <1>5, <1>6 DEF IInv, Earned

LEMMA MoveStep == IInv /\ MoveServo => IInv' /\ Earned
<1>1. SUFFICES ASSUME IInv, MoveServo PROVE IInv' /\ Earned
  OBVIOUS
<1>2. sid \in Servos /\ angle \in Angles /\ task # <<>>
  BY <1>1, CurrentAction DEF IInv, Phases, Working, MoveServo
<1>3. target' \in [Servos -> Angles \cup {None}]
  BY <1>1, <1>2 DEF IInv, TypeOK, MoveServo
<1>4. CASE /\ pc' = "verify" /\ expired' = FALSE
           /\ UNCHANGED <<task, at, ok, status, reached>>
  <2>1. TypeOK'
    BY <1>1, <1>3, <1>4 DEF IInv, TypeOK, MoveServo, setup
  <2>2. LimitsAsInServo' /\ Phases' /\ Written' /\ Judged'
    BY <1>1, <1>4 DEF IInv, LimitsAsInServo, Phases, Written, Judged, Setting,
       Working, MoveServo, setup
  <2>3. Progress'
    BY <1>1, <1>4 DEF IInv, Progress, Working, MoveServo, AtAngle
  <2>4. Earned
    BY <1>2, <1>4 DEF Earned, Succeeds
  <2>5. QED
    BY <2>1, <2>2, <2>3, <2>4 DEF IInv
<1>5. CASE ActionDone(FALSE) /\ UNCHANGED expired
  <2>1. expired' \in BOOLEAN
    BY <1>1, <1>5 DEF IInv, TypeOK
  <2>2. QED
    BY <1>1, <1>3, <1>5, <2>1, EndOfAction DEF MoveServo, setup
<1>6. CASE /\ pc' = "busFailed"
           /\ UNCHANGED <<task, at, ok, status, reached, expired>>
  <2>1. TypeOK'
    BY <1>1, <1>3, <1>6 DEF IInv, TypeOK, MoveServo, setup
  <2>2. LimitsAsInServo' /\ Phases' /\ Written' /\ Judged'
    BY <1>1, <1>6 DEF IInv, LimitsAsInServo, Phases, Written, Judged, Setting,
       Working, MoveServo, setup
  <2>3. Progress' /\ Earned
    BY <1>1, <1>6 DEF IInv, Progress, Earned, Succeeds, Working, MoveServo, AtAngle
  <2>4. QED
    BY <2>1, <2>2, <2>3 DEF IInv
<1>7. QED
  BY <1>1, <1>4, <1>5, <1>6 DEF MoveServo

LEMMA VerifyStep ==
  IInv /\ (Verify \/ DeadlinePasses \/ GiveUp) => IInv' /\ Earned
<1>1. SUFFICES ASSUME IInv, Verify \/ DeadlinePasses \/ GiveUp
               PROVE  IInv' /\ Earned
  OBVIOUS
<1>2. CASE Verify
  <2>1. at \in reached
    <3>1. at \in DOMAIN task
      BY <1>1, <1>2, CurrentAction DEF IInv, Phases, Working, Verify
    <3>2. at \in AtAngle(task, position)
      BY <1>2, <3>1 DEF AtAngle, Verify, sid, angle
    <3>3. QED
      BY <1>1, <3>2 DEF IInv, Progress
  <2>2. target' \in [Servos -> Angles \cup {None}] /\ expired' \in BOOLEAN
    BY <1>1, <1>2 DEF IInv, TypeOK, Verify, servos
  <2>3. QED
    BY <1>1, <1>2, <2>1, <2>2, EndOfAction DEF Verify, servos, setup
<1>3. CASE DeadlinePasses
  <2>1. TypeOK' /\ LimitsAsInServo' /\ Phases' /\ Written' /\ Judged'
    BY <1>1, <1>3 DEF IInv, TypeOK, LimitsAsInServo, Phases, Written, Judged,
       Setting, Working, DeadlinePasses, servos, setup
  <2>2. Progress' /\ Earned
    BY <1>1, <1>3 DEF IInv, Progress, Earned, Succeeds, Working,
       DeadlinePasses, servos, AtAngle
  <2>3. QED
    BY <2>1, <2>2 DEF IInv
<1>4. CASE GiveUp
  <2>1. target' \in [Servos -> Angles \cup {None}] /\ expired' \in BOOLEAN
    BY <1>1, <1>4 DEF IInv, TypeOK, GiveUp, servos
  <2>2. QED
    BY <1>1, <1>4, <2>1, EndOfAction DEF GiveUp, servos, setup
<1>5. QED
  BY <1>1, <1>2, <1>3, <1>4

(* The driver is gone, and nothing else has changed.                       *)
LEMMA RaiseStep == IInv /\ (LookRaises \/ BusFails) => IInv' /\ Earned
<1>1. SUFFICES ASSUME IInv, LookRaises \/ BusFails PROVE IInv' /\ Earned
  OBVIOUS
<1>2. TypeOK' /\ LimitsAsInServo' /\ Phases' /\ Written' /\ Judged'
  BY <1>1 DEF IInv, TypeOK, LimitsAsInServo, Phases, Written, Judged, Setting,
     Working, LookRaises, BusFails, servos, setup
<1>3. Progress' /\ Earned
  BY <1>1 DEF IInv, Progress, Earned, Succeeds, Working, LookRaises, BusFails,
     servos, AtAngle
<1>4. QED
  BY <1>2, <1>3 DEF IInv

-----------------------------------------------------------------------------
(* The servos *)

LEMMA SenseStep ==
  ASSUME IInv, NEW s \in Servos, NEW p \in Angles, SensePosition(s, p)
  PROVE  IInv'
<1>1. TypeOK'
  <2>1. position' \in [Servos -> Angles]
    BY DEF IInv, TypeOK, SensePosition
  <2>2. reached' \subseteq DOMAIN task'
    BY DEF IInv, TypeOK, SensePosition, AtAngle
  <2>3. /\ UNCHANGED <<target, lims, bus, pc, todo, acked, found>>
        /\ UNCHANGED <<cache, task, at, ok, expired, status, cycled>>
    BY DEF SensePosition, setup
  <2>4. TypeOK
    BY DEF IInv
  <2>5. QED
    BY <2>1, <2>2, <2>3 DEF IInv, TypeOK
<1>2. LimitsAsInServo' /\ Phases' /\ Written' /\ Judged'
  BY DEF IInv, LimitsAsInServo, Phases, Written, Judged, Setting, Working,
     SensePosition, setup, current, sid, angle, Within
<1>3. Progress'
  BY DEF IInv, Progress, Working, SensePosition
<1>4. QED
  BY <1>1, <1>2, <1>3 DEF IInv

LEMMA DriveStep ==
  ASSUME IInv, NEW s \in Servos, Drive(s) \/ Sag(s)
  PROVE  IInv'
<1>1. CASE Drive(s)
  <2>1. /\ position[s] \in Angles /\ target[s] \in Angles
        /\ lims[s] \in Limits
    BY <1>1 DEF IInv, TypeOK, Drive
  <2>2. Clamp(lims[s], target[s]) \in Angles
    BY <2>1 DEF Clamp, Limits
  <2>3. PICK p \in {position[s] + 1, position[s] - 1} :
          /\ SensePosition(s, p)
          /\ p = position[s] + 1 => position[s] < Clamp(lims[s], target[s])
          /\ p = position[s] - 1 => position[s] > Clamp(lims[s], target[s])
    <3>1. position[s] \in Int
      BY <2>1 DEF Angles
    <3>2. CASE position[s] < Clamp(lims[s], target[s]) /\ SensePosition(s, position[s] + 1)
      BY <3>1, <3>2
    <3>3. CASE position[s] > Clamp(lims[s], target[s]) /\ SensePosition(s, position[s] - 1)
      BY <3>1, <3>3
    <3>4. QED
      BY <1>1, <3>2, <3>3 DEF Drive
  <2>4. p \in Angles
    BY <2>1, <2>2, <2>3, ConfigAssumption DEF Angles
  <2>5. QED
    BY <2>3, <2>4, SenseStep
<1>2. CASE Sag(s)
  BY <1>2, SenseStep DEF Sag
<1>3. QED
  BY <1>1, <1>2

LEMMA PowerCycleStep ==
  ASSUME IInv, NEW s \in Servos, PowerCycle(s)
  PROVE  IInv'
<1>1. /\ \A r \in Servos \ {s} : lims'[r] = lims[r] /\ cycled'[r] = cycled[r]
      /\ cycled'[s]
  BY DEF IInv, TypeOK, PowerCycle
<1>2. TypeOK'
  <2>1. /\ target' \in [Servos -> Angles \cup {None}]
        /\ lims' \in [Servos -> Limits]
        /\ cycled' \in [Servos -> BOOLEAN]
    BY ConfigAssumption DEF IInv, TypeOK, PowerCycle
  <2>2. /\ position' \in [Servos -> Angles] /\ pc' = pc /\ found' = found
        /\ cache' \in [Servos -> Limits \cup {None}]
    BY DEF IInv, TypeOK, PowerCycle, setup
  <2>3. UNCHANGED <<bus, todo, acked, task, at, ok, expired, status, reached>>
    BY DEF PowerCycle, setup
  <2>4. TypeOK
    BY DEF IInv
  <2>5. QED
    BY <2>1, <2>2, <2>3 DEF IInv, TypeOK
<1>3. LimitsAsInServo'
  BY <1>1 DEF IInv, LimitsAsInServo, PowerCycle
<1>4. Phases' /\ Judged' /\ Progress'
  BY DEF IInv, Phases, Judged, Progress, Setting, Working, PowerCycle, setup,
     current, sid, angle, Within, AtAngle
<1>5. Written'
  <2>1. CASE pc \in {"setMax", "setMid"}
    <3>1. current \in Servos /\ current' = current
      BY <2>1, CurrentIsFound DEF IInv, TypeOK, Phases, Setting, PowerCycle,
         setup, current
    <3>2. QED
      BY <1>1, <3>1 DEF IInv, Written, PowerCycle, setup
  <2>2. CASE pc \notin {"setMax", "setMid"}
    BY <2>2 DEF Written, PowerCycle
  <2>3. QED
    BY <2>1, <2>2
<1>6. QED
  BY <1>2, <1>3, <1>4, <1>5 DEF IInv

-----------------------------------------------------------------------------
LEMMA NextInv == IInv /\ [Next]_vars => IInv' /\ Earned
<1>1. SUFFICES ASSUME IInv, [Next]_vars PROVE IInv' /\ Earned
  OBVIOUS
<1>2. CASE Startup \/ RefuseTask
  <2>1. IInv'
    BY <1>1, <1>2, ScanStep, SetMinStep, SetMaxStep, SetMidStep,
       FindPositionStep, HoldStep, RefuseTaskStep DEF Startup
  <2>2. UNCHANGED task
    BY <1>2 DEF Startup, Scan, SetMin, SetMax, SetMid, FindPosition, Hold,
       RefuseTask
  <2>3. QED
    BY <2>1, <2>2 DEF Earned, Succeeds
<1>3. ASSUME NEW actions \in Tasks, TakeTask(actions) PROVE IInv' /\ Earned
  <2>1. task' # <<>>
    BY <1>3, ConfigAssumption DEF TakeTask
  <2>2. QED
    BY <1>1, <1>3, <2>1, TakeTaskStep DEF Earned, Succeeds
<1>4. CASE RunTask \/ BusFails
  BY <1>1, <1>4, RaiseStep, LookStep, CheckStep, MoveStep, VerifyStep
     DEF RunTask
<1>5. ASSUME NEW s \in Servos, Drive(s) \/ Sag(s) \/ PowerCycle(s)
      PROVE  IInv' /\ Earned
  <2>1. UNCHANGED task
    BY <1>5 DEF Drive, Sag, PowerCycle, SensePosition
  <2>2. QED
    BY <1>1, <1>5, <2>1, DriveStep, PowerCycleStep DEF Earned, Succeeds
<1>6. CASE UNCHANGED vars
  <2>1. TypeOK' /\ LimitsAsInServo'
    <3>1. LimitsAsInServo'
      BY <1>1, <1>6 DEF IInv, LimitsAsInServo, vars, servos
    <3>2. TypeOK'
      <4>1. /\ UNCHANGED <<position, target, lims, bus, pc, todo, acked, found>>
            /\ UNCHANGED <<cache, task, at, ok, expired, status, cycled, reached>>
        BY <1>6 DEF vars, servos, setup
      <4>2. TypeOK
        BY <1>1 DEF IInv
      <4>3. QED
        BY <1>1, <4>1 DEF IInv, TypeOK
    <3>3. QED
      BY <3>1, <3>2
  <2>2. Phases' /\ Written'
    BY <1>1, <1>6 DEF IInv, Phases, Written, vars, servos, setup, current
  <2>3. Judged' /\ Progress'
    BY <1>1, <1>6 DEF IInv, Judged, Progress, vars, servos, setup, sid, angle,
       Within, AtAngle
  <2>4. Earned
    BY <1>6 DEF Earned, Succeeds, vars
  <2>5. QED
    BY <2>1, <2>2, <2>3, <2>4 DEF IInv
<1>7. QED
  BY <1>1, <1>2, <1>3, <1>4, <1>5, <1>6 DEF Next

-----------------------------------------------------------------------------
THEOREM InductiveInvariant == Spec => []IInv
<1>1. IInv /\ [Next]_vars => IInv'
  BY NextInv
<1>2. QED
  BY InitInv, <1>1, PTL DEF Spec

(* Every variable of the driver keeps its type; in particular a hold is    *)
(* only commanded after the servo's position was read.                     *)
THEOREM TypeCorrect == Spec => []TypeOK
<1>1. IInv => TypeOK
  BY DEF IInv
<1>2. QED
  BY InductiveInvariant, <1>1, PTL

(* What _limits says of a servo is what the servo enforces, until it loses *)
(* power (servo_driver.py:189, 378-386).                                   *)
THEOREM CachedLimitsHold == Spec => []LimitsAsInServo
<1>1. IInv => LimitsAsInServo
  BY DEF IInv
<1>2. QED
  BY InductiveInvariant, <1>1, PTL

(* A task that succeeds has had every servo at its angle                   *)
(* (servo_driver.py:341-355).                                              *)
THEOREM SuccessIsEarned == Spec => SuccessMeansReached
<1>1. IInv /\ [Next]_vars => [Succeeds => DOMAIN task \subseteq reached]_vars
  BY NextInv DEF Earned
<1>2. QED
  BY InductiveInvariant, <1>1, PTL DEF Spec, SuccessMeansReached

(* No task drives a servo to a limit, as far as the driver can know its    *)
(* limits (servo_driver.py:361).                                           *)
THEOREM NeverDrivenToALimit == Spec => NeverClamped
<1>1. ASSUME IInv, MoveServo, cache[sid] # None, ~cycled[sid]
      PROVE  Near(Clamp(lims[sid], angle), angle)
  <2>1. sid \in Servos /\ angle \in Angles
    BY <1>1, CurrentAction DEF IInv, Phases, Working, MoveServo
  <2>2. cache[sid] = lims[sid] /\ lims[sid] \in Limits
    BY <1>1, <2>1 DEF IInv, TypeOK, LimitsAsInServo
  <2>3. Within(lims[sid])
    BY <1>1, <2>2 DEF IInv, Judged, MoveServo
  <2>4. QED
    BY <2>1, <2>2, <2>3, SlackBoundsClamp
<1>2. IInv => [MoveServo /\ target' # target /\ cache[sid] # None /\ ~cycled[sid]
                 => Near(Clamp(lims[sid], angle), angle)]_vars
  BY <1>1
<1>3. QED
  BY InductiveInvariant, <1>2, PTL DEF Spec, NeverClamped

=============================================================================
