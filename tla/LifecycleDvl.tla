---------------------------- MODULE LifecycleDvl ----------------------------
(***************************************************************************)
(* The managed node of the DVL A50: the transitions of its life cycle,     *)
(* which a manager asks for, and the timer that publishes one line of the  *)
(* sensor at a time.  One thread runs all of it, so while a configuration  *)
(* connects or the timer waits for a line, no transition is served.        *)
(***************************************************************************)
EXTENDS DvlConnection

CONSTANT Zero     \* the digits of the altitude before any was measured

ASSUME ZeroAssumption == Zero \in Seq(Digits) /\ Zero # <<>>

VARIABLES
  state,          \* of the life cycle
  timer,          \* timer_ is set
  publishers,     \* dvl_pub_report and dvl_pub_pos
  tcpSocket,      \* what the pointer holds
  sockets,        \* history: sockets created and not closed
  old_altitude,
  measured,       \* history: the digits the sensor sent for it
  published       \* history: the callback's message and the line it is of

node == <<state, timer, publishers, tcpSocket, sockets>>
output == <<old_altitude, measured, published>>
vars == <<connection, node, output>>

Nothing == [topic |-> "none"]

Init ==
  /\ InitConnection
  /\ state = "unconfigured"
  /\ timer = FALSE /\ publishers = "none"
  /\ tcpSocket = "uninitialised" /\ sockets = 0
  /\ old_altitude = Zero /\ measured = Zero /\ published = Nothing

-----------------------------------------------------------------------------
(* The transitions *)

CloseSocketAgain ==
  /\ sock' = "none"
  /\ sockets' = sockets - 1

CloseSocket ==
  /\ sock' = "none"
  /\ sockets' = IF sock = "none" THEN sockets ELSE sockets - 1

(* on_configure up to the loop; or socket() fails, which leaves the timer  *)
(* running and the node unconfigured.                                      *)
OnConfigure ==
  /\ pc = "idle" /\ state = "unconfigured"
  /\ timer' = TRUE /\ publishers' = "inactive" /\ tcpSocket' = "object"
  /\ \/ BeginSetup /\ sockets' = IF sock' = "none" THEN sockets ELSE sockets + 1
     \/ UNCHANGED <<connection, sockets>>
  /\ UNCHANGED <<state, output>>

(* on_configure after the loop. *)
EndConfigure ==
  /\ pc = "setUp" /\ pc' = "idle"
  /\ elapsed' = 0
  /\ \/ fault = -10 /\ CloseSocket /\ UNCHANGED state
     \/ fault # -10 /\ state' = "inactive" /\ UNCHANGED <<sock, sockets>>
  /\ UNCHANGED <<address_ok, fault, error_code, sent, reading,
                 timer, publishers, tcpSocket, output>>

OnActivate ==
  /\ pc = "idle" /\ state = "inactive"
  /\ state' = "active" /\ publishers' = "active"
  /\ UNCHANGED <<connection, timer, tcpSocket, sockets, output>>

OnDeactivate ==
  /\ pc = "idle" /\ state = "active"
  /\ state' = "inactive" /\ publishers' = "inactive"
  /\ UNCHANGED <<connection, timer, tcpSocket, sockets, output>>

FaultAfterCleanup == 1
FaultKept == fault

(* The pointer keeps the closed socket. *)
OnCleanup ==
  /\ pc = "idle" /\ state = "inactive"
  /\ state' = "unconfigured"
  /\ fault' = FaultAfterCleanup
  /\ CloseSocket
  /\ timer' = FALSE /\ publishers' = "none"
  /\ UNCHANGED <<pc, address_ok, error_code, elapsed, sent, reading, tcpSocket, output>>

OnShutdownTimerKept ==
  /\ pc = "idle" /\ state \in {"unconfigured", "inactive", "active"}
  /\ state' = "finalized"
  /\ publishers' = "none"
  /\ UNCHANGED <<connection, timer, tcpSocket, sockets, output>>

(* The socket stays open until the destructor. *)
OnShutdown ==
  /\ pc = "idle" /\ state \in {"unconfigured", "inactive", "active"}
  /\ state' = "finalized"
  /\ timer' = FALSE /\ publishers' = "none"
  /\ UNCHANGED <<connection, tcpSocket, sockets, output>>

(* A node that was never configured closes what an uninitialised pointer   *)
(* points to: nothing of this model.                                       *)
Destroy ==
  /\ pc = "idle" /\ pc' = "destroyed"
  /\ \/ tcpSocket = "object" /\ CloseSocket
     \/ tcpSocket = "uninitialised" /\ UNCHANGED <<sock, sockets>>
  /\ UNCHANGED <<address_ok, attempt, sent, reading, state, timer, publishers,
                 tcpSocket, output>>

-----------------------------------------------------------------------------
(* on_timer *)

BeginTimer ==
  /\ timer /\ publishers = "active"
  /\ BeginLine
  /\ published' = Nothing
  /\ UNCHANGED <<node, old_altitude, measured>>

(* The altitude held is the last one sent, valid or not. *)
PublishHoldingAny(line, value) ==
  /\ measured' = IF line.kind = "report" /\ line.valid THEN line.digits ELSE measured
  /\ old_altitude' = IF line.kind = "report" THEN value ELSE old_altitude
  /\ published' = IF line.kind = "report"
                  THEN [topic |-> "dvl/data", value |-> old_altitude',
                        of |-> measured']
                  ELSE published

(* A report has an altitude, which counts only if it is valid.  A line     *)
(* whose fields are not as expected raises, and is not published: a report *)
(* may do so before its altitude is held or after.                         *)
Publish(line, value) ==
  \/ /\ line.kind = "report" /\ line.valid
     /\ old_altitude' = value
     /\ measured' = line.digits
     /\ published' \in {published, [topic |-> "dvl/data", value |-> value,
                                    of |-> line.digits]}
  \/ /\ line.kind = "report" /\ ~line.valid
     /\ published' = [topic |-> "dvl/data", value |-> old_altitude, of |-> measured]
     /\ UNCHANGED <<old_altitude, measured>>
  \/ /\ line.kind = "position"
     /\ published' = [topic |-> "dvl/position", value |-> value, of |-> line.digits]
     /\ UNCHANGED <<old_altitude, measured>>
  \/ /\ line.kind \in {"report", "response"}
     /\ UNCHANGED output

EndTimer ==
  /\ EndLine
  /\ IF Parses(str) THEN Publish(Head(sent), Value(str)) ELSE UNCHANGED output
  /\ UNCHANGED node

-----------------------------------------------------------------------------
Setup == (Connecting /\ UNCHANGED <<node, output>>) \/ EndConfigure
Reading == (TakeByte \/ RepeatByte) /\ UNCHANGED <<node, output>>
Around == Environment /\ UNCHANGED <<node, output>>

Next ==
  \/ OnConfigure \/ OnActivate \/ OnDeactivate \/ OnCleanup \/ OnShutdown \/ Destroy
  \/ Setup
  \/ BeginTimer \/ Reading \/ EndTimer
  \/ Around

Spec == Init /\ [][Next]_vars

(* The thread goes on inside a callback. *)
ThreadFairness ==
  /\ WF_vars(Setup) /\ WF_vars(EndTimer)
  /\ WF_vars(TakeByte /\ UNCHANGED <<node, output>>)

(* A sensor that is connected keeps sending. *)
SensorFairness ==
  WF_vars(\E line \in Lines : Report(line) /\ UNCHANGED <<node, output>>)

FairSpec == Spec /\ ThreadFairness /\ SensorFairness

-----------------------------------------------------------------------------
(* Properties *)

Inside == {"loop", "connect", "select", "judge", "sleep", "setUp"}

TypeOK ==
  /\ pc \in Inside \cup {"idle", "receive", "destroyed"}
  /\ address_ok \in BOOLEAN /\ timer \in BOOLEAN
  /\ sock \in SocketStates
  /\ fault \in {1, 0, -1, -10}
  /\ error_code \in {0, TIMEOUT, ECONNABORTED, EALREADY, EOTHER}
  /\ elapsed \in 0 .. SETUP_LIMIT
  /\ sent \in Seq(Lines) /\ at \in Nat /\ repeats \in 0 .. MaxRepeats
  /\ state \in {"unconfigured", "inactive", "active", "finalized"}
  /\ publishers \in {"none", "inactive", "active"}
  /\ tcpSocket \in {"uninitialised", "object"}
  /\ sockets \in Nat

(* lifecycle_dvl_component.cpp:48-170, and the states the comments of the  *)
(* header give: outside a configuration, the node is inactive or active    *)
(* only with the socket of a connection that was made, and unconfigured    *)
(* only without one; no socket is lost however often it is configured,     *)
(* and a timer that fires finds its publishers.                            *)
ConnectedWhenConfigured ==
  pc \in {"idle", "receive"} =>
    /\ state \in {"inactive", "active"} => fault = 0 /\ sock \in {"connected", "lost"}
    /\ state = "unconfigured" => fault # 0 /\ sock = "none"
NoSocketLost == sockets = IF sock = "none" THEN 0 ELSE 1
TimerFindsPublishers == timer => publishers # "none"
LifeCycleKept == ConnectedWhenConfigured /\ NoSocketLost /\ TimerFindsPublishers

(* lifecycle_dvl_component.cpp:192-267: whatever Receive fails to deliver, *)
(* a message never mixes two lines, and a report without a valid altitude  *)
(* carries the last one that was.  Of the digits, this is all that holds:  *)
(* each may be repeated.                                                   *)
PublishedFromOneLine ==
  published # Nothing => Repeats(published.value, published.of)

(* lifecycle_dvl_component.cpp:73-98: on_configure returns, whether the     *)
(* sensor answers late or never, unless its attempts fail one after the    *)
(* other, or have no socket: "Max time to set up" (line 84) limits the     *)
(* silence only.                                                           *)
AttemptsFail == sock \in {"none", "fresh", "failed", "aborted"}
ConfigureReturns == []address_ok => []<>(pc \notin Inside \/ AttemptsFail)

(* lifecycle_dvl_component.cpp:188-195: while the sensor stays connected   *)
(* and goes on sending, the timer's callback returns, and transitions are  *)
(* served again.                                                           *)
TimerReturns == []<>(pc # "receive" \/ sock = "lost")

=============================================================================
