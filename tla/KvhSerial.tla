------------------------------ MODULE KvhSerial ------------------------------
(***************************************************************************)
(* The KVH driver's serial port: SerialUnix opens it in the constructor,   *)
(* polls and reads it from KvhNode's thread, and reopens it after errors,  *)
(* each kind of error at most once in RECONNECT_PERIOD.  The destructor    *)
(* stops the thread and closes the port.                                   *)
(*                                                                         *)
(* The environment plugs the device in and out, sends bytes and lets time  *)
(* pass.  A descriptor whose device was unplugged stays dead when the      *)
(* device comes back: poll reports it ready and read fails at once.  What  *)
(* the bytes mean is KvhDriver's; here they are there or not.              *)
(***************************************************************************)
EXTENDS Integers

CONSTANTS
  RECONNECT_PERIOD,   \* serial_unix.cpp:173, :188: 5 [s]
  POLL_TIMEOUT        \* serial_unix.cpp:167: 1000 ms

ASSUME PeriodAssumption ==
  RECONNECT_PERIOD \in Nat /\ POLL_TIMEOUT \in Nat \ {0}

Errors == {"poll", "read"}
Old == RECONNECT_PERIOD + POLL_TIMEOUT + 1   \* ages are not told apart beyond

VARIABLES
  pc,            \* where the thread that opens or reads the port is
  started,       \* the constructor is done and the read thread runs
  fd,            \* file_handle_: none, or on a device that is live or gone
  openedPort_,
  first,         \* firstPollError, firstReadError
  since,         \* the ages of timeOfLastPollErrMsgSent, timeOfLastReadErrMsgSent
  call,          \* the age of readBytes' currTime
  stop_flag_,
  attached,      \* the device is plugged in
  pending,       \* bytes wait to be read
  descriptors    \* history: the descriptors opened and not yet closed

port == <<fd, openedPort_, descriptors>>
limits == <<first, since>>
outside == <<attached, pending>>
vars == <<pc, started, port, limits, call, stop_flag_, outside>>

Init ==
  /\ pc = "opening" /\ started = FALSE
  /\ fd = "none" /\ openedPort_ = FALSE /\ descriptors = 0
  /\ first = [e \in Errors |-> TRUE]
  /\ since = [e \in Errors |-> Old]
  /\ call = 0
  /\ stop_flag_ = FALSE
  /\ attached \in BOOLEAN /\ pending = FALSE

-----------------------------------------------------------------------------
(* open() *)

(* open() returns to the constructor, which starts the thread, or to       *)
(* reconnect, and then readBytes has no bytes to return.                   *)
ReturnFromOpen ==
  /\ pc' = IF started THEN "noPacket" ELSE "looping"
  /\ started' = TRUE
  /\ UNCHANGED <<limits, call, stop_flag_, attached>>

OpenWorks ==
  /\ pc = "opening" /\ attached
  /\ fd' = "live" /\ descriptors' = descriptors + 1
  /\ pc' = "configuring"
  /\ UNCHANGED <<started, openedPort_, limits, call, stop_flag_, outside>>

OpenFailsUntold ==
  /\ pc = "opening"
  /\ fd' = "none" /\ UNCHANGED openedPort_
  /\ ReturnFromOpen
  /\ UNCHANGED <<descriptors, pending>>

(* Also with the device there: it may be busy, or not yet accessible. *)
OpenFails ==
  /\ pc = "opening"
  /\ fd' = "none" /\ openedPort_' = FALSE
  /\ ReturnFromOpen
  /\ UNCHANGED <<descriptors, pending>>

(* tcsetattr with TCSAFLUSH discards the bytes that wait. *)
Configured ==
  /\ pc = "configuring" /\ fd = "live"
  /\ openedPort_' = TRUE
  /\ pending' = FALSE
  /\ ReturnFromOpen
  /\ UNCHANGED <<fd, descriptors>>

(* Five early returns.  They keep the descriptor and openedPort_. *)
NotConfigured ==
  /\ pc = "configuring"
  /\ ReturnFromOpen
  /\ UNCHANGED <<port, pending>>

-----------------------------------------------------------------------------
(* readLoop and readBytes *)

ReadBytes ==
  /\ pc = "looping" /\ ~stop_flag_
  /\ pc' = "polling" /\ call' = 0
  /\ UNCHANGED <<started, port, limits, stop_flag_, outside>>

Ready == fd = "dead" \/ (fd = "live" /\ pending)

PollReady ==
  /\ pc = "polling" /\ Ready
  /\ pc' = "reading"
  /\ UNCHANGED <<started, port, limits, call, stop_flag_, outside>>

DueOnce(e) == first[e]
Due(e) == first[e] \/ since[e] - call > RECONNECT_PERIOD

ReconnectWithoutClose ==
  /\ pc' = "opening"
  /\ fd' = "none" /\ pending' = FALSE
  /\ UNCHANGED <<openedPort_, descriptors>>

ReconnectClosesNone ==
  /\ pc' = "opening"
  /\ descriptors' = descriptors - 1
  /\ fd' = "none" /\ pending' = FALSE
  /\ UNCHANGED openedPort_

(* reconnect() up to its call of open().  The number in file_handle_ is    *)
(* not looked at again before open() replaces it.                          *)
Reconnect ==
  /\ pc' = "opening"
  /\ descriptors' = IF fd # "none" THEN descriptors - 1 ELSE descriptors
  /\ fd' = "none" /\ pending' = FALSE
  /\ UNCHANGED openedPort_

OnErrorAlwaysFirst(e) ==
  /\ UNCHANGED first
  /\ \/ Due(e) /\ Reconnect /\ since' = [since EXCEPT ![e] = call]
     \/ ~Due(e) /\ pc' = "noPacket" /\ UNCHANGED <<port, pending, since>>
  /\ UNCHANGED <<started, call, stop_flag_, attached>>

(* What poll and read do with their errors. *)
OnError(e) ==
  /\ first' = [first EXCEPT ![e] = FALSE]
  /\ \/ Due(e) /\ Reconnect /\ since' = [since EXCEPT ![e] = call]
     \/ ~Due(e) /\ pc' = "noPacket" /\ UNCHANGED <<port, pending, since>>
  /\ UNCHANGED <<started, call, stop_flag_, attached>>

PollTimesOut ==
  /\ pc = "polling" /\ ~Ready /\ call = POLL_TIMEOUT
  /\ OnError("poll")

ReadFailsIgnored ==
  /\ pc = "reading" /\ fd = "dead"
  /\ pc' = "noPacket"
  /\ UNCHANGED <<started, port, limits, call, stop_flag_, outside>>

ReadFails ==
  /\ pc = "reading" /\ fd = "dead"
  /\ OnError("read")

(* poll may also return -1 at once, and read may fail, or return nothing,  *)
(* on a descriptor that is not dead.                                       *)
CallFails ==
  \/ pc = "polling" /\ OnError("poll")
  \/ pc = "reading" /\ fd = "live" /\ OnError("read")

(* The bytes may complete a datagram or not. *)
ReadWorks ==
  /\ pc = "reading" /\ fd = "live"
  /\ pending' = FALSE
  /\ pc' \in {"looping", "noPacket"}
  /\ UNCHANGED <<started, port, limits, call, stop_flag_, attached>>

NoPacket ==
  /\ pc = "noPacket"
  /\ pc' = IF openedPort_ THEN "looping" ELSE "sleeping"
  /\ UNCHANGED <<started, port, limits, call, stop_flag_, outside>>

Wake ==
  /\ pc = "sleeping"
  /\ pc' = "looping"
  /\ UNCHANGED <<started, port, limits, call, stop_flag_, outside>>

LeaveLoopIfOpen ==
  /\ pc = "looping" /\ started /\ stop_flag_ /\ openedPort_
  /\ pc' = "joined"
  /\ UNCHANGED <<started, port, limits, call, stop_flag_, outside>>

LeaveLoop ==
  /\ pc = "looping" /\ started /\ stop_flag_
  /\ pc' = "joined"
  /\ UNCHANGED <<started, port, limits, call, stop_flag_, outside>>

-----------------------------------------------------------------------------
(* The destructor, on the main thread: stop_flag_, join, close. *)

Stop ==
  /\ started /\ ~stop_flag_
  /\ stop_flag_' = TRUE
  /\ UNCHANGED <<pc, started, port, limits, call, outside>>

Destroy ==
  /\ pc = "joined"
  /\ pc' = "destroyed"
  /\ descriptors' = IF fd # "none" THEN descriptors - 1 ELSE descriptors
  /\ fd' = "none" /\ pending' = FALSE
  /\ UNCHANGED <<started, openedPort_, limits, call, stop_flag_, attached>>

-----------------------------------------------------------------------------
(* The environment *)

Attach ==
  /\ ~attached /\ attached' = TRUE
  /\ UNCHANGED <<pc, started, port, limits, call, stop_flag_, pending>>

Detach ==
  /\ attached /\ attached' = FALSE
  /\ fd' = IF fd = "live" THEN "dead" ELSE fd
  /\ pending' = FALSE
  /\ UNCHANGED <<pc, started, openedPort_, descriptors, limits, call, stop_flag_>>

Deliver ==
  /\ fd = "live" /\ ~pending
  /\ pending' = TRUE
  /\ UNCHANGED <<pc, started, port, limits, call, stop_flag_, attached>>

Older(age) == IF age < Old THEN age + 1 ELSE Old

(* poll returns in time; the steps between two blocking calls take none. *)
Tick ==
  /\ \/ pc \in {"looping", "sleeping"} /\ UNCHANGED call
     \/ pc = "polling" /\ call < POLL_TIMEOUT /\ call' = call + 1
  /\ since' = [e \in Errors |-> Older(since[e])]
  /\ UNCHANGED <<pc, started, port, first, stop_flag_, outside>>

Thread ==
  \/ OpenWorks \/ OpenFails \/ Configured \/ NotConfigured
  \/ ReadBytes \/ PollReady \/ PollTimesOut \/ ReadWorks \/ ReadFails
  \/ NoPacket \/ Wake \/ LeaveLoop

Next ==
  \/ Thread \/ CallFails \/ Stop \/ Destroy
  \/ Attach \/ Detach \/ Deliver \/ Tick

Spec == Init /\ [][Next]_vars

(* The threads go on and time passes.  A device that is there can be       *)
(* opened if this is tried again and again; it is not found silent by      *)
(* every poll; and where calls may fail, not every one does.               *)
Fairness ==
  /\ WF_vars(Thread) /\ WF_vars(Destroy) /\ SF_vars(Tick)
  /\ SF_vars(OpenWorks) /\ SF_vars(pc = "polling" /\ Deliver)
  /\ SF_vars(PollReady) /\ SF_vars(ReadWorks)

FairSpec == Spec /\ Fairness

-----------------------------------------------------------------------------
(* Properties *)

TypeOK ==
  /\ pc \in {"opening", "configuring", "looping", "polling", "reading",
             "noPacket", "sleeping", "joined", "destroyed"}
  /\ started \in BOOLEAN /\ stop_flag_ \in BOOLEAN
  /\ fd \in {"none", "live", "dead"}
  /\ openedPort_ \in BOOLEAN
  /\ first \in [Errors -> BOOLEAN]
  /\ since \in [Errors -> 0 .. Old]
  /\ call \in 0 .. POLL_TIMEOUT
  /\ attached \in BOOLEAN /\ pending \in BOOLEAN
  /\ descriptors \in Nat

(* serial_unix.cpp:27-53, :140-153, serial_driver.cpp:18: however often    *)
(* the port is lost and reopened, at whatever point opening fails, the     *)
(* process holds exactly the descriptor in file_handle_, none in the end,  *)
(* and a port said to be opened has one whenever the read loop looks.      *)
OpenedHasDescriptor ==
  openedPort_ /\ pc \notin {"opening", "joined", "destroyed"} => fd # "none"
HoldsItsDescriptor ==
  /\ descriptors = IF fd = "none" THEN 0 ELSE 1
  /\ pc = "destroyed" => descriptors = 0
  /\ OpenedHasDescriptor

(* serial_unix.cpp:171-178, :186-193: a device that is back for good, and  *)
(* sends, is read again and again, whatever failed before.                 *)
ReadsAgain ==
  <>[](attached /\ ~stop_flag_) => []<><<ReadWorks>>_vars

(* serial_unix.cpp:186-193, kvh_node.cpp:90-95: once the device is gone    *)
(* for good, the loop stops spinning on its dead descriptor.               *)
SpinEnds == <>[]~attached => <>[](fd = "none")

(* serial_unix.cpp:173, :188: two reconnections after the same kind of     *)
(* error are more than the period apart, counted from the calls' beginning.*)
ReconnectsApart ==
  [][\A e \in Errors :
       since'[e] < since[e] => since[e] - call > RECONNECT_PERIOD]_vars

(* kvh_node.cpp:78-83: the destructor's join returns. *)
DestructorEnds == stop_flag_ ~> pc = "destroyed"

=============================================================================
