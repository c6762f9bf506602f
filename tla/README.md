# tauv-drivers: TLA+ models and proofs

This directory specifies the drivers of the TAUV vehicle: the ROS 2 nodes that
put commands on the thrusters' CAN bus and turn what the sensors send into
messages. Every definition is translated from the code; `PROJECT.json` names the
lines of each ("map"). Paths below leave out `src/`.

- [Inventory](#inventory): the parts of the system and what is hard about each
- [Modules](#modules): which module models what, and how
- [Runs](#runs): what TLC checks, on which instance, under which fairness
- [Proofs](#proofs): what TLAPS proves, and how
- [Findings](#findings): where the code does not do what it says
- [Not modelled](#not-modelled) and [Plan](#plan)

To check a run: `tlc -config MCCanDriver.cfg MCCanDriver`. To check a proof:
`tlapm CanDriverProofs.tla`.

## Inventory

The nodes do not call each other. They meet through ROS topics and through the
controllers above them (`tauv_repackagers` reshapes the messages in between),
so each driver is a system of its own whose environment is a bus or a line, the
topics it subscribes to, and time.

| Component | State | Operations | What is hard | What makes it correct |
|---|---|---|---|---|
| **`tauv_dronecan`: arming** (`can_driver.py`, `mapping.py`, `rpm_to_gain.py`) | kill latch `BIGARM`, `armed`, `throttles`, the last telemetry of each ESC, `_undervoltage_since` | setpoint, watchdog and telemetry callbacks, 50 Hz broadcast with undervoltage check, startup, shutdown | orders of callbacks that write the same three fields; the check inside the broadcast; stale and missing telemetry; a hold timer | killed is final and reaches the bus; thrusters move only as the latest armed setpoint asks; short dips do not kill, a flat pack does |
| **`tauv_dronecan`: discovery** | `discovered_escs`, requests in flight, elapsed time | NodeStatus handler, GetNodeInfo callback, the constructor's loop | lost, late and overlapping answers; a loop without a limit | goes on only with `esc_count` different ESCs; ends when they are there |
| **`tauv_kvh`: circular buffer** (`circular_buffer.h`) | array of N + 1 slots, head, tail, size | add, remove, reset, iteration | wrap-around in two styles, overwriting when full | a queue that drops its oldest element |
| **`tauv_kvh`: datagram search** (`driver.cpp`, `datagram_parser.cpp`, `kvh_node.cpp`) | buffer, last parsed datagram with two flags | `tryReadingNewPacket`, `readLoop` | datagrams cut at any byte; false headers; bad checksums | no complete datagram missed, none used twice, only accepted windows published, as they stood on the line |
| **`tauv_kvh`: serial port** (`serial_unix.cpp`) | descriptor, `openedPort_`, `firstPollError`, `firstReadError` | open, poll, read, reconnect | reopening, rate limits that are never reset | one descriptor at most, none left behind; a device that is back is read again |
| **`tauv_servo`: tasks** (`servo_driver.py`) | servos, cached limits | task callback, status topic | device answers that are `None`; a bus that fails; cached limits after a power cycle | every task ends with one final status; a task outside the limits is refused |
| **`tauv_servo`: Hitec protocol** (`hitec_servo.py`) | pending request, register contents in the servo | read and write of registers with retries, `set_limits` | late and foreign answers; a sequence of writes that fails half way | an answer belongs to the request it ends |
| **`tauv_dvl`: lifecycle node** (`lifecycle_dvl_component.cpp`, `tcpsocket.hpp`) | lifecycle state, socket, `fault`, `error_code` | configure, activate, timers, cleanup | connect retries; error codes that outlive an attempt; short reads | configured exactly when connected; a message is of one line |
| **`tauv_dvl`: Python node** (`dvl_a50.py`), composable node (`dvl-sensor.cpp`) | socket, `_recv_buffer` | tick, reconnect | lines cut across reads and across reconnections | each line handled once, whole |
| **`tauv_depth`** (`depth.py`, `ms5837.py`) | sensor handle, `error_count` | timer, reinit | intermittent failures | reads resume after a failure |
| **`tauv_xsens`: packets** (`xdacallback.cpp`, `xdainterface.cpp`) | bounded queue of 5 | push from the SDK's thread, pop from the node's | two threads and a condition variable; overflow | the reader is woken for every packet that waits |
| **`tauv_xsens`: time** (`xsens_time_handler.cpp`, `high_rate_interpolator.cpp`) | first and previous sample time, two buffers | conversion, interpolation | 32-bit wrap-around; differences of wrapping times; late packets | stamps are apart as the packets were, factors are those of the true times |
| **`tauv_xsens`**: device configuration, publishers, NTRIP, logging | settings | set-up, formatting | device and network I/O | — |
| **`tauv_repackagers`**, `dvl_msgs`, `equations.py`, CRC, scripts | none | conversions, tables | — | — |

`PROJECT.json` lists under "hazards" each place where one of these can go wrong
in a way a test would hardly reach, with the property that covers it or the
reason none does yet.

## Modules

```
KillSwitch          what the thruster driver promises
  ^ implemented by
CanDriver  <- MCCanDriver (TLC instance)  <- CanDriverProofs
EscDiscovery       <- EscDiscoveryProofs

DropOldestQueue     what a ring buffer promises
  ^ implemented by (the Xsens packet queue too: XdaCallbackProofs)
RingBuffers (operators) <- CircularBuffer (state machine) <- CircularBufferProofs
     |                                                        | instanced by
KvhDriver <- MCKvhDriver (TLC instance)   <- KvhDriverProofs <-

KvhSerial                                 <- KvhSerialProofs

ServoDriver <- MCServoDriver (TLC instance) <- ServoDriverProofs

DvlConnection <- LifecycleDvl <- MCLifecycleDvl (TLC instance)
                              <- LifecycleDvlProofs

XsensTime <- HighRateInterpolator <- XdaCallback <- MCXdaCallback (TLC instance)
 (operators)   (operators)              ^        <- XdaCallbackProofs
                                  (state machine)
```

### CanDriver, KillSwitch

rclpy runs every callback of the node on one thread to its end, so one callback
is one action, whole: `_check_undervoltage` is part of the broadcast that calls
it, and `_send_commands` reads the latch that the check may just have tripped.
The actions are `FinishStartup` (the constructor after discovery),
`OnEscStatus`, `WatchdogCallback`, `ThrusterCallback`, `CommandTimer` and
`DestroyNode`; the environment's are `PackChanges`, `EscFallsSilent` and `Tick`.

- A gain keeps only its direction: `rpm_to_gain` returns the sign of the demand,
  or 0 when the inverted motor equation has no root within its bounds, and the
  model takes either. `RemapThrusts` keeps mapping.py's reordering by one index
  and the sign by the other. A setpoint of a wrong length is among the inputs.
- Voltages are compared as sums (`AvgBelow`), so no division is lost.
- `lowFor` is the time since `_undervoltage_since`, in ticks, capped at `Hold`:
  beyond that it is only compared with `Hold`. The order of `Tick` and the
  callbacks is free, so the check may come at any time after the hold.
- `asked` and `sinceGood` are history variables. `asked` is what autonomy last
  asked for, recorded whether the driver obeys or not.
- `KillSwitch` is the promise: two variables, `killed` and `output`, and once
  `killed`, every output is off. `CanDriver` implements it with
  `killed <- ~BIGARM`, `output <- wire`.

### EscDiscovery

The NodeStatus handler sends a request; its answer, or its timeout, is handled in
a later spin. `waiting[n]` counts the requests to node n that wait: the DroneCAN
library (external) keeps each until it is answered or has timed out. The list
`discovered_escs` is sorted, so it is modelled by how often each node is on it.
The handler asks whenever the node is not on the list, even if a request to it
waits, so `MaxOutstanding` bounds how many can overlap. A NodeStatus comes once
a second and a request waits up to a second: 1 is the intended case, 2 the one
that a late answer makes.

### RingBuffers, CircularBuffer, DropOldestQueue

`RingBuffers` has the operations of `circular_buffer.h` as operators on the
record of its fields, with the same modular arithmetic and the iterators' own
wrap-around (`Ahead`, `Distance`), which the code writes differently from `mod`.
`CircularBuffer` is the state machine that calls them in any order, from an
array with any contents. It implements `DropOldestQueue`, a bounded sequence,
under the mapping `Contents`: what a loop over the buffer visits.

### KvhDriver

One thread runs `readLoop` and `tryReadingNewPacket`. `pc` and `left` stand for
its place in the nested loops: `ReadBytes` (poll and read returned n bytes),
`AddByte` (they are copied into the buffer), `SkipByte` (the inner loop),
`ParseDatagram` (the rest of the outer loop), `ClearByte`, and the two returns,
each with what `readLoop` then publishes. The line is the environment: any bytes
in pieces of any length up to `DATAGRAM_SIZE`, the room the code gives `read`.
The buffer survives a reconnection, which is why half a datagram followed by
other bytes is an ordinary input here. The fields of a datagram are its bytes;
checksum and status are operators of the window, of which nothing is assumed but
that they are Booleans. `received`, `accepted` and `published` are histories.

### KvhSerial

What lies under `KvhDriver`'s `ReadBytes`: the descriptor, and how it is lost and
found. Of the bytes it knows only whether some wait; whether they complete a
datagram is free. `pc` is the place of the one thread that opens (first the
constructor, then `readLoop`, through `reconnect`) or reads.

- `open` is `OpenWorks` or `OpenFails`, then `Configured` or `NotConfigured`. The
  last stands for five early returns after the descriptor was stored, which close
  nothing and leave `openedPort_` as it was.
- `OnError` is the code that `poll` and `read` share: a flag per kind of error that
  lets the first through, and the time of the last reconnection for this kind.
  Times are kept as ages: `since[e]`, and `call` for the `currTime` that `readBytes`
  takes before it polls. Ages beyond `Old` are not told apart, as they are only
  compared with `RECONNECT_PERIOD`.
- `reconnect` closes the descriptor; a close of -1 does nothing.
- `ReadFails` is what a dead descriptor makes of `read`, always; `CallFails` is a `poll`
  or a `read` that fails on a descriptor that is well, which may happen at any time.
- The environment unplugs and plugs in the device. A descriptor that was open then
  is dead for good: `poll` reports it ready at once and `read` fails.
- `Stop` and `Destroy` are the destructor's: the flag, and, after the join, `close`.
  `stop_flag_` is looked at by `looping` only, so a thread in `poll` finishes first.
- Time passes in the blocking calls (`Tick`): while polling and in the pause after an
  unopened port, and between two turns of the loop.
- `descriptors` counts the descriptors the process holds, as history.

### ServoDriver

The node has one thread: `_init_servos` in the constructor, then one `_run_task`
at a time. It is sequential, but its servos are not: between any two requests a
servo drives on, gives way to its load or loses power. So one step is one request,
and `pc` is the request the driver makes next.

- A request with its retries is answered or is `None` to the caller. A write that
  is not answered may have been done all the same. `set_limits` is three writes
  (`SetMin`, `SetMax`, `SetMid`), each of which can fail on its own; the limits are
  cached only if all three were answered.
- `position`, `target` and `lims` are registers of the servo; `Drive`, `Sag` and
  `PowerCycle` are what happens to them without the driver. `cache` is the driver's
  `_limits`.
- `LookRaises` is `abs(None - angle)`: a `TypeError` that leaves the callback and
  ends the node.
- `send` is inside a `try`, `recv` is not (hitec_servo.py:181-212), so an exception of
  the bus leaves every other request, and the node, too: `pc = "busFailed"`, from a
  reading by `BusFails` and from the writes as one of their outcomes, after which the
  servo may have done as told. The scan at startup catches it, which is an empty scan,
  and so does the telemetry timer.
- The comprehensions over the actions of a task are modelled as they run: every
  action is looked at, and every action is made, also after one has failed.
- `cycled` (power lost since the driver learnt a servo's limits) and `reached` (the
  actions whose servo has been at the angle since the task was taken) are histories.
- Left out: the torque cap, telemetry and `info()`, the names of mechanisms, reading
  the YAML file (`Window`, `Tasks` are what it says; `RefuseTask` covers unknown and
  empty names), and the rounding of angles to 14-bit registers, which the tolerance
  is there to hide.

### DvlConnection, LifecycleDvl

`DvlConnection` has the two loops that both C++ nodes of the DVL contain, and the
kernel behind the socket. `LifecycleDvl` adds the managed node. One thread runs
everything, so a transition is served only while `pc = "idle"`; a configuration and
a timer callback are sequences of steps because the kernel and the sensor act
between them.

- `BeginSetup` creates the socket; `SetRcvTimeout` closes it again if it fails, and
  `on_configure` goes on with what is left. Then no attempt can be made (`NoAttempt`),
  as with an address that cannot be parsed. Failures of `fcntl`, `select` and
  `getsockopt` on an open descriptor, with arguments that are always valid, are left
  out, but not the `select` that a signal ends at once, which the code takes for a
  timeout.
- `Connect` on a socket that does not block: `StartAttempt` (a new `connect`, then
  `Select`) or `AskAgain`, when an attempt of an earlier call is under way, has
  failed or has succeeded meanwhile. `ReturnFromConnect` has the error code it sets,
  if any: success sets none, so `error_code` may be old. `Judge` sleeps after 114 and
  103 only, and `Wake` looks at the time limit after 114 only, as the code does.
- `elapsed` is the time since `first_time_error`, capped at the limit.
- `BeginLine`, `TakeByte`, `EndLine` are the reading loop. `Receive` may deliver
  nothing: `RepeatByte` appends the byte that is still in `tempBuffer`. The buffer
  begins uninitialised, so it may even begin as a line end (`Uninitialised`).
- A valid report may raise at a field after the altitude (lines 226-255): it is not
  published, but its altitude is kept. `Publish` has both outcomes.
- `Parses` is what the vendored JSON library does with such a string: white space before a
  value is skipped, anything else around it is refused, and repeated characters of a
  number are another number. A line is reduced to a kind, its digits and, for a
  report, whether the velocity is valid.
- `tcpSocket` is the raw pointer: uninitialised until the first configuration, and
  kept after cleanup.
- `sockets`, `measured` and `published` are histories.

### XsensTime, HighRateInterpolator, XdaCallback

The first two are operators. `XsensTime` has both arithmetics of a counter that
wraps at `W`: the interpolator's `computeTimeDifference` and the time handler's
`Elapsed`. Times in the model are true times that never wrap; the operators see
them only through `SampleTimeFine(t) = t % W`, so that what the code computes can
be compared with the truth. `HighRateInterpolator` has the two buffers that are
read, as sequences of sample times, and which two samples with which factor an
interpolation takes. A factor is a fraction, with the code's limits [0, 2].

`XdaCallback` is the state machine with both threads.

- All that is done while `m_mutex` is held is one step: `onLiveDataAvailable`, from
  the interpolation to the push, stamping included. `notify_one` comes after the
  unlock, so `NotifyOne` is a step of its own, and a main thread that is woken, for a
  reason or without one, or has timed out, takes the mutex again in a later step.
- `next` is `CallNext`, `LookAgain`, `LookOnceMore`: the predicate is evaluated
  before waiting, after each waking and after the timeout.
- A packet may come after one that was measured later (`MaxLate`), and may have UTC,
  a sample time, both or neither; `m_time_option` and the parameters that decide on
  interpolation are any the constructor accepts.
- The host's clock is read at the first frame, and is taken to agree with the
  sensor's true time there: only differences to it matter.
- `inReach` is a history: whether each sample time was a step from the last that the
  time handler follows: less than half the counter's range, and not back across a
  rollover already seen. Of the second the counter itself could tell more, as
  `computeTimeDifference` shows; the time handler takes such a packet for one a whole
  range later, and what its stamps are then worth, `StampsFollowSensor` does not say.
- `InterpolatesTrueTimes` has two parts: the factor of each pair in the queue is that
  of the true times (`FactorsTrue`), and a target ahead of all samples is interpolated
  from the newest two (`NewestTaken`). Which pair a target between samples should be
  given is not stated: the code does not find it (see Findings).

## Runs

| Run | Instance | Shows |
|---|---|---|
| `can_arming` | 2 ESCs; 2 thrusters crossed on the bus, one reversed; voltages 12 and 16 with startup minimum 15 and cutoff 13; hold of 2 ticks | the driver implements `KillSwitch`; `MovesOnlyAsAsked`, `UndervoltageNeedsHold`, `LiveOnlyWithTelemetry`; a kill reaches the bus and stays; a pack that stays low kills |
| `can_silent_esc` | the same | violation: see Findings |
| `can_discovery` | 3 ESCs and another node, one request each | the driver starts with every ESC, and does start |
| `can_discovery_overlap` | 2 ESCs, two requests each | violation: see Findings |
| `kvh_buffer` | capacity 3, two elements | size and iterators agree; the buffer is a drop-oldest queue |
| `kvh_driver` | datagrams of 4 bits (header 1 0, status, checksum), buffer of 8, lines of up to 11 bits | the seven properties of the search |
| `kvh_serial` | the real limits: 5 s between reconnections, 1 s of polling; one device | no descriptor is lost and a port called open has one; calls fail on a live descriptor too; a device that is back is read again; a dead descriptor is given up; reconnections keep their distance; the destructor ends |
| `servo_tasks` | 2 servos, angles 0 to 3, tolerance 1; three tasks | a task ends, and succeeds only if every servo has been at its angle; cached limits are those in the servo, and no move is cut off by a limit, until that servo loses power |
| `servo_status`, `servo_passing` | the same | violations: see Findings |
| `dvl_lifecycle` | limit of 9 s, `select` of 5 s, pause of 2 s; reports with and without a valid altitude, positions and responses, 2 on their way; one repeated byte a line | life cycle, socket and publishers agree and no socket is lost; a message is of one line; `on_configure` returns unless its attempts keep failing; the timer returns while the sensor sends |
| `xsens_packets` | a counter of 6; a queue of 2; interpolator buffers of 3; sample times 4 to 6 in every order a delay of 1 allows, repeated for ever; every option and every combination of parameters | no wake-up is lost; packets are delivered without the timeout; stamps and factors follow the true sample times, as far as the time handler follows them; a target ahead of the samples gets the newest two |

**Why the bounds are enough.** With two ESCs one can be silent or high while the
other is low. 12 and 16 lie on both sides of both limits, and their average, 14,
lies between the limits: below the startup minimum, above the cutoff. Two crossed
thrusters with different signs tell apart every confusion of the indices in
`remap_thrusts`. A hold of 2 separates "just begun", "on the way" and "long
enough". Demands are off and forward; the backward one is its mirror image and
comes out through the reversed thruster. In the KVH instance the checksum is one
bit, so false datagrams are as common as can be: windows that overlap a datagram
(1 0 0 1 0), that have a header and a bad checksum, or a good checksum and no
header. 11 bits are two datagrams and a piece of a third, enough for the indices
to pass the end of the 9 slots, for a datagram to be cut at every byte, and for
bytes left over by one call to meet a full read in the next. Of the servos, the
first has a window (0 to 3) wider than the limits it powers up with (2 to 3), so a
write that is lost, done or undone by a power cycle shows; the second has a window
(0 to 1) that tasks can leave. The tasks are a single move, one with both servos
whose second target is beyond the window but within the tolerance, and one whose
target is out of it: a task can be within limits, in their slack and outside, and
fail at its first or its last action. Angles 0 to 3 with tolerance 1 leave room for
near, far, and clamped but near. The serial port is run with the code's own
constants, in seconds, and without a bound on anything that happens to it. In the
DVL instance 9 is not a sum of 5s or 2s alone, so the limit is passed in a pause as
well as in a `select`; numbers of two different digits show a repeated byte, a digit
left out and a byte of another line, and one repeated byte is enough to break, or
change, a line. The Xsens instance begins just before the counter's rollover, so that
packets, pairs of samples and delays lie on both sides of it, and as sample times may
repeat, packets go on coming without a bound on their number. A late packet from before
the rollover moves the stamps ahead by a whole range, beyond `MaxStamp`, and ends the
stream; two packets fill
the queue, and three samples give the search of a pair two places. Not reached by
this run: samples more than half the counter's range apart, and a `cleanOldData` that
removes anything; the proof covers both.

**Fairness.** `CanDriver`: the startup ends, the 50 Hz timer fires and time
passes (weak fairness), and an ESC that is still alive is heard again and again:
it broadcasts its status for ever. Nothing is assumed of setpoints, the watchdog,
the battery, failing ESCs or shutdown. `EscDiscovery`: nodes keep broadcasting
their NodeStatus, time passes, the loop turns (weak), and of the answers to a
node that is asked again and again not all are lost (strong). `KvhDriver`: the
thread goes on once it has bytes (weak); the line may stay quiet for ever, so
`ReadBytes` has no fairness. `ServoDriver`: the thread goes on, and the deadline of
a verification passes (weak); nothing is assumed of the servos, of their answers,
or that a task is ever asked for, and a failing bus has no fairness. `KvhSerial`: the thread goes on, and so does the
destructor (weak); time passes, although between two turns of the loop only now and
then (strong); a device that is there can be opened if this is tried again and again,
and not every poll finds it silent, nor does every call on it fail (strong, all on what
the device does). Nothing is assumed of plugging. `LifecycleDvl`: the thread goes on inside a callback, and takes a
byte that is there; a connected sensor keeps sending (weak, all three). Nothing is
assumed of the kernel: an attempt may never be decided. `XdaCallback`: both threads go
on (weak). The timeout has no fairness, so what `PacketsDelivered` says is not owed to
it, and nothing is assumed of the sensor.

**Deadlock** is checked except where the system may stop: the thruster driver
after shutdown, discovery once it has ended with every node on the list, the KVH
driver when the bounded line has delivered its last byte, and the DVL node, which may
be destroyed, or wait for ever for the first byte of a line once a repeated byte is
used up.

## Proofs

Each theorem holds for every value of the constants that satisfies the named
assumptions of the module.

**CanDriverProofs.** Inductive invariant: `TypeOK`, `LiveOnlyWithTelemetry` and

- `ReadyAsAsked`: while the driver could move a thruster, the stored throttles
  carry out `asked`, or are all off. `MovesOnlyAsAsked` is about a step, and the
  watchdog's "continue" sets `armed` without touching the throttles, so without
  this nothing is known of what the next broadcast sends.
- `DipNotOverstated`: the dip timer is never ahead of `sinceGood`. It connects the
  code's clock with the history that `UndervoltageNeedsHold` speaks of.

From it: `TypeCorrect`, `NeverBlind`, `NeverMovesUnasked`, `ShortDipsNeverKill`,
and `ImplementsKillSwitch`, where each action maps to a step of `KillSwitch` or a
stutter.

**EscDiscoveryProofs.** With `MaxOutstanding = 1`: `NoDuplicateEntries` (a node on
the list has no request waiting) and `EveryEscFound`, which goes from the length
of the list to the number of different nodes by counting.

**CircularBufferProofs.** What `add` and `remove` do to size and contents of a
well-formed buffer, by cases on which index wraps; from these, `SizeAlwaysMatches`
and the refinement `BufferIsAQueue`.

**KvhDriverProofs.** Inductive invariant: `TypeOK`, `BufferIsTailOfLine` and

- `Control`: what each place of the thread says of buffer and counter, such as
  that a call in the middle of filling has room for the bytes left;
- `Searched`: every datagram that begins before the first byte in the buffer has
  been accepted or overlaps one that was;
- `Apart`: accepted datagrams lie one behind the other, and before the buffer.

From it: `TypeCorrect`, `EveryReadFits`, `NoByteIsLost`, `NothingIsMissed` and
`NoByteIsUsedTwice`, for every datagram size, header, checksum and line.

What is published needs two facts more, inductive on top of that invariant:

- `Parsed`: from the search that accepts a datagram to the return of the call, the
  fields that the callback will read are of the window at `Start`, which moves with the
  buffer while its bytes are cleared. Windows that fail their checksum overwrite the
  fields too, so nothing is known of them outside that stretch;
- `AcceptedOnLine`: accepted datagrams have positions on the line. A byte that arrives
  leaves the windows before it alone (`WindowStays`).

`OnlyTheGenuineIsPublished` follows: genuine in the sense that every message is an
accepted window as it stood on the line. An accepted window has a good checksum; its
header is looked for only until the first bad checksum of a call (see Findings). Its property is stated by a function from the
places in `published` to those in `accepted`, and the proof extends it by one place for
each datagram published.

`CircularBufferProofs` is instanced for the driver's buffer, and its lemmas are cited
through `SameOperations`. `BufferIsQueue` composes the two: the driver's steps are steps
of `CircularBuffer`, so its buffer implements `DropOldestQueue`, and by `EveryReadFits`
nothing is ever dropped from it.

**ServoDriverProofs.** Inductive invariant: `TypeOK`, `LimitsAsInServo` and

- `Phases`: which variables are in use at which `pc`, and that a servo still to be
  set up has no cached limits. Without it a failed write could contradict an entry
  that is already there;
- `Written`: what the writes of `set_limits` have achieved if all were answered so
  far and the servo kept its power. It carries the first write to the third, where
  the limits are cached;
- `Judged`: a move about to be sent was found to be within the cached limits.
  Together with `LimitsAsInServo` it gives the limits the servo enforces;
- `Progress`: while `ok` holds, the actions behind the current one are in `reached`.

`current` is the smallest element of `todo`; that it is one is by well-foundedness
of the naturals, as nothing says that there are finitely many servos. From the
invariant: `TypeCorrect`, `CachedLimitsHold`, `SuccessIsEarned` and
`NeverDrivenToALimit`.

**KvhSerialProofs.** Inductive invariant: `TypeOK`, `HoldsItsDescriptor` and

- `Places`: at which `pc` there is a descriptor. Without it, opening would be thought
  to overwrite one;
- `UntimedIsOld`: while the flag of an error is still set, none was timed. The flag
  lets an error through without looking at the time, and this is why the distance is
  kept all the same.

From it: `TypeCorrect`, `NothingLeaks` and `NeverReconnectsInHaste`, for every period
and poll timeout.

**XdaCallbackProofs.** First the arithmetic of a wrapping counter: `Turns` splits the
difference of two true times into whole turns and what the counter shows; from it
`DifferenceIsTrue` (the interpolator's difference is the true one for times less than
half the range apart) and `ElapsedIsTrue` (the time handler's is the true one less one
tick for each rollover, within reach). Inductive invariant: `TypeOK`, `NoLostWakeup`,
`FactorsTrue` and

- `InStep`: every packet in the queue stamped by the sample time is in step with the
  time handler. `StampsFollowSensor` relates packets of the queue only, while the next
  stamp is computed from the handler, also when the queue is empty by then.

From it: `TypeCorrect`, `NothingSleepsThrough`, `StampsInStep` and `InterpolationsAreTrue`, for
every even range of the counter, every queue and buffer size, window, gap and delay.

`PacketsAreQueued` is a refinement: with the packets that wait as its queue, the two
threads implement `DropOldestQueue`, so that packets leave in the order in which they
came, each once, and a full queue loses the oldest. It is a theorem only, not a property
of a run, as its elements are the infinitely many packets with any time stamp.

**LifecycleDvlProofs.** Inductive invariant: `TypeOK`, `LifeCycleKept`,
`PublishedFromOneLine` and

- `Configuring`: a configuration in progress is on a node that is unconfigured, and
  `fault = 0` means that its socket is connected or was. It carries
  the success of `Connect` through `Judge` and `Wake`, where an old error code may send
  it to sleep, to the state the manager sees;
- `LineInHand`: either nothing of the line has been taken and `str` repeats what the
  buffer held, or `str` is such filler, followed by the bytes of the line up to `at`,
  each once or more and none left out (`ReadUpTo`). That at most one kind of filler
  stands in front is needed to find the first byte that is no white space;
- `AltitudeKept`: what a report without a valid altitude would repeat is a number that
  the sensor has sent, or the initial one.

`PlaceOfByte` tells from a byte where in its line it stands, and `ParsedIsRepeated` uses
it: a string that parses begins at the line's "{" and runs through every digit to its
"}". From the invariant: `NodeIsTyped`, `LifeCycleIsKept` and `NoMessageMixesLines`, for
lines of any length, any times and any number of bytes appended twice. Assumed of the
lines (`LinesAssumption`, `ZeroAssumption`) is that a number has a digit and that no
digit is a brace, white space or the end of a line.

**Only model-checked**: all liveness (`KillReachesTheBus`, `LowPackKills`,
`DiscoveryEnds`, `CallReturns`, `TaskEnds`, `ReadsAgain`, `SpinEnds`, `DestructorEnds`,
`ConfigureReturns`, `TimerReturns`, `PacketsDelivered`), which the provers cannot do
under fairness. Every invariant and every action property that a run checks and that
holds is a theorem. `StartsWithEveryEsc` is one for `MaxOutstanding = 1` only: with more
it is violated (finding 2).

## Findings

1. `can_silent_esc`. `avg_esc_voltage` (can_driver.py:200) averages the last report
   of every ESC ever heard, however old. If one falls silent while its pack reads
   high, the average stays above the cutoff although the ESCs that still report
   see a flat pack, and the undervoltage kill never comes. `LowPackKills`, which
   passes, is the same statement for the case that every ESC that has reported
   keeps reporting.
2. `can_discovery_overlap`. The request's callback (can_driver.py:280) appends the
   node without looking whether it is on the list by now. With two requests to one
   ESC waiting, it is counted twice and the driver starts without another one.
3. `servo_status`. `position()` is `None` when a servo does not answer, and
   servo_driver.py:341 subtracts the angle from it. The `TypeError` ends the node
   before any status is published for the task, although the header of the file
   lists "no ack" (line 19) as a reason for status 0. `TaskEnds`, which passes, is
   what is left: the task ends, if only by raising. The same line lists "bus down": an
   exception of `recv` ends the node without a status as well. `TaskReported` sets
   that case aside, so that the run shows an unanswered reading alone to be enough.
4. `servo_passing`. A task whose servos read within the tolerance when it is taken
   succeeds at once, without commanding a move (servo_driver.py:341). If an earlier
   task failed while its servo was still on the way, that servo may just be passing:
   success is published and it moves on. `SuccessMeansReached`, which passes, says
   only that it was there.

Met while modelling, and in the models as the code has them, but without a run:

- KVH. After a bad checksum `foundDatagram` stays true (driver.cpp:76), so windows are
  parsed without the header the comment at line 75 promises.
- KVH. A port that was opened but could not be configured keeps its descriptor
  (five early returns, serial_unix.cpp:46-128), and no reconnection is tried while bytes arrive on it.
- Servo. The as-found position is compared with the configured window
  (servo_driver.py:203) also when `set_limits` has failed; the servo then clamps the
  "zero-distance move" to its own narrower limits, and moves.
- Servo. Targets are judged by the cached limits also after a servo has lost its power,
  and with it the limits (servo_driver.py:386). A comment counts on the servo to ignore
  what is out of its own (hitec_servo.py:484). `LimitsAsInServo` and `NeverClamped`
  speak of servos that have kept their power.
- DVL. A connected socket can be given up: a `Connect` that succeeds leaves `error_code`
  as it was, and 114 from an earlier attempt, past the limit, overwrites `fault`
  (lines 76-88).
- DVL. "Max time to set up" is looked at only after code 114
  (lifecycle_dvl_component.cpp:84): a sensor that refuses is tried for ever, on the
  thread that serves the transitions. `ConfigureReturns` says what is left.
- DVL. The result of `Receive` is not looked at (line 192), so a byte may be appended
  again and a number changed: `PublishedFromOneLine` says what is left. On a closed
  connection it is appended for ever and the callback never returns; `TimerReturns`
  leaves that case out.
- DVL. The destructor of a node that was never configured closes through an
  uninitialised pointer, and after a cleanup it closes a second time.
- Xsens. `RollOver` adds 2^32 - 1 (xsens_time_handler.cpp:95): a tick of 100 us is lost
  at each rollover, every five days. A late packet from before a rollover already seen
  is stamped about five days ahead.
- Xsens. With `time_option` 0, packets with UTC and packets with only a sample time get
  stamps of two clocks in one stream.
- Xsens. The search for the two samples around a target tests the differences with the
  opposite signs of what its comment says (high_rate_interpolator.cpp:206-207): with
  samples in order it finds none, and the last two are extrapolated from. A target behind
  the newest sample, from a packet that came late, gets them too, with a factor cut at 0.
  `cleanOldData` has its sign the other way round, too (lines 352, 360), and never
  removes an old sample; the limit of the buffer does.

## Not modelled

- How long a request to a servo takes against the deadline of a verification.
- The rate limit of the ESC telemetry topic, the size of gains, log messages.
- Gravity removal in `kvh_node.cpp`, and operations nobody calls (`Driver::reset`,
  `resetPath`).
- The CRC is taken as a predicate of the window; `equations.py` is not used.
- The quaternions and vectors that the interpolator combines, the calendar of UTC,
  warnings and their counters, and `onError`, which only logs.
- `tauv_repackagers` and `dvl_msgs` have no state. Device configuration, publishers,
  NTRIP and logging of the Xsens driver are I/O with a sequence of calls that no
  property speaks about.
- Most of the repository's C++ is third-party: the Xsens SDK (`tauv_xsens/lib/xspublic`)
  and the JSON library in two layouts (`tauv_dvl/include/dvl_a50/json`). Neither is this
  project's code, and only what the drivers use of them is modelled: what a sample time
  is (`SampleTimeFine`), and what the parser accepts (`Parses`).
- Everything the plan names.

## Plan

In this order, each with its runs, its mutants and, where noted, its proofs:

1. **HitecBus**, under `ServoDriver`: requests and retries, answers that come late
   and are matched by register but not by servo, the torque cap of
   `set_motor_limits`. Abstract specification: a request that is answered or `None`,
   as `ServoDriver` has it. Instance: 2 servos, 2 attempts, one answer delayed.
   Theorem: an answer belongs to the register it is taken for.
2. **DvlSensor**, the composable node, over `DvlConnection`, and **DvlLines**, the
   Python node's `_recv_buffer` across ticks and reconnections.
3. **DepthNode**: failures of a read, the error count, reinitialisation.
4. Proofs: composition facts, such as that the ESCs a discovery ends with are the ones
   the arming logic of `CanDriver` starts from; and the safety of the modules above.
