--------------------------- MODULE KvhSerialProofs ---------------------------
(***************************************************************************)
(* Proofs about KvhSerial, for every period and timeout.                   *)
(***************************************************************************)
EXTENDS KvhSerial, TLAPS

(* What each place of the thread says of the descriptor. *)
Places ==
  /\ pc \in {"opening", "destroyed"} => fd = "none"
  /\ pc \in {"configuring", "reading"} => fd # "none"
  /\ pc \in {"joined", "destroyed"} => stop_flag_

(* An error not met yet was never timed: the flags say no more than the times. *)
UntimedIsOld == \A e \in Errors : first[e] => since[e] = Old

IInv ==
  /\ TypeOK /\ HoldsItsDescriptor
  /\ Places /\ UntimedIsOld

LEMMA InitInv == Init => IInv
<1> SUFFICES ASSUME Init PROVE IInv
  OBVIOUS
<1>1. TypeOK
  <2>1. since \in [Errors -> 0 .. Old] /\ call \in 0 .. POLL_TIMEOUT
    BY PeriodAssumption DEF Init, Old
  <2>2. first \in [Errors -> BOOLEAN]
    BY Zenon DEF Init
  <2> QED
    BY <2>1, <2>2 DEF Init, TypeOK
<1>2. HoldsItsDescriptor /\ Places
  BY DEF Init, HoldsItsDescriptor, OpenedHasDescriptor, Places
<1>3. UntimedIsOld
  BY DEF Init, UntimedIsOld
<1> QED
  BY <1>1, <1>2, <1>3 DEF IInv

(* The invariant does not look at the environment beyond its types. *)
LEMMA StepInv == IInv /\ [Next]_vars => IInv'
<1> SUFFICES ASSUME IInv, [Next]_vars PROVE IInv'
  OBVIOUS
<1> USE PeriodAssumption DEF IInv, TypeOK, HoldsItsDescriptor, OpenedHasDescriptor,
        Places, UntimedIsOld, Errors, Old, port, limits, outside
<1>1. CASE OpenWorks
  BY <1>1 DEF OpenWorks
<1>2. CASE OpenFails
  BY <1>2 DEF OpenFails, ReturnFromOpen
<1>3. CASE Configured
  BY <1>3 DEF Configured, ReturnFromOpen
<1>4. CASE NotConfigured
  BY <1>4 DEF NotConfigured, ReturnFromOpen
<1>5. CASE ReadBytes
  BY <1>5 DEF ReadBytes
<1>6. CASE PollReady
  BY <1>6 DEF PollReady, Ready
<1>7. ASSUME NEW e \in Errors, OnError(e), pc \in {"polling", "reading"} PROVE IInv'
  <2>1. CASE Due(e) /\ Reconnect /\ since' = [since EXCEPT ![e] = call]
    <3>1. first' \in [Errors -> BOOLEAN] /\ since' \in [Errors -> 0 .. Old]
      BY <1>7, <2>1 DEF OnError
    <3>2. /\ pc' = "opening" /\ fd' = "none" /\ descriptors' = 0
          /\ pending' = FALSE /\ UNCHANGED <<openedPort_, started, call, stop_flag_, attached>>
      BY <1>7, <2>1 DEF OnError, Reconnect
    <3>3. TypeOK'
      BY <3>1, <3>2
    <3>4. HoldsItsDescriptor' /\ Places'
      BY <3>2
    <3>5. UntimedIsOld'
      BY <1>7, <2>1 DEF OnError
    <3> QED
      BY <3>3, <3>4, <3>5
  <2>2. CASE ~Due(e) /\ pc' = "noPacket" /\ UNCHANGED <<port, pending, since>>
    BY <1>7, <2>2 DEF OnError
  <2> QED
    BY <1>7, <2>1, <2>2 DEF OnError
<1>8. CASE PollTimesOut \/ ReadFails \/ CallFails
  BY <1>7, <1>8 DEF PollTimesOut, ReadFails, CallFails
<1>9. CASE ReadWorks \/ NoPacket \/ Wake \/ LeaveLoop
  <2>1. CASE ReadWorks
    BY <2>1 DEF ReadWorks
  <2>2. CASE NoPacket
    BY <2>2 DEF NoPacket
  <2>3. CASE Wake \/ LeaveLoop
    BY <2>3 DEF Wake, LeaveLoop
  <2> QED
    BY <1>9, <2>1, <2>2, <2>3
<1>10. CASE Stop \/ Destroy
  <2>1. CASE Stop
    <3>1. TypeOK'
      BY <2>1 DEF Stop
    <3>2. HoldsItsDescriptor' /\ UntimedIsOld'
      BY <2>1 DEF Stop
    <3>3. Places'
      BY <2>1 DEF Stop
    <3> QED
      BY <3>1, <3>2, <3>3
  <2>2. CASE Destroy
    <3>1. descriptors' \in Nat /\ HoldsItsDescriptor'
      BY <2>2 DEF Destroy
    <3> QED
      BY <2>2, <3>1 DEF Destroy
  <2> QED
    BY <1>10, <2>1, <2>2
<1>11. CASE Attach \/ Detach \/ Deliver
  <2>1. CASE Attach
    BY <2>1 DEF Attach
  <2>2. CASE Detach
    BY <2>2 DEF Detach
  <2>3. CASE Deliver
    BY <2>3 DEF Deliver
  <2> QED
    BY <1>11, <2>1, <2>2, <2>3
<1>12. CASE Tick
  <2>1. \A age \in 0 .. Old : Older(age) \in 0 .. Old /\ (age = Old => Older(age) = Old)
    BY DEF Older
  <2>2. since' \in [Errors -> 0 .. Old] /\ UntimedIsOld'
    BY <1>12, <2>1 DEF Tick
  <2>3. call' \in 0 .. POLL_TIMEOUT
    BY <1>12 DEF Tick
  <2> QED
    BY <1>12, <2>2, <2>3 DEF Tick
<1>13. CASE UNCHANGED vars
  BY <1>13 DEF vars
<1> QED
  BY <1>1, <1>2, <1>3, <1>4, <1>5, <1>6, <1>8, <1>9, <1>10, <1>11, <1>12, <1>13
  DEF Next, Thread

THEOREM Inductive == Spec => []IInv
<1> QED
  BY InitInv, StepInv, PTL DEF Spec

(* Every variable keeps its type. *)
THEOREM TypeCorrect == Spec => []TypeOK
BY Inductive, PTL DEF IInv

(* serial_unix.cpp:27-53, :140-153: the process never holds a descriptor   *)
(* other than the one in file_handle_, none after the destructor, and a    *)
(* port said to be opened has one.                                         *)
THEOREM NothingLeaks == Spec => []HoldsItsDescriptor
BY Inductive, PTL DEF IInv

(* serial_unix.cpp:173, :188: errors of a kind reconnect at most once in a *)
(* period, also the first, which is let through by a flag.                 *)
THEOREM NeverReconnectsInHaste == Spec => ReconnectsApart
<1>1. IInv /\ [Next]_vars =>
        [\A e \in Errors : since'[e] < since[e] => since[e] - call > RECONNECT_PERIOD]_vars
  <2> SUFFICES ASSUME IInv, Next, NEW e \in Errors, since'[e] < since[e]
               PROVE  since[e] - call > RECONNECT_PERIOD
    OBVIOUS
  <2> USE PeriodAssumption DEF IInv, TypeOK, Errors, Old, port, limits, outside
  <2>1. CASE Thread \/ CallFails
    <3>1. ASSUME NEW k \in Errors, OnError(k) PROVE since[e] - call > RECONNECT_PERIOD
      BY <3>1 DEF OnError, Due, UntimedIsOld
    <3> QED
      BY <2>1, <3>1 DEF Thread, OpenWorks, OpenFails, Configured, NotConfigured,
         ReturnFromOpen, ReadBytes, PollReady, PollTimesOut, ReadFails, CallFails, ReadWorks,
         NoPacket, Wake, LeaveLoop
  <2>2. CASE Tick
    BY <2>2 DEF Tick, Older
  <2>3. CASE Stop \/ Destroy \/ Attach \/ Detach \/ Deliver
    BY <2>3 DEF Stop, Destroy, Attach, Detach, Deliver
  <2> QED
    BY <2>1, <2>2, <2>3 DEF Next
<1> QED
  BY <1>1, Inductive, PTL DEF Spec, ReconnectsApart

=============================================================================
