---------------------------- MODULE EscDiscovery ----------------------------
(***************************************************************************)
(* The discovery loop in the constructor of tauv_dronecan's CANDriver: it  *)
(* spins the DroneCAN node until both discovery_time has passed and        *)
(* esc_count ESCs have been found.  An ESC is found in two steps: its      *)
(* NodeStatus broadcast makes the driver ask for its name, and the answer, *)
(* handled in a later spin, puts it on the list discovered_escs.           *)
(*                                                                         *)
(* The list is kept sorted, so what matters of it is how often each node   *)
(* is on it: <<n, k>> stands for the k-th entry of node n.  The handlers   *)
(* stay registered when the loop has ended, and so does the list.          *)
(***************************************************************************)
EXTENDS Naturals, FiniteSets

CONSTANTS
  Nodes,           \* the other nodes on the bus
  Escs,            \* those whose name contains "nanodrive"
  EscCount,        \* parameter esc_count
  MaxOutstanding   \* requests to one node that can be waiting at once

ASSUME NodesAssumption ==
  /\ IsFiniteSet(Nodes)
  /\ Escs \subseteq Nodes
  /\ EscCount \in Nat
  /\ MaxOutstanding \in Nat \ {0}

VARIABLES
  discovered,   \* discovered_escs
  waiting,      \* per node, the GetNodeInfo requests not answered yet
  timeUp,       \* discovery_time has passed
  done          \* the loop has ended

vars == <<discovered, waiting, timeUp, done>>

Entries(n) == {c \in discovered : c[1] = n}
Found == {c[1] : c \in discovered}

Init ==
  /\ discovered = {}
  /\ waiting = [n \in Nodes |-> 0]
  /\ timeUp = FALSE
  /\ done = FALSE

(* _on_node_status: ask every node that is not on the list, whether or not *)
(* an earlier request is still waiting.  A node broadcasts once a second   *)
(* and a request waits up to a second: MaxOutstanding bounds the overlap.  *)
AskEvenIfFound(n) ==
  /\ waiting[n] < MaxOutstanding
  /\ waiting' = [waiting EXCEPT ![n] = @ + 1]

Ask(n) ==
  /\ n \notin Found
  /\ waiting[n] < MaxOutstanding
  /\ waiting' = [waiting EXCEPT ![n] = @ + 1]

OnNodeStatus(n) ==
  /\ Ask(n)
  /\ UNCHANGED <<discovered, timeUp, done>>

Answered(n) ==
  /\ waiting[n] > 0
  /\ waiting' = [waiting EXCEPT ![n] = @ - 1]
  /\ UNCHANGED <<timeUp, done>>

(* The callback with a response: an ESC goes on the list. *)
OnNodeInfo(n) ==
  /\ Answered(n)
  /\ discovered' = IF n \in Escs
                   THEN discovered \cup {<<n, Cardinality(Entries(n)) + 1>>}
                   ELSE discovered

(* The callback without one: the request has timed out. *)
RequestTimesOut(n) ==
  /\ Answered(n)
  /\ UNCHANGED discovered

DiscoveryTimePasses ==
  /\ ~timeUp
  /\ timeUp' = TRUE
  /\ UNCHANGED <<discovered, waiting, done>>

(* The loop's condition, with len(self.discovered_escs). *)
EnoughMore == timeUp /\ Cardinality(discovered) > EscCount
EnoughOrLate == timeUp \/ Cardinality(discovered) >= EscCount
Enough == timeUp /\ Cardinality(discovered) >= EscCount

EndDiscovery ==
  /\ ~done
  /\ Enough
  /\ done' = TRUE
  /\ UNCHANGED <<discovered, waiting, timeUp>>

Next ==
  \/ \E n \in Nodes : OnNodeStatus(n) \/ OnNodeInfo(n) \/ RequestTimesOut(n)
  \/ DiscoveryTimePasses
  \/ EndDiscovery

Spec == Init /\ [][Next]_vars

(* Every node keeps broadcasting, and not every answer is lost. *)
Fairness ==
  /\ WF_vars(DiscoveryTimePasses) /\ WF_vars(EndDiscovery)
  /\ \A n \in Nodes : WF_vars(OnNodeStatus(n)) /\ SF_vars(OnNodeInfo(n))

FairSpec == Spec /\ Fairness

-----------------------------------------------------------------------------
(* Properties *)

TypeOK ==
  /\ discovered \subseteq Escs \X (1 .. MaxOutstanding)
  /\ waiting \in [Nodes -> 0 .. MaxOutstanding]
  /\ timeUp \in BOOLEAN
  /\ done \in BOOLEAN

(* can_driver.py:123, 129, 279: the loop counts ESCs, so the driver goes   *)
(* on to the voltage check and arms only once esc_count different ESCs     *)
(* have answered.  It holds if no node has two requests waiting.           *)
StartsWithEveryEsc == done => Cardinality(Found) >= EscCount

(* can_driver.py:122-127: with esc_count ESCs on the bus the loop ends,    *)
(* whatever answers are lost on the way.                                   *)
DiscoveryEnds == <>done

=============================================================================
