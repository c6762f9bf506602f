------------------------- MODULE EscDiscoveryProofs -------------------------
(***************************************************************************)
(* Discovery with any number of nodes, when no node has two requests       *)
(* waiting at once: the list then holds each ESC at most once, so that its *)
(* length counts ESCs.  TLC refutes the conclusion for MaxOutstanding = 2. *)
(***************************************************************************)
EXTENDS EscDiscovery, FiniteSetTheorems, TLAPS

(* A node on the list is not asked again, and had no request waiting when  *)
(* it got there: what is on the list is there once.                        *)
NoneTwice ==
  /\ discovered = Found \X {1}
  /\ \A n \in Found : waiting[n] = 0

IInv == TypeOK /\ NoneTwice /\ StartsWithEveryEsc

-----------------------------------------------------------------------------
(* The list is finite, and as long as there are nodes on it.               *)
LEMMA LengthCountsNodes ==
  ASSUME discovered = Found \X {1}, Found \subseteq Nodes
  PROVE  /\ IsFiniteSet(Found)
         /\ Cardinality(discovered) = Cardinality(Found)
         /\ Cardinality(Found) \in Nat
<1>1. IsFiniteSet(Found)
  BY FS_Subset, NodesAssumption
<1>2. Cardinality(Found) \in Nat
  BY <1>1, FS_CardinalityType
<1>3. Cardinality(Found \X {1}) = Cardinality(Found) * 1
  <2>1. IsFiniteSet({1}) /\ Cardinality({1}) = 1
    BY FS_Singleton
  <2>2. QED
    BY <1>1, <2>1, FS_Product
<1>4. QED
  BY <1>1, <1>2, <1>3

LEMMA FoundAreEscs ==
  ASSUME TypeOK PROVE Found \subseteq Escs /\ Found \subseteq Nodes
BY NodesAssumption DEF TypeOK, Found

LEMMA InitInv == Init => IInv
<1> SUFFICES ASSUME Init PROVE IInv
  OBVIOUS
<1>1. Found = {}
  BY DEF Init, Found
<1>2. TypeOK
  <2>1. timeUp \in BOOLEAN /\ done \in BOOLEAN
    BY Zenon DEF Init
  <2>2. /\ discovered \subseteq Escs \X (1 .. MaxOutstanding)
        /\ waiting \in [Nodes -> 0 .. MaxOutstanding]
    BY NodesAssumption DEF Init
  <2>3. QED
    BY <2>1, <2>2, Zenon DEF TypeOK
<1>3. NoneTwice
  <2>1. discovered = {} /\ {} \X {1} = {}
    BY DEF Init
  <2>2. QED
    BY <1>1, <2>1 DEF NoneTwice
<1>4. StartsWithEveryEsc
  BY DEF Init, StartsWithEveryEsc
<1>5. QED
  BY <1>2, <1>3, <1>4 DEF IInv

LEMMA OnNodeStatusInv ==
  ASSUME IInv, NEW n \in Nodes, OnNodeStatus(n)
  PROVE  IInv'
<1>1. /\ discovered' = discovered /\ timeUp' = timeUp /\ done' = done
      /\ n \notin Found /\ waiting[n] \in Nat /\ waiting[n] < MaxOutstanding
      /\ waiting' = [waiting EXCEPT ![n] = waiting[n] + 1]
  BY NodesAssumption DEF IInv, TypeOK, OnNodeStatus, Ask
<1>2. Found' = Found
  BY <1>1 DEF Found
<1>3. TypeOK'
  BY <1>1, NodesAssumption DEF IInv, TypeOK
<1>4. NoneTwice'
  BY <1>1, <1>2, FoundAreEscs DEF IInv, NoneTwice, TypeOK
<1>5. StartsWithEveryEsc'
  BY <1>1, <1>2 DEF IInv, StartsWithEveryEsc
<1>6. QED
  BY <1>3, <1>4, <1>5 DEF IInv

(* Only here is MaxOutstanding = 1 used: the request answered was the only *)
(* one, so none is left for a node that gets on the list.                  *)
LEMMA OnNodeInfoInv ==
  ASSUME IInv, MaxOutstanding = 1, NEW n \in Nodes, OnNodeInfo(n)
  PROVE  IInv'
<1>1. /\ timeUp' = timeUp /\ done' = done /\ waiting[n] = 1
      /\ waiting' = [waiting EXCEPT ![n] = 0]
  <2>1. /\ timeUp' = timeUp /\ done' = done /\ waiting[n] > 0
        /\ waiting' = [waiting EXCEPT ![n] = waiting[n] - 1]
    BY DEF OnNodeInfo, Answered
  <2>2. waiting[n] = 1
    BY <2>1 DEF IInv, TypeOK
  <2>3. waiting[n] - 1 = 0
    BY <2>2
  <2>4. QED
    BY <2>1, <2>2, <2>3
<1>2. n \notin Found
  BY <1>1 DEF IInv, NoneTwice
<1>3. CASE n \in Escs
  <2>1. Cardinality(Entries(n)) = 0
    <3>1. Entries(n) = {}
      BY <1>2 DEF Entries, Found
    <3>2. QED
      BY <3>1, FS_EmptySet
  <2>2. discovered' = discovered \cup {<<n, 1>>}
    <3>1. Cardinality(Entries(n)) + 1 = 1
      BY <2>1
    <3>2. QED
      BY <1>3, <3>1 DEF OnNodeInfo
  <2>3. Found' = Found \cup {n}
    <3>1. Found' = {c[1] : c \in discovered \cup {<<n, 1>>}}
      BY <2>2 DEF Found
    <3>2. ASSUME NEW m
          PROVE  m \in Found' <=> m \in Found \/ m = <<n, 1>>[1]
      BY <3>1, Zenon DEF Found
    <3>3. <<n, 1>>[1] = n
      OBVIOUS
    <3>4. QED
      BY <3>2, <3>3, Zenon
  <2>4. NoneTwice'
    BY <1>1, <2>2, <2>3, FoundAreEscs DEF IInv, NoneTwice, TypeOK
  <2>5. TypeOK'
    BY <1>1, <1>3, <2>2 DEF IInv, TypeOK
  <2>6. Cardinality(Found') = Cardinality(Found) + 1 /\ Cardinality(Found) \in Nat
    BY <1>2, <2>3, FS_AddElement, LengthCountsNodes, FoundAreEscs DEF IInv, NoneTwice
  <2>7. StartsWithEveryEsc'
    BY <1>1, <2>6, NodesAssumption DEF IInv, StartsWithEveryEsc
  <2>8. QED
    BY <2>4, <2>5, <2>7 DEF IInv
<1>4. CASE n \notin Escs
  <2>1. discovered' = discovered
    BY <1>4 DEF OnNodeInfo
  <2>2. Found' = Found
    BY <2>1 DEF Found
  <2>3. TypeOK'
    BY <1>1, <2>1 DEF IInv, TypeOK
  <2>4. NoneTwice' /\ StartsWithEveryEsc'
    BY <1>1, <2>1, <2>2, FoundAreEscs DEF IInv, NoneTwice, StartsWithEveryEsc, TypeOK
  <2>5. QED
    BY <2>3, <2>4 DEF IInv
<1>5. QED
  BY <1>3, <1>4

LEMMA RequestTimesOutInv ==
  ASSUME IInv, NEW n \in Nodes, RequestTimesOut(n)
  PROVE  IInv'
<1>1. /\ discovered' = discovered /\ timeUp' = timeUp /\ done' = done
      /\ waiting[n] \in 1 .. MaxOutstanding
      /\ waiting' = [waiting EXCEPT ![n] = waiting[n] - 1]
  BY NodesAssumption DEF IInv, TypeOK, RequestTimesOut, Answered
<1>2. Found' = Found
  BY <1>1 DEF Found
<1>3. n \notin Found
  BY <1>1 DEF IInv, NoneTwice
<1>4. TypeOK'
  BY <1>1, NodesAssumption DEF IInv, TypeOK
<1>5. NoneTwice' /\ StartsWithEveryEsc'
  BY <1>1, <1>2, <1>3, FoundAreEscs DEF IInv, NoneTwice, StartsWithEveryEsc, TypeOK
<1>6. QED
  BY <1>4, <1>5 DEF IInv

LEMMA EndDiscoveryInv == ASSUME IInv, EndDiscovery PROVE IInv'
<1>1. /\ discovered' = discovered /\ timeUp' = timeUp /\ waiting' = waiting
      /\ done' = TRUE /\ Cardinality(discovered) >= EscCount
  BY DEF EndDiscovery, Enough
<1>2. Found' = Found
  BY <1>1 DEF Found
<1>3. Cardinality(discovered) = Cardinality(Found)
  BY LengthCountsNodes, FoundAreEscs DEF IInv, NoneTwice
<1>4. TypeOK'
  BY <1>1 DEF IInv, TypeOK
<1>5. NoneTwice' /\ StartsWithEveryEsc'
  BY <1>1, <1>2, <1>3 DEF IInv, NoneTwice, StartsWithEveryEsc
<1>6. QED
  BY <1>4, <1>5 DEF IInv

LEMMA OtherStepsInv ==
  ASSUME IInv, DiscoveryTimePasses \/ UNCHANGED vars
  PROVE  IInv'
<1>1. /\ discovered' = discovered /\ waiting' = waiting /\ done' = done
      /\ timeUp' \in BOOLEAN
  BY DEF IInv, TypeOK, DiscoveryTimePasses, vars
<1>2. Found' = Found
  BY <1>1 DEF Found
<1>3. QED
  BY <1>1, <1>2 DEF IInv, TypeOK, NoneTwice, StartsWithEveryEsc

LEMMA SpecInv == ASSUME MaxOutstanding = 1 PROVE Spec => []IInv
<1>1. IInv /\ [Next]_vars => IInv'
  BY OnNodeStatusInv, OnNodeInfoInv, RequestTimesOutInv, EndDiscoveryInv,
     OtherStepsInv DEF Next
<1>2. QED
  BY <1>1, InitInv, PTL DEF Spec

-----------------------------------------------------------------------------
(* can_driver.py:265-287: no node is put on the list a second time, for    *)
(* any number of nodes, ESCs and lost answers, if no two requests to a     *)
(* node overlap.                                                           *)
THEOREM NoDuplicateEntries == ASSUME MaxOutstanding = 1 PROVE Spec => []TypeOK
<1>1. IInv => TypeOK
  BY DEF IInv
<1>2. QED
  BY <1>1, SpecInv, PTL

(* can_driver.py:123: and so the loop ends only when esc_count different   *)
(* ESCs have answered.                                                     *)
THEOREM EveryEscFound ==
  ASSUME MaxOutstanding = 1 PROVE Spec => []StartsWithEveryEsc
<1>1. IInv => StartsWithEveryEsc
  BY DEF IInv
<1>2. QED
  BY <1>1, SpecInv, PTL

=============================================================================
