------------------------- MODULE LifecycleDvlProofs -------------------------
(***************************************************************************)
(* The managed DVL node in its safe part: what holds of the life cycle and *)
(* of a published message for every sensor, any lines and any limits.      *)
(*                                                                         *)
(* The life cycle rests on what a configuration knows while it runs, and   *)
(* the messages on where in its line every byte taken so far comes from.   *)
(***************************************************************************)
EXTENDS LifecycleDvl, SequenceTheorems, TLAPS

(* A configuration runs only on a node without one: that its attempt has   *)
(* succeeded means that its socket is connected, or has been.              *)
Configuring ==
  pc \in Inside =>
    /\ state = "unconfigured"
    /\ fault = 0 => sock \in {"connected", "lost"}
    /\ pc = "setUp" => fault \in {0, -10}

Filler == {"other", "blank"}
Chars == Digits \cup {"{", "}", "LF"} \cup Filler

(* Byte i of s is byte from[i] of the line, or, where that is 0, what the  *)
(* buffer held before the first byte arrived; skipped counts those.        *)
TakenFrom(s, bytes, from, skipped) ==
  /\ \A i \in 1 .. Len(s) :
       IF i <= skipped THEN from[i] = 0 /\ s[i] \in Filler /\ s[i] = s[1]
                       ELSE from[i] >= 1 /\ s[i] = bytes[from[i]]
  /\ \A i \in 1 .. Len(s) - 1 : from[i + 1] - from[i] \in {0, 1}

(* s ends with byte last of the line. *)
ReadUpTo(s, bytes, last, skipped) ==
  \E from \in [1 .. Len(s) -> 0 .. last] :
    /\ TakenFrom(s, bytes, from, skipped)
    /\ Len(s) > 0 => from[Len(s)] = last

(* The line in hand: nothing of it has been taken, or its bytes up to at,  *)
(* each once or more and none left out.                                    *)
NothingTaken ==
  /\ at = 0 /\ tempBuffer \in Uninitialised
  /\ \A i \in 1 .. Len(str) : str[i] = tempBuffer /\ str[i] \in Filler
SomeTaken ==
  /\ sent # <<>> /\ at \in 1 .. Len(Bytes(Head(sent)))
  /\ tempBuffer = Bytes(Head(sent))[at]
  /\ \E skipped \in 0 .. Len(str) - 1 : ReadUpTo(str, Bytes(Head(sent)), at, skipped)
LineInHand == IF pc = "receive" THEN NothingTaken \/ SomeTaken ELSE at = 0

(* What would be published again if a report had no valid altitude. *)
AltitudeKept == Repeats(old_altitude, measured)

Control == TypeOK /\ LifeCycleKept /\ Configuring

IInv ==
  /\ Control
  /\ str \in Seq(Chars) /\ LineInHand
  /\ AltitudeKept /\ PublishedFromOneLine

-----------------------------------------------------------------------------
(* The life cycle *)

LEMMA Constants ==
  /\ SETUP_LIMIT \in Nat /\ SELECT_TIMEOUT \in Nat /\ SLEEP \in Nat
  /\ MaxRepeats \in Nat
  /\ 0 \in 0 .. SETUP_LIMIT /\ 0 \in 0 .. MaxRepeats
BY TimesAssumption

LEMMA LaterInRange ==
  ASSUME elapsed \in 0 .. SETUP_LIMIT, NEW t \in Nat
  PROVE  Later(t) \in 0 .. SETUP_LIMIT
BY Constants DEF Later

(* What a call of Connect returns is judged with the node as it was. *)
LEMMA ReturnKeeps ==
  ASSUME Control, pc \in {"connect", "select"}, UNCHANGED node,
         NEW result \in {0, -1},
         NEW code \in {0, TIMEOUT, ECONNABORTED, EALREADY, EOTHER},
         NEW t \in Nat,
         ReturnFromConnect(result, code, t),
         sock' \in SocketStates, sock' = "none" <=> sock = "none",
         result = 0 => sock' \in {"connected", "lost"}
  PROVE  Control'
<1>1. /\ pc' = "judge" /\ fault' = result /\ error_code' = code
      /\ elapsed' = Later(t) /\ elapsed' \in 0 .. SETUP_LIMIT
      /\ UNCHANGED <<address_ok, sent, at, repeats, state, timer, publishers,
                     tcpSocket, sockets>>
  BY LaterInRange DEF ReturnFromConnect, reading, node, Control, TypeOK
<1>2. TypeOK'
  BY <1>1 DEF Control, TypeOK, Inside
<1>3. Configuring /\ pc \in Inside
  BY DEF Control, Inside
<1>4. LifeCycleKept'
  BY <1>1, <1>3 DEF Control, Configuring, LifeCycleKept, ConnectedWhenConfigured,
                    NoSocketLost, TimerFindsPublishers
<1>5. Configuring'
  BY <1>1, <1>3 DEF Configuring
<1>6. QED
  BY <1>2, <1>4, <1>5 DEF Control

LEMMA ConnectingKeeps ==
  ASSUME Control, Connecting, UNCHANGED node
  PROVE  Control'
<1>1. /\ error_code \in {0, TIMEOUT, ECONNABORTED, EALREADY, EOTHER}
      /\ sock \in SocketStates /\ TypeOK /\ LifeCycleKept /\ Configuring
  BY DEF Control, TypeOK
<1>3. CASE NoAttempt
  BY <1>1, <1>3, ReturnKeeps DEF NoAttempt
<1>4. CASE StartAttempt
  <2>1. CASE ReturnFromConnect(-1, EOTHER, 0) /\ UNCHANGED sock
    BY <1>1, <1>4, <2>1, ReturnKeeps DEF StartAttempt
  <2>2. CASE sock' = "connecting" /\ pc' = "select"
             /\ UNCHANGED <<address_ok, attempt, sent, reading>>
    <3>1. /\ pc = "connect" /\ sock = "fresh"
          /\ UNCHANGED <<address_ok, fault, error_code, elapsed, sent, at, repeats,
                         state, timer, publishers, tcpSocket, sockets>>
      BY <1>4, <2>2 DEF StartAttempt, attempt, reading, node
    <3>2. TypeOK'
      BY <1>1, <2>2, <3>1 DEF TypeOK, Inside, SocketStates
    <3>3. LifeCycleKept' /\ Configuring'
      BY <1>1, <2>2, <3>1
         DEF LifeCycleKept, ConnectedWhenConfigured, NoSocketLost,
             TimerFindsPublishers, Configuring, Inside
    <3>4. QED
      BY <3>2, <3>3 DEF Control
  <2>3. QED
    BY <1>4, <2>1, <2>2 DEF StartAttempt
<1>5. CASE AskAgain
  <2>1. pc = "connect" /\ pc \in Inside
    BY <1>5 DEF AskAgain, Inside
  <2>2. \E result \in {0, -1}, code \in {0, TIMEOUT, ECONNABORTED, EALREADY, EOTHER} :
          /\ ReturnFromConnect(result, code, 0)
          /\ sock' \in SocketStates /\ (sock' = "none" <=> sock = "none")
          /\ result = 0 => sock' \in {"connected", "lost"}
    BY <1>1, <1>5 DEF AskAgain, SocketStates
  <2>3. QED
    BY <2>1, <2>2, ReturnKeeps
<1>6. CASE Select
  <2>1. pc = "select" /\ pc \in Inside
    BY <1>6 DEF Select, Inside
  <2>2. \E result \in {0, -1}, code \in {0, TIMEOUT, ECONNABORTED, EALREADY, EOTHER},
           t \in {0, SELECT_TIMEOUT} :
          /\ ReturnFromConnect(result, code, t)
          /\ sock' \in SocketStates /\ (sock' = "none" <=> sock = "none")
          /\ result = 0 => sock' \in {"connected", "lost"}
    BY <1>1, <1>6 DEF Select, SocketStates
  <2>3. QED
    BY <2>1, <2>2, ReturnKeeps, Constants
<1>7. CASE Loop
  <2>1. /\ pc = "loop" /\ pc' \in {"setUp", "connect"} /\ (pc' = "setUp" => fault = 0)
        /\ UNCHANGED <<address_ok, sock, fault, error_code, elapsed, sent, at, repeats,
                       state, timer, publishers, tcpSocket, sockets>>
    BY <1>7 DEF Loop, attempt, reading, node
  <2>2. TypeOK'
    BY <1>1, <2>1 DEF TypeOK, Inside
  <2>3. LifeCycleKept' /\ Configuring'
    BY <1>1, <2>1
       DEF LifeCycleKept, ConnectedWhenConfigured, NoSocketLost,
           TimerFindsPublishers, Configuring, Inside
  <2>4. QED
    BY <2>2, <2>3 DEF Control
<1>8. CASE Judge
  <2>1. /\ pc = "judge" /\ pc' \in {"sleep", "loop"}
        /\ UNCHANGED <<address_ok, sock, fault, error_code, elapsed, sent, at, repeats,
                       state, timer, publishers, tcpSocket, sockets>>
    BY <1>8 DEF Judge, attempt, reading, node
  <2>2. TypeOK'
    BY <1>1, <2>1 DEF TypeOK, Inside
  <2>3. LifeCycleKept' /\ Configuring'
    BY <1>1, <2>1
       DEF LifeCycleKept, ConnectedWhenConfigured, NoSocketLost,
           TimerFindsPublishers, Configuring, Inside
  <2>4. QED
    BY <2>2, <2>3 DEF Control
<1>9. CASE Wake
  <2>1. /\ pc = "sleep" /\ elapsed' = Later(SLEEP)
        /\ \/ fault' = -10 /\ pc' = "setUp"
           \/ fault' = fault /\ pc' = "loop"
        /\ UNCHANGED <<address_ok, sock, error_code, sent, at, repeats,
                       state, timer, publishers, tcpSocket, sockets>>
    BY <1>9 DEF Wake, reading, node
  <2>2. elapsed' \in 0 .. SETUP_LIMIT
    BY <1>1, <2>1, Constants, LaterInRange DEF TypeOK
  <2>3. TypeOK'
    BY <1>1, <2>1, <2>2 DEF TypeOK, Inside
  <2>4. LifeCycleKept' /\ Configuring'
    BY <1>1, <2>1
       DEF LifeCycleKept, ConnectedWhenConfigured, NoSocketLost,
           TimerFindsPublishers, Configuring, Inside
  <2>5. QED
    BY <2>3, <2>4 DEF Control
<1>10. QED
  BY <1>3, <1>4, <1>5, <1>6, <1>7, <1>8, <1>9 DEF Connecting

LEMMA ConfigureKeeps ==
  ASSUME Control, OnConfigure \/ EndConfigure
  PROVE  Control'
<1>1. TypeOK /\ LifeCycleKept /\ Configuring
  BY DEF Control
<1>2. CASE OnConfigure
  <2>1. /\ pc = "idle" /\ state = "unconfigured" /\ state' = state
        /\ sock = "none" /\ fault # 0 /\ sockets = 0
        /\ timer' = TRUE /\ publishers' = "inactive" /\ tcpSocket' = "object"
    BY <1>1, <1>2 DEF OnConfigure, LifeCycleKept, ConnectedWhenConfigured, NoSocketLost
  <2>2. CASE BeginSetup /\ sockets' = IF sock' = "none" THEN sockets ELSE sockets + 1
    <3>1. /\ sock' \in {"fresh", "none"} /\ pc' = "loop"
          /\ error_code' = 0 /\ elapsed' = 0
          /\ sent' = <<>> /\ at' = 0 /\ sockets' = IF sock' = "none" THEN 0 ELSE 1
          /\ UNCHANGED <<address_ok, fault, repeats>>
      BY <2>1, <2>2 DEF BeginSetup
    <3>2. TypeOK'
      BY <1>1, <2>1, <3>1, Constants DEF TypeOK, Inside, SocketStates
    <3>3. LifeCycleKept' /\ Configuring'
      BY <2>1, <3>1
         DEF LifeCycleKept, ConnectedWhenConfigured, NoSocketLost,
             TimerFindsPublishers, Configuring
    <3>4. QED
      BY <3>2, <3>3 DEF Control
  <2>3. CASE UNCHANGED <<connection, sockets>>
    <3>1. UNCHANGED <<pc, address_ok, sock, fault, error_code, elapsed, sent, at,
                      repeats, sockets>>
      BY <2>3 DEF connection, attempt, reading
    <3>2. TypeOK'
      BY <1>1, <2>1, <3>1 DEF TypeOK
    <3>3. LifeCycleKept' /\ Configuring'
      BY <1>1, <2>1, <3>1
         DEF LifeCycleKept, ConnectedWhenConfigured, NoSocketLost,
             TimerFindsPublishers, Configuring, Inside
    <3>4. QED
      BY <3>2, <3>3 DEF Control
  <2>4. QED
    BY <1>2, <2>2, <2>3 DEF OnConfigure
<1>3. CASE EndConfigure
  <2>1. /\ pc = "setUp" /\ pc' = "idle" /\ elapsed' = 0
        /\ UNCHANGED <<address_ok, fault, error_code, sent, at, repeats,
                       timer, publishers, tcpSocket>>
        /\ state = "unconfigured" /\ sockets = IF sock = "none" THEN 0 ELSE 1
        /\ fault \in {0, -10} /\ (fault = 0 => sock \in {"connected", "lost"})
    BY <1>1, <1>3
       DEF EndConfigure, reading, Configuring, Inside, LifeCycleKept, NoSocketLost
  <2>2. \/ fault = -10 /\ sock' = "none" /\ sockets' = 0 /\ state' = "unconfigured"
        \/ fault = 0 /\ state' = "inactive" /\ UNCHANGED <<sock, sockets>>
    BY <1>3, <2>1 DEF EndConfigure, CloseSocket
  <2>3. TypeOK'
    BY <1>1, <2>1, <2>2, Constants DEF TypeOK, SocketStates
  <2>4. LifeCycleKept' /\ Configuring'
    BY <1>1, <2>1, <2>2
       DEF LifeCycleKept, ConnectedWhenConfigured, NoSocketLost,
           TimerFindsPublishers, Configuring, Inside
  <2>5. QED
    BY <2>3, <2>4 DEF Control
<1>4. QED
  BY <1>2, <1>3

LEMMA TransitionKeeps ==
  ASSUME Control, OnActivate \/ OnDeactivate \/ OnCleanup \/ OnShutdown \/ Destroy
  PROVE  Control'
<1>1. TypeOK /\ LifeCycleKept /\ Configuring
  BY DEF Control
<1>2. CASE OnActivate \/ OnDeactivate \/ OnShutdown
  <2>1. /\ pc = "idle" /\ state \in {"unconfigured", "inactive", "active"}
        /\ \/ state \in {"inactive", "active"} /\ state' \in {"inactive", "active"}
              /\ publishers' = state' /\ timer' = timer
           \/ state' = "finalized" /\ publishers' = "none" /\ timer' = FALSE
        /\ UNCHANGED <<pc, address_ok, sock, fault, error_code, elapsed, sent, at,
                       repeats, tcpSocket, sockets>>
    BY <1>2 DEF OnActivate, OnDeactivate, OnShutdown, connection, attempt, reading
  <2>2. TypeOK'
    BY <1>1, <2>1 DEF TypeOK
  <2>3. LifeCycleKept' /\ Configuring'
    BY <1>1, <2>1
       DEF LifeCycleKept, ConnectedWhenConfigured, NoSocketLost,
           TimerFindsPublishers, Configuring, Inside
  <2>4. QED
    BY <2>2, <2>3 DEF Control
<1>3. CASE OnCleanup
  <2>1. /\ pc = "idle" /\ state = "inactive" /\ state' = "unconfigured"
        /\ fault' = 1 /\ sock' = "none" /\ timer' = FALSE /\ publishers' = "none"
        /\ sockets' = 0
        /\ UNCHANGED <<pc, address_ok, error_code, elapsed, sent, at, repeats, tcpSocket>>
    BY <1>1, <1>3 DEF OnCleanup, FaultAfterCleanup, CloseSocket, reading,
                      LifeCycleKept, NoSocketLost
  <2>2. TypeOK'
    BY <1>1, <2>1 DEF TypeOK, SocketStates
  <2>3. LifeCycleKept' /\ Configuring'
    BY <2>1 DEF LifeCycleKept, ConnectedWhenConfigured, NoSocketLost,
                TimerFindsPublishers, Configuring, Inside
  <2>4. QED
    BY <2>2, <2>3 DEF Control
<1>4. CASE Destroy
  <2>1. /\ pc = "idle" /\ pc' = "destroyed"
        /\ \/ sock' = "none" /\ sockets' = 0
           \/ UNCHANGED <<sock, sockets>>
        /\ UNCHANGED <<address_ok, fault, error_code, elapsed, sent, at, repeats,
                       state, timer, publishers, tcpSocket>>
    BY <1>1, <1>4 DEF Destroy, CloseSocket, attempt, reading, LifeCycleKept, NoSocketLost
  <2>2. TypeOK'
    BY <1>1, <2>1 DEF TypeOK, SocketStates
  <2>3. LifeCycleKept' /\ Configuring'
    BY <1>1, <2>1
       DEF LifeCycleKept, ConnectedWhenConfigured, NoSocketLost,
           TimerFindsPublishers, Configuring, Inside
  <2>4. QED
    BY <2>2, <2>3 DEF Control
<1>5. QED
  BY <1>2, <1>3, <1>4

LEMMA TimerKeeps ==
  ASSUME Control, LineInHand, UNCHANGED node,
         BeginLine \/ TakeByte \/ RepeatByte \/ EndLine
  PROVE  Control'
<1>1. TypeOK /\ LifeCycleKept /\ Configuring
  BY DEF Control
<1>2. /\ pc \in {"idle", "receive"} /\ pc' \in {"idle", "receive"}
      /\ UNCHANGED <<address_ok, sock, fault, error_code, elapsed,
                     state, timer, publishers, tcpSocket, sockets>>
  BY DEF BeginLine, TakeByte, RepeatByte, EndLine, Wanted, attempt, node
<1>3. sent' \in Seq(Lines) /\ at' \in Nat /\ repeats' \in 0 .. MaxRepeats
  <2>1. CASE BeginLine
    BY <1>1, <2>1, Constants DEF BeginLine, TypeOK
  <2>2. CASE TakeByte
    BY <1>1, <2>2 DEF TakeByte, TypeOK
  <2>3. CASE RepeatByte
    BY <1>1, <2>3, Constants DEF RepeatByte, TypeOK
  <2>4. CASE EndLine
    <3>1. at # 0 => sent # <<>>
      BY <2>4 DEF EndLine, LineInHand, NothingTaken, SomeTaken
    <3>2. QED
      BY <1>1, <2>4, <3>1, Constants DEF EndLine, TypeOK
  <2>5. QED
    BY <2>1, <2>2, <2>3, <2>4
<1>4. TypeOK'
  BY <1>1, <1>2, <1>3 DEF TypeOK
<1>5. LifeCycleKept' /\ Configuring'
  BY <1>1, <1>2
     DEF LifeCycleKept, ConnectedWhenConfigured, NoSocketLost,
         TimerFindsPublishers, Configuring, Inside
<1>6. QED
  BY <1>4, <1>5 DEF Control

LEMMA EnvironmentKeeps ==
  ASSUME Control, Environment, UNCHANGED node
  PROVE  Control'
<1>1. TypeOK /\ LifeCycleKept /\ Configuring
  BY DEF Control
<1>2. UNCHANGED <<pc, address_ok, fault, error_code, elapsed, at, repeats,
                  state, timer, publishers, tcpSocket, sockets>>
  BY DEF Environment, Accept, Reject, Lose, SocketBecomes, Report,
         attempt, reading, node
<1>3. /\ sent' \in Seq(Lines) /\ sock' \in SocketStates
      /\ sock = "none" <=> sock' = "none"
      /\ sock \in {"connected", "lost"} => sock' \in {"connected", "lost"}
  BY <1>1 DEF Environment, Accept, Reject, Lose, SocketBecomes, Report,
              TypeOK, SocketStates
<1>4. TypeOK'
  BY <1>1, <1>2, <1>3 DEF TypeOK
<1>5. LifeCycleKept' /\ Configuring'
  BY <1>1, <1>2, <1>3
     DEF LifeCycleKept, ConnectedWhenConfigured, NoSocketLost,
         TimerFindsPublishers, Configuring, Inside
<1>6. QED
  BY <1>4, <1>5 DEF Control

-----------------------------------------------------------------------------
(* The line in hand *)

LEMMA BytesOfLine ==
  ASSUME NEW line \in Lines
  PROVE  /\ Bytes(line) \in Seq(Chars)
         /\ Len(line.digits) \in Nat /\ Len(line.digits) >= 1
         /\ Len(Bytes(line)) = Len(line.digits) + 3
         /\ \A i \in 1 .. Len(line.digits) + 3 :
              Bytes(line)[i] = IF i = 1 THEN "{"
                               ELSE IF i = Len(line.digits) + 2 THEN "}"
                               ELSE IF i = Len(line.digits) + 3 THEN "LF"
                               ELSE line.digits[i - 1]
<1> DEFINE d == line.digits
           n == Len(d)
           begin == <<"{">>
           open == begin \o d
           close == <<"}", "LF">>
<1>1. d \in Seq(Digits) /\ d # <<>>
  BY LinesAssumption
<1>2. n \in Nat /\ n >= 1
  BY <1>1, EmptySeq
<1>3. d \in Seq(Chars) /\ begin \in Seq(Chars) /\ close \in Seq(Chars)
  <2>1. Digits \subseteq Chars
    BY DEF Chars
  <2>2. d \in Seq(Chars)
    BY <1>1, <2>1, SeqMonotonic
  <2>3. begin \in Seq(Chars) /\ close \in Seq(Chars)
    BY DEF Chars
  <2>4. QED
    BY <2>2, <2>3
<1>4. /\ Len(begin) = 1 /\ begin[1] = "{"
      /\ Len(close) = 2 /\ close[1] = "}" /\ close[2] = "LF"
  OBVIOUS
<1>5. /\ open \in Seq(Chars) /\ Len(open) = 1 + n
      /\ \A i \in 1 .. 1 + n : open[i] = IF i <= 1 THEN begin[i] ELSE d[i - 1]
  <2> HIDE DEF begin, close, d
  <2>1. /\ begin \o d \in Seq(Chars) /\ Len(begin \o d) = Len(begin) + Len(d)
        /\ \A i \in 1 .. Len(begin) + Len(d) :
             (begin \o d)[i] = IF i <= Len(begin) THEN begin[i] ELSE d[i - Len(begin)]
    BY <1>3, ConcatProperties
  <2>2. QED
    BY <1>4, <2>1
<1>6. /\ open \o close \in Seq(Chars) /\ Len(open \o close) = 1 + n + 2
      /\ \A i \in 1 .. 1 + n + 2 :
           (open \o close)[i] = IF i <= 1 + n THEN open[i] ELSE close[i - (1 + n)]
  <2> HIDE DEF open, close, n
  <2>1. /\ open \o close \in Seq(Chars) /\ Len(open \o close) = Len(open) + Len(close)
        /\ \A i \in 1 .. Len(open) + Len(close) :
             (open \o close)[i] = IF i <= Len(open) THEN open[i] ELSE close[i - Len(open)]
    BY <1>3, <1>5, ConcatProperties
  <2>2. QED
    BY <1>4, <1>5, <2>1
<1>7. Bytes(line) = open \o close
  BY DEF Bytes
<1>8. ASSUME NEW i \in 1 .. n + 3
      PROVE  Bytes(line)[i] = IF i = 1 THEN "{"
                               ELSE IF i = n + 2 THEN "}"
                               ELSE IF i = n + 3 THEN "LF"
                               ELSE d[i - 1]
  <2> HIDE DEF begin, open, close, n, d
  <2>1. i \in 1 .. 1 + n + 2 /\ i \in Int
    BY <1>2
  <2>2. CASE i <= 1 + n
    <3>1. Bytes(line)[i] = open[i] /\ i \in 1 .. 1 + n
      BY <1>2, <1>6, <1>7, <2>1, <2>2
    <3>2. open[i] = IF i <= 1 THEN begin[i] ELSE d[i - 1]
      BY <1>5, <3>1
    <3>3. CASE i = 1
      <4>1. i <= 1
        BY <3>3
      <4>2. QED
        BY <1>4, <3>1, <3>2, <3>3, <4>1
    <3>4. CASE i # 1
      <4>1. ~(i <= 1) /\ i # n + 2 /\ i # n + 3
        BY <1>2, <2>1, <2>2, <3>4
      <4>2. QED
        BY <3>1, <3>2, <3>4, <4>1
    <3>5. QED
      BY <3>3, <3>4
  <2>3. CASE ~(i <= 1 + n)
    <3>1. Bytes(line)[i] = close[i - (1 + n)]
      BY <1>6, <1>7, <2>1, <2>3
    <3>2. i = n + 2 \/ i = n + 3
      BY <1>2, <2>1, <2>3
    <3>3. CASE i = n + 2
      <4>1. i - (1 + n) = 1 /\ i # 1
        BY <1>2, <3>3
      <4>2. QED
        BY <1>4, <3>1, <3>3, <4>1
    <3>4. CASE i = n + 3
      <4>1. i - (1 + n) = 2 /\ i # 1 /\ i # n + 2
        BY <1>2, <3>4
      <4>2. QED
        BY <1>4, <3>1, <3>4, <4>1
    <3>5. QED
      BY <3>2, <3>3, <3>4
  <2>4. QED
    BY <2>2, <2>3
<1>9. Bytes(line) \in Seq(Chars) /\ Len(Bytes(line)) = n + 3
  <2> HIDE DEF open, close, n
  <2>1. QED
    BY <1>2, <1>6, <1>7
<1>10. QED
  BY <1>2, <1>8, <1>9

LEMMA LineOfHead ==
  ASSUME TypeOK, sent # <<>>
  PROVE  Head(sent) \in Lines
BY DEF TypeOK

(* A step outside of the timer's callback leaves no line in hand. *)
LEMMA OutsideKeepsLine ==
  ASSUME IInv, pc # "receive", pc' # "receive", at' \in {0, at}
  PROVE  LineInHand'
BY DEF IInv, LineInHand

LEMMA BeginKeepsLine ==
  ASSUME IInv, BeginLine
  PROVE  LineInHand' /\ str' \in Seq(Chars)
<1>1. /\ pc' = "receive" /\ at' = 0 /\ tempBuffer' \in Uninitialised /\ str' = <<>>
  BY DEF BeginLine, IInv, LineInHand
<1>2. NothingTaken'
  BY <1>1 DEF NothingTaken
<1>3. QED
  BY <1>1, <1>2 DEF LineInHand

LEMMA EndKeepsLine ==
  ASSUME IInv, EndLine
  PROVE  LineInHand' /\ str' \in Seq(Chars)
BY DEF EndLine, LineInHand

(* The head of what the sensor has sent is what it was. *)
LEMMA ReportKeepsLine ==
  ASSUME IInv, Environment
  PROVE  LineInHand' /\ str' \in Seq(Chars)
<1>1. /\ UNCHANGED <<pc, at, tempBuffer, str>>
      /\ sent # <<>> => sent' # <<>> /\ Head(sent') = Head(sent)
  BY DEF Environment, Accept, Reject, Lose, SocketBecomes, Report, reading,
         IInv, Control, TypeOK
<1>2. NothingTaken => NothingTaken'
  BY <1>1 DEF NothingTaken
<1>3. SomeTaken => SomeTaken'
  BY <1>1 DEF SomeTaken
<1>4. QED
  BY <1>1, <1>2, <1>3 DEF IInv, LineInHand

(* One byte more, byte k of the line: the one after the last, or that one  *)
(* again.                                                                  *)
LEMMA OneMoreByte ==
  ASSUME NEW s, NEW bytes, NEW old, NEW k, NEW skipped,
         s \in Seq(Chars), bytes \in Seq(Chars), old \in Nat,
         k \in 1 .. Len(bytes), k \in {old, old + 1}, skipped \in 0 .. Len(s),
         ReadUpTo(s, bytes, old, skipped)
  PROVE  ReadUpTo(Append(s, bytes[k]), bytes, k, skipped)
<1>1. PICK from \in [1 .. Len(s) -> 0 .. old] :
        /\ TakenFrom(s, bytes, from, skipped)
        /\ Len(s) > 0 => from[Len(s)] = old
  BY DEF ReadUpTo
<1> DEFINE b == bytes[k]
           t == Append(s, b)
<1>2. PICK n \in Nat : n = Len(s)
  OBVIOUS
<1>3. /\ Len(t) = n + 1 /\ t[n + 1] = b /\ t \in Seq(Chars)
      /\ \A i \in 1 .. n : t[i] = s[i]
  <2>1. b \in Chars
    BY ElementOfSeq
  <2> HIDE DEF b
  <2>2. QED
    BY <1>2, <2>1, AppendProperties
<1>4. k \in Nat /\ k >= 1 /\ old <= k /\ skipped \in Nat /\ skipped <= n
  BY <1>2
<1>5. PICK there \in [1 .. n + 1 -> 0 .. k] :
        there[n + 1] = k /\ \A i \in 1 .. n : there[i] = from[i]
  <2> DEFINE f == [i \in 1 .. n + 1 |-> IF i = n + 1 THEN k ELSE from[i]]
  <2>1. ASSUME NEW i \in 1 .. n + 1
        PROVE  (IF i = n + 1 THEN k ELSE from[i]) \in 0 .. k
    <3>1. CASE i = n + 1
      BY <1>4, <3>1
    <3>2. CASE i # n + 1
      <4>1. i \in 1 .. n
        BY <3>2
      <4>2. from[i] \in 0 .. old
        BY <1>1, <1>2, <4>1
      <4>3. QED
        BY <1>4, <3>2, <4>2
    <3>3. QED
      BY <3>1, <3>2
  <2>2. f \in [1 .. n + 1 -> 0 .. k]
    BY <2>1
  <2>3. n + 1 \in 1 .. n + 1 /\ \A i \in 1 .. n : i \in 1 .. n + 1 /\ i # n + 1
    OBVIOUS
  <2>4. f[n + 1] = k /\ \A i \in 1 .. n : f[i] = from[i]
    BY <2>3
  <2> HIDE DEF f
  <2>5. QED
    BY <2>2, <2>4
<1>6. ASSUME NEW i \in 1 .. n + 1
      PROVE  IF i <= skipped THEN there[i] = 0 /\ t[i] \in Filler /\ t[i] = t[1]
                             ELSE there[i] >= 1 /\ t[i] = bytes[there[i]]
  <2>1. CASE i = n + 1
    <3>1. ~(i <= skipped)
      BY <1>4, <2>1
    <3>2. QED
      BY <1>3, <1>4, <1>5, <2>1, <3>1
  <2>2. CASE i # n + 1
    <3>1. i \in 1 .. n /\ 1 \in 1 .. n
      BY <2>2
    <3>2. t[i] = s[i] /\ t[1] = s[1] /\ there[i] = from[i]
      BY <1>3, <1>5, <3>1
    <3>3. IF i <= skipped THEN from[i] = 0 /\ s[i] \in Filler /\ s[i] = s[1]
                          ELSE from[i] >= 1 /\ s[i] = bytes[from[i]]
      BY <1>1, <1>2, <3>1 DEF TakenFrom
    <3>4. QED
      BY <3>2, <3>3
  <2>3. QED
    BY <2>1, <2>2
<1>7. ASSUME NEW i \in 1 .. n
      PROVE  there[i + 1] - there[i] \in {0, 1}
  <2>1. CASE i = n
    BY <1>1, <1>2, <1>4, <1>5, <2>1
  <2>2. CASE i # n
    <3>1. i \in 1 .. n - 1 /\ i + 1 \in 1 .. n
      BY <2>2
    <3>2. from[i + 1] - from[i] \in {0, 1}
      BY <1>1, <1>2, <3>1 DEF TakenFrom
    <3>3. QED
      BY <1>5, <3>1, <3>2
  <2>3. QED
    BY <2>1, <2>2
<1>8. TakenFrom(t, bytes, there, skipped)
  <2>1. 1 .. Len(t) = 1 .. n + 1 /\ 1 .. Len(t) - 1 = 1 .. n
    BY <1>3
  <2>2. QED
    BY <1>6, <1>7, <2>1 DEF TakenFrom
<1>9. QED
  BY <1>3, <1>5, <1>8 DEF ReadUpTo

LEMMA TakeByteKeepsLine ==
  ASSUME IInv, TakeByte
  PROVE  LineInHand' /\ str' \in Seq(Chars)
<1> DEFINE b == Bytes(Head(sent))[at + 1]
<1>1. /\ pc = "receive" /\ pc' = "receive" /\ sent # <<>> /\ sent' = sent
      /\ tempBuffer # "LF" /\ tempBuffer' = b /\ at' = at + 1
      /\ at < Len(Bytes(Head(sent))) /\ str' = Append(str, b)
  BY DEF TakeByte, Wanted, LineEnd
<1>2. /\ at \in Nat /\ str \in Seq(Chars) /\ Len(str) \in Nat
      /\ NothingTaken \/ SomeTaken
  BY <1>1 DEF IInv, Control, TypeOK, LineInHand
<1>3. /\ Bytes(Head(sent)) \in Seq(Chars) /\ Len(Bytes(Head(sent))) \in Nat
      /\ Head(sent) \in Lines
  <2>1. Head(sent) \in Lines
    BY <1>1, LineOfHead DEF IInv, Control
  <2>2. Bytes(Head(sent)) \in Seq(Chars)
    BY <2>1, BytesOfLine
  <2>3. QED
    BY <2>1, <2>2
<1>4. at + 1 \in 1 .. Len(Bytes(Head(sent)))
  BY <1>1, <1>2, <1>3
<1>5. b \in Chars
  BY <1>3, <1>4, ElementOfSeq
<1>6. str' \in Seq(Chars) /\ Len(str') = Len(str) + 1
  BY <1>1, <1>2, <1>5, AppendProperties
<1>7. PICK skipped \in 0 .. Len(str) : ReadUpTo(str, Bytes(Head(sent)), at, skipped)
  <2>1. CASE NothingTaken
    <3> DEFINE none == [i \in 1 .. Len(str) |-> 0]
    <3>1. at = 0 /\ none \in [1 .. Len(str) -> 0 .. at]
      BY <2>1 DEF NothingTaken
    <3>2. ASSUME NEW i \in 1 .. Len(str)
          PROVE  i <= Len(str) /\ none[i] = 0 /\ str[i] \in Filler /\ str[i] = str[1]
      <4>1. 1 \in 1 .. Len(str)
        BY <1>2
      <4>2. QED
        BY <1>2, <2>1, <4>1 DEF NothingTaken
    <3>3. ASSUME NEW i \in 1 .. Len(str) - 1
          PROVE  none[i + 1] - none[i] \in {0, 1}
      <4>1. i \in 1 .. Len(str) /\ i + 1 \in 1 .. Len(str)
        BY <1>2
      <4>2. QED
        BY <4>1
    <3>4. Len(str) > 0 => none[Len(str)] = at
      BY <1>2, <3>1
    <3>5. Len(str) \in 0 .. Len(str)
      BY <1>2
    <3> HIDE DEF none
    <3>6. TakenFrom(str, Bytes(Head(sent)), none, Len(str))
      BY <3>2, <3>3 DEF TakenFrom
    <3>7. QED
      BY <3>1, <3>4, <3>5, <3>6 DEF ReadUpTo
  <2>2. CASE SomeTaken
    BY <1>2, <2>2 DEF SomeTaken
  <2>3. QED
    BY <1>2, <2>1, <2>2
<1>8. ReadUpTo(str', Bytes(Head(sent)), at', skipped)
  BY <1>1, <1>2, <1>3, <1>4, <1>7, OneMoreByte
<1>9. SomeTaken'
  <2>1. skipped \in 0 .. Len(str') - 1
    BY <1>2, <1>6
  <2>2. /\ sent' # <<>> /\ at' \in 1 .. Len(Bytes(Head(sent')))
        /\ tempBuffer' = Bytes(Head(sent'))[at']
    BY <1>1, <1>4
  <2>3. QED
    BY <1>1, <1>6, <1>8, <2>1, <2>2 DEF SomeTaken
<1>10. QED
  BY <1>1, <1>6, <1>9 DEF LineInHand

LEMMA RepeatByteKeepsLine ==
  ASSUME IInv, RepeatByte
  PROVE  LineInHand' /\ str' \in Seq(Chars)
<1>1. /\ pc = "receive" /\ pc' = "receive" /\ sent' = sent
      /\ tempBuffer # "LF" /\ tempBuffer' = tempBuffer /\ at' = at
      /\ str' = Append(str, tempBuffer)
  BY DEF RepeatByte, Wanted, LineEnd
<1>2. /\ at \in Nat /\ str \in Seq(Chars) /\ Len(str) \in Nat
      /\ NothingTaken \/ SomeTaken
  BY <1>1 DEF IInv, Control, TypeOK, LineInHand
<1>3. CASE NothingTaken
  <2>1. tempBuffer \in Filler /\ tempBuffer \in Chars
    BY <1>1, <1>3 DEF NothingTaken, Uninitialised, Filler, Chars
  <2>2. /\ str' \in Seq(Chars) /\ Len(str') = Len(str) + 1
        /\ str'[Len(str) + 1] = tempBuffer /\ \A i \in 1 .. Len(str) : str'[i] = str[i]
    BY <1>1, <1>2, <2>1, AppendProperties
  <2>3. ASSUME NEW i \in 1 .. Len(str')
        PROVE  str'[i] = tempBuffer
    <3>1. i \in 1 .. Len(str) \/ i = Len(str) + 1
      BY <1>2, <2>2
    <3>2. QED
      BY <1>3, <2>2, <3>1 DEF NothingTaken
  <2>4. NothingTaken'
    BY <1>1, <1>3, <2>1, <2>3 DEF NothingTaken
  <2>5. QED
    BY <1>1, <2>2, <2>4 DEF LineInHand
<1>4. CASE SomeTaken
  <2>1. /\ sent # <<>> /\ at \in 1 .. Len(Bytes(Head(sent)))
        /\ tempBuffer = Bytes(Head(sent))[at]
    BY <1>4 DEF SomeTaken
  <2>2. Bytes(Head(sent)) \in Seq(Chars)
    <3>1. Head(sent) \in Lines
      BY <2>1, LineOfHead DEF IInv, Control
    <3>2. QED
      BY <3>1, BytesOfLine
  <2>3. tempBuffer \in Chars
    BY <2>1, <2>2, ElementOfSeq
  <2>4. str' \in Seq(Chars) /\ Len(str') = Len(str) + 1
    BY <1>1, <1>2, <2>3, AppendProperties
  <2>5. PICK skipped \in 0 .. Len(str) - 1 : ReadUpTo(str, Bytes(Head(sent)), at, skipped)
    BY <1>4 DEF SomeTaken
  <2>6. skipped \in 0 .. Len(str) /\ at \in {at, at + 1}
    BY <1>2, <2>5
  <2>7. ReadUpTo(str', Bytes(Head(sent)), at, skipped)
    BY <1>1, <1>2, <2>1, <2>2, <2>5, <2>6, OneMoreByte
  <2>8. skipped \in 0 .. Len(str') - 1
    BY <1>2, <2>4
  <2>9. SomeTaken'
    BY <1>1, <2>1, <2>4, <2>7, <2>8 DEF SomeTaken
  <2>10. QED
    BY <1>1, <2>4, <2>9 DEF LineInHand
<1>5. QED
  BY <1>2, <1>3, <1>4

-----------------------------------------------------------------------------
(* A line that parses *)

(* What a byte is tells where in the line it stands. *)
LEMMA PlaceOfByte ==
  ASSUME NEW line \in Lines, NEW i \in 1 .. Len(Bytes(line))
  PROVE  LET c == Bytes(line)[i]
             n == Len(line.digits)
         IN  /\ c \notin Filler
             /\ c = "{" => i = 1
             /\ c = "}" => i = n + 2
             /\ c = "LF" => i = n + 3
             /\ c \in Digits => i \in 2 .. n + 1 /\ c = line.digits[i - 1]
<1>1. PICK n \in Nat, c \in {Bytes(line)[i]} : n = Len(line.digits)
  BY BytesOfLine
<1>2. /\ n >= 1 /\ Len(Bytes(line)) = n + 3 /\ line.digits \in Seq(Digits)
  BY <1>1, BytesOfLine, LinesAssumption
<1>3. i \in 1 .. n + 3 /\ i \in Int
  BY <1>2
<1>4. c = IF i = 1 THEN "{" ELSE IF i = n + 2 THEN "}"
          ELSE IF i = n + 3 THEN "LF" ELSE line.digits[i - 1]
  <2>1. i \in 1 .. Len(line.digits) + 3
    BY <1>1, <1>3
  <2>2. QED
    BY <1>1, <2>1, BytesOfLine
<1>5. /\ "{" \notin Digits /\ "}" \notin Digits /\ "LF" \notin Digits
      /\ "blank" \notin Digits /\ "other" \notin Digits
  BY LinesAssumption
<1>6. CASE i \in 2 .. n + 1
  <2>1. i - 1 \in 1 .. n
    BY <1>3, <1>6
  <2>2. i # 1 /\ i # n + 2 /\ i # n + 3
    BY <1>3, <1>6
  <2>3. c = line.digits[i - 1]
    BY <1>4, <2>2
  <2>4. c \in Digits
    BY <1>1, <1>2, <2>1, <2>3, ElementOfSeq
  <2>5. c \notin Filler /\ c # "{" /\ c # "}" /\ c # "LF"
    BY <1>5, <2>4 DEF Filler
  <2>6. QED
    BY <1>1, <1>6, <2>3, <2>5
<1>7. CASE i = 1 \/ i = n + 2 \/ i = n + 3
  <2>1. \/ i = 1 /\ c = "{"
        \/ i = n + 2 /\ c = "}"
        \/ i = n + 3 /\ c = "LF"
    BY <1>2, <1>4, <1>7
  <2>2. c \notin Filler /\ c \notin Digits
    BY <1>5, <2>1 DEF Filler
  <2>3. QED
    BY <1>1, <2>1, <2>2
<1>8. i \in 2 .. n + 1 \/ i = 1 \/ i = n + 2 \/ i = n + 3
  BY <1>3
<1>9. QED
  BY <1>6, <1>7, <1>8

LEMMA TrimmedIsSuffix ==
  ASSUME NEW s, NEW i \in 1 .. Len(s) + 1,
         i = Len(s) + 1 \/ ~IsBlank(s[i]),
         \A j \in 1 .. i - 1 : IsBlank(s[j])
  PROVE  \E first \in 1 .. Len(s) + 1 : Trimmed(s) = SubSeq(s, first, Len(s))
BY DEF Trimmed

(* str begins with a byte of the line after at most one kind of filler, so *)
(* that there is a first byte that is no white space.                      *)
LEMMA TrimmedIsRead ==
  ASSUME NEW line \in Lines, NEW s \in Seq(Chars), NEW last \in 1 .. Len(Bytes(line)),
         NEW skipped \in 0 .. Len(s) - 1, NEW from \in [1 .. Len(s) -> 0 .. last],
         TakenFrom(s, Bytes(line), from, skipped)
  PROVE  \E first \in 1 .. Len(s) + 1 : Trimmed(s) = SubSeq(s, first, Len(s))
<1>1. PICK n \in Nat : n = Len(s)
  OBVIOUS
<1>2. PICK m \in Nat : m = Len(Bytes(line))
  <2>1. Bytes(line) \in Seq(Chars)
    BY BytesOfLine
  <2>2. QED
    BY <2>1
<1>3. skipped + 1 \in 1 .. n /\ skipped \in Nat
  BY <1>1
<1>4. ~IsBlank(s[skipped + 1])
  <2>1. ~(skipped + 1 <= skipped)
    BY <1>3
  <2>2. from[skipped + 1] >= 1 /\ s[skipped + 1] = Bytes(line)[from[skipped + 1]]
    BY <1>1, <1>3, <2>1 DEF TakenFrom
  <2>3. from[skipped + 1] \in 1 .. m
    BY <1>1, <1>2, <1>3, <2>2
  <2>4. s[skipped + 1] \notin Filler
    BY <1>2, <2>2, <2>3, PlaceOfByte
  <2>5. QED
    BY <2>4 DEF IsBlank, Filler
<1>5. CASE skipped > 0 /\ IsBlank(s[1])
  <2>1. ASSUME NEW j \in 1 .. skipped
        PROVE  IsBlank(s[j])
    <3>1. j \in 1 .. n /\ j <= skipped
      BY <1>3
    <3>2. s[j] = s[1]
      BY <1>1, <3>1 DEF TakenFrom
    <3>3. QED
      BY <1>5, <3>2
  <2>2. skipped + 1 \in 1 .. Len(s) + 1 /\ 1 .. skipped + 1 - 1 = 1 .. skipped
    BY <1>1, <1>3
  <2>3. QED
    BY <1>4, <2>1, <2>2, TrimmedIsSuffix
<1>6. CASE ~(skipped > 0 /\ IsBlank(s[1]))
  <2>1. ~IsBlank(s[1])
    BY <1>3, <1>4, <1>6
  <2>2. 1 \in 1 .. Len(s) + 1 /\ \A j \in 1 .. 1 - 1 : IsBlank(s[j])
    BY <1>1
  <2>3. QED
    BY <2>1, <2>2, TrimmedIsSuffix
<1>7. QED
  BY <1>5, <1>6

(* From "{" to "}" str runs through every digit of the line: what is       *)
(* between is the number, with digits repeated.                            *)
LEMMA ParsedIsRepeated ==
  ASSUME NEW line \in Lines, NEW s \in Seq(Chars), NEW last \in 1 .. Len(Bytes(line)),
         NEW skipped \in 0 .. Len(s) - 1, NEW from \in [1 .. Len(s) -> 0 .. last],
         TakenFrom(s, Bytes(line), from, skipped),
         Parses(s)
  PROVE  Repeats(Value(s), line.digits)
<1>1. PICK len \in Nat, n \in Nat :
        len = Len(s) /\ n = Len(line.digits) /\ n >= 1
  <2>1. Len(s) \in Nat
    OBVIOUS
  <2>2. Len(line.digits) \in Nat /\ Len(line.digits) >= 1
    BY BytesOfLine
  <2>3. QED
    BY <2>1, <2>2
<1>2. n \in Nat /\ n >= 1
  BY <1>1
<1>3. last \in 1 .. n + 3
  BY <1>1, BytesOfLine
<1>4. PICK first \in 1 .. len + 1 : Trimmed(s) = SubSeq(s, first, len)
  BY <1>1, TrimmedIsRead
<1>5. PICK t : t = Trimmed(s)
  OBVIOUS
<1>6. PICK m \in Nat : m = Len(t) /\ m = len - first + 1
  <2>1. first \in Int /\ len \in Int /\ (first <= len \/ first = len + 1)
    OBVIOUS
  <2>2. ASSUME NEW i \in first .. len
        PROVE  s[i] \in Chars
    <3>1. i \in 1 .. Len(s)
      BY <1>1
    <3>2. QED
      BY <3>1, ElementOfSeq
  <2>3. Len(t) = IF first <= len THEN len - first + 1 ELSE 0
    BY <1>4, <1>5, <2>1, <2>2, SubSeqProperties
  <2>4. QED
    BY <2>1, <2>3
<1>7. ASSUME NEW i \in 1 .. m
      PROVE  t[i] = s[first + i - 1] /\ first + i - 1 \in 1 .. len
  <2>1. first + i - 1 \in 1 .. len
    BY <1>6
  <2>2. SubSeq(s, first, len)[i] = s[first + i - 1]
    BY <1>1, <1>6
  <2>3. QED
    BY <1>4, <1>5, <2>1, <2>2
<1>8. m > 3
  BY <1>5, <1>6 DEF Parses
<1>9. /\ t[1] = "{" /\ t[m - 1] = "}"
      /\ \A i \in 2 .. m - 2 : t[i] \in Digits
  BY <1>5, <1>6 DEF Parses
(* No byte of t is filler, for they stand before the others. *)
<1>10. skipped < first
  <2>1. s[first] = "{" /\ first \in 1 .. len
    <3>1. 1 \in 1 .. m /\ first + 1 - 1 = first
      BY <1>4, <1>6, <1>8
    <3>2. QED
      BY <1>7, <1>9, <3>1
  <2>2. s[first] \notin Filler
    BY <2>1 DEF Filler
  <2>3. ~(first <= skipped)
    BY <1>1, <2>1, <2>2 DEF TakenFrom
  <2>4. QED
    BY <2>3
<1>11. PICK g \in [1 .. m -> 1 .. n + 3] : \A i \in 1 .. m : g[i] = from[first + i - 1]
  <2> DEFINE f == [i \in 1 .. m |-> from[first + i - 1]]
  <2>1. ASSUME NEW i \in 1 .. m
        PROVE  from[first + i - 1] \in 1 .. n + 3
    <3>1. PICK j \in 1 .. len : j = first + i - 1
      BY <1>7
    <3>2. ~(j <= skipped)
      BY <1>10, <3>1
    <3>3. from[j] >= 1 /\ from[j] \in 0 .. last
      BY <1>1, <3>2 DEF TakenFrom
    <3>4. QED
      BY <1>3, <3>1, <3>3
  <2>2. f \in [1 .. m -> 1 .. n + 3]
    BY <2>1
  <2>3. \A i \in 1 .. m : f[i] = from[first + i - 1]
    OBVIOUS
  <2> HIDE DEF f
  <2>4. QED
    BY <2>2, <2>3
<1>12. ASSUME NEW i \in 1 .. m
       PROVE  t[i] = Bytes(line)[g[i]] /\ g[i] \in 1 .. Len(Bytes(line))
  <2>1. PICK j \in 1 .. len : j = first + i - 1 /\ t[i] = s[j] /\ g[i] = from[j]
    BY <1>7, <1>11
  <2>2. ~(j <= skipped)
    BY <1>10, <2>1
  <2>3. s[j] = Bytes(line)[from[j]]
    BY <1>1, <2>2 DEF TakenFrom
  <2>4. Len(Bytes(line)) = n + 3
    BY <1>1, BytesOfLine
  <2>5. QED
    BY <1>11, <2>1, <2>3, <2>4
<1>13. ASSUME NEW i \in 1 .. m - 1
       PROVE  g[i + 1] - g[i] \in {0, 1}
  <2>1. i \in 1 .. m /\ i + 1 \in 1 .. m
    OBVIOUS
  <2>2. PICK j \in 1 .. len - 1 : j = first + i - 1 /\ j + 1 = first + (i + 1) - 1
    BY <1>6
  <2>3. g[i] = from[j] /\ g[i + 1] = from[j + 1]
    BY <1>11, <2>1, <2>2
  <2>4. QED
    BY <1>1, <2>3 DEF TakenFrom
<1>14. g[1] = 1 /\ g[m - 1] = n + 2
  <2>1. 1 \in 1 .. m /\ m - 1 \in 1 .. m
    BY <1>6, <1>8
  <2>2. /\ g[1] \in 1 .. Len(Bytes(line)) /\ Bytes(line)[g[1]] = "{"
        /\ g[m - 1] \in 1 .. Len(Bytes(line)) /\ Bytes(line)[g[m - 1]] = "}"
    BY <1>9, <1>12, <2>1
  <2>3. QED
    BY <1>1, <2>2, PlaceOfByte
<1>15. ASSUME NEW i \in 2 .. m - 2
       PROVE  g[i] \in 2 .. n + 1 /\ t[i] = line.digits[g[i] - 1]
  <2>1. i \in 1 .. m
    BY <1>6, <1>8
  <2>2. i \in 1 .. m /\ t[i] \in Digits
    BY <1>9, <2>1
  <2>3. g[i] \in 1 .. Len(Bytes(line)) /\ t[i] = Bytes(line)[g[i]]
    BY <1>12, <2>2
  <2>4. QED
    BY <1>1, <2>2, <2>3, PlaceOfByte
<1>16. g[2] = 2 /\ g[m - 2] = n + 1
  <2>1. /\ 2 \in 2 .. m - 2 /\ m - 2 \in 2 .. m - 2
        /\ 1 \in 1 .. m - 1 /\ m - 2 \in 1 .. m - 1 /\ (m - 2) + 1 = m - 1
    BY <1>6, <1>8
  <2>2. g[2] \in 2 .. n + 1 /\ g[m - 2] \in 2 .. n + 1
    BY <1>15, <2>1
  <2>3. g[1 + 1] - g[1] \in {0, 1} /\ g[m - 1] - g[m - 2] \in {0, 1}
    BY <1>13, <2>1
  <2>4. QED
    <3>1. PICK x \in 2 .. n + 1, y \in 2 .. n + 1 : x = g[2] /\ y = g[m - 2]
      BY <2>2
    <3>2. x - 1 \in {0, 1} /\ (n + 2) - y \in {0, 1}
      BY <1>14, <2>3, <3>1
    <3>3. x = 2 /\ y = n + 1
      BY <1>2, <3>2
    <3>4. QED
      BY <3>1, <3>3
<1>17. PICK value \in {Value(s)}, k \in Nat :
         /\ k = m - 3 /\ Len(value) = k /\ k >= 1
         /\ \A i \in 1 .. k : value[i] = t[i + 1]
  <2>1. Value(s) = SubSeq(t, 2, m - 2)
    BY <1>5, <1>6 DEF Value
  <2>2. ASSUME NEW i \in 2 .. m - 2
        PROVE  t[i] \in Digits
    BY <1>9
  <2>3. 2 \in Int /\ m - 2 \in Int /\ 2 <= m - 2 /\ m - 3 \in Nat
        /\ (m - 2) - 2 + 1 = m - 3
    BY <1>6, <1>8
  <2>4. /\ Len(SubSeq(t, 2, m - 2)) = m - 3
        /\ \A i \in 1 .. m - 3 : SubSeq(t, 2, m - 2)[i] = t[2 + i - 1]
    BY <2>2, <2>3, SubSeqProperties
  <2>5. \A i \in 1 .. m - 3 : 2 + i - 1 = i + 1
    OBVIOUS
  <2>6. QED
    BY <1>6, <1>8, <2>1, <2>3, <2>4, <2>5
<1>18. PICK h \in [1 .. k -> 1 .. n] : \A i \in 1 .. k : h[i] = g[i + 1] - 1
  <2> DEFINE f == [i \in 1 .. k |-> g[i + 1] - 1]
  <2>1. ASSUME NEW i \in 1 .. k
        PROVE  g[i + 1] - 1 \in 1 .. n
    <3>1. i + 1 \in 2 .. m - 2
      BY <1>17
    <3>2. g[i + 1] \in 2 .. n + 1
      BY <1>15, <3>1
    <3>3. PICK x \in 2 .. n + 1 : x = g[i + 1]
      BY <3>2
    <3>4. x - 1 \in 1 .. n
      BY <1>2
    <3>5. QED
      BY <3>3, <3>4
  <2>2. f \in [1 .. k -> 1 .. n]
    BY <2>1
  <2>3. \A i \in 1 .. k : f[i] = g[i + 1] - 1
    OBVIOUS
  <2> HIDE DEF f
  <2>4. QED
    BY <2>2, <2>3
<1>19. h[1] = 1 /\ h[k] = n
  <2>1. 1 \in 1 .. k /\ k \in 1 .. k /\ k + 1 = m - 2
    BY <1>17
  <2>2. h[1] = g[1 + 1] - 1 /\ h[k] = g[m - 2] - 1
    BY <1>18, <2>1
  <2>3. QED
    BY <1>16, <2>2
<1>20. ASSUME NEW i \in 1 .. k
       PROVE  value[i] = line.digits[h[i]]
  <2>1. i + 1 \in 2 .. m - 2
    BY <1>17
  <2>2. QED
    BY <1>15, <1>17, <1>18, <2>1
<1>21. ASSUME NEW i \in 1 .. k - 1
       PROVE  h[i + 1] - h[i] \in {0, 1}
  <2>1. /\ i \in 1 .. k /\ i + 1 \in 1 .. k /\ i + 1 \in 1 .. m - 1
        /\ i + 1 \in 2 .. m - 2 /\ i + 1 + 1 \in 2 .. m - 2
    BY <1>17
  <2>2. /\ h[i] = g[i + 1] - 1 /\ h[i + 1] = g[i + 1 + 1] - 1
        /\ g[i + 1 + 1] - g[i + 1] \in {0, 1}
        /\ g[i + 1] \in 2 .. n + 1 /\ g[i + 1 + 1] \in 2 .. n + 1
    BY <1>13, <1>15, <1>18, <2>1
  <2>3. PICK x \in 2 .. n + 1, y \in 2 .. n + 1 : x = g[i + 1] /\ y = g[i + 1 + 1]
    BY <2>2
  <2>4. (y - 1) - (x - 1) = y - x
    BY <1>2
  <2>5. QED
    BY <2>2, <2>3, <2>4
<1>22. Repeats(value, line.digits)
  BY <1>1, <1>17, <1>18, <1>19, <1>20, <1>21 DEF Repeats
<1>23. QED
  BY <1>17, <1>22

(* The callback that ends with a line that parses ends with the line.      *)
LEMMA ParsedLine ==
  ASSUME IInv, EndLine, Parses(str)
  PROVE  sent # <<>> /\ Repeats(Value(str), Head(sent).digits)
<1>1. tempBuffer = "LF" /\ str \in Seq(Chars) /\ Len(str) \in Nat
  BY DEF IInv, EndLine, LineEnd
<1>2. NothingTaken \/ SomeTaken
  BY DEF IInv, EndLine, LineInHand
<1>3. CASE NothingTaken
  <2>1. Len(str) = 0
    <3>1. \A i \in 1 .. Len(str) : str[i] = "LF" /\ str[i] \in {"other", "blank"}
      BY <1>1, <1>3 DEF NothingTaken, Filler
    <3>2. \A i \in 1 .. Len(str) : FALSE
      BY <3>1
    <3>3. 1 \notin 1 .. Len(str)
      BY <3>2
    <3>4. QED
      BY <1>1, <3>3
  <2>2. PICK first \in 1 .. Len(str) + 1 : Trimmed(str) = SubSeq(str, first, Len(str))
    <3>1. 1 \in 1 .. Len(str) + 1 /\ 1 = Len(str) + 1 /\ 1 .. 1 - 1 = {}
      BY <2>1
    <3>2. QED
      BY <3>1, TrimmedIsSuffix
  <2>3. Len(Trimmed(str)) = 0
    <3>1. first = 1
      BY <2>1, <2>2
    <3>2. QED
      BY <1>1, <2>1, <2>2, <3>1
  <2>4. Len(Trimmed(str)) > 3
    BY DEF Parses
  <2>5. QED
    BY <2>3, <2>4
<1>4. CASE SomeTaken
  <2>1. sent # <<>> /\ at \in 1 .. Len(Bytes(Head(sent)))
    BY <1>4 DEF SomeTaken
  <2>2. Head(sent) \in Lines
    BY <2>1, LineOfHead DEF IInv, Control
  <2>3. PICK skipped \in 0 .. Len(str) - 1 : ReadUpTo(str, Bytes(Head(sent)), at, skipped)
    BY <1>4 DEF SomeTaken
  <2>4. PICK from \in [1 .. Len(str) -> 0 .. at] :
          TakenFrom(str, Bytes(Head(sent)), from, skipped)
    BY <2>3 DEF ReadUpTo
  <2>5. QED
    BY <1>1, <2>1, <2>2, <2>3, <2>4, ParsedIsRepeated
<1>5. QED
  BY <1>2, <1>3, <1>4

-----------------------------------------------------------------------------
(* The messages *)

LEMMA NumberRepeatsItself ==
  ASSUME NEW d \in Seq(Digits), d # <<>>
  PROVE  Repeats(d, d)
<1>1. PICK n \in Nat : n = Len(d) /\ n >= 1
  BY EmptySeq
<1> DEFINE f == [i \in 1 .. n |-> i]
<1>2. f \in [1 .. n -> 1 .. n]
  OBVIOUS
<1>3. f[1] = 1 /\ f[n] = n /\ \A i \in 1 .. n : d[i] = d[f[i]]
  BY <1>1
<1>4. ASSUME NEW i \in 1 .. n - 1
      PROVE  f[i + 1] - f[i] \in {0, 1}
  <2>1. i \in 1 .. n /\ i + 1 \in 1 .. n /\ (i + 1) - i = 1
    BY <1>1
  <2>2. QED
    BY <2>1
<1> HIDE DEF f
<1>5. QED
  BY <1>1, <1>2, <1>3, <1>4 DEF Repeats

LEMMA EndTimerKeeps ==
  ASSUME IInv, EndTimer
  PROVE  AltitudeKept' /\ PublishedFromOneLine'
<1>1. AltitudeKept /\ PublishedFromOneLine
  BY DEF IInv
<1>2. CASE UNCHANGED output
  BY <1>1, <1>2 DEF output, AltitudeKept, PublishedFromOneLine
<1>3. CASE Parses(str) /\ Publish(Head(sent), Value(str))
  <2>1. Repeats(Value(str), Head(sent).digits)
    BY <1>3, ParsedLine DEF EndTimer
  <2>2. CASE /\ old_altitude' = Value(str) /\ measured' = Head(sent).digits
             /\ published' \in {published, [topic |-> "dvl/data", value |-> Value(str),
                                            of |-> Head(sent).digits]}
    BY <1>1, <2>1, <2>2 DEF AltitudeKept, PublishedFromOneLine
  <2>3. CASE /\ published' = [topic |-> "dvl/data", value |-> old_altitude,
                              of |-> measured]
             /\ UNCHANGED <<old_altitude, measured>>
    BY <1>1, <2>3 DEF AltitudeKept, PublishedFromOneLine
  <2>4. CASE /\ published' = [topic |-> "dvl/position", value |-> Value(str),
                              of |-> Head(sent).digits]
             /\ UNCHANGED <<old_altitude, measured>>
    BY <1>1, <2>1, <2>4 DEF AltitudeKept, PublishedFromOneLine
  <2>5. QED
    BY <1>2, <1>3, <2>2, <2>3, <2>4 DEF Publish
<1>4. QED
  BY <1>2, <1>3 DEF EndTimer

LEMMA QuietStepKeeps ==
  ASSUME IInv, UNCHANGED output
  PROVE  AltitudeKept' /\ PublishedFromOneLine'
BY DEF IInv, output, AltitudeKept, PublishedFromOneLine

-----------------------------------------------------------------------------
(* The invariant *)

LEMMA InitInv == Init => IInv
<1> SUFFICES ASSUME Init PROVE IInv
  OBVIOUS
<1>1. Control
  <2>1. TypeOK
    <3>1. /\ elapsed \in 0 .. SETUP_LIMIT /\ repeats \in 0 .. MaxRepeats
          /\ at \in Nat /\ sockets \in Nat
      BY Constants DEF Init, InitConnection
    <3>2. sent \in Seq(Lines)
      BY DEF Init, InitConnection
    <3>3. QED
      BY <3>1, <3>2 DEF Init, InitConnection, TypeOK, SocketStates
  <2>2. LifeCycleKept /\ Configuring
    BY DEF Init, InitConnection, LifeCycleKept, ConnectedWhenConfigured, NoSocketLost,
           TimerFindsPublishers, Configuring, Inside
  <2>3. QED
    BY <2>1, <2>2 DEF Control
<1>2. str \in Seq(Chars) /\ LineInHand
  BY DEF Init, InitConnection, LineInHand
<1>3. AltitudeKept
  BY ZeroAssumption, NumberRepeatsItself DEF Init, AltitudeKept
<1>4. PublishedFromOneLine
  BY DEF Init, PublishedFromOneLine
<1>5. QED
  BY <1>1, <1>2, <1>3, <1>4 DEF IInv

LEMMA NextInv == IInv /\ [Next]_vars => IInv'
<1> SUFFICES ASSUME IInv, [Next]_vars PROVE IInv'
  OBVIOUS
<1>1. Control /\ LineInHand /\ str \in Seq(Chars)
  BY DEF IInv
<1>2. CASE OnConfigure \/ EndConfigure
  <2>1. /\ pc # "receive" /\ pc' # "receive" /\ at' \in {0, at}
        /\ str' = str /\ UNCHANGED output
    BY <1>2 DEF OnConfigure, EndConfigure, BeginSetup, connection, reading
  <2>2. QED
    BY <1>1, <1>2, <2>1, ConfigureKeeps, OutsideKeepsLine, QuietStepKeeps DEF IInv
<1>3. CASE OnActivate \/ OnDeactivate \/ OnCleanup \/ OnShutdown \/ Destroy
  <2>1. /\ pc # "receive" /\ pc' # "receive" /\ at' = at
        /\ str' = str /\ UNCHANGED output
    BY <1>3 DEF OnActivate, OnDeactivate, OnCleanup, OnShutdown, Destroy,
                connection, reading
  <2>2. QED
    BY <1>1, <1>3, <2>1, TransitionKeeps, OutsideKeepsLine, QuietStepKeeps DEF IInv
<1>4. CASE Connecting /\ UNCHANGED <<node, output>>
  <2>1. /\ pc # "receive" /\ pc' # "receive" /\ at' = at /\ str' = str
    BY <1>4 DEF Connecting, NoAttempt, Loop, StartAttempt, AskAgain, Select, Judge,
                Wake, ReturnFromConnect, reading
  <2>2. Control'
    BY <1>1, <1>4, ConnectingKeeps
  <2>3. QED
    BY <1>1, <1>4, <2>1, <2>2, OutsideKeepsLine, QuietStepKeeps DEF IInv
<1>5. CASE BeginTimer
  <2>1. BeginLine /\ UNCHANGED node /\ AltitudeKept' /\ PublishedFromOneLine'
    BY <1>5 DEF BeginTimer, IInv, AltitudeKept, PublishedFromOneLine
  <2>2. QED
    BY <1>1, <2>1, TimerKeeps, BeginKeepsLine DEF IInv
<1>6. CASE Reading
  <2>1. (TakeByte \/ RepeatByte) /\ UNCHANGED node /\ UNCHANGED output
    BY <1>6 DEF Reading
  <2>2. QED
    BY <1>1, <2>1, TimerKeeps, TakeByteKeepsLine, RepeatByteKeepsLine, QuietStepKeeps
       DEF IInv
<1>7. CASE EndTimer
  <2>1. EndLine /\ UNCHANGED node
    BY <1>7 DEF EndTimer
  <2>2. QED
    BY <1>1, <1>7, <2>1, TimerKeeps, EndKeepsLine, EndTimerKeeps DEF IInv
<1>8. CASE Around
  <2>1. Environment /\ UNCHANGED node /\ UNCHANGED output
    BY <1>8 DEF Around
  <2>2. QED
    BY <1>1, <2>1, EnvironmentKeeps, ReportKeepsLine, QuietStepKeeps DEF IInv
<1>9. CASE UNCHANGED vars
  <2>1. /\ UNCHANGED <<pc, address_ok, sock, fault, error_code, elapsed, sent, at,
                       tempBuffer, str, repeats>>
        /\ UNCHANGED <<state, timer, publishers, tcpSocket, sockets>>
        /\ UNCHANGED output
    BY <1>9 DEF vars, connection, attempt, reading, node
  <2>2. Control'
    BY <1>1, <2>1 DEF Control, TypeOK, LifeCycleKept, ConnectedWhenConfigured,
                      NoSocketLost, TimerFindsPublishers, Configuring
  <2>3. LineInHand'
    BY <1>1, <2>1 DEF LineInHand, NothingTaken, SomeTaken
  <2>4. QED
    BY <1>1, <2>1, <2>2, <2>3, QuietStepKeeps DEF IInv
<1>10. QED
  BY <1>2, <1>3, <1>4, <1>5, <1>6, <1>7, <1>8, <1>9 DEF Next, Setup

LEMMA SpecInv == Spec => []IInv
BY InitInv, NextInv, PTL DEF Spec

(* lifecycle_dvl_component.hpp: the type of every field of the node and of *)
(* its socket.                                                             *)
THEOREM NodeIsTyped == Spec => []TypeOK
<1>1. IInv => TypeOK
  BY DEF IInv, Control
<1>2. QED
  BY <1>1, SpecInv, PTL

(* lifecycle_dvl_component.cpp:48-170: however the manager orders the      *)
(* transitions and whenever the sensor answers, the state of the life      *)
(* cycle tells whether there is a connection, each socket created is       *)
(* closed before the next, and the timer finds its publishers.             *)
THEOREM LifeCycleIsKept == Spec => []LifeCycleKept
<1>1. IInv => LifeCycleKept
  BY DEF IInv, Control
<1>2. QED
  BY <1>1, SpecInv, PTL

(* lifecycle_dvl_component.cpp:192-267: for lines of any length, any       *)
(* number of them waiting and any number of bytes appended twice, a        *)
(* message that is published has the digits of one line, in their order,   *)
(* none of them left out.                                                  *)
THEOREM NoMessageMixesLines == Spec => []PublishedFromOneLine
<1>1. IInv => PublishedFromOneLine
  BY DEF IInv
<1>2. QED
  BY <1>1, SpecInv, PTL

=============================================================================
