---------------------------- MODULE DvlConnection ----------------------------
(***************************************************************************)
(* The TCP connection to a DVL A50, as both C++ nodes use it: the loop     *)
(* that connects (TCPSocket::Connect on a socket that does not block), and *)
(* the loop that takes one line of JSON from it, byte by byte.             *)
(*                                                                         *)
(* The kernel and the sensor are the environment.  A connection attempt    *)
(* lives in the kernel from one call of Connect to the next: it may be     *)
(* accepted, or fail, while the node sleeps.                               *)
(***************************************************************************)
EXTENDS Integers, Sequences

CONSTANTS
  SETUP_LIMIT,     \* "Max time to set up": 78.5 [s], rounded up
  SELECT_TIMEOUT,  \* the argument of Connect: 5000 ms
  SLEEP,           \* between attempts: 2 s
  Lines,           \* what the sensor can send: records with field digits
  Digits,          \* the characters of a number
  MaxLines,        \* bound: lines sent and not yet taken
  MaxRepeats       \* bound: bytes appended without one having been received

ASSUME TimesAssumption ==
  /\ SETUP_LIMIT \in Nat /\ SELECT_TIMEOUT \in Nat /\ SLEEP \in Nat \ {0}
  /\ MaxLines \in Nat /\ MaxRepeats \in Nat

(* A line has a number, and a digit is no byte with a meaning of its own.  *)
ASSUME LinesAssumption ==
  /\ \A line \in Lines : line.digits \in Seq(Digits) /\ line.digits # <<>>
  /\ Digits \cap {"{", "}", "LF", "blank", "other"} = {}

EALREADY == 114
ECONNABORTED == 103
TIMEOUT == 100       \* Connect's own code
EOTHER == 111         \* refused, unreachable, timed out: told apart by nothing

SocketStates == {"none",        \* no descriptor: not created, or closed
                 "fresh",       \* created, or ready for another attempt
                 "connecting",
                 "failed",      \* the error is pending
                 "aborted",     \* getsockopt has taken the error
                 "connected",
                 "lost"}        \* closed by the sensor

VARIABLES
  pc,           \* where the node's thread is
  address_ok,   \* inet_pton accepts the parameter
  sock,
  fault, error_code,
  elapsed,      \* since first_time_error, up to the limit
  sent,         \* lines the sensor has sent and the node has not finished
  at,           \* bytes taken of the first of them
  tempBuffer, str,
  repeats       \* bytes appended to str without one having been received

attempt == <<fault, error_code, elapsed>>
reading == <<at, tempBuffer, str, repeats>>
connection == <<pc, address_ok, sock, attempt, sent, reading>>

InitConnection ==
  /\ pc = "idle"
  /\ address_ok \in BOOLEAN
  /\ sock = "none"
  /\ fault = 1 /\ error_code = 0 /\ elapsed = 0
  /\ sent = <<>> /\ at = 0 /\ tempBuffer = "other" /\ str = <<>> /\ repeats = 0

-----------------------------------------------------------------------------
(* Connecting *)

(* Create has made a socket; SetRcvTimeout closes it again if it fails.    *)
BeginSetup ==
  /\ sock' \in {"fresh", "none"} /\ pc' = "loop"
  /\ error_code' = 0 /\ elapsed' = 0
  /\ sent' = <<>> /\ at' = 0
  /\ UNCHANGED <<address_ok, fault, tempBuffer, str, repeats>>

(* while(fault != 0) *)
Loop ==
  /\ pc = "loop"
  /\ pc' = IF fault = 0 THEN "setUp" ELSE "connect"
  /\ UNCHANGED <<address_ok, sock, attempt, sent, reading>>

Later(t) == IF elapsed + t < SETUP_LIMIT THEN elapsed + t ELSE SETUP_LIMIT

(* Success is judged by an error code that earlier attempts have set. *)
ReturnJudgedByCode(result, code, t) ==
  /\ fault' = IF code = 0 THEN result ELSE -1
  /\ error_code' = code
  /\ elapsed' = Later(t)
  /\ pc' = "judge"
  /\ UNCHANGED <<address_ok, sent, reading>>

(* A call of Connect ends t after it began to wait; code is the error_code *)
(* it has set, if any.                                                     *)
ReturnFromConnect(result, code, t) ==
  /\ fault' = result
  /\ error_code' = code
  /\ elapsed' = Later(t)
  /\ pc' = "judge"
  /\ UNCHANGED <<address_ok, sent, reading>>

(* The address is refused, or fcntl() has no descriptor to work on: both   *)
(* leave error_code as it was. *)
NoAttempt ==
  /\ pc = "connect" /\ (~address_ok \/ sock = "none")
  /\ ReturnFromConnect(-1, error_code, 0)
  /\ UNCHANGED sock

(* connect() on a socket without an attempt under way. *)
StartAttempt ==
  /\ pc = "connect" /\ address_ok /\ sock = "fresh"
  /\ \/ sock' = "connecting" /\ pc' = "select"
        /\ UNCHANGED <<address_ok, attempt, sent, reading>>
     \/ ReturnFromConnect(-1, EOTHER, 0) /\ UNCHANGED sock

(* connect() when there is one already.  A failed one ends here, and only  *)
(* the next call starts another.                                           *)
AskAgain ==
  /\ pc = "connect" /\ address_ok
  /\ \/ sock = "connecting" /\ ReturnFromConnect(-1, EALREADY, 0) /\ UNCHANGED sock
     \/ sock = "failed" /\ ReturnFromConnect(-1, EOTHER, 0) /\ sock' = "fresh"
     \/ sock = "aborted" /\ ReturnFromConnect(-1, ECONNABORTED, 0) /\ sock' = "fresh"
     \/ sock \in {"connected", "lost"}
        /\ ReturnFromConnect(0, error_code, 0) /\ UNCHANGED sock

(* select(), and then getsockopt(SO_ERROR).  A signal that interrupts      *)
(* select() is taken for its timeout.                                      *)
Select ==
  /\ pc = "select"
  /\ \/ sock = "connecting" /\ UNCHANGED sock
        /\ \E t \in {0, SELECT_TIMEOUT} : ReturnFromConnect(-1, TIMEOUT, t)
     \/ sock \in {"connected", "lost"}
        /\ \E t \in {0, SELECT_TIMEOUT} : ReturnFromConnect(0, error_code, t)
        /\ UNCHANGED sock
     \/ sock = "failed" /\ sock' = "aborted"
        /\ \E t \in {0, SELECT_TIMEOUT} : ReturnFromConnect(-1, EOTHER, t)

(* What the loop does after the call. *)
Judge ==
  /\ pc = "judge"
  /\ pc' = IF error_code \in {EALREADY, ECONNABORTED} THEN "sleep" ELSE "loop"
  /\ UNCHANGED <<address_ok, sock, attempt, sent, reading>>

NeverGivesUp(t) == FALSE
GivesUp(t) == error_code = EALREADY /\ t >= SETUP_LIMIT

Wake ==
  /\ pc = "sleep"
  /\ elapsed' = Later(SLEEP)
  /\ IF GivesUp(Later(SLEEP)) THEN fault' = -10 /\ pc' = "setUp"
                              ELSE fault' = fault /\ pc' = "loop"
  /\ UNCHANGED <<address_ok, sock, error_code, sent, reading>>

Connecting == NoAttempt \/ Loop \/ StartAttempt \/ AskAgain \/ Select \/ Judge \/ Wake

-----------------------------------------------------------------------------
(* Taking a line *)

Bytes(line) == <<"{">> \o line.digits \o <<"}", "LF">>

(* new char[1]: what it holds is not initialised. *)
Uninitialised == {"other", "blank", "LF"}

BeginLine ==
  /\ pc = "idle" /\ pc' = "receive"
  /\ tempBuffer' \in Uninitialised
  /\ str' = <<>> /\ repeats' = 0
  /\ UNCHANGED <<address_ok, sock, attempt, sent, at>>

LineEndCR == "CR"
LineEnd == "LF"

Wanted == pc = "receive" /\ tempBuffer # LineEnd

TakeByte ==
  /\ Wanted /\ sent # <<>> /\ at < Len(Bytes(Head(sent)))
  /\ tempBuffer' = Bytes(Head(sent))[at + 1]
  /\ str' = Append(str, tempBuffer')
  /\ at' = at + 1
  /\ UNCHANGED <<pc, address_ok, sock, attempt, sent, repeats>>

(* Receive has timed out (-1), or the sensor has closed (0): the result is *)
(* not looked at, and the byte before is appended again.                   *)
RepeatByte ==
  /\ Wanted /\ repeats < MaxRepeats
  /\ str' = Append(str, tempBuffer)
  /\ repeats' = repeats + 1
  /\ UNCHANGED <<pc, address_ok, sock, attempt, sent, at, tempBuffer>>

(* json::parse: white space before the value, and nothing else around it. *)
IsBlank(c) == c = "blank"
Trimmed(s) ==
  LET first == CHOOSE i \in 1 .. Len(s) + 1 :
                 /\ i = Len(s) + 1 \/ ~IsBlank(s[i])
                 /\ \A j \in 1 .. i - 1 : IsBlank(s[j])
  IN  SubSeq(s, first, Len(s))
Value(s) == SubSeq(Trimmed(s), 2, Len(Trimmed(s)) - 2)
Parses(s) ==
  LET t == Trimmed(s)
  IN  /\ Len(t) > 3
      /\ t[1] = "{" /\ t[Len(t) - 1] = "}" /\ t[Len(t)] = "LF"
      /\ \A i \in 2 .. Len(t) - 2 : t[i] \in Digits

(* The line is done with; what it meant is the node's. *)
EndLine ==
  /\ pc = "receive" /\ tempBuffer = LineEnd
  /\ pc' = "idle"
  /\ sent' = IF at = 0 THEN sent ELSE Tail(sent)
  /\ at' = 0 /\ tempBuffer' = "other" /\ str' = <<>> /\ repeats' = 0
  /\ UNCHANGED <<address_ok, sock, attempt>>

-----------------------------------------------------------------------------
(* The kernel and the sensor *)

SocketBecomes(from, to) ==
  /\ sock = from /\ sock' = to
  /\ UNCHANGED <<pc, address_ok, attempt, sent, reading>>

Accept == SocketBecomes("connecting", "connected")
Reject == SocketBecomes("connecting", "failed")
Lose == SocketBecomes("connected", "lost")

Report(line) ==
  /\ sock = "connected" /\ Len(sent) < MaxLines
  /\ sent' = Append(sent, line)
  /\ UNCHANGED <<pc, address_ok, sock, attempt, reading>>

Environment == Accept \/ Reject \/ Lose \/ \E line \in Lines : Report(line)

(* Each digit of the line once or more: what repeated bytes make of it. *)
Repeats(value, digits) ==
  \E from \in [1 .. Len(value) -> 1 .. Len(digits)] :
    /\ from[1] = 1 /\ from[Len(value)] = Len(digits)
    /\ \A i \in 1 .. Len(value) : value[i] = digits[from[i]]
    /\ \A i \in 1 .. Len(value) - 1 : from[i + 1] - from[i] \in {0, 1}

=============================================================================
