-------------------------- MODULE KvhDriverProofs --------------------------
(***************************************************************************)
(* The KVH driver for datagrams of any size, any header and checksum, and  *)
(* a line that delivers any bytes in any pieces.                           *)
(***************************************************************************)
EXTENDS KvhDriver, TLAPS

(* The driver's buffer is a CircularBuffer.  What is proved of one holds   *)
(* of it, under the names the driver knows the operations by.              *)
Buffer == INSTANCE CircularBufferProofs

LEMMA SameOperations ==
  /\ Slots = Buffer!Slots
  /\ \A b : (WellFormed(b) <=> Buffer!WellFormed(b)) /\ Contents(b) = Buffer!Contents(b)
  /\ \A b : remove(b) = Buffer!remove(b) /\ \A x : add(b, x) = Buffer!add(b, x)
  /\ \A slots : fresh(slots) = Buffer!fresh(slots)
BY DEF Slots, WellFormed, Contents, Buffers, Distance, Ahead,
       remove, removed, empty, add, full, mod, fresh,
       Buffer!Slots, Buffer!WellFormed, Buffer!Contents, Buffer!Buffers,
       Buffer!Distance, Buffer!Ahead, Buffer!remove, Buffer!removed,
       Buffer!empty, Buffer!add, Buffer!full, Buffer!mod, Buffer!fresh

LEMMA FreshContents ==
  ASSUME NEW slots \in [Slots -> T]
  PROVE  WellFormed(fresh(slots)) /\ Contents(fresh(slots)) = <<>>
BY SameOperations, NAssumption, ZeroAssumption, Buffer!FreshContents

LEMMA ContentsIsSeq ==
  ASSUME NEW b, WellFormed(b)
  PROVE  /\ Contents(b) \in Seq(T)
         /\ Len(Contents(b)) = b.size_
         /\ b.size_ \in 0 .. N
BY SameOperations, NAssumption, ZeroAssumption, Buffer!ContentsIsSeq

LEMMA RemoveContents ==
  ASSUME NEW b, WellFormed(b)
  PROVE  /\ WellFormed(remove(b))
         /\ b.size_ = 0 => remove(b) = b
         /\ b.size_ # 0 => /\ remove(b).size_ = b.size_ - 1
                           /\ Contents(remove(b)) = Tail(Contents(b))
BY SameOperations, NAssumption, ZeroAssumption, Buffer!RemoveContents

LEMMA AddContents ==
  ASSUME NEW b, WellFormed(b), NEW x \in T
  PROVE  /\ WellFormed(add(b, x))
         /\ b.size_ < N => /\ add(b, x).size_ = b.size_ + 1
                           /\ Contents(add(b, x)) = Append(Contents(b), x)
         /\ b.size_ = N => /\ add(b, x).size_ = N
                           /\ Contents(add(b, x)) = Append(Tail(Contents(b)), x)
BY SameOperations, NAssumption, ZeroAssumption, Buffer!AddContents

(* The place in the stream the search has reached, and where the datagram  *)
(* that is being cleared begins.                                           *)
Pos == Len(received) - buf.size_ + 1
Start == Pos - (DATAGRAM_SIZE - left)
InHand == pc \in {"clearing", "accepted"}

(* How full the buffer is at each point of the loops: a call that returns  *)
(* leaves less than a datagram.                                            *)
Control ==
  /\ pc = "idle" => buf.size_ < DATAGRAM_SIZE
  /\ pc = "filling" => left > 0 /\ buf.size_ + left < N
  /\ pc = "searching" => buf.size_ < N
  /\ pc = "clearing" => left > 0 /\ left <= buf.size_ /\ buf.size_ < DATAGRAM_SIZE + left
  /\ pc = "accepted" => left = 0 /\ buf.size_ < DATAGRAM_SIZE
  /\ InHand => buf.size_ + DATAGRAM_SIZE - left <= Len(received)

(* Every byte the search has passed was passed for a reason: it belongs to *)
(* an accepted datagram, or to the one in hand, or a complete window       *)
(* beginning with it was looked at and is no datagram.                     *)
Covered(p) ==
  \E i \in 1 .. Len(accepted) : accepted[i] <= p /\ p < accepted[i] + DATAGRAM_SIZE
Reason(p) ==
  \/ Covered(p)
  \/ InHand /\ Start <= p
  \/ p + DATAGRAM_SIZE - 1 <= Len(received) /\ ~DatagramAt(p)
Searched == \A p \in 1 .. Pos - 1 : Reason(p)

(* The datagrams accepted lie apart, before whatever is in hand.           *)
Apart ==
  /\ AcceptedAreApart
  /\ \A i \in 1 .. Len(accepted) :
       accepted[i] + DATAGRAM_SIZE <= IF InHand THEN Start ELSE Pos

IInv == TypeOK /\ BufferIsTailOfLine /\ Control /\ Searched /\ Apart

-----------------------------------------------------------------------------
LEMMA Sizes ==
  /\ DATAGRAM_SIZE \in Nat /\ DATAGRAM_SIZE > 0 /\ N = 2 * DATAGRAM_SIZE
  /\ N \in Nat /\ Len(HEADER) \in 1 .. DATAGRAM_SIZE
BY SizeAssumption, NAssumption

(* One byte into the buffer and onto the line's history. *)
LEMMA PutByte ==
  ASSUME BufferIsTailOfLine, received \in Seq(T), buf.size_ < N, NEW x \in T,
         buf' = add(buf, x), received' = Append(received, x)
  PROVE  BufferIsTailOfLine' /\ buf'.size_ = buf.size_ + 1
<1>1. /\ WellFormed(buf) /\ buf.size_ \in 0 .. N
      /\ Contents(buf) \in Seq(T) /\ Len(Contents(buf)) = buf.size_
      /\ buf.size_ <= Len(received)
      /\ \A i \in 1 .. buf.size_ :
           Contents(buf)[i] = received[Len(received) - buf.size_ + i]
  BY ContentsIsSeq DEF BufferIsTailOfLine, Buffered
<1>2. /\ WellFormed(buf') /\ buf'.size_ = buf.size_ + 1
      /\ Contents(buf') = Append(Contents(buf), x)
  BY <1>1, AddContents
<1>3. Len(received') = Len(received) + 1
  OBVIOUS
<1>4. ASSUME NEW i \in 1 .. buf.size_ + 1
      PROVE  Contents(buf')[i] = received'[Len(received') - (buf.size_ + 1) + i]
  <2>1. CASE i = buf.size_ + 1
    BY <1>1, <1>2, <1>3, <2>1
  <2>2. CASE i \in 1 .. buf.size_
    <3>1. Contents(buf')[i] = Contents(buf)[i]
      BY <1>1, <1>2, <2>2
    <3>2. /\ Len(received') - (buf.size_ + 1) + i = Len(received) - buf.size_ + i
          /\ Len(received) - buf.size_ + i \in 1 .. Len(received)
      BY <1>1, <1>3, <2>2
    <3>3. received'[Len(received) - buf.size_ + i] = received[Len(received) - buf.size_ + i]
      BY <3>2
    <3>4. QED
      BY <1>1, <2>2, <3>1, <3>2, <3>3
  <2>3. QED
    BY <1>1, <2>1, <2>2, SMTT(30)
<1>5. QED
  BY <1>1, <1>2, <1>3, <1>4, SMTT(30) DEF BufferIsTailOfLine, Buffered

(* One byte out of the buffer. *)
LEMMA TakeByte ==
  ASSUME BufferIsTailOfLine, received \in Seq(T), buf.size_ # 0,
         buf' = remove(buf), received' = received
  PROVE  BufferIsTailOfLine' /\ buf'.size_ = buf.size_ - 1
<1>1. /\ WellFormed(buf) /\ buf.size_ \in 1 .. N
      /\ Contents(buf) \in Seq(T) /\ Len(Contents(buf)) = buf.size_
      /\ buf.size_ <= Len(received)
      /\ \A i \in 1 .. buf.size_ :
           Contents(buf)[i] = received[Len(received) - buf.size_ + i]
  BY ContentsIsSeq, Sizes DEF BufferIsTailOfLine, Buffered
<1>2. /\ WellFormed(buf') /\ buf'.size_ = buf.size_ - 1
      /\ Contents(buf') = Tail(Contents(buf))
  BY <1>1, RemoveContents
<1>3. ASSUME NEW i \in 1 .. buf.size_ - 1
      PROVE  Contents(buf')[i] = received'[Len(received') - (buf.size_ - 1) + i]
  <2>1. Contents(buf')[i] = Contents(buf)[i + 1]
    BY <1>1, <1>2
  <2>2. /\ i + 1 \in 1 .. buf.size_
        /\ Len(received) - buf.size_ + (i + 1) = Len(received) - (buf.size_ - 1) + i
    BY <1>1
  <2>3. QED
    BY <1>1, <2>1, <2>2
<1>4. QED
  BY <1>1, <1>2, <1>3 DEF BufferIsTailOfLine, Buffered

(* What the search looks at is the stream from Pos on. *)
LEMMA WindowIsOnLine ==
  ASSUME BufferIsTailOfLine, received \in Seq(T), Enough
  PROVE  /\ Window = WindowAt(received, Pos) /\ Window \in Windows
         /\ Pos \in Nat /\ Pos >= 1 /\ Pos + DATAGRAM_SIZE - 1 <= Len(received)
<1>1. /\ buf.size_ \in 0 .. N /\ buf.size_ <= Len(received)
      /\ Contents(buf) \in Seq(T) /\ Len(Contents(buf)) = buf.size_
      /\ \A i \in 1 .. buf.size_ :
           Contents(buf)[i] = received[Len(received) - buf.size_ + i]
  BY ContentsIsSeq DEF BufferIsTailOfLine, Buffered
<1>2. Pos \in Nat /\ Pos >= 1 /\ Pos + DATAGRAM_SIZE - 1 <= Len(received)
  BY <1>1, Sizes DEF Pos, Enough
<1>3. ASSUME NEW i \in 1 .. DATAGRAM_SIZE
      PROVE  /\ Contents(buf)[1 + i - 1] = received[Pos + i - 1]
             /\ Contents(buf)[1 + i - 1] \in T
  <2>1. /\ i \in 1 .. buf.size_ /\ 1 + i - 1 = i
        /\ Pos + i - 1 = Len(received) - buf.size_ + i
    BY <1>1, Sizes DEF Enough, Pos
  <2>2. QED
    BY <1>1, <2>1
<1>4. Window = [i \in 1 .. DATAGRAM_SIZE |-> Contents(buf)[1 + i - 1]]
  BY DEF Window, WindowAt
<1>5. QED
  BY <1>2, <1>3, <1>4 DEF WindowAt, Windows

-----------------------------------------------------------------------------
(* The numbers every step computes with. *)
LEMMA Numbers ==
  ASSUME IInv
  PROVE  /\ received \in Seq(T) /\ Len(received) \in Nat
         /\ accepted \in Seq(Nat) /\ Len(accepted) \in Nat
         /\ left \in 0 .. DATAGRAM_SIZE
         /\ buf.size_ \in 0 .. N /\ buf.size_ <= Len(received)
         /\ Pos \in Nat /\ Pos >= 1 /\ Start \in Int
<1>1. buf.size_ \in 0 .. N /\ buf.size_ <= Len(received)
  BY DEF IInv, TypeOK, Buffers, BufferIsTailOfLine, Buffered
<1>2. received \in Seq(T) /\ accepted \in Seq(Nat) /\ left \in 0 .. DATAGRAM_SIZE
  BY DEF IInv, TypeOK
<1>3. QED
  BY <1>1, <1>2, Sizes DEF Pos, Start

LEMMA InitInv == Init => IInv
<1> SUFFICES ASSUME Init PROVE IInv
  OBVIOUS
<1>1. WellFormed(buf) /\ buf.size_ = 0 /\ buf \in Buffers
  BY FreshContents DEF Init, fresh, WellFormed
<1>2. sensor_data_ \in Windows
  BY ZeroAssumption DEF Init, Windows
<1>3. TypeOK
  <2>1. <<>> \in Seq(T) /\ <<>> \in Seq(Nat) /\ <<>> \in Seq(Windows)
    OBVIOUS
  <2>2. /\ pc = "idle" /\ left = 0 /\ foundDatagram = FALSE
        /\ checksum_is_ok_ = FALSE /\ no_internal_error_ = TRUE
        /\ received = <<>> /\ accepted = <<>> /\ published = <<>>
    BY DEF Init
  <2>3. QED
    <3>0. left \in 0 .. DATAGRAM_SIZE
      BY <2>2, Sizes
    <3>1. /\ foundDatagram \in BOOLEAN /\ checksum_is_ok_ \in BOOLEAN
          /\ no_internal_error_ \in BOOLEAN
      BY <2>2, Zenon
    <3>2. received \in Seq(T) /\ accepted \in Seq(Nat) /\ published \in Seq(Windows)
      BY <2>1, <2>2, Zenon
    <3>3. QED
      BY <1>1, <1>2, <2>2, <3>0, <3>1, <3>2, Zenon DEF TypeOK
<1>4. BufferIsTailOfLine
  BY <1>1 DEF Init, BufferIsTailOfLine, Buffered
<1>5. Control
  BY <1>1, Sizes DEF Init, Control, InHand
<1>6. Searched /\ Apart
  BY <1>1 DEF Init, Searched, Apart, AcceptedAreApart, Pos
<1>7. QED
  BY <1>3, <1>4, <1>5, <1>6 DEF IInv

LEMMA ReadBytesInv ==
  ASSUME IInv, NEW n \in 1 .. ReadSize, ReadBytes(n)
  PROVE  IInv'
<1>1. TypeOK'
  BY Sizes DEF IInv, TypeOK, ReadBytes, ReadSize, parsed, history
<1>2. BufferIsTailOfLine'
  BY DEF IInv, BufferIsTailOfLine, Buffered, ReadBytes, parsed, history
<1>3. Control'
  BY Numbers, Sizes DEF IInv, Control, InHand, ReadBytes, ReadSize, parsed, history
<1>4. Searched'
  BY DEF IInv, Searched, Reason, Covered, DatagramAt, WindowAt, Pos, InHand,
         ReadBytes, parsed, history
<1>5. Apart'
  BY DEF IInv, Apart, AcceptedAreApart, Pos, InHand, ReadBytes, parsed, history
<1>6. QED
  BY <1>1, <1>2, <1>3, <1>4, <1>5 DEF IInv

(* A byte more on the line leaves the windows complete before as they were *)
(* and the search where it was.                                            *)
LEMMA AddByteInv ==
  ASSUME IInv, NEW x \in T, AddByte(x)
  PROVE  IInv'
<1>1. /\ BufferIsTailOfLine' /\ buf'.size_ = buf.size_ + 1
      /\ Len(received') = Len(received) + 1
  BY PutByte, Numbers, Sizes DEF IInv, Control, AddByte
<1> DEFINE bytes == received'
<1>a. /\ bytes \in Seq(T)
      /\ \A i \in 1 .. Len(received) : bytes[i] = received[i]
  BY Numbers DEF AddByte
<1> HIDE DEF bytes
<1>b. /\ pc = "filling" /\ left' = left - 1
      /\ left > 0 /\ buf.size_ + left < N
      /\ \/ left = 1 /\ pc' = "searching" /\ foundDatagram' = FALSE
         \/ left # 1 /\ pc' = "filling" /\ foundDatagram' = foundDatagram
      /\ UNCHANGED <<sensor_data_, checksum_is_ok_, no_internal_error_,
                     accepted, published>>
  BY DEF IInv, Control, AddByte, parsed
<1>2. TypeOK'
  <2>1. left' \in 0 .. DATAGRAM_SIZE
    BY <1>b, Numbers, Sizes
  <2>2. buf' \in Buffers
    BY <1>1 DEF BufferIsTailOfLine, WellFormed
  <2>3. QED
    BY <1>a, <1>b, <2>1, <2>2 DEF IInv, TypeOK, bytes
<1>3. Control'
  BY <1>1, <1>b, Numbers, Sizes, SMTT(30) DEF Control, InHand
<1>4. Pos' = Pos /\ ~InHand /\ ~InHand' /\ accepted' = accepted
  BY <1>1, <1>b, Numbers, SMTT(30) DEF Pos, InHand
<1>5. ASSUME NEW p \in Nat, p >= 1, p + DATAGRAM_SIZE - 1 <= Len(received)
      PROVE  DatagramAt(p)' = DatagramAt(p)
  <2>1. ASSUME NEW i \in 1 .. DATAGRAM_SIZE
        PROVE  received'[p + i - 1] = received[p + i - 1]
    <3>1. p + i - 1 \in 1 .. Len(received)
      BY <1>5, Numbers, Sizes
    <3>2. QED
      BY <1>a, <3>1 DEF bytes
  <2>2. WindowAt(received', p) = WindowAt(received, p)
    BY <2>1 DEF WindowAt
  <2>3. QED
    BY <2>2 DEF DatagramAt
<1>6. Searched'
  <2>1. SUFFICES ASSUME NEW p \in 1 .. Pos - 1 PROVE Reason(p)'
    BY <1>4 DEF Searched
  <2>2. Reason(p)
    BY DEF IInv, Searched
  <2>3. CASE Covered(p)
    BY <1>4, <2>3 DEF Reason, Covered
  <2>4. CASE p + DATAGRAM_SIZE - 1 <= Len(received) /\ ~DatagramAt(p)
    <3>1. p + DATAGRAM_SIZE - 1 <= Len(received') /\ ~DatagramAt(p)'
      BY <1>1, <1>5, <2>4, Numbers, Sizes
    <3>2. QED
      BY <3>1 DEF Reason
  <2>5. QED
    BY <1>4, <2>2, <2>3, <2>4 DEF Reason
<1>7. Apart'
  BY <1>4 DEF IInv, Apart, AcceptedAreApart
<1>8. QED
  BY <1>1, <1>2, <1>3, <1>6, <1>7 DEF IInv

(* The search moves on by a byte that begins no datagram. *)
LEMMA MoveOn ==
  ASSUME IInv, Enough, pc = "searching", pc' = "searching",
         ~IsDatagram(Window), buf' = remove(buf),
         received' = received, accepted' = accepted, left' = left
  PROVE  BufferIsTailOfLine' /\ Control' /\ Searched' /\ Apart'
<1>1. /\ BufferIsTailOfLine' /\ buf'.size_ = buf.size_ - 1
  BY TakeByte, Numbers, Sizes DEF IInv, Enough
<1>2. Pos' = Pos + 1 /\ ~InHand /\ ~InHand'
  BY <1>1, Numbers DEF Pos, InHand
<1>3. Control'
  BY <1>1, Numbers, Sizes DEF IInv, Control, InHand
<1>4. Searched'
  <2>1. SUFFICES ASSUME NEW p \in 1 .. Pos PROVE Reason(p)'
    BY <1>2, Numbers DEF Searched
  <2>2. Reason(p)
    <3>1. CASE p = Pos
      BY <3>1, WindowIsOnLine DEF IInv, TypeOK, Reason, DatagramAt
    <3>2. CASE p # Pos
      BY <3>2, Numbers DEF IInv, Searched
    <3>3. QED
      BY <3>1, <3>2
  <2>3. QED
    BY <1>2, <2>2 DEF Reason, Covered, DatagramAt
<1>5. Apart'
  BY <1>2, Numbers, Sizes, SMTT(30) DEF IInv, Apart, AcceptedAreApart
<1>6. QED
  BY <1>1, <1>3, <1>4, <1>5

LEMMA SkipByteInv == ASSUME IInv, SkipByte PROVE IInv'
<1>1. BufferIsTailOfLine' /\ Control' /\ Searched' /\ Apart'
  BY MoveOn DEF SkipByte, IsDatagram, history, parsed
<1>2. TypeOK'
  BY <1>1 DEF IInv, TypeOK, BufferIsTailOfLine, WellFormed, SkipByte, history, parsed
<1>3. QED
  BY <1>1, <1>2 DEF IInv

(* A good window becomes the datagram in hand, a bad one is passed over. *)
LEMMA ParseDatagramInv == ASSUME IInv, ParseDatagram PROVE IInv'
<1>1. Window \in Windows
  BY WindowIsOnLine DEF IInv, TypeOK, ParseDatagram
<1>2. CASE ChecksumOk(Window) /\ pc' = "clearing" /\ left' = ToClear /\ UNCHANGED buf
  <2>1. TypeOK'
    BY <1>1, <1>2, ChecksumAssumption, Sizes
       DEF IInv, TypeOK, ParseDatagram, ToClear, history
  <2>2. BufferIsTailOfLine'
    BY <1>2 DEF IInv, BufferIsTailOfLine, Buffered, ParseDatagram, history
  <2>3. Control'
    BY <1>2, Numbers, Sizes DEF IInv, Control, InHand, Enough, ParseDatagram, ToClear, history
  <2>4. Pos' = Pos /\ Start' = Pos /\ ~InHand /\ InHand' /\ accepted' = accepted
    BY <1>2, Numbers, Sizes DEF Pos, Start, InHand, ParseDatagram, ToClear, history
  <2>5. Searched'
    BY <2>4 DEF IInv, Searched, Reason, Covered, DatagramAt, ParseDatagram, history
  <2>6. Apart'
    BY <2>4 DEF IInv, Apart, AcceptedAreApart
  <2>7. QED
    BY <2>1, <2>2, <2>3, <2>5, <2>6 DEF IInv
<1>3. CASE ~ChecksumOk(Window) /\ buf' = DropOne /\ UNCHANGED <<pc, left>>
  <2>1. BufferIsTailOfLine' /\ Control' /\ Searched' /\ Apart'
    BY <1>3, MoveOn DEF ParseDatagram, IsDatagram, DropOne, history
  <2>2. TypeOK'
    BY <1>1, <1>3, <2>1, ChecksumAssumption
       DEF IInv, TypeOK, BufferIsTailOfLine, WellFormed, ParseDatagram, history
  <2>3. QED
    BY <2>1, <2>2 DEF IInv
<1>4. QED
  BY <1>2, <1>3 DEF ParseDatagram

(* The datagram in hand leaves the buffer byte by byte. *)
LEMMA ClearByteInv == ASSUME IInv, ClearByte PROVE IInv'
<1>1. /\ BufferIsTailOfLine' /\ buf'.size_ = buf.size_ - 1
  BY TakeByte, Numbers DEF IInv, Control, ClearByte, history
<1>2. TypeOK'
  BY <1>1, Numbers, Sizes
     DEF IInv, TypeOK, Control, BufferIsTailOfLine, WellFormed, ClearByte, history, parsed
<1>a. /\ pc = "clearing" /\ left' = left - 1
      /\ \/ left = 1 /\ pc' = "accepted"
         \/ left # 1 /\ pc' = "clearing"
      /\ received' = received /\ accepted' = accepted
  BY DEF ClearByte, history
<1>b. /\ left > 0 /\ left <= buf.size_ /\ buf.size_ < DATAGRAM_SIZE + left
      /\ buf.size_ + DATAGRAM_SIZE - left <= Len(received)
  BY <1>a DEF IInv, Control, InHand
<1>c. left \in Int /\ buf.size_ \in Int /\ Len(received) \in Int
  BY Numbers, Sizes
<1>3. Control'
  BY <1>1, <1>a, <1>b, <1>c, Sizes DEF Control, InHand
<1>4. Pos' = Pos + 1 /\ Start' = Start /\ InHand /\ InHand' /\ accepted' = accepted
  <2>1. Pos' = Pos + 1
    BY <1>1, <1>a, <1>c DEF Pos
  <2>2. Start' = Start
    BY <1>a, <1>c, <2>1, Numbers, Sizes DEF Start
  <2>3. QED
    BY <1>a, <2>1, <2>2 DEF InHand
<1>5. Searched'
  <2>1. SUFFICES ASSUME NEW p \in 1 .. Pos PROVE Reason(p)'
    BY <1>4, Numbers DEF Searched
  <2>2. Start <= Pos
    BY Numbers, Sizes DEF Start
  <2>3. CASE p = Pos
    BY <1>4, <2>2, <2>3 DEF Reason
  <2>4. CASE p # Pos
    BY <1>4, <2>4, Numbers, SMTT(30)
       DEF IInv, Searched, Reason, Covered, DatagramAt, ClearByte, history
  <2>5. QED
    BY <2>3, <2>4
<1>6. Apart'
  BY <1>4 DEF IInv, Apart, AcceptedAreApart
<1>7. QED
  BY <1>1, <1>2, <1>3, <1>5, <1>6 DEF IInv

LEMMA ReturnDatagramInv == ASSUME IInv, ReturnDatagram PROVE IInv'
<1> DEFINE q == Len(received) - buf.size_ - DATAGRAM_SIZE + 1
<1>1. /\ q = Start /\ Pos = q + DATAGRAM_SIZE /\ q \in Nat
      /\ InHand /\ ~InHand' /\ Pos' = Pos
      /\ accepted' = Append(accepted, q) /\ received' = received /\ buf' = buf
  <2>1. /\ pc = "accepted" /\ pc' = "idle" /\ received' = received /\ buf' = buf
        /\ accepted' = Append(accepted, q)
    BY DEF ReturnDatagram
  <2>2. left = 0 /\ buf.size_ + DATAGRAM_SIZE - left <= Len(received)
    BY <2>1 DEF IInv, Control, InHand
  <2>3. q = Start /\ Pos = q + DATAGRAM_SIZE /\ q \in Nat
    <3>1. buf.size_ \in Int /\ Len(received) \in Int
      BY Numbers, Sizes
    <3>2. QED
      BY <2>2, <3>1, Sizes DEF Pos, Start
  <2>4. InHand /\ ~InHand' /\ Pos' = Pos
    BY <2>1 DEF InHand, Pos
  <2>5. QED
    BY <2>1, <2>3, <2>4
<1>2. /\ Len(accepted') = Len(accepted) + 1 /\ accepted'[Len(accepted) + 1] = q
      /\ \A i \in 1 .. Len(accepted) : accepted'[i] = accepted[i] /\ accepted[i] \in Nat
      /\ accepted' \in Seq(Nat)
  BY <1>1, Numbers
<1> HIDE DEF q
<1>3. TypeOK'
  <2>1. published' \in Seq(Windows)
    BY DEF IInv, TypeOK, ReturnDatagram, Publish
  <2>2. QED
    BY <1>2, <2>1 DEF IInv, TypeOK, ReturnDatagram, parsed
<1>4. BufferIsTailOfLine'
  BY <1>1 DEF IInv, BufferIsTailOfLine, Buffered
<1>5. Control'
  BY <1>1 DEF IInv, Control, InHand, ReturnDatagram
<1>6. Searched'
  <2>1. SUFFICES ASSUME NEW p \in 1 .. Pos - 1 PROVE Reason(p)'
    BY <1>1 DEF Searched
  <2>2. Reason(p)
    BY DEF IInv, Searched
  <2>3. CASE Covered(p)
    <3>1. PICK i \in 1 .. Len(accepted) :
            accepted[i] <= p /\ p < accepted[i] + DATAGRAM_SIZE
      BY <2>3 DEF Covered
    <3>2. i \in 1 .. Len(accepted') /\ accepted'[i] = accepted[i]
      BY <1>2, Numbers
    <3>3. QED
      BY <3>1, <3>2 DEF Reason, Covered
  <2>4. CASE Start <= p
    <3>1. /\ Len(accepted) + 1 \in 1 .. Len(accepted')
          /\ accepted'[Len(accepted) + 1] <= p
          /\ p < accepted'[Len(accepted) + 1] + DATAGRAM_SIZE
      BY <1>1, <1>2, <2>4, Numbers, Sizes
    <3>2. QED
      BY <3>1 DEF Reason, Covered
  <2>5. CASE p + DATAGRAM_SIZE - 1 <= Len(received) /\ ~DatagramAt(p)
    BY <1>1, <2>5 DEF Reason, DatagramAt
  <2>6. QED
    BY <2>2, <2>3, <2>4, <2>5 DEF Reason
<1>7. Apart'
  <2>1. ASSUME NEW i \in 1 .. Len(accepted')
        PROVE  accepted'[i] + DATAGRAM_SIZE <= Pos'
    <3>1. CASE i = Len(accepted) + 1
      BY <1>1, <1>2, <3>1, Sizes
    <3>2. CASE i # Len(accepted) + 1
      <4>1. i \in 1 .. Len(accepted) /\ accepted'[i] = accepted[i] /\ accepted[i] \in Nat
        BY <1>2, <3>2, Numbers, SMTT(30)
      <4>2. accepted[i] + DATAGRAM_SIZE <= Start
        BY <1>1, <4>1 DEF IInv, Apart
      <4>3. QED
        BY <1>1, <4>1, <4>2, Sizes
    <3>3. QED
      BY <3>1, <3>2
  <2>2. ASSUME NEW i \in 1 .. Len(accepted') - 1
        PROVE  accepted'[i] + DATAGRAM_SIZE <= accepted'[i + 1]
    <3>1. i \in 1 .. Len(accepted) /\ accepted'[i] = accepted[i]
      BY <1>2, Numbers
    <3>2. CASE i = Len(accepted)
      BY <1>1, <1>2, <3>1, <3>2 DEF IInv, Apart
    <3>3. CASE i # Len(accepted)
      <4>1. i \in 1 .. Len(accepted) - 1 /\ accepted'[i + 1] = accepted[i + 1]
        <5>1. i \in 1 .. Len(accepted) - 1
          BY <3>1, <3>3, Numbers
        <5>2. i + 1 \in 1 .. Len(accepted)
          BY <5>1, Numbers
        <5>3. QED
          BY <1>2, <5>1, <5>2
      <4>2. QED
        BY <3>1, <4>1 DEF IInv, Apart, AcceptedAreApart
    <3>4. QED
      BY <3>2, <3>3
  <2>3. QED
    BY <1>1, <2>1, <2>2 DEF Apart, AcceptedAreApart
<1>8. QED
  BY <1>3, <1>4, <1>5, <1>6, <1>7 DEF IInv

LEMMA ReturnWithoutInv == ASSUME IInv, ReturnWithout PROVE IInv'
<1>1. TypeOK'
  <2>1. published' \in Seq(Windows)
    BY DEF IInv, TypeOK, ReturnWithout, Publish
  <2>2. QED
    BY <2>1 DEF IInv, TypeOK, ReturnWithout, parsed
<1>2. /\ ~InHand /\ ~InHand' /\ Pos' = Pos
      /\ buf' = buf /\ received' = received /\ accepted' = accepted
  BY DEF InHand, Pos, ReturnWithout
<1>3. BufferIsTailOfLine'
  BY <1>2 DEF IInv, BufferIsTailOfLine, Buffered
<1>4. Control'
  BY <1>2, Numbers, Sizes DEF Control, Enough, ReturnWithout, InHand
<1>5. Searched'
  BY <1>2 DEF IInv, Searched, Reason, Covered, DatagramAt
<1>6. Apart'
  BY <1>2 DEF IInv, Apart, AcceptedAreApart
<1>7. QED
  BY <1>1, <1>3, <1>4, <1>5, <1>6 DEF IInv

LEMMA StutterInv == ASSUME IInv, UNCHANGED vars PROVE IInv'
BY DEF IInv, TypeOK, BufferIsTailOfLine, Buffered, Control, InHand, Searched, Reason,
       Covered, DatagramAt, Apart, AcceptedAreApart, Start, Pos, vars

LEMMA StepInv == IInv /\ [Next]_vars => IInv'
BY ReadBytesInv, AddByteInv, SkipByteInv, ParseDatagramInv, ClearByteInv,
   ReturnDatagramInv, ReturnWithoutInv, StutterInv DEF Next

LEMMA SpecInv == Spec => []IInv
BY InitInv, StepInv, PTL DEF Spec

-----------------------------------------------------------------------------
(* Every variable keeps its type; in particular the count of bytes left to *)
(* clear and the indices of the buffer stay in range.                      *)
THEOREM TypeCorrect == Spec => []TypeOK
<1>1. IInv => TypeOK
  BY DEF IInv
<1>2. QED
  BY <1>1, SpecInv, PTL

(* driver.cpp:66-131: the bytes of every read fit beside those the calls   *)
(* before left, for every datagram size and buffSize twice that.           *)
THEOREM EveryReadFits == Spec => []NeverOverflows
<1>1. IInv => NeverOverflows
  BY Numbers, Sizes DEF IInv, Control, NeverOverflows
<1>2. QED
  BY <1>1, SpecInv, PTL

(* serial_unix.cpp, circular_buffer.h: the buffer is always the tail of    *)
(* the stream: no byte is lost before the search has passed it.            *)
THEOREM NoByteIsLost == Spec => []BufferIsTailOfLine
<1>1. IInv => BufferIsTailOfLine
  BY DEF IInv
<1>2. QED
  BY <1>1, SpecInv, PTL

(* driver.cpp:118-124: the datagrams accepted never overlap. *)
THEOREM NoByteIsUsedTwice == Spec => []AcceptedAreApart
<1>1. IInv => AcceptedAreApart
  BY DEF IInv, Apart
<1>2. QED
  BY <1>1, SpecInv, PTL

(* driver.cpp:74-131: between calls, every datagram complete in the stream *)
(* has been accepted or shares bytes with one that was: what the search    *)
(* passed it passed for a reason, and what it did not pass is incomplete.  *)
THEOREM NothingIsMissed == Spec => []NoDatagramMissed
<1>1. IInv => NoDatagramMissed
  <2>1. SUFFICES ASSUME IInv, pc = "idle",
                        NEW p \in 1 .. Len(received) - DATAGRAM_SIZE + 1, DatagramAt(p)
                 PROVE  Covered(p)
    BY DEF NoDatagramMissed, Covered
  <2>2. p \in 1 .. Pos - 1
    BY <2>1, Numbers, Sizes, SMTT(30) DEF IInv, Control, Pos
  <2>3. QED
    BY <2>1, <2>2 DEF IInv, Searched, Reason, InHand
<1>2. QED
  BY <1>1, SpecInv, PTL

-----------------------------------------------------------------------------
(* What the parsed fields are when the driver decides to publish them: the *)
(* datagram in hand, with a good checksum; or, when no datagram was found  *)
(* in spite of a header, a window with a bad one.                          *)
Parsed ==
  /\ pc = "searching" /\ foundDatagram => ~checksum_is_ok_
  /\ InHand => /\ checksum_is_ok_
               /\ sensor_data_ = WindowAt(received, Start)
               /\ no_internal_error_ = StatusOk(sensor_data_)
AcceptedOnLine == \A i \in 1 .. Len(accepted) : accepted[i] >= 1

Published == Parsed /\ AcceptedOnLine /\ PublishedIsGenuine

(* A window that is complete on the line stays as it is. *)
LEMMA WindowStays ==
  ASSUME received \in Seq(T), NEW x \in T, received' = Append(received, x),
         NEW p \in Nat, p >= 1, p + DATAGRAM_SIZE - 1 <= Len(received)
  PROVE  WindowAt(received', p) = WindowAt(received, p)
<1>1. ASSUME NEW i \in 1 .. DATAGRAM_SIZE
      PROVE  received'[p + i - 1] = received[p + i - 1]
  <2>1. p + i - 1 \in 1 .. Len(received)
    BY Sizes
  <2>2. QED
    BY <2>1
<1>2. QED
  BY <1>1 DEF WindowAt

LEMMA StartOnLine ==
  ASSUME IInv, InHand
  PROVE  Start \in Nat /\ Start >= 1 /\ Start + DATAGRAM_SIZE - 1 <= Len(received)
<1>1. buf.size_ + DATAGRAM_SIZE - left <= Len(received) /\ left <= buf.size_
  <2>1. CASE pc = "clearing"
    BY <2>1 DEF IInv, Control
  <2>2. CASE pc = "accepted"
    BY <2>2, Numbers, Sizes DEF IInv, Control
  <2>3. QED
    BY <2>1, <2>2 DEF IInv, Control, InHand
<1>2. /\ buf.size_ \in Int /\ left \in Int /\ Len(received) \in Int
      /\ DATAGRAM_SIZE \in Int
  BY Numbers, Sizes
<1>3. QED
  BY <1>1, <1>2 DEF Start, Pos

(* A step that accepts and publishes nothing. *)
LEMMA StaysGenuine ==
  ASSUME PublishedIsGenuine, AcceptedOnLine, accepted' = accepted, published' = published,
         \A i \in 1 .. Len(accepted) :
           WindowAt(received', accepted[i]) = WindowAt(received, accepted[i])
  PROVE  PublishedIsGenuine' /\ AcceptedOnLine'
<1>1. \A i \in 1 .. Len(accepted) : Nominal(i)' = Nominal(i)
  BY DEF Nominal
<1>2. PICK place \in [1 .. Len(published) -> 1 .. Len(accepted)] :
        /\ InOrder(place)
        /\ \A k \in 1 .. Len(published) : published[k] = WindowAt(received, accepted[place[k]])
  BY DEF PublishedIsGenuine
<1>3. InOrder(place)'
  BY <1>1, <1>2 DEF InOrder
<1>4. \A k \in 1 .. Len(published) : published'[k] = WindowAt(received', accepted'[place[k]])
  BY <1>2
<1>5. QED
  BY <1>3, <1>4 DEF PublishedIsGenuine, AcceptedOnLine

LEMMA AddByteGenuine ==
  ASSUME IInv, Published, NEW x \in T, AddByte(x)
  PROVE  Published'
<1>1. /\ pc = "filling" /\ pc' \in {"filling", "searching"}
      /\ pc' = "searching" => foundDatagram' = FALSE
      /\ received' = Append(received, x)
      /\ accepted' = accepted /\ published' = published
  BY DEF AddByte
<1>2. Parsed'
  BY <1>1 DEF Parsed, InHand
<1>3. ASSUME NEW i \in 1 .. Len(accepted)
      PROVE  WindowAt(received', accepted[i]) = WindowAt(received, accepted[i])
  <2>1. accepted[i] \in Nat /\ accepted[i] >= 1
    BY Numbers DEF Published, AcceptedOnLine
  <2>2. accepted[i] + DATAGRAM_SIZE <= Pos
    BY <1>1 DEF IInv, Apart, InHand
  <2>3. Pos <= Len(received) + 1
    BY Numbers, Sizes DEF Pos
  <2>4. accepted[i] + DATAGRAM_SIZE - 1 <= Len(received)
    <3>1. Pos \in Int /\ Len(received) \in Int /\ DATAGRAM_SIZE \in Int
      BY Numbers, Sizes
    <3>2. QED
      BY <2>1, <2>2, <2>3, <3>1
  <2>5. QED
    BY <1>1, <2>1, <2>4, Numbers, WindowStays
<1>4. QED
  BY <1>1, <1>2, <1>3, StaysGenuine DEF Published

LEMMA SearchGenuine ==
  ASSUME IInv, Published, SkipByte \/ ParseDatagram
  PROVE  Published'
<1>1. /\ pc = "searching" /\ Enough /\ pc' \in {"searching", "clearing"}
      /\ received' = received /\ accepted' = accepted /\ published' = published
  BY DEF SkipByte, ParseDatagram, history
<1>2. ASSUME SkipByte PROVE Parsed'
  BY <1>1, <1>2 DEF SkipByte, Parsed, InHand
<1>3. ASSUME ParseDatagram PROVE Parsed'
  <2>1. CASE ChecksumOk(Window) /\ pc' = "clearing" /\ left' = ToClear /\ UNCHANGED buf
    <3>1. Start' = Pos /\ Window = WindowAt(received, Pos) /\ Window \in Windows
      BY <1>1, <2>1, Numbers, Sizes, WindowIsOnLine
         DEF IInv, TypeOK, Start, Pos, ToClear
    <3>2. checksum_is_ok_' /\ sensor_data_' = Window /\ no_internal_error_' = StatusOk(Window)
      BY <1>3, <2>1 DEF ParseDatagram
    <3>3. QED
      BY <1>1, <2>1, <3>1, <3>2 DEF Parsed, InHand
  <2>2. CASE ~ChecksumOk(Window) /\ buf' = DropOne /\ UNCHANGED <<pc, left>>
    <3>1. ~checksum_is_ok_' /\ pc' = "searching"
      BY <1>1, <1>3, <2>2 DEF ParseDatagram
    <3>2. QED
      BY <3>1 DEF Parsed, InHand
  <2>3. QED
    BY <1>3, <2>1, <2>2 DEF ParseDatagram
<1>4. Parsed'
  BY <1>2, <1>3
<1>5. QED
  BY <1>1, <1>4, StaysGenuine DEF Published

(* The datagram in hand is accepted, and published if its status is        *)
(* nominal: its place in the list of the published is the last.            *)
LEMMA ReturnDatagramGenuine ==
  ASSUME IInv, Published, ReturnDatagram
  PROVE  Published'
<1> DEFINE n == Len(published)
           m == Len(accepted)
<1>1. /\ pc = "accepted" /\ pc' = "idle" /\ InHand /\ received' = received
      /\ accepted' = Append(accepted, Start)
      /\ published' = IF no_internal_error_ THEN Append(published, sensor_data_)
                      ELSE published
  <2>1. Start = Len(received) - buf.size_ - DATAGRAM_SIZE + 1
    <3>1. buf.size_ \in Int /\ Len(received) \in Int /\ left = 0
      BY Numbers, Sizes DEF ReturnDatagram, IInv, Control
    <3>2. QED
      BY <3>1, Sizes DEF Start, Pos
  <2>2. pc = "accepted" /\ InHand /\ checksum_is_ok_
    BY DEF ReturnDatagram, InHand, Published, Parsed
  <2>3. QED
    BY <2>1, <2>2 DEF ReturnDatagram, Publish
<1>2. /\ Start \in Nat /\ Start >= 1
      /\ sensor_data_ = WindowAt(received, Start) /\ no_internal_error_ = StatusOk(sensor_data_)
  BY <1>1, StartOnLine DEF Published, Parsed
<1>3. /\ accepted \in Seq(Nat) /\ m \in Nat /\ published \in Seq(Windows) /\ n \in Nat
  BY DEF IInv, TypeOK
<1>4. /\ Len(accepted') = m + 1 /\ accepted'[m + 1] = Start
      /\ \A i \in 1 .. m : accepted'[i] = accepted[i]
  BY <1>1, <1>2, <1>3
<1>5. AcceptedOnLine'
  BY <1>2, <1>3, <1>4 DEF Published, AcceptedOnLine
<1>6. Parsed'
  BY <1>1 DEF Parsed, InHand
<1>7. ASSUME NEW i \in 1 .. m + 1
      PROVE  Nominal(i)' <=> IF i = m + 1 THEN no_internal_error_ ELSE Nominal(i)
  <2>1. CASE i = m + 1
    <3>1. WindowAt(received', accepted'[i]) = sensor_data_
      BY <1>1, <1>2, <1>4, <2>1
    <3>2. Nominal(i)' <=> StatusOk(sensor_data_)
      BY <3>1 DEF Nominal
    <3>3. QED
      BY <1>2, <2>1, <3>2
  <2>2. CASE i # m + 1
    <3>1. i \in 1 .. m
      BY <1>3, <2>2
    <3>2. WindowAt(received', accepted'[i]) = WindowAt(received, accepted[i])
      BY <1>1, <1>4, <3>1
    <3>3. QED
      BY <2>2, <3>2 DEF Nominal
  <2>3. QED
    BY <2>1, <2>2
<1>8. PICK place \in [1 .. n -> 1 .. m] :
        /\ InOrder(place)
        /\ \A k \in 1 .. n : published[k] = WindowAt(received, accepted[place[k]])
  BY DEF Published, PublishedIsGenuine
<1>9. CASE no_internal_error_
  <2>1. /\ Len(published') = n + 1 /\ published'[n + 1] = sensor_data_
        /\ \A k \in 1 .. n : published'[k] = published[k]
    <3>1. sensor_data_ \in Windows /\ published' = Append(published, sensor_data_)
      BY <1>1, <1>9 DEF IInv, TypeOK
    <3>2. QED
      BY <1>3, <3>1
  <2>a. PICK there \in [1 .. n + 1 -> 1 .. m + 1] :
          /\ there[n + 1] = m + 1
          /\ \A k \in 1 .. n : there[k] = place[k]
    <3> DEFINE f == [k \in 1 .. n + 1 |-> IF k = n + 1 THEN m + 1 ELSE place[k]]
    <3>1. n + 1 \in 1 .. n + 1 /\ m + 1 \in 1 .. m + 1
      BY <1>3
    <3>2. \A k \in 1 .. n : k \in 1 .. n + 1 /\ k # n + 1 /\ place[k] \in 1 .. m + 1
      <4>1. SUFFICES ASSUME NEW k \in 1 .. n
                     PROVE  k \in 1 .. n + 1 /\ k # n + 1 /\ place[k] \in 1 .. m + 1
        OBVIOUS
      <4>2. place[k] \in 1 .. m
        OBVIOUS
      <4>3. QED
        BY <1>3, <4>2
    <3>3. ASSUME NEW k \in 1 .. n + 1, k # n + 1 PROVE k \in 1 .. n
      BY <1>3, <3>3
    <3>4. f \in [1 .. n + 1 -> 1 .. m + 1]
      BY <3>1, <3>2, <3>3
    <3>5. f[n + 1] = m + 1 /\ \A k \in 1 .. n : f[k] = place[k]
      BY <3>1, <3>2
    <3>6. QED
      BY <3>4, <3>5
  <2>2. there \in [1 .. Len(published') -> 1 .. Len(accepted')]
    BY <1>4, <2>1, <2>a
  <2>3. ASSUME NEW k \in 1 .. n + 1, NEW l \in 1 .. n + 1, k < l
        PROVE  there[k] < there[l]
    <3>1. k \in 1 .. n /\ there[k] = place[k] /\ place[k] \in 1 .. m
      <4>1. k \in 1 .. n
        BY <1>3, <2>3
      <4>2. QED
        BY <2>a, <4>1
    <3>2. CASE l = n + 1
      BY <1>3, <3>1, <3>2, <2>a
    <3>3. CASE l # n + 1
      <4>1. l \in 1 .. n
        BY <1>3, <3>3
      <4>2. QED
        BY <1>8, <2>3, <2>a, <3>1, <4>1 DEF InOrder
    <3>4. QED
      BY <3>2, <3>3
  <2>4. ASSUME NEW i \in 1 .. m + 1
        PROVE  Nominal(i)' <=> \E k \in 1 .. n + 1 : there[k] = i
    <3>1. CASE i = m + 1
      <4>1. n + 1 \in 1 .. n + 1
        BY <1>3
      <4>2. QED
        BY <1>7, <1>9, <2>a, <3>1, <4>1
    <3>2. CASE i # m + 1
      <4>1. i \in 1 .. m
        BY <1>3, <3>2
      <4>2. \A k \in 1 .. n + 1 : k # n + 1 <=> k \in 1 .. n
        BY <1>3
      <4>3. \A k \in 1 .. n : k \in 1 .. n + 1
        BY <1>3
      <4>4. (\E k \in 1 .. n + 1 : there[k] = i) <=> \E k \in 1 .. n : place[k] = i
        BY <3>2, <4>2, <4>3, <2>a
      <4>5. (\E k \in 1 .. n : place[k] = i) <=> Nominal(i)
        BY <1>8, <4>1 DEF InOrder
      <4>6. QED
        BY <1>7, <4>1, <4>4, <4>5
    <3>3. QED
      BY <3>1, <3>2
  <2>5. InOrder(there)'
    <3>1. DOMAIN there = 1 .. n + 1 /\ Len(accepted') = m + 1
      BY <1>4, <2>a
    <3>2. QED
      BY <2>3, <2>4, <3>1 DEF InOrder
  <2>6. ASSUME NEW k \in 1 .. n + 1
        PROVE  published'[k] = WindowAt(received', accepted'[there[k]])
    <3>1. CASE k = n + 1
      BY <1>1, <1>2, <1>4, <2>1, <2>a, <3>1
    <3>2. CASE k # n + 1
      <4>1. k \in 1 .. n /\ place[k] \in 1 .. m
        BY <1>3, <3>2
      <4>2. QED
        BY <1>1, <1>4, <1>8, <2>1, <2>a, <4>1
    <3>3. QED
      BY <3>1, <3>2
  <2>7. PublishedIsGenuine'
    BY <2>1, <2>2, <2>5, <2>6 DEF PublishedIsGenuine
  <2>8. QED
    BY <1>5, <1>6, <2>7 DEF Published
<1>10. CASE ~no_internal_error_
  <2>1. place \in [1 .. Len(published') -> 1 .. Len(accepted')]
    BY <1>1, <1>3, <1>4, <1>10
  <2>2. ASSUME NEW i \in 1 .. m + 1
        PROVE  Nominal(i)' <=> \E k \in 1 .. n : place[k] = i
    <3>1. CASE i = m + 1
      <4>1. \A k \in 1 .. n : place[k] \in 1 .. m
        BY <1>8
      <4>2. \A k \in 1 .. n : place[k] # m + 1
        BY <1>3, <4>1
      <4>3. QED
        BY <1>7, <1>10, <3>1, <4>2
    <3>2. CASE i # m + 1
      <4>1. i \in 1 .. m
        BY <1>3, <3>2
      <4>2. QED
        BY <1>7, <1>8, <4>1 DEF InOrder
    <3>3. QED
      BY <3>1, <3>2
  <2>3. InOrder(place)'
    BY <1>4, <1>8, <2>2 DEF InOrder
  <2>4. \A k \in 1 .. n : published'[k] = WindowAt(received', accepted'[place[k]])
    BY <1>1, <1>4, <1>8, <1>10
  <2>5. PublishedIsGenuine'
    BY <1>1, <1>10, <2>1, <2>3, <2>4 DEF PublishedIsGenuine
  <2>6. QED
    BY <1>5, <1>6, <2>5 DEF Published
<1>11. QED
  BY <1>9, <1>10

(* The other steps publish nothing and leave the line alone. *)
LEMMA QuietStepGenuine ==
  ASSUME IInv, Published,
         \/ \E n \in 1 .. ReadSize : ReadBytes(n)
         \/ ClearByte \/ ReturnWithout \/ UNCHANGED vars
  PROVE  Published'
<1>1. /\ received' = received /\ accepted' = accepted /\ published' = published
      /\ sensor_data_' = sensor_data_ /\ checksum_is_ok_' = checksum_is_ok_
      /\ no_internal_error_' = no_internal_error_ /\ foundDatagram' = foundDatagram
  <2>1. CASE ReturnWithout
    <3>1. ~(foundDatagram /\ checksum_is_ok_)
      BY <2>1 DEF ReturnWithout, Published, Parsed
    <3>2. published' = published
      BY <2>1, <3>1 DEF ReturnWithout, Publish
    <3>3. QED
      BY <2>1, <3>2 DEF ReturnWithout, parsed
  <2>2. CASE ClearByte
    BY <2>2 DEF ClearByte, parsed, history
  <2>3. ASSUME NEW n \in 1 .. ReadSize, ReadBytes(n) PROVE <1>1
    BY <2>3 DEF ReadBytes, parsed, history
  <2>4. CASE UNCHANGED vars
    BY <2>4 DEF vars
  <2>5. QED
    BY <2>1, <2>2, <2>3, <2>4
<1>2. Parsed'
  <2>1. CASE ClearByte
    <3>1. InHand /\ pc' \in {"clearing", "accepted"}
      BY <2>1 DEF ClearByte, InHand
    <3>2. Start' = Start
      <4>1. buf'.size_ = buf.size_ - 1 /\ left' = left - 1
        BY <2>1, TakeByte, Numbers DEF IInv, Control, ClearByte, history
      <4>2. /\ buf.size_ \in Int /\ left \in Int /\ Len(received) \in Int
            /\ DATAGRAM_SIZE \in Int
        BY Numbers, Sizes
      <4>3. QED
        BY <1>1, <4>1, <4>2 DEF Start, Pos
    <3>3. QED
      BY <1>1, <3>1, <3>2 DEF Published, Parsed, InHand
  <2>2. CASE UNCHANGED vars
    BY <2>2 DEF Published, Parsed, InHand, Start, Pos, vars
  <2>3. CASE ReturnWithout
    BY <2>3 DEF ReturnWithout, Parsed, InHand
  <2>4. ASSUME NEW n \in 1 .. ReadSize, ReadBytes(n) PROVE Parsed'
    BY <2>4 DEF ReadBytes, Parsed, InHand
  <2>5. QED
    BY <2>1, <2>2, <2>3, <2>4
<1>3. QED
  BY <1>1, <1>2, StaysGenuine DEF Published

LEMMA InitGenuine == Init => Published
<1> SUFFICES ASSUME Init PROVE Published
  OBVIOUS
<1>1. pc = "idle" /\ accepted = <<>> /\ published = <<>>
  BY DEF Init
<1>2. Parsed /\ AcceptedOnLine
  BY <1>1 DEF Parsed, InHand, AcceptedOnLine
<1>3. PublishedIsGenuine
  <2>1. \A k \in 1 .. 0 : FALSE
    OBVIOUS
  <2>2. PICK place : place \in [1 .. 0 -> 1 .. 0]
    <3> DEFINE f == [k \in 1 .. 0 |-> k]
    <3>1. f \in [1 .. 0 -> 1 .. 0]
      OBVIOUS
    <3>2. QED
      BY <3>1
  <2>3. 1 .. Len(published) = 1 .. 0 /\ 1 .. Len(accepted) = 1 .. 0
    BY <1>1
  <2>4. DOMAIN place = 1 .. 0
    BY <2>2
  <2>5. InOrder(place)
    BY <2>1, <2>3, <2>4 DEF InOrder
  <2>6. \A k \in 1 .. Len(published) :
          published[k] = WindowAt(received, accepted[place[k]])
    BY <2>1, <2>3
  <2>7. place \in [1 .. Len(published) -> 1 .. Len(accepted)]
    BY <2>2, <2>3
  <2>8. QED
    BY <2>5, <2>6, <2>7 DEF PublishedIsGenuine
<1>4. QED
  BY <1>2, <1>3 DEF Published

(* kvh_node.cpp:90-99, driver.cpp:113: what is published are exactly the   *)
(* accepted datagrams with a nominal status, each once and in their order, *)
(* although every window that fails its checksum has overwritten the       *)
(* fields before.                                                          *)
THEOREM OnlyTheGenuineIsPublished == Spec => []PublishedIsGenuine
<1>1. IInv /\ Published /\ [Next]_vars => Published'
  BY AddByteGenuine, SearchGenuine, ReturnDatagramGenuine, QuietStepGenuine DEF Next
<1>2. Published => PublishedIsGenuine
  BY DEF Published
<1>3. QED
  BY <1>1, <1>2, InitGenuine, SpecInv, PTL DEF Spec

-----------------------------------------------------------------------------
(* serial_driver.h, driver.cpp, serial_unix.cpp: the driver changes its    *)
(* buffer through add and remove only, so that all that is known of a      *)
(* CircularBuffer is known of this one: it is a queue that drops its       *)
(* oldest byte, and by EveryReadFits it never has to.                      *)
THEOREM BufferIsQueue == Spec => Buffer!QueueSpec
<1>1. Init => Buffer!Init
  BY SameOperations DEF Init, Buffer!Init
<1>2. [Next]_vars => [Buffer!Next]_buf
  <2>1. SUFFICES ASSUME [Next]_vars PROVE Buffer!Next \/ buf' = buf
    OBVIOUS
  <2>2. ASSUME NEW x \in T, AddByte(x) PROVE Buffer!Next
    BY <2>2, SameOperations DEF AddByte, Buffer!Next, Buffer!Add
  <2>3. CASE SkipByte \/ ParseDatagram \/ ClearByte
    BY <2>3, SameOperations
       DEF SkipByte, ParseDatagram, ClearByte, DropOne, Buffer!Next, Buffer!Remove
  <2>4. CASE \/ \E n \in 1 .. ReadSize : ReadBytes(n)
             \/ ReturnDatagram \/ ReturnWithout \/ UNCHANGED vars
    BY <2>4 DEF ReadBytes, ReturnDatagram, ReturnWithout, vars
  <2>5. QED
    BY <2>1, <2>2, <2>3, <2>4 DEF Next
<1>3. Spec => Buffer!Spec
  BY <1>1, <1>2, PTL DEF Spec, Buffer!Spec
<1>4. QED
  BY <1>3, Buffer!BufferIsAQueue, NAssumption, ZeroAssumption

=============================================================================
