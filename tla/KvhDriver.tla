------------------------------ MODULE KvhDriver ------------------------------
(***************************************************************************)
(* The KVH 1775 driver: Driver::tryReadingNewPacket, which finds IMU       *)
(* datagrams in the bytes a serial line delivers in arbitrary pieces, and  *)
(* the read loop of KvhNode, which publishes them.  One thread runs both,  *)
(* so a call is taken apart only into the turns of its loops.              *)
(*                                                                         *)
(* The line is the environment: any bytes, in any pieces.  That includes   *)
(* what is left of a datagram when the line is lost and reopened, since    *)
(* reconnect() does not touch the buffer.                                  *)
(***************************************************************************)
EXTENDS RingBuffers

CONSTANTS
  DATAGRAM_SIZE,   \* constants.h: 40
  HEADER,          \* the bytes a datagram begins with
  ChecksumOk(_),   \* the computed CRC is the one at the end of the window
  StatusOk(_),     \* the status byte reads nominal
  MaxBytes         \* bound: the bytes the line ever delivers

ASSUME SizeAssumption ==
  /\ DATAGRAM_SIZE \in Nat \ {0}
  /\ N = 2 * DATAGRAM_SIZE          \* serial_driver.h: buffSize
  /\ HEADER \in Seq(T)
  /\ Len(HEADER) \in 1 .. DATAGRAM_SIZE
  /\ MaxBytes \in Nat

Windows == [1 .. DATAGRAM_SIZE -> T]

ASSUME ChecksumAssumption ==
  \A w \in Windows : ChecksumOk(w) \in BOOLEAN /\ StatusOk(w) \in BOOLEAN

VARIABLES
  buf,                  \* serial_driver_.buffer_
  pc,                   \* where the reading thread is
  left,                 \* turns left of the loop that adds or clears bytes
  foundDatagram,        \* the local of tryReadingNewPacket
  sensor_data_,         \* the bytes of the window parsed last
  checksum_is_ok_,
  no_internal_error_,
  received,             \* history: every byte the line has delivered
  accepted,             \* history: where in it the accepted datagrams begin
  published             \* history: what KvhNode has published

vars == <<buf, pc, left, foundDatagram, sensor_data_, checksum_is_ok_,
          no_internal_error_, received, accepted, published>>
history == <<received, accepted, published>>
parsed == <<sensor_data_, checksum_is_ok_, no_internal_error_>>

-----------------------------------------------------------------------------
WindowAt(bytes, p) == [i \in 1 .. DATAGRAM_SIZE |-> bytes[p + i - 1]]
BeginsWithHeader(w) == \A i \in 1 .. Len(HEADER) : w[i] = HEADER[i]

Window == WindowAt(Contents(buf), 1)
Enough == DATAGRAM_SIZE <= buf.size_

Init ==
  /\ \E slots \in [Slots -> T] : buf = fresh(slots)
  /\ pc = "idle"
  /\ left = 0
  /\ foundDatagram = FALSE
  /\ sensor_data_ = [i \in 1 .. DATAGRAM_SIZE |-> Zero]
  /\ checksum_is_ok_ = FALSE
  /\ no_internal_error_ = TRUE
  /\ received = <<>>
  /\ accepted = <<>>
  /\ published = <<>>

(* The room in the buffer readBytes gives to read(). *)
WholeBuffer == N
ReadSize == DATAGRAM_SIZE

(* readBytes: read() returned n bytes.  A poll or read that fails makes    *)
(* tryReadingNewPacket return false with nothing changed here.             *)
ReadBytes(n) ==
  /\ pc = "idle"
  /\ Len(received) + n <= MaxBytes
  /\ pc' = "filling"
  /\ left' = n
  /\ UNCHANGED <<buf, foundDatagram, parsed, history>>

(* Its loop that copies them to the buffer; then the search begins. *)
AddByte(x) ==
  /\ pc = "filling"
  /\ buf' = add(buf, x)
  /\ received' = Append(received, x)
  /\ left' = left - 1
  /\ IF left = 1 THEN pc' = "searching" /\ foundDatagram' = FALSE
                 ELSE UNCHANGED <<pc, foundDatagram>>
  /\ UNCHANGED <<parsed, accepted, published>>

(* The inner loop: a byte that does not begin a header is removed. *)
SkipByte ==
  /\ pc = "searching" /\ Enough
  /\ ~foundDatagram /\ ~BeginsWithHeader(Window)
  /\ buf' = remove(buf)
  /\ UNCHANGED <<pc, left, foundDatagram, parsed, history>>

(* What a bad checksum removes, and how much a good one does. *)
DropTwo == remove(remove(buf))
DropNone == buf
DropOne == remove(buf)

ClearOneMore == DATAGRAM_SIZE + 1
ClearOneLess == DATAGRAM_SIZE - 1
ToClear == DATAGRAM_SIZE

(* The rest of the outer loop.  Once a header was found, the window is     *)
(* parsed as it stands: after a bad checksum the next one is tried from    *)
(* the following byte without looking for a header again.                  *)
ParseDatagram ==
  /\ pc = "searching" /\ Enough
  /\ foundDatagram \/ BeginsWithHeader(Window)
  /\ foundDatagram' = TRUE
  /\ sensor_data_' = Window
  /\ no_internal_error_' = StatusOk(Window)
  /\ checksum_is_ok_' = ChecksumOk(Window)
  /\ \/ ChecksumOk(Window) /\ pc' = "clearing" /\ left' = ToClear /\ UNCHANGED buf
     \/ ~ChecksumOk(Window) /\ buf' = DropOne /\ UNCHANGED <<pc, left>>
  /\ UNCHANGED history

(* The loop that clears the datagram just accepted. *)
ClearByte ==
  /\ pc = "clearing"
  /\ buf' = remove(buf)
  /\ left' = left - 1
  /\ pc' = IF left = 1 THEN "accepted" ELSE pc
  /\ UNCHANGED <<foundDatagram, parsed, history>>

PublishUnchecked(result) ==
  published' = IF result THEN Append(published, sensor_data_) ELSE published

(* KvhNode::readLoop, when the call has returned result. *)
Publish(result) ==
  published' = IF result /\ checksum_is_ok_ /\ no_internal_error_
               THEN Append(published, sensor_data_) ELSE published

(* return true, with a datagram. *)
ReturnDatagram ==
  /\ pc = "accepted"
  /\ pc' = "idle"
  /\ accepted' = Append(accepted, Len(received) - buf.size_ - DATAGRAM_SIZE + 1)
  /\ Publish(TRUE)
  /\ UNCHANGED <<buf, left, foundDatagram, parsed, received>>

(* return foundDatagram, or false from the inner loop: out of bytes. *)
ReturnWithout ==
  /\ pc = "searching" /\ ~Enough
  /\ pc' = "idle"
  /\ Publish(foundDatagram)
  /\ UNCHANGED <<buf, left, foundDatagram, parsed, received, accepted>>

Next ==
  \/ \E n \in 1 .. ReadSize : ReadBytes(n)
  \/ \E x \in T : AddByte(x)
  \/ SkipByte
  \/ ParseDatagram
  \/ ClearByte
  \/ ReturnDatagram
  \/ ReturnWithout

Spec == Init /\ [][Next]_vars

(* The thread keeps running once it has bytes; the line may stay quiet.    *)
Fairness ==
  /\ WF_vars(\E x \in T : AddByte(x)) /\ WF_vars(SkipByte)
  /\ WF_vars(ParseDatagram) /\ WF_vars(ClearByte)
  /\ WF_vars(ReturnDatagram) /\ WF_vars(ReturnWithout)

FairSpec == Spec /\ Fairness

-----------------------------------------------------------------------------
(* Properties *)

TypeOK ==
  /\ buf \in Buffers
  /\ pc \in {"idle", "filling", "searching", "clearing", "accepted"}
  /\ left \in 0 .. DATAGRAM_SIZE
  /\ foundDatagram \in BOOLEAN
  /\ sensor_data_ \in Windows
  /\ checksum_is_ok_ \in BOOLEAN
  /\ no_internal_error_ \in BOOLEAN
  /\ received \in Seq(T)
  /\ accepted \in Seq(Nat)
  /\ published \in Seq(Windows)

(* driver.cpp:66-131, serial_unix.cpp:182-199: every call leaves less than *)
(* a datagram behind, so the bytes of the next read always fit and the     *)
(* buffer never drops its oldest byte.                                     *)
NeverOverflows == pc = "filling" => buf.size_ + left <= N

(* circular_buffer.h, driver.cpp: whatever has been added and removed, the *)
(* buffer holds exactly the latest bytes of the line, in order, so no byte *)
(* is lost, repeated or moved before the search has looked at it.          *)
Buffered(bytes) ==
  /\ buf.size_ <= Len(bytes)
  /\ \A i \in 1 .. buf.size_ :
       Contents(buf)[i] = bytes[Len(bytes) - buf.size_ + i]
BufferIsTailOfLine == WellFormed(buf) /\ Buffered(received)

(* The datagrams the line has delivered in full. *)
IsDatagram(w) == BeginsWithHeader(w) /\ ChecksumOk(w)
DatagramAt(p) == IsDatagram(WindowAt(received, p))

(* driver.cpp:74-131: however the line cuts the stream into reads, when a  *)
(* call returns every datagram that is complete in the stream has been     *)
(* accepted, unless it shares bytes with one accepted before it.           *)
NoDatagramMissed ==
  pc = "idle" =>
    \A p \in 1 .. Len(received) - DATAGRAM_SIZE + 1 :
      DatagramAt(p) =>
        \E i \in 1 .. Len(accepted) :
          accepted[i] <= p /\ p < accepted[i] + DATAGRAM_SIZE

(* driver.cpp:118-124: no byte is used in two datagrams. *)
AcceptedAreApart ==
  \A i \in 1 .. Len(accepted) - 1 :
    accepted[i] + DATAGRAM_SIZE <= accepted[i + 1]

(* kvh_node.cpp:90-99: what is published are the accepted datagrams with a *)
(* nominal status, each once and in order.  The fields of a window that    *)
(* failed its checksum, which parseDatagram writes over the last good      *)
(* ones, are never sent, and neither are the last good ones again.         *)
Nominal(i) == StatusOk(WindowAt(received, accepted[i]))
InOrder(place) ==
  /\ \A k, l \in DOMAIN place : k < l => place[k] < place[l]
  /\ \A i \in 1 .. Len(accepted) : Nominal(i) <=> \E k \in DOMAIN place : place[k] = i
PublishedIsGenuine ==
  \E place \in [1 .. Len(published) -> 1 .. Len(accepted)] :
    /\ InOrder(place)
    /\ \A k \in 1 .. Len(published) : published[k] = WindowAt(received, accepted[place[k]])

(* driver.cpp:66-132: every call returns. *)
CallReturns == pc # "idle" ~> pc = "idle"

=============================================================================
