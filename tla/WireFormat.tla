---------------------------- MODULE WireFormat ----------------------------
(***************************************************************************)
(* Two encodings that lose information: truncated packet numbers           *)
(* (protocol/packet_number.go) and ACK frames (wire/ack_frame.go).         *)
(*                                                                         *)
(* z holds a sender's next packet number and the largest one it knows to   *)
(* be acknowledged, the receiver's highest, a packet in the network; and   *)
(* the packet numbers an ACK frame is built from.                          *)
(***************************************************************************)
EXTENDS Integers, Sequences, SequencesExt

CONSTANTS
    Window2, Window3, Window4,      \* the packet numbers that 2, 3 and 4 bytes tell apart
    MaxPN,                          \* bound on packet numbers
    MaxAcked,                       \* bound on the packet numbers of an ACK frame
    MaxAckFrameSize,
    ShortVarint                     \* numbers below take one byte, the others two

VARIABLE z

Invalid == -1                       \* protocol.InvalidPacketNumber

\* Mutant: the window is used in full.
WholeWindow(pn, largestAcked) ==
    LET numUnacked == IF largestAcked = Invalid THEN pn + 1 ELSE pn - largestAcked
    IN  IF numUnacked < Window2 THEN Window2 ELSE IF numUnacked < Window3 THEN Window3 ELSE Window4

\* PacketNumberLengthForHeader; a length stands for its window.
PacketNumberLengthForHeader(pn, largestAcked) ==
    LET numUnacked == IF largestAcked = Invalid THEN pn + 1 ELSE pn - largestAcked
    IN  IF numUnacked < Window2 \div 2 THEN Window2 ELSE IF numUnacked < Window3 \div 2 THEN Window3 ELSE Window4

\* DecodePacketNumber
DecodePacketNumber(win, largest, truncated) ==
    LET expected == largest + 1
        hwin == win \div 2
        candidate == (expected \div win) * win + truncated
    IN  IF candidate <= expected - hwin THEN candidate + win
        ELSE IF candidate > expected + hwin /\ candidate >= win THEN candidate - win
        ELSE candidate

-----------------------------------------------------------------------------
\* quicvarint.Len
VarintLen(n) == IF n < ShortVarint THEN 1 ELSE 2

\* The ranges of an ACK frame, the highest first.
Ranges(S) ==
    LET bounds == {r \in S \X S : r[1] <= r[2] /\ r[1]..r[2] \subseteq S /\ r[1] - 1 \notin S /\ r[2] + 1 \notin S}
    IN  SetToSortSeq(bounds, LAMBDA r, q : r[2] > q[2])

\* encodeAckRange
EncodeAckRange(ranges, i) ==
    <<IF i = 1 THEN 0 ELSE ranges[i - 1][1] - ranges[i][2] - 2, ranges[i][2] - ranges[i][1]>>

RangeLength(ranges, i) == VarintLen(EncodeAckRange(ranges, i)[1]) + VarintLen(EncodeAckRange(ranges, i)[2])
LengthOfRanges(ranges, n) == FoldLeftDomain(LAMBDA sum, i : IF i = 1 THEN sum ELSE sum + RangeLength(ranges, i), 0, SubSeq(ranges, 1, n))

\* The frame type, the largest packet number, the delay and two bytes for the count.
FixedLength(ranges) == 1 + VarintLen(ranges[1][2]) + 1 + 2

\* numEncodableAckRanges: one range less than would fit, when not all of them fit.
NumEncodableAckRanges(ranges) ==
    LET over == {i \in 2..Len(ranges) : FixedLength(ranges) + LengthOfRanges(ranges, i) > MaxAckFrameSize}
    IN  IF over = {} THEN Len(ranges) ELSE (CHOOSE i \in over : \A j \in over : i <= j) - 2

\* AckFrame.Append, without type and delay.
AppendAckFrame(ranges) ==
    LET n == NumEncodableAckRanges(ranges)
    IN  <<ranges[1][2], n - 1, EncodeAckRange(ranges, 1)[2]>> \o FlattenSeq([i \in 1..(n - 1) |-> EncodeAckRange(ranges, i + 1)])

\* AckFrame.Length
AckFrameLength(ranges) ==
    LET n == NumEncodableAckRanges(ranges)
    IN  2 + VarintLen(ranges[1][2]) + VarintLen(n - 1) + VarintLen(EncodeAckRange(ranges, 1)[2]) + LengthOfRanges(ranges, n)

\* parseAckFrame: every range lies two below the smallest packet number so far.
ParseAckFrame(b) ==
    LET Step(ranges, i) ==
            IF i = 1 THEN <<<<b[1] - b[3], b[1]>>>>
            ELSE LET largest == ranges[i - 1][1] - b[2 * i] - 2
                 IN  Append(ranges, <<largest - b[2 * i + 1], largest>>)
    IN  FoldLeft(Step, <<>>, [i \in 1..(b[2] + 1) |-> i])

\* validateAckRanges
ValidateAckRanges(ranges) ==
    /\ Len(ranges) > 0
    /\ \A i \in 1..Len(ranges) : ranges[i][1] <= ranges[i][2]
    /\ \A i \in 2..Len(ranges) : ranges[i - 1][1] > ranges[i][1] /\ ranges[i - 1][1] > ranges[i][2] + 1

\* AcksPacket
AcksPacket(ranges, p) ==
    /\ p >= ranges[Len(ranges)][1] /\ p <= ranges[1][2]
    /\ LET i == CHOOSE j \in 1..Len(ranges) : p >= ranges[j][1] /\ \A m \in 1..(j - 1) : p < ranges[m][1]
       IN  p <= ranges[i][2]

-----------------------------------------------------------------------------
NoPacket == <<Invalid, 0, 0>>

WireInit == z = [next |-> 0, largestAcked |-> Invalid, highest |-> Invalid, packet |-> NoPacket, acked |-> {}]

\* PeekPacketNumber and PopPacketNumber; packets before this one were sent and lost.
SendPacket(pn) ==
    /\ z.packet = NoPacket
    /\ LET win == PacketNumberLengthForHeader(pn, z.largestAcked)
       IN  z' = [z EXCEPT !.next = pn + 1, !.packet = <<pn, win, pn % win>>]

\* A later packet overtakes the one in the network.
OvertakenBy(pn) == z.packet # NoPacket /\ z' = [z EXCEPT !.next = pn + 1, !.highest = pn]

ReceivePacket == z.packet # NoPacket /\ z' = [z EXCEPT !.packet = NoPacket, !.highest = IF z.packet[1] > @ THEN z.packet[1] ELSE @]
LosePacket == z.packet # NoPacket /\ z' = [z EXCEPT !.packet = NoPacket]
AckArrives == z.largestAcked < z.highest /\ z' = [z EXCEPT !.largestAcked = z.highest]

\* A receiver of the packets in S builds an ACK frame.
BuildAck(S) == z.next = 0 /\ z.acked = {} /\ z' = [z EXCEPT !.acked = S]

WireNext ==
    \/ z.acked = {} /\ (\/ \E pn \in z.next..MaxPN : SendPacket(pn) \/ OvertakenBy(pn)
                        \/ ReceivePacket \/ LosePacket \/ AckArrives)
    \/ \E S \in SUBSET (0..MaxAcked) \ {{}} : BuildAck(S)

(***************************************************************************)
(* The receiver decodes every packet number as the one that was sent,      *)
(* whatever was lost before it and however late acknowledgments are, as    *)
(* long as packets overtake it by less than half the window of its length. *)
(* (PacketNumberLengthForHeader, DecodePacketNumber)                       *)
(***************************************************************************)
NumbersDecode ==
    z.packet # NoPacket /\ z.highest + 1 - z.packet[1] < z.packet[2] \div 2
        => DecodePacketNumber(z.packet[2], z.highest, z.packet[3]) = z.packet[1]

(***************************************************************************)
(* An ACK frame read back is valid and acknowledges exactly the packets of *)
(* its ranges, the highest first; when it would exceed the maximum size,   *)
(* only the lowest are left out.  Its Length is the bytes it takes, and    *)
(* exceeds the maximum by less than the first range, which is not counted. *)
(* (Append, Length, parseAckFrame, validateAckRanges, AcksPacket)          *)
(***************************************************************************)
AcksDecode ==
    z.acked # {} =>
        LET ranges == Ranges(z.acked)
            b == AppendAckFrame(ranges)
            parsed == ParseAckFrame(b)
            n == NumEncodableAckRanges(ranges)
        IN  /\ n > 0 /\ parsed = SubSeq(ranges, 1, n) /\ ValidateAckRanges(parsed)
            /\ \A p \in 0..(MaxAcked + 1) : AcksPacket(parsed, p) = (p \in z.acked /\ p >= parsed[n][1])
            /\ AckFrameLength(ranges) = 2 + FoldLeft(LAMBDA sum, x : sum + VarintLen(x), 0, b)
            /\ AckFrameLength(ranges) < MaxAckFrameSize + VarintLen(b[3])

\* The two facts above: what the sender encodes is what the receiver decodes.
DecodesAsSent == NumbersDecode /\ AcksDecode
=============================================================================
