---------------------------- MODULE PacketLayout ----------------------------
(***************************************************************************)
(* packet_packer.go and u_packet_packer.go: how packets are laid out in a  *)
(* datagram, in bytes.  A call of the packer gets its input in a record:   *)
(*   keys, client      the levels with a sealer, and the side              *)
(*   content, acks     bytes of frames queued, and levels with an ACK due  *)
(*   max, pnLen        room in the datagram, length of packet numbers      *)
(*   layout            uQUIC: extra bytes of the Initial's frame layout    *)
(*                     and the smallest datagram, or NoLayout              *)
(* y holds the count of ACK-only packets and the datagram in hand: its     *)
(* packets, its size and whether the packer gave up.                       *)
(***************************************************************************)
EXTENDS Integers, Sequences

CONSTANTS
    LongHeader, ShortHeader,        \* lengths of the headers without the packet number
    Overhead,                       \* of the AEAD
    AckLength,
    MinCoalescedPacketSize, MinInitialPacketSize, MaxNonAckElicitingAcks,
    MaxSizes, PnLens, Contents, KeySets, Layouts, ProbeSizes

VARIABLE y

Levels == {"initial", "handshake", "zeroRTT", "oneRTT"}
NoLayout == [extra |-> -1, min |-> 0]
NoDatagram == [packets |-> <<>>, size |-> 0, max |-> 0, client |-> FALSE, exact |-> 0, bug |-> FALSE]

LayoutInit == y = [nonAckEliciting |-> 0, datagram |-> NoDatagram]

Least(a, b) == IF a < b THEN a ELSE b
Most(a, b) == IF a > b THEN a ELSE b
Empty == [len |-> 0, ack |-> FALSE, eliciting |-> FALSE]
HeaderLength(in, l) == in.pnLen + IF l = "oneRTT" THEN ShortHeader ELSE LongHeader

\* Packets with a tiny payload are padded, so that header protection has a sample.
TinyPadding(in, pl) == Most(0, 4 - in.pnLen - pl.len)

\* Mutant: a tiny payload is not accounted for.
UnpaddedLength(in, l, pl) == HeaderLength(in, l) + pl.len

\* longHeaderPacketLength and shortHeaderPacketLength
PacketLength(in, l, pl) == HeaderLength(in, l) + pl.len + TinyPadding(in, pl)

\* The payload that fits in room: an ACK and frames, or an ACK alone.
Payload(in, l, room, onlyAck, ackAllowed) ==
    LET ack == l \in in.acks /\ (onlyAck \/ ackAllowed)
        used == IF ack THEN AckLength ELSE 0
        frames == IF onlyAck THEN 0 ELSE Most(0, Least(in.content[l], room - used))
    IN  [len |-> used + frames, ack |-> ack, eliciting |-> frames > 0]

\* maybeGetCryptoPacket
CryptoPayload(in, l, room, onlyAck, ackAllowed) == Payload(in, l, room - HeaderLength(in, l), onlyAck, ackAllowed)

\* maybeGetAppDataPacket: a PING is added to the last of many ACK-only packets.
AppDataPayload(in, l, room, onlyAck, ackAllowed) ==
    LET pl == Payload(in, l, room, onlyAck, ackAllowed)
    IN  IF pl.ack /\ ~pl.eliciting /\ y.nonAckEliciting >= MaxNonAckElicitingAcks
        THEN [pl EXCEPT !.len = @ + 1, !.eliciting = TRUE] ELSE pl

\* The count of ACK-only packets after that payload.
NonAckEliciting(pl) == IF pl.len = 0 THEN y.nonAckEliciting ELSE IF pl.eliciting THEN 0 ELSE y.nonAckEliciting + 1

\* initialPaddingLen
InitialPaddingLen(in, pl, size) == IF ~in.client /\ ~pl.eliciting THEN 0 ELSE Most(0, in.max - size)

\* appendLongHeaderPacket, appendShortHeaderPacket and appendPacketPayload: the bytes
\* written, and the end that the header states.  A short header packet is the last one.
AppendPacket(d, in, l, pl, padding, checked) ==
    IF pl.len = 0 THEN d
    ELSE LET plain == pl.len + TinyPadding(in, pl) + padding
             written == HeaderLength(in, l) + plain + Overhead
             stated == (HeaderLength(in, l) - in.pnLen) + (in.pnLen + Overhead + plain)
         IN  [d EXCEPT !.packets = Append(@, [level |-> l, start |-> d.size, end |-> d.size + written, ack |-> pl.ack,
                                              stated |-> d.size + stated, sample |-> in.pnLen + plain, eliciting |-> pl.eliciting]),
                       !.size = @ + written, !.bug = @ \/ (l = "oneRTT" /\ checked /\ written > in.max)]

\* prepareInitialPacket: the frames with the extra bytes of the layout.
LaidOut(in, pl) ==
    LET room == in.max - HeaderLength(in, "initial") - Overhead
    IN  [pl EXCEPT !.len = Most(4 - in.pnLen, Least(room, @ + in.layout.extra))]

HasLayout(in, pl) == in.layout # NoLayout /\ pl.eliciting

\* initialDatagramMinSize exceeds the budget: an error, nothing is packed.
LayoutFails(in) == "initial" \in in.keys /\ in.layout # NoLayout /\ in.content["initial"] > 0 /\ in.layout.min > in.max

\* padInitialDatagram: zeros after all packets.
PadInitialDatagram(d, in) == [d EXCEPT !.size = Most(@, in.layout.min)]

Datagram(in) == [NoDatagram EXCEPT !.max = in.max, !.client = in.client]

\* appendInitialPacket: the frames as laid out, with no padding of their own.
AppendInitialPacket(d, in, pl) == AppendPacket(d, in, "initial", pl, 0, TRUE)

InitialPayload(in, onlyAck) == IF "initial" \in in.keys THEN CryptoPayload(in, "initial", in.max - Overhead, onlyAck, TRUE) ELSE Empty

\* What is coalesced with an Initial: a Handshake packet and a 1-RTT or a 0-RTT packet.
Coalesced(in, onlyAck, initial) ==
    LET Size(l, pl) == IF pl.len = 0 THEN 0 ELSE PacketLength(in, l, pl) + Overhead
        Coalesce(size) == IF onlyAck THEN size = 0 ELSE size < in.max - MinCoalescedPacketSize
        size1 == Size("initial", initial)
        handshake == IF Coalesce(size1) /\ "handshake" \in in.keys
                     THEN CryptoPayload(in, "handshake", in.max - size1 - Overhead, onlyAck, size1 = 0) ELSE Empty
        size2 == size1 + Size("handshake", handshake)
        level == IF "oneRTT" \in in.keys THEN "oneRTT" ELSE "zeroRTT"
        tried == Coalesce(size2) /\ level \in in.keys /\ (level = "zeroRTT" => in.client /\ ~onlyAck)
        app == IF tried THEN AppDataPayload(in, level, in.max - size2 - HeaderLength(in, level) - Overhead, onlyAck, level = "oneRTT" /\ size2 = 0) ELSE Empty
    IN  [handshake |-> handshake, level |-> level, app |-> app, size |-> size2 + Size(level, app),
         nonAckEliciting |-> IF tried THEN NonAckEliciting(app) ELSE y.nonAckEliciting]

\* packetPacker.PackCoalescedPacket
PackCoalescedPacket(in, onlyAck) ==
    LET initial == InitialPayload(in, onlyAck)
        more == Coalesced(in, onlyAck, initial)
        d1 == AppendPacket(Datagram(in), in, "initial", initial, InitialPaddingLen(in, initial, more.size), TRUE)
        d2 == AppendPacket(d1, in, "handshake", more.handshake, 0, TRUE)
        d3 == AppendPacket(d2, in, more.level, more.app, 0, TRUE)
    IN  /\ in.layout = NoLayout /\ d3.packets # <<>>
        /\ y' = [datagram |-> d3, nonAckEliciting |-> more.nonAckEliciting]

\* uPacketPacker.PackCoalescedPacket: an Initial that is laid out is padded behind all
\* packets, or inside a short header packet, which nothing can follow.
UPackCoalescedPacket(in, onlyAck) ==
    LET pl == InitialPayload(in, onlyAck)
        laidOut == HasLayout(in, pl)
        initial == IF laidOut THEN LaidOut(in, pl) ELSE pl
        more == Coalesced(in, onlyAck, initial)
        d1 == IF laidOut THEN AppendInitialPacket(Datagram(in), in, initial)
              ELSE AppendPacket(Datagram(in), in, "initial", initial, InitialPaddingLen(in, initial, more.size), TRUE)
        d2 == AppendPacket(d1, in, "handshake", more.handshake, 0, TRUE)
        d3 == AppendPacket(d2, in, more.level, more.app, IF laidOut /\ more.level = "oneRTT" THEN Most(0, in.layout.min - more.size) ELSE 0, TRUE)
    IN  /\ in.layout # NoLayout /\ (onlyAck \/ ~LayoutFails(in)) /\ d3.packets # <<>>
        /\ y' = [datagram |-> IF laidOut THEN PadInitialDatagram(d3, in) ELSE d3, nonAckEliciting |-> more.nonAckEliciting]

ProbePayload(in, l) ==
    IF l = "oneRTT" THEN AppDataPayload(in, l, in.max - Overhead - HeaderLength(in, l), FALSE, TRUE)
    ELSE CryptoPayload(in, l, in.max - Overhead, FALSE, TRUE)

ProbePacked(in, l, pl, d) ==
    /\ pl.len > 0
    /\ y' = [datagram |-> d, nonAckEliciting |-> IF l = "oneRTT" THEN NonAckEliciting(pl) ELSE y.nonAckEliciting]

\* packetPacker.MaybePackPTOProbePacket
MaybePackPTOProbePacket(in, l) ==
    LET pl == ProbePayload(in, l)
        padding == IF l = "initial" THEN InitialPaddingLen(in, pl, PacketLength(in, l, pl) + Overhead) ELSE 0
    IN  in.layout = NoLayout /\ l \in in.keys /\ ProbePacked(in, l, pl, AppendPacket(Datagram(in), in, l, pl, padding, TRUE))

\* uPacketPacker.MaybePackPTOProbePacket
UMaybePackPTOProbePacket(in, l) ==
    LET pl == ProbePayload(in, l)
        padding == IF l = "initial" THEN InitialPaddingLen(in, pl, PacketLength(in, l, pl) + Overhead) ELSE 0
    IN  /\ in.layout # NoLayout /\ l \in in.keys
        /\ IF l = "initial" /\ HasLayout(in, pl)
           THEN ~LayoutFails(in) /\ ProbePacked(in, l, pl, PadInitialDatagram(AppendInitialPacket(Datagram(in), in, LaidOut(in, pl)), in))
           ELSE ProbePacked(in, l, pl, AppendPacket(Datagram(in), in, l, pl, padding, TRUE))

\* appendPacket, for AppendPacket and PackAckOnlyPacket.
PackAppData(in, onlyAck) ==
    LET pl == AppDataPayload(in, "oneRTT", in.max - HeaderLength(in, "oneRTT") - Overhead, onlyAck, TRUE)
        d == AppendPacket(Datagram(in), in, "oneRTT", pl, 0, TRUE)
    IN  /\ "oneRTT" \in in.keys /\ pl.len > 0
        /\ y' = [datagram |-> d, nonAckEliciting |-> NonAckEliciting(pl)]

\* PackMTUProbePacket, whose size is not checked, and PackPathProbePacket.
PackProbePacket(in, size, frame, mtu) ==
    LET pl == [len |-> frame, ack |-> FALSE, eliciting |-> TRUE]
        d == AppendPacket(Datagram([in EXCEPT !.max = size]), [in EXCEPT !.max = size], "oneRTT", pl, size - PacketLength(in, "oneRTT", pl) - Overhead, ~mtu)
    IN  /\ "oneRTT" \in in.keys
        /\ y' = [datagram |-> [d EXCEPT !.exact = size], nonAckEliciting |-> y.nonAckEliciting]

\* The calls of the connection; the datagram is sent before the next one.
LayoutNext ==
    \/ /\ y.datagram = NoDatagram
       /\ \E keys \in KeySets, client \in BOOLEAN, max \in MaxSizes, pnLen \in PnLens, layout \in Layouts \cup {NoLayout} :
          \E content \in [keys -> Contents], acks \in SUBSET (keys \ {"zeroRTT"}) :
              LET in == [keys |-> keys, client |-> client, content |-> content, acks |-> acks, max |-> max, pnLen |-> pnLen, layout |-> layout]
              IN  /\ layout # NoLayout \/ "zeroRTT" \in keys => client
                  /\ \/ \E onlyAck \in BOOLEAN : PackCoalescedPacket(in, onlyAck) \/ UPackCoalescedPacket(in, onlyAck) \/ PackAppData(in, onlyAck)
                     \/ \E l \in Levels \ {"zeroRTT"} : MaybePackPTOProbePacket(in, l) \/ UMaybePackPTOProbePacket(in, l)
                     \/ \E size \in ProbeSizes : PackProbePacket(in, size, 1, TRUE)
                     \/ PackProbePacket(in, MinInitialPacketSize, 9, FALSE)
    \/ y.datagram # NoDatagram /\ y' = [y EXCEPT !.datagram = NoDatagram]

(***************************************************************************)
(* Every datagram fits the room it was packed for, and the receiver, which *)
(* finds each packet behind the end that the header before it states, sees *)
(* the packets that were written: nothing follows a short header packet,   *)
(* and header protection has its sample.  A client's datagram with an      *)
(* Initial, and a server's with one that asks for an ACK, has at least     *)
(* MinInitialPacketSize bytes; probes have their exact size.  Only the     *)
(* first packet carries an ACK, a 0-RTT packet none, and of                *)
(* MaxNonAckElicitingAcks + 1 ACK-only packets one asks for an ACK.  The   *)
(* "PacketPacker BUG" of an oversized packet is never reported.            *)
(* (PackCoalescedPacket, MaybePackPTOProbePacket, padInitialDatagram)      *)
(***************************************************************************)
DatagramWellFormed ==
    LET d == y.datagram
        n == Len(d.packets)
    IN  /\ ~d.bug /\ d.size <= d.max /\ (d.exact > 0 => d.size = d.exact)
        /\ \A i \in 1..n : LET p == d.packets[i] IN
               /\ p.start = (IF i = 1 THEN 0 ELSE d.packets[i - 1].stated)
               /\ p.sample >= 4
               /\ p.ack => i = 1 /\ p.level # "zeroRTT"
               /\ p.level = "oneRTT" => i = n /\ p.end = d.size
               /\ p.level = "initial" /\ (d.client \/ p.eliciting) => d.size >= MinInitialPacketSize
        /\ y.nonAckEliciting <= MaxNonAckElicitingAcks
=============================================================================
