--------------------------- MODULE CryptoPacking ---------------------------
(***************************************************************************)
(* The bytes of the TLS handshake on their way into Initial packets: the   *)
(* crypto stream (crypto_stream.go), the CRYPTO frames to retransmit       *)
(* (retransmission_queue.go) and the two packers.  The plain one takes     *)
(* frames in the order of the queue (packet_packer.go); the one with a     *)
(* QUICSpec lays out one contiguous run of the stream, of which the        *)
(* configured frame builder may use only a part (u_packet_packer.go).      *)
(*                                                                         *)
(* A frame is [off, len]; room is counted in bytes of data.  An error of   *)
(* a packer changes nothing here and closes the connection.                *)
(***************************************************************************)
EXTENDS Integers, Sequences, FiniteSets, SequencesExt

CONSTANTS
    MaxBytes,       \* bytes TLS writes
    MaxPayload,     \* bytes an Initial packet holds at most
    MaxRequeued,    \* bound on the packets lost or probed
    MaxPings        \* bound on the PINGs of probe packets

VARIABLE c

Crypto(t) == c' = t
HasRetransmission == c.queue # <<>> \/ c.pings > 0
HasData == c.off < c.written

FrameAt(o, n) == [off |-> o, len |-> n]
EndOf(x) == x.off + x.len
BytesOf(x) == x.off..(EndOf(x) - 1)
NonEmpty(q) == SelectSeq(q, LAMBDA x : x.len > 0)
Smaller(a, b) == IF a < b THEN a ELSE b
Larger(a, b) == IF a > b THEN a ELSE b
LengthBefore(q, k) == FoldSeq(LAMBDA x, n : x.len + n, 0, SubSeq(q, 1, k - 1))

\* The part of frame x before byte e, and the part from there on.
Head1(x, e) == FrameAt(x.off, Smaller(Larger(0, e - x.off), x.len))
Tail1(x, e) == FrameAt(x.off + Head1(x, e).len, x.len - Head1(x, e).len)

\* Repeated GetInitialFrame: whole frames, and the part of the next one that fits.
Fitting(q, room) ==
    LET n(k) == Smaller(q[k].len, Larger(0, room - LengthBefore(q, k)))
    IN  [taken |-> NonEmpty([k \in 1..Len(q) |-> FrameAt(q[k].off, n(k))]),
         rest  |-> NonEmpty([k \in 1..Len(q) |-> FrameAt(q[k].off + n(k), q[k].len - n(k))]),
         room  |-> Larger(0, room - LengthBefore(q, Len(q) + 1))]

Sent(t, frames, ping) ==
    [t EXCEPT !.out = IF frames = <<>> /\ ~ping THEN @ ELSE @ \cup {[frames |-> frames, ping |-> ping]},
              !.pings = IF ping THEN @ - 1 ELSE @]

-----------------------------------------------------------------------------
\* cryptoStream.Write
WriteCrypto(n) ==
    /\ ~c.dropped /\ c.written + n <= MaxBytes
    /\ Crypto([c EXCEPT !.written = @ + n])

\* maybeGetCryptoPacket: retransmissions, or else new data
MaybeGetCryptoPacket(room) ==
    /\ ~c.spec /\ ~c.dropped /\ (HasRetransmission \/ HasData)
    /\ LET fit == Fitting(c.queue, room)
           n   == Smaller(room, c.written - c.off)
       IN  Crypto(IF HasRetransmission
                  THEN Sent([c EXCEPT !.queue = fit.rest], fit.taken, c.pings > 0 /\ fit.room > 0)
                  ELSE Sent([c EXCEPT !.off = @ + n], NonEmpty(<<FrameAt(c.off, n)>>), FALSE))

\* The lost frames in the order of their offsets, up to the first gap; the others wait.
RunLength(q) ==
    CHOOSE n \in 0..Len(q) :
        /\ \A k \in 1..(n - 1) : q[k + 1].off = EndOf(q[k])
        /\ n < Len(q) => n > 0 /\ q[n + 1].off # EndOf(q[n])
        /\ n = 0 => q = <<>>

\* marshalInitialPacketPayload: a frame builder may use any first part of the run, and nothing
\* of it only if an ACK or a PING is sent anyway.
BuilderUses(taken, preserved) == {n \in 0..LengthBefore(taken, Len(taken) + 1) : n = 0 => preserved}

\* Mutant: what the frame builder left over is put back only if it was new data.
ForgetUnsent(room, used, ack) ==
    /\ c.spec /\ ~c.dropped /\ (HasRetransmission \/ HasData)
    /\ LET q    == SortSeq(c.queue, LAMBDA x, y : x.off < y.off)
           n    == RunLength(q)
           fit  == IF HasRetransmission THEN Fitting(SubSeq(q, 1, n), room)
                   ELSE [taken |-> NonEmpty(<<FrameAt(c.off, Smaller(room, c.written - c.off))>>), rest |-> <<>>, room |-> 0]
           ping == c.pings > 0 /\ fit.room > 0
           base == IF fit.taken = <<>> THEN 0 ELSE fit.taken[1].off
           sent == NonEmpty([k \in 1..Len(fit.taken) |-> Head1(fit.taken[k], base + used)])
       IN  /\ used \in BuilderUses(fit.taken, ping \/ ack)
           /\ Crypto(IF HasRetransmission
                     THEN Sent([c EXCEPT !.queue = fit.rest \o SubSeq(q, n + 1, Len(q))], sent, ping)
                     ELSE Sent([c EXCEPT !.off = @ + used], sent, ping))

\* prepareInitialPacket: a copy of the queues is packed, the frame builder uses the first
\* "used" bytes; then the queues are updated: what was not used goes to the front, the frames
\* after a gap to the end.
PrepareInitialPacket(room, used, ack) ==
    /\ c.spec /\ ~c.dropped /\ (HasRetransmission \/ HasData)
    /\ LET q      == SortSeq(c.queue, LAMBDA x, y : x.off < y.off)
           n      == RunLength(q)
           fit    == IF HasRetransmission THEN Fitting(SubSeq(q, 1, n), room)
                     ELSE [taken |-> NonEmpty(<<FrameAt(c.off, Smaller(room, c.written - c.off))>>), rest |-> <<>>, room |-> 0]
           ping   == c.pings > 0 /\ fit.room > 0
           base   == IF fit.taken = <<>> THEN 0 ELSE fit.taken[1].off
           sent   == NonEmpty([k \in 1..Len(fit.taken) |-> Head1(fit.taken[k], base + used)])
           unsent == NonEmpty([k \in 1..Len(fit.taken) |-> Tail1(fit.taken[k], base + used)])
       IN  /\ used \in BuilderUses(fit.taken, ping \/ ack)
           /\ Crypto(IF HasRetransmission
                     THEN Sent([c EXCEPT !.queue = unsent \o fit.rest \o SubSeq(q, n + 1, Len(q))], sent, ping)
                     ELSE Sent([c EXCEPT !.off = @ + used], sent, ping))

-----------------------------------------------------------------------------
InitialAcked(p) ==
    /\ p \in c.out
    /\ Crypto([c EXCEPT !.out = @ \ {p}, !.acked = @ \cup UNION {BytesOf(p.frames[k]) : k \in 1..Len(p.frames)}])

\* A packet is lost, or a probe packet is needed: its frames are queued again.
InitialRequeued(p) ==
    /\ p \in c.out /\ c.requeued < MaxRequeued
    /\ Crypto([c EXCEPT !.out = @ \ {p}, !.requeued = @ + 1, !.queue = @ \o p.frames,
                        !.pings = IF p.ping THEN @ + 1 ELSE @])

\* A probe packet is needed and nothing is outstanding.
AddPing ==
    /\ ~c.dropped /\ c.out = {} /\ c.pings < MaxPings /\ c.requeued < MaxRequeued
    /\ Crypto([c EXCEPT !.pings = @ + 1, !.requeued = @ + 1])

\* The keys are dropped: DropPackets forgets the queued frames, and nothing is tracked.
DropInitial ==
    /\ ~c.dropped
    /\ Crypto([c EXCEPT !.dropped = TRUE, !.queue = <<>>, !.pings = 0, !.out = {}, !.acked = {}, !.off = 0, !.written = 0])

CryptoInit ==
    \E spec \in BOOLEAN :
        c = [spec |-> spec, written |-> 0, off |-> 0, queue |-> <<>>, pings |-> 0, out |-> {}, acked |-> {},
             requeued |-> 0, dropped |-> FALSE]

CryptoNext ==
    \/ \E n \in 1..MaxBytes : WriteCrypto(n)
    \/ \E r \in 1..MaxPayload : MaybeGetCryptoPacket(r)
    \/ \E r \in 1..MaxPayload, used \in 0..MaxPayload, ack \in BOOLEAN : PrepareInitialPacket(r, used, ack)
    \/ (\E p \in c.out : InitialAcked(p) \/ InitialRequeued(p)) \/ AddPing \/ DropInitial

-----------------------------------------------------------------------------
\* Every byte TLS wrote is either still in the stream or in exactly one place of three: a
\* CRYPTO frame of the queue, of one packet in flight, or acknowledged; and a packet laid out
\* by a QUICSpec carries one contiguous run of the stream (u_packet_packer.go,
\* prepareInitialPacket; retransmission_queue.go).
CryptoConserved ==
    /\ \A b \in 0..(c.off - 1) :
        Cardinality({k \in 1..Len(c.queue) : b \in BytesOf(c.queue[k])})
          + Cardinality({<<p, k>> \in c.out \X (1..(2 * MaxBytes)) : k \in 1..Len(p.frames) /\ b \in BytesOf(p.frames[k])})
          + (IF b \in c.acked THEN 1 ELSE 0) = 1
    /\ c.spec => \A p \in c.out : \A k \in 1..(Len(p.frames) - 1) : p.frames[k + 1].off = EndOf(p.frames[k])
=============================================================================
