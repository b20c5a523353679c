------------------------------ MODULE Framing ------------------------------
(***************************************************************************)
(* How frames get into application data packets: the framer (framer.go),   *)
(* the queue of frames to retransmit (retransmission_queue.go) and the     *)
(* composition of a packet (packet_packer.go, composeNextPacket), with the *)
(* goroutines that write to streams, cancel them and queue control frames, *)
(* with packets acknowledged, lost, and dropped when 0-RTT is rejected.    *)
(*                                                                         *)
(* Sizes are counted in frames: a packet has room for a few frames.  Of a  *)
(* stream only the pieces of data waiting are counted; what becomes of a   *)
(* sent STREAM frame is the matter of module SendStream.                   *)
(***************************************************************************)
EXTENDS Naturals, Sequences, FiniteSets, SequencesExt

CONSTANTS
    Streams,
    Control,        \* control frames that survive a rejection of 0-RTT: NEW_CONNECTION_ID and others
    MaxRoom,        \* the most frames a packet holds
    MaxWrites,      \* bound on the pieces of data written to each stream
    MaxBlocked,     \* bound on the number of times sending becomes blocked
    MaxCancels,     \* bound on the calls of CancelWrite
    MaxLost,        \* bound on the packets declared lost
    MaxPathResponses

VARIABLE f

\* A frame is a pair of its kind and what it is about.
ControlFrames == {"control"} \X Control
IsFlow(c) == c[1] = "blocked"
DataBlocked == <<"blocked", "connection">>
IsReset(c) == c[1] = "reset"

\* A stream is known by its ID; the one that was opened again after a rejection is another.
Instance(s) == <<"reset", s, f.rejected>>
Registered(s) == \E c \in f.streams : c[2] = s
NoStream == [stream |-> "none", more |-> FALSE]

Framer(t) == f' = t
Least(a, b) == IF a < b THEN a ELSE b
ElementsOf(q) == {q[k] : k \in 1..Len(q)}

\* The mutexes are held while a packet is composed.
Unlocked == f.pc = "idle"

-----------------------------------------------------------------------------
(* The callers *)

\* Write under the stream's mutex, ...
WriteStream(s) ==
    /\ f.writer[s] = "idle" /\ f.written[s] < MaxWrites[s] /\ s \notin f.cancelled
    /\ Framer([f EXCEPT !.writer[s] = "announce", !.written[s] = @ + 1, !.data[s] = @ + 1])

\* ... then AddActiveStream.
AddActiveStream(s) ==
    /\ f.writer[s] = "announce" /\ Unlocked
    /\ Framer([f EXCEPT !.writer[s] = "idle", !.active = @ \cup {s},
                        !.queue = IF s \in f.active THEN @ ELSE Append(@, s)])

\* CancelWrite queues a RESET_STREAM in the stream and then announces the stream.
CancelWrite(s) ==
    /\ f.writer[s] = "idle" /\ s \notin f.cancelled /\ f.written[s] > 0 /\ f.cancels < MaxCancels
    /\ Framer([f EXCEPT !.writer[s] = "reset", !.cancels = @ + 1, !.cancelled = @ \cup {s}, !.reset = @ \cup {Instance(s)}, !.data[s] = 0])
AddStreamWithControlFrames(s) ==
    /\ f.writer[s] = "reset" /\ Unlocked
    /\ Framer([f EXCEPT !.writer[s] = "idle", !.streams = IF Registered(s) THEN @ ELSE @ \cup {Instance(s)}])

\* A stream that is done is removed, but not from the queue.
RemoveActiveStream(s) ==
    /\ Unlocked /\ s \in f.active /\ f.data[s] = 0 /\ f.writer[s] = "idle"
    /\ Framer([f EXCEPT !.active = @ \ {s}, !.written[s] = MaxWrites[s]])

QueueControlFrame(c) ==
    /\ Unlocked /\ c \notin f.queued
    /\ Framer([f EXCEPT !.queued = @ \cup {c}, !.control = Append(@, c)])
QueuePathResponse ==
    /\ Unlocked /\ f.paths < MaxPathResponses
    /\ Framer([f EXCEPT !.paths = @ + 1])

-----------------------------------------------------------------------------
(* Composing a packet *)

HasData == f.queue # <<>> \/ f.streams # {} \/ f.control # <<>> \/ f.paths > 0

\* The packet is done, and in flight if one of its frames has to be tracked.
Pack(t, frames) ==
    [t EXCEPT !.pc = "idle", !.packet = {}, !.room = 0, !.tries = 0, !.full = FALSE,
              !.out = IF frames = {} THEN @ ELSE @ \cup {frames}]

\* Mutant: control frames are taken from the end of the queue, but dropped from its front.
LastTaken(q, n) == [taken |-> {q[k] : k \in (Len(q) - n + 1)..Len(q)}, rest |-> SubSeq(q, n + 1, Len(q))]

\* appendControlFrames takes control frames from the end of the queue.
TakeControl(q, n) == [taken |-> {q[k] : k \in (Len(q) - n + 1)..Len(q)}, rest |-> SubSeq(q, 1, Len(q) - n)]

\* composeNextPacket: retransmissions come first (an ACK or a DATAGRAM before them only leaves
\* less room); then framer.Append starts with one PATH_RESPONSE, the control frames of streams
\* (in map order) and the other control frames.
ComposeNextPacket(room) ==
    /\ Unlocked
    /\ LET hasR == f.retransmit # <<>>
           nR   == Least(room, Len(f.retransmit))
           r2   == room - nR
           path == IF f.paths > 0 /\ r2 > 0 THEN 1 ELSE 0
           r3   == r2 - path
           sent == ElementsOf(SubSeq(f.retransmit, 1, nR))
       IN  /\ hasR \/ HasData
           /\ \/ /\ ~HasData
                 /\ Framer(Pack([f EXCEPT !.retransmit = SubSeq(@, nR + 1, Len(@))], sent))
              \/ /\ HasData
                 /\ \E S \in SUBSET f.streams :
                     LET resets == S \cap f.reset
                         r4 == r3 - Cardinality(resets)
                         c  == TakeControl(f.control, Least(r4, Len(f.control)))
                     IN  /\ r4 >= 0 /\ (S = f.streams \/ r4 = 0)
                         /\ Framer([f EXCEPT !.pc = "streams",
                                  !.retransmit = SubSeq(@, nR + 1, Len(@)), !.paths = @ - path,
                                  !.streams = @ \ S, !.reset = @ \ S, !.control = c.rest,
                                  !.packet = sent \cup c.taken \cup resets,
                                  !.room = r4 - Cardinality(c.taken), !.tries = Len(f.queue)])

\* getNextStreamFrame: pop a stream and its next piece of data, if it is still active; it may
\* become blocked, which is reported in this packet or the next.
PopStreamFrame(blocked) ==
    /\ f.pc = "streams" /\ f.tries > 0 /\ f.room > 0
    /\ LET s == Head(f.queue)
           b == <<"blocked", s>>
           d == s \in f.active /\ f.data[s] > 0
           r == f.room - (IF d THEN 1 ELSE 0)
           t == [f EXCEPT !.queue = Tail(@), !.room = r, !.tries = @ - 1, !.full = @ \/ d,
                          !.data[s] = IF d THEN @ - 1 ELSE @]
           u == [t EXCEPT !.pc = "settle", !.blocked = @ + (IF blocked THEN 1 ELSE 0), !.popped = [stream |-> s, more |-> f.data[s] > 1]]
       IN  IF s \notin f.active THEN ~blocked /\ Framer(t)
           ELSE IF ~blocked THEN Framer(u)
           ELSE /\ b \notin f.queued /\ f.blocked < MaxBlocked
                /\ Framer(IF r > 0 THEN [u EXCEPT !.packet = @ \cup {b}, !.room = r - 1, !.queued = @ \cup {b}]
                          ELSE [u EXCEPT !.control = Append(@, b), !.tries = 0, !.queued = @ \cup {b}])
\* A stream with more data goes to the end of the queue, any other is no longer active.
SettleStream ==
    /\ f.pc = "settle"
    /\ LET s == f.popped.stream
       IN  Framer([f EXCEPT !.pc = "streams", !.popped = NoStream,
                            !.queue = IF f.popped.more THEN Append(@, s) ELSE @,
                            !.active = IF f.popped.more THEN @ ELSE @ \ {s}])
FinishPacket(blocked) ==
    /\ f.pc = "streams" /\ (f.tries = 0 \/ f.room = 0)
    /\ blocked => DataBlocked \notin f.queued /\ f.full /\ f.blocked < MaxBlocked
    /\ LET b == IF blocked THEN {DataBlocked} ELSE {}
           t == [f EXCEPT !.queued = @ \cup b, !.blocked = @ + Cardinality(b), !.control = IF blocked /\ f.room = 0 THEN Append(@, DataBlocked) ELSE @]
       IN  Framer(Pack(t, f.packet \cup (IF f.room > 0 THEN b ELSE {})))

-----------------------------------------------------------------------------
(* What becomes of a packet *)

\* OnAcked
PacketAcked(p) ==
    /\ p \in f.out
    /\ Framer([f EXCEPT !.out = @ \ {p}, !.delivered = @ \cup {c \in p : ~IsReset(c)}])

\* OnLost: a control frame goes to the retransmission queue, a RESET_STREAM back to its
\* stream, which is announced again.
PacketLost(p) ==
    /\ p \in f.out /\ Unlocked /\ f.lost < MaxLost
    /\ LET resets == {c \in p : IsReset(c)}
       IN  Framer([f EXCEPT !.out = @ \ {p}, !.lost = @ + 1, !.reset = @ \cup resets,
                            !.streams = @ \cup {c \in resets : ~Registered(c[2])},
                            !.retransmit = @ \o SetToSeq(p \ resets)])

\* 0-RTT is rejected: DropPackets, ResetFor0RTT and Handle0RTTRejection.  The streams start
\* again; the framer forgets which were active and the flow control frames, and keeps the
\* streams with control frames.
Rejected0RTT ==
    /\ ~f.rejected /\ Unlocked /\ \A s \in Streams : f.writer[s] = "idle"
    /\ LET kept(q) == SelectSeq(q, LAMBDA c : ~IsFlow(c))
           gone == UNION f.out \cup {c \in ElementsOf(f.control) : IsFlow(c)}
       IN  Framer([f EXCEPT !.out = {}, !.control = kept(@), !.queue = <<>>, !.active = {},
                            !.data = [s \in Streams |-> 0],
                            !.cancelled = {}, !.rejected = TRUE, !.old = {c[2] : c \in f.reset}, !.dropped = gone])

-----------------------------------------------------------------------------
FramingInit ==
    f = [pc |-> "idle", active |-> {}, queue |-> <<>>, streams |-> {}, control |-> <<>>,
         paths |-> 0, retransmit |-> <<>>, data |-> [s \in Streams |-> 0], written |-> [s \in Streams |-> 0],
         writer |-> [s \in Streams |-> "idle"], cancelled |-> {}, reset |-> {},
         packet |-> {}, room |-> 0, tries |-> 0, full |-> FALSE, popped |-> NoStream,
         queued |-> {}, out |-> {}, delivered |-> {}, dropped |-> {}, old |-> {}, rejected |-> FALSE, blocked |-> 0, cancels |-> 0, lost |-> 0]

FramingNext ==
    \/ \E s \in Streams : \/ WriteStream(s) \/ AddActiveStream(s) \/ CancelWrite(s)
                          \/ AddStreamWithControlFrames(s) \/ RemoveActiveStream(s)
    \/ (\E c \in ControlFrames : QueueControlFrame(c)) \/ QueuePathResponse
    \/ \E r \in 1..MaxRoom : ComposeNextPacket(r)
    \/ (\E b \in BOOLEAN : PopStreamFrame(b) \/ FinishPacket(b)) \/ SettleStream
    \/ (\E p \in f.out : PacketAcked(p) \/ PacketLost(p)) \/ Rejected0RTT

-----------------------------------------------------------------------------
(* Properties *)

\* A control frame that was queued is in exactly one place until it is acknowledged: the
\* framer, the retransmission queue, the packet being composed or one packet in flight;
\* only the rejection of 0-RTT drops any (framer.go, packet_packer.go).
FramesConserved ==
    \A c \in f.queued \ (f.delivered \cup f.dropped) :
        Cardinality({k \in 1..Len(f.control) : f.control[k] = c})
          + Cardinality({k \in 1..Len(f.retransmit) : f.retransmit[k] = c})
          + (IF c \in f.packet THEN 1 ELSE 0) + Cardinality({p \in f.out : c \in p}) = 1

\* A stream with data that was announced is active and waits in the queue once, however its
\* writer and the composition of packets interleave; and a stream with a RESET_STREAM to
\* send is known to the framer (framer.go, AddActiveStream and getNextStreamFrame).
StreamScheduled ==
    f.pc = "idle" => \A s \in Streams : f.writer[s] = "idle" =>
        /\ f.data[s] > 0 => s \in f.active /\ Cardinality({k \in 1..Len(f.queue) : f.queue[k] = s}) = 1
        /\ (\E c \in f.reset : c[2] = s) /\ s \notin f.old => Registered(s)

\* send_stream.go:518: the peer is not informed about a stream that is closed because 0-RTT
\* was rejected.
NoStaleReset == f.rejected => \A p \in f.out, s \in Streams : <<"reset", s, FALSE>> \notin p
=============================================================================
