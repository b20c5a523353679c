-------------------------- MODULE ReceivedPackets --------------------------
(***************************************************************************)
(* The tracking of received application data packets and the generation   *)
(* of their ACK frames: receivedPacketHandler and                          *)
(* appDataReceivedPacketTracker (internal/ackhandler), with the ranges of  *)
(* receivedPacketHistory.                                                  *)
(*                                                                         *)
(* The peer numbers its packets in the order it sends them; the network    *)
(* loses, delays, reorders and duplicates them.  A packet of the peer may  *)
(* acknowledge an ACK frame that reached it, which lets the tracker forget *)
(* what that frame acknowledged (IgnoreBelow).                             *)
(***************************************************************************)
EXTENDS Integers, FiniteSets, Sequences, SequencesExt

CONSTANTS
    MaxPackets,        \* bound on the packets the peer sends
    MaxAcks,           \* bound on the ACK frames that are sent
    MaxNumAckRanges,   \* protocol.MaxNumAckRanges
    PacketsBeforeAck   \* packetsBeforeAck

VARIABLES
    sent,          \* the packets of the peer: eliciting, and the largest number it has
                   \* acknowledged of an ACK frame (-1: none); packet n is sent[n + 1]
    acks,          \* the ACK frames sent, as sets of packet numbers
    ranges,        \* receivedPacketHistory.ranges, ascending
    deletedBelow,  \* receivedPacketHistory.deletedBelow and ignoreBelow
    confirmed,     \* GetLowestPacketNotConfirmedAcked of the sent packet handler
    lastAck,       \* the last ACK frame; {} before the first
    hasNewAck, ackQueued, ackAlarm,
    sinceLastAck,  \* ack-eliciting packets received since the last ACK, up to PacketsBeforeAck
    processed,     \* history: how often each packet was processed (2: twice or more)
    pruned         \* history: the packets in ranges that were deleted to save memory

vars == <<sent, acks, ranges, deletedBelow, confirmed, lastAck, hasNewAck, ackQueued,
          ackAlarm, sinceLastAck, processed, pruned>>

Numbers == 0..(MaxPackets - 1)
Interval(a, b) == [from |-> a, to |-> b]
In(r, n) == r.from <= n /\ n <= r.to
Covered(rs) == {n \in Numbers : \E i \in DOMAIN rs : In(rs[i], n)}
Largest(S) == CHOOSE n \in S : \A m \in S : m <= n

-----------------------------------------------------------------------------
(* receivedPacketHistory *)

\* Mutant: a range extended at its beginning is not merged with the one before it.
AddWithoutMerge(rs, n) ==
    LET i == SelectLastInSeq(rs, LAMBDA r : n >= r.from - 1)
    IN  IF i = 0 THEN <<Interval(n, n)>> \o rs
        ELSE IF rs[i].from = n + 1 THEN [rs EXCEPT ![i].from = n]
        ELSE IF In(rs[i], n) THEN rs
        ELSE IF rs[i].to = n - 1 THEN [rs EXCEPT ![i].to = n]
        ELSE InsertAt(rs, i + 1, Interval(n, n))

\* addToRanges: the loop stops at the last range that n lies in, touches or follows.
AddToRanges(rs, n) ==
    LET i == SelectLastInSeq(rs, LAMBDA r : n >= r.from - 1)
    IN  IF i = 0 THEN <<Interval(n, n)>> \o rs
        ELSE IF In(rs[i], n) THEN rs
        ELSE IF rs[i].to = n - 1 THEN [rs EXCEPT ![i].to = n]
        ELSE IF rs[i].from = n + 1
             THEN IF i > 1 /\ rs[i - 1].to + 1 = n
                  THEN RemoveAt([rs EXCEPT ![i - 1].to = rs[i].to], i)
                  ELSE [rs EXCEPT ![i].from = n]
        ELSE InsertAt(rs, i + 1, Interval(n, n))

\* DeleteBelow, for p not below deletedBelow.
DeleteBelow(rs, p) ==
    LET kept == SelectSeq(rs, LAMBDA r : r.to >= p)
    IN  IF kept # << >> /\ kept[1].from < p THEN [kept EXCEPT ![1].from = p] ELSE kept

IsPotentiallyDuplicate(n) == n < deletedBelow \/ n \in Covered(ranges)

-----------------------------------------------------------------------------
(* appDataReceivedPacketTracker *)

IsMissing(n) == lastAck # {} /\ n >= deletedBelow /\ n < Largest(lastAck) /\ n \notin lastAck

\* hasNewMissingPackets: the highest range is one packet that leaves a gap.
HasNewMissingPackets(rs) ==
    LET r == Last(rs)
    IN  lastAck # {} /\ r.from > Largest(lastAck) + 1 /\ r.from = r.to

\* The alarm is set for a packet that does not queue an ACK.
NewAlarm(queue) == ~queue

\* shouldQueueACK; a CE mark also queues an ACK.
ShouldQueueACK(n, rs, ce) ==
    \/ lastAck = {}
    \/ IsMissing(n)
    \/ sinceLastAck + 1 >= PacketsBeforeAck
    \/ HasNewMissingPackets(rs)
    \/ ce

\* A 1-RTT packet arrives: its ACK frame is handled, then the tracker registers it, and
\* forgets what lies below the packets whose acknowledgement is confirmed.  A packet that
\* is potentially a duplicate is dropped before its frames are read.
ReceivedPacket(n, ce) ==
    /\ n < Len(sent) /\ ~IsPotentiallyDuplicate(n)
    /\ LET p     == sent[n + 1]
           low   == IF p.confirms + 1 > confirmed THEN p.confirms + 1 ELSE confirmed
           added == AddToRanges(ranges, n)
           over  == Len(added) - MaxNumAckRanges
           kept  == IF over > 0 THEN SubSeq(added, over + 1, Len(added)) ELSE added
           queue == ackQueued \/ ShouldQueueACK(n, kept, ce)
       IN  /\ confirmed' = low
           /\ ranges' = IF low > deletedBelow THEN DeleteBelow(kept, low) ELSE kept
           /\ deletedBelow' = IF low > deletedBelow THEN low ELSE deletedBelow
           /\ pruned' = pruned \cup (Covered(added) \ Covered(kept))
           /\ hasNewAck' = (hasNewAck \/ p.eliciting)
           /\ sinceLastAck' = IF p.eliciting /\ sinceLastAck < PacketsBeforeAck
                              THEN sinceLastAck + 1 ELSE sinceLastAck
           /\ ackQueued' = IF p.eliciting THEN queue ELSE ackQueued
           /\ ackAlarm' = IF p.eliciting THEN (IF ackQueued THEN ackAlarm ELSE NewAlarm(queue)) ELSE ackAlarm
    /\ processed' = [processed EXCEPT ![n] = IF @ < 2 THEN @ + 1 ELSE 2]
    /\ UNCHANGED <<sent, acks, lastAck>>

\* GetAckFrame, when a packet is packed.  With onlyIfQueued a frame is returned if an ACK
\* is queued or the alarm has expired.
GetAckFrame(onlyIfQueued) ==
    /\ Len(acks) < MaxAcks
    /\ onlyIfQueued => ackQueued \/ ackAlarm
    /\ hasNewAck
    /\ lastAck' = Covered(ranges)
    /\ acks' = Append(acks, Covered(ranges))
    /\ hasNewAck' = FALSE /\ ackQueued' = FALSE /\ ackAlarm' = FALSE /\ sinceLastAck' = 0
    /\ UNCHANGED <<sent, ranges, deletedBelow, confirmed, processed, pruned>>

\* The peer sends its next packet; it may have received any of the ACK frames by now.
PeerSends(eliciting, confirms) ==
    /\ Len(sent) < MaxPackets
    /\ confirms \in {-1} \cup {Largest(a) : a \in ToSet(acks)}
    /\ sent' = Append(sent, [eliciting |-> eliciting, confirms |-> confirms])
    /\ UNCHANGED <<acks, ranges, deletedBelow, confirmed, lastAck, hasNewAck, ackQueued,
                   ackAlarm, sinceLastAck, processed, pruned>>

Init ==
    /\ sent = << >> /\ acks = << >> /\ ranges = << >>
    /\ deletedBelow = 0 /\ confirmed = 0 /\ lastAck = {}
    /\ hasNewAck = FALSE /\ ackQueued = FALSE /\ ackAlarm = FALSE /\ sinceLastAck = 0
    /\ processed = [n \in Numbers |-> 0] /\ pruned = {}

Next ==
    \/ \E n \in Numbers, ce \in BOOLEAN : ReceivedPacket(n, ce)
    \/ \E q \in BOOLEAN : GetAckFrame(q)
    \/ \E e \in BOOLEAN, c \in {-1} \cup Numbers : PeerSends(e, c)

Spec == Init /\ [][Next]_vars

-----------------------------------------------------------------------------
(* Properties *)

Received == {n \in Numbers : processed[n] > 0}

\* The ranges are the maximal runs, in order, of exactly the packets that were processed,
\* and no packet is processed twice, but for those below deletedBelow and those in ranges
\* that were deleted because the peer left too many gaps (received_packet_history.go:30).
RangesExact ==
    /\ \A i \in 1..(Len(ranges) - 1) : ranges[i].to + 1 < ranges[i + 1].from
    /\ \A i \in DOMAIN ranges : ranges[i].from <= ranges[i].to
    /\ \A n \in Numbers \ pruned :
         /\ n >= deletedBelow => (n \in Covered(ranges) <=> n \in Received)
         /\ processed[n] <= 1

\* An ACK frame always has a range: an ACK frame without one cannot be written
\* (LargestAcked reads the first range).
AckNeverEmpty == hasNewAck => ranges # << >>

\* A processed ack-eliciting packet that no ACK frame has covered yet will be covered: an
\* ACK is queued or its alarm is set.
AckPending ==
    \A n \in Received \ pruned :
        /\ sent[n + 1].eliciting /\ n >= deletedBelow
        /\ \A a \in ToSet(acks) : n \notin a
        => hasNewAck /\ (ackQueued \/ ackAlarm)

=============================================================================
