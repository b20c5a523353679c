----------------------------- MODULE MCPackets -----------------------------
(***************************************************************************)
(* Four components of a connection that react to single packets and share  *)
(* no state, checked side by side: focus names the one that moves.         *)
(***************************************************************************)
EXTENDS KeyUpdate, ECN

CONSTANTS
    MaxPackets, MaxAcks, MaxNumAckRanges, PacketsBeforeAck,
    MaxNumbers, MaxReceived, MaxProbes, PacketThreshold, Amplification, MaxTracked, MaxOutstanding

VARIABLES
    focus,
    sent, acks, ranges, deletedBelow, confirmed, lastAck, hasNewAck, ackQueued,
    ackAlarm, sinceLastAck, processed, pruned,
    client, h, acked, lost, failed

R == INSTANCE ReceivedPackets
S == INSTANCE SentPackets

rvars == <<sent, acks, ranges, deletedBelow, confirmed, lastAck, hasNewAck, ackQueued,
           ackAlarm, sinceLastAck, processed, pruned>>
svars == <<client, h, acked, lost, failed>>
packetsVars == <<focus, rvars, ecnVars, keyVars, svars>>

PacketsInit ==
    /\ focus \in {"received", "ecn", "keys", "sent"}
    /\ R!Init /\ ECNInit /\ KeyInit
    /\ focus # "ecn" => path = "keeps"
    /\ IF focus = "sent" THEN S!Init
       ELSE client = TRUE /\ h = S!InitHandler(TRUE) /\ acked = {} /\ lost = {} /\ failed = "ok"

PacketsNext ==
    /\ UNCHANGED focus
    /\ \/ focus = "received" /\ R!Next /\ UNCHANGED <<ecnVars, keyVars, svars>>
       \/ focus = "ecn" /\ ECNNext /\ UNCHANGED <<rvars, keyVars, svars>>
       \/ focus = "keys" /\ KeyNext /\ UNCHANGED <<rvars, ecnVars, svars>>
       \/ focus = "sent" /\ S!Next /\ UNCHANGED <<rvars, ecnVars, keyVars>>

PacketsSpec == PacketsInit /\ [][PacketsNext]_packetsVars

\* The history of sent packets is what the counters say, and the frames of every packet
\* have one fate (SentPackets).
HistoryExact == focus = "sent" => S!HistoryExact /\ S!OneFate
\* The loss timer runs while something may be lost, and only asks for probes in a packet
\* number space that exists (SentPackets).
AlarmArmed == focus = "sent" => S!AlarmArmed /\ S!ProbeSpaceAlive
\* A timer that fires makes a probe due (SentPackets).
TimeoutActs == S!TimeoutActs
\* The recorded ranges are exactly the processed packets, an ACK frame has a range, and what
\* must be acknowledged has an ACK queued or its alarm set (ReceivedPackets).
AcksSound == focus = "received" => R!RangesExact /\ R!AckNeverEmpty /\ R!AckPending
=============================================================================
