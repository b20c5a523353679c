------------------------------- MODULE Pacing -------------------------------
(***************************************************************************)
(* internal/congestion/pacer.go, the token bucket that spaces packets, and *)
(* internal/utils/rtt_stats.go, whose smoothed RTT gives it its rate.  b   *)
(* is the pacer, the RTTStats, and the window and datagram size of the     *)
(* cubicSender.  There are Second units of time in a second.               *)
(***************************************************************************)
EXTENDS Integers

CONSTANTS
    InitialDatagramSize,    \* initialMaxDatagramSize, the constant of the package
    ConfigSize,             \* Config.InitialPacketSize
    DiscoveredSize,         \* what MTU discovery raises the size to
    MaxBurstPackets,        \* maxBurstSizePackets
    Second, MinPacingDelay, TimerGranularity,
    Windows, Samples, AckDelays, PacketSizes,
    MaxTime                 \* bound: time between packets

VARIABLE b

NoRTT == [has |-> FALSE, min |-> 0, latest |-> 0, smoothed |-> 0, deviation |-> 0, highest |-> 0]

\* newCubicSender and newPacer
NewPacer(t, cwnd) ==
    [t EXCEPT !.mds = InitialDatagramSize, !.senderSize = ConfigSize, !.sent = FALSE, !.since = 0,
              !.budget = MaxBurstPackets * InitialDatagramSize, !.cwnd = cwnd]

PacingInit ==
    \E cwnd \in Windows :
        b = NewPacer([rtt |-> NoRTT, mds |-> 0, senderSize |-> 0, sent |-> FALSE, since |-> 0, budget |-> 0, cwnd |-> 0], cwnd)

\* adjustedBandwidth of BandwidthEstimate; without an RTT it is infinite.
HasBandwidth == b.rtt.smoothed > 0
AdjustedBandwidth == (((b.cwnd * Second) \div b.rtt.smoothed) * 5) \div 4

MaxOf(x, y) == IF x > y THEN x ELSE y
MinOf(x, y) == IF x < y THEN x ELSE y

\* maxBurstSize
MaxBurstSize == MaxOf(((MinPacingDelay + TimerGranularity) * AdjustedBandwidth) \div Second, MaxBurstPackets * b.mds)

\* Budget, since units of time after the last packet.
Budget(since) ==
    IF ~b.sent THEN MaxBurstSize ELSE MinOf(MaxBurstSize, b.budget + (AdjustedBandwidth * since) \div Second)

HasPacingBudget(since) == Budget(since) >= b.senderSize

\* SentPacket.  With an infinite bandwidth the products wrap around, which
\* leaves any budget up to a burst.
SentPacket(size) ==
    \E budget \in IF HasBandwidth THEN {Budget(b.since)} ELSE 0..(MaxBurstPackets * b.mds) :
        b' = [b EXCEPT !.budget = IF size >= budget THEN 0 ELSE budget - size, !.sent = TRUE, !.since = 0]

\* TimeUntilSend: the delay after the last packet, 0 to send immediately.
TimeUntilSend ==
    IF b.budget >= b.mds THEN 0
    ELSE LET diff == Second * (b.mds - b.budget)
             d == diff \div AdjustedBandwidth
         IN  MaxOf(MinPacingDelay, IF diff % AdjustedBandwidth > 0 THEN d + 1 ELSE d)

\* SetMaxDatagramSize of the cubicSender and of its pacer.
SetMaxDatagramSize == b.senderSize < DiscoveredSize /\ b' = [b EXCEPT !.mds = DiscoveredSize, !.senderSize = DiscoveredSize]

\* UpdateRTT
UpdateRTT(sendDelta, ackDelay) ==
    LET r == b.rtt
        lowest == IF r.min = 0 \/ r.min > sendDelta THEN sendDelta ELSE r.min
        sample == IF sendDelta - lowest >= ackDelay THEN sendDelta - ackDelay ELSE sendDelta
        diff == IF r.smoothed > sample THEN r.smoothed - sample ELSE sample - r.smoothed
    IN  b' = [b EXCEPT !.rtt =
                [has |-> TRUE, min |-> lowest, latest |-> sample, highest |-> MaxOf(r.highest, sendDelta),
                 smoothed |-> IF r.has THEN (7 * r.smoothed + sample) \div 8 ELSE sample,
                 deviation |-> IF r.has THEN (3 * r.deviation + diff) \div 4 ELSE sample \div 2]]

\* SetInitialRTT, from the session ticket of a 0-RTT connection.
SetInitialRTT(rtt) == ~b.rtt.has /\ b' = [b EXCEPT !.rtt.smoothed = rtt, !.rtt.latest = rtt]

\* MigratedPath: ResetForPathMigration and a new sender.
Migrate(cwnd) == b' = [NewPacer(b, cwnd) EXCEPT !.rtt = NoRTT]

\* OnPacketAcked or OnCongestionEvent, see module Congestion.
ChangeWindow(cwnd) == b' = [b EXCEPT !.cwnd = cwnd]

Elapse == b.sent /\ b.since < MaxTime /\ b' = [b EXCEPT !.since = @ + 1]

PacingNext ==
    \/ \E size \in PacketSizes : SentPacket(size)
    \/ \E sendDelta \in Samples, ackDelay \in AckDelays : UpdateRTT(sendDelta, ackDelay)
    \/ \E rtt \in Samples : SetInitialRTT(rtt)
    \/ \E cwnd \in Windows : ChangeWindow(cwnd) \/ Migrate(cwnd)
    \/ SetMaxDatagramSize
    \/ Elapse

(***************************************************************************)
(* "It returns the zero value of time.Time if a packet can be sent         *)
(* immediately" (pacer.go): when the deadline of TimeUntilSend comes there *)
(* is budget for a datagram, and unless it is the minimum delay there is   *)
(* none a moment before.  A deadline too early makes the run loop spin,    *)
(* one too late wastes the window.                                         *)
(***************************************************************************)
DeadlineExact ==
    HasBandwidth /\ b.sent =>
        /\ HasPacingBudget(TimeUntilSend)
        /\ TimeUntilSend > MinPacingDelay => ~HasPacingBudget(TimeUntilSend - 1)

(***************************************************************************)
(* The smoothed and the latest RTT lie between the smallest and the        *)
(* largest time from a packet to its acknowledgment on this path, whatever *)
(* ack delays the peer reports.  (UpdateRTT, SetInitialRTT,                *)
(* ResetForPathMigration)                                                  *)
(***************************************************************************)
RTTBounded ==
    b.rtt.has => b.rtt.min <= b.rtt.latest /\ b.rtt.min <= b.rtt.smoothed /\ b.rtt.smoothed <= b.rtt.highest

\* The two facts above, on which the sending rate rests.
PacingExact == DeadlineExact /\ RTTBounded
=============================================================================
