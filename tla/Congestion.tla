----------------------------- MODULE Congestion -----------------------------
(***************************************************************************)
(* internal/congestion/cubic_sender.go with reno set, as the sent packet   *)
(* handler creates it, and hybrid_slow_start.go.  c is the cubicSender     *)
(* with the packets in flight of every packet number space; one sender     *)
(* serves all of them.  Times are in milliseconds.                         *)
(***************************************************************************)
EXTENDS Integers, FiniteSets, SequencesExt

CONSTANTS
    Spaces, AppData,        \* packet number spaces in use, the one with ECN feedback
    DatagramSizes,          \* sequence: the initial maximum datagram size and what discovery raises it to
    InitialWindow, MinWindow, MaxWindow,    \* initialCongestionWindow, minCongestionWindowPackets, MaxCongestionWindowPackets
    MaxBurst,               \* maxBurstPackets
    LowWindow, MinSamples,  \* hybridStartLowWindow, hybridStartMinSamples
    RTTs,                   \* RTT samples
    MaxPackets              \* bound: packets per space

VARIABLE c

Invalid == -1               \* protocol.InvalidPacketNumber
NoSample == 0               \* the largest acknowledged packet is not new
Infinite == 10^6            \* protocol.MaxByteCount

CongestionInit ==
    c = [cwnd |-> InitialWindow * DatagramSizes[1], ssthresh |-> Infinite, mds |-> 1, numAcked |-> 0,
         largestSent |-> Invalid, largestAcked |-> Invalid, cutback |-> Invalid,
         end |-> 0, lastSent |-> 0, started |-> FALSE, currentMin |-> 0, samples |-> 0, found |-> FALSE, minRTT |-> 0,
         out |-> {}, next |-> [sp \in Spaces |-> 0],
         \* history: the packets sent before the last reduction, whether one sent later was
         \* acknowledged, the window it left, reductions for a packet sent before, slow start left
         before |-> [sp \in Spaces |-> 0], ackedSince |-> TRUE, left |-> Infinite, again |-> FALSE, exited |-> FALSE]

MaxDatagramSize(t) == DatagramSizes[t.mds]
MinCongestionWindow(t) == MinWindow * MaxDatagramSize(t)
MaxCongestionWindow(t) == MaxWindow * MaxDatagramSize(t)
InSlowStart(t) == t.cwnd < t.ssthresh
InRecovery(t) == t.largestAcked # Invalid /\ t.largestAcked <= t.cutback
BytesInFlight(t) == MapThenSumSet(LAMBDA pkt : pkt.size, t.out)
CanSend(t) == BytesInFlight(t) < t.cwnd

\* OnPacketSent; the pacer's part is in module Pacing.
OnPacketSent(sp) ==
    /\ CanSend(c) /\ c.next[sp] < MaxPackets
    /\ c' = [c EXCEPT !.largestSent = c.next[sp], !.lastSent = c.next[sp], !.next[sp] = @ + 1,
                      !.out = @ \cup {[sp |-> sp, pn |-> c.next[sp], size |-> MaxDatagramSize(c)]}]

\* StartReceiveRound and ShouldExitSlowStart, with the new sample.
Sampled(t, rtt) ==
    LET r == IF t.started THEN t ELSE [t EXCEPT !.end = t.lastSent, !.currentMin = 0, !.samples = 0, !.started = TRUE]
        n == r.samples + 1
        low == IF n <= MinSamples /\ (r.currentMin = 0 \/ r.currentMin > rtt) THEN rtt ELSE r.currentMin
        eighth == r.minRTT \div 8
        threshold == IF eighth > 16 THEN 16 ELSE IF eighth < 4 THEN 4 ELSE eighth
    IN  IF r.found THEN r
        ELSE [r EXCEPT !.samples = n, !.currentMin = low, !.found = n = MinSamples /\ low > r.minRTT + threshold]

\* MaybeExitSlowStart, after UpdateRTT.
MaybeExitSlowStart(t, rtt) ==
    LET u == [t EXCEPT !.minRTT = IF @ = 0 \/ rtt < @ THEN rtt ELSE @]
        s == Sampled(u, rtt)
        exit == u.found \/ (s.found /\ u.cwnd \div MaxDatagramSize(u) >= LowWindow)
    IN  IF ~InSlowStart(u) THEN u ELSE IF exit THEN [s EXCEPT !.ssthresh = s.cwnd, !.exited = TRUE] ELSE s

\* Mutant: the cutback remembers the lost packet instead of the last one sent.
CutAtLost(t, sp, pn) ==
    IF pn <= t.cutback THEN t
    ELSE LET reduced == (t.cwnd * 7) \div 10
             cwnd == IF reduced < MinCongestionWindow(t) THEN MinCongestionWindow(t) ELSE reduced
         IN  [t EXCEPT !.cwnd = cwnd, !.ssthresh = cwnd, !.cutback = pn, !.numAcked = 0,
                       !.before = t.next, !.ackedSince = FALSE, !.left = cwnd, !.again = @ \/ pn < t.before[sp], !.exited = TRUE]

\* OnCongestionEvent
OnCongestionEvent(t, sp, pn) ==
    IF pn <= t.cutback THEN t
    ELSE LET reduced == (t.cwnd * 7) \div 10
             cwnd == IF reduced < MinCongestionWindow(t) THEN MinCongestionWindow(t) ELSE reduced
         IN  [t EXCEPT !.cwnd = cwnd, !.ssthresh = cwnd, !.cutback = t.largestSent, !.numAcked = 0,
                       !.before = t.next, !.ackedSince = FALSE, !.left = cwnd, !.again = @ \/ pn < t.before[sp], !.exited = TRUE]

\* isCwndLimited
IsCwndLimited(t, inFlight) ==
    \/ inFlight >= t.cwnd
    \/ InSlowStart(t) /\ inFlight > t.cwnd \div 2
    \/ t.cwnd - inFlight <= MaxBurst * MaxDatagramSize(t)

\* maybeIncreaseCwnd
MaybeIncreaseCwnd(t, inFlight) ==
    IF ~IsCwndLimited(t, inFlight) \/ t.cwnd >= MaxCongestionWindow(t) THEN t
    ELSE IF InSlowStart(t) THEN [t EXCEPT !.cwnd = @ + MaxDatagramSize(t)]
    ELSE IF t.numAcked + 1 >= t.cwnd \div MaxDatagramSize(t) THEN [t EXCEPT !.cwnd = @ + MaxDatagramSize(t), !.numAcked = 0]
    ELSE [t EXCEPT !.numAcked = @ + 1]

\* OnPacketAcked
OnPacketAcked(t, pkt, inFlight) ==
    LET u == [t EXCEPT !.largestAcked = IF pkt.pn > @ THEN pkt.pn ELSE @, !.ackedSince = @ \/ pkt.pn >= t.before[pkt.sp]]
        v == MaybeIncreaseCwnd(u, inFlight)
    IN  IF InRecovery(u) THEN u
        ELSE IF InSlowStart(v) /\ v.end < pkt.pn THEN [v EXCEPT !.started = FALSE] ELSE v

ByNumber(pkts) == SetToSortSeq(pkts, LAMBDA x, y : x.pn < y.pn)

\* ReceivedAck of the sent packet handler: the RTT sample if the largest
\* acknowledged packet is new, the ECN reaction, the losses, then the packets.
ReceivedAck(sp, acked, lost, rtt, congested) ==
    LET last == Max({pkt.pn : pkt \in acked})
        inFlight == BytesInFlight(c)
        t == IF rtt # NoSample THEN MaybeExitSlowStart(c, rtt) ELSE c
        u == IF congested THEN OnCongestionEvent(t, sp, last) ELSE t
        v == FoldLeft(LAMBDA w, pkt : OnCongestionEvent(w, sp, pkt.pn), u, ByNumber(lost))
    IN  /\ \A pkt \in lost : pkt.pn < last
        /\ congested => sp = AppData /\ last > c.largestAcked
        /\ c' = [FoldLeft(LAMBDA w, pkt : OnPacketAcked(w, pkt, inFlight), v, ByNumber(acked)) EXCEPT !.out = @ \ (acked \cup lost)]

\* detectLostPackets, when the loss timer expires.
LossTimer(sp, lost) ==
    c' = [FoldLeft(LAMBDA w, pkt : OnCongestionEvent(w, sp, pkt.pn), c, ByNumber(lost)) EXCEPT !.out = @ \ lost]

\* SetMaxDatagramSize, when a larger MTU was discovered.
SetMaxDatagramSize ==
    /\ c.mds < Len(DatagramSizes)
    /\ LET t == [c EXCEPT !.mds = @ + 1]
       IN  c' = IF c.cwnd = MinCongestionWindow(c) THEN [t EXCEPT !.cwnd = MinCongestionWindow(t)] ELSE t

CongestionNext ==
    \/ \E sp \in Spaces : OnPacketSent(sp)
    \/ \E sp \in Spaces : LET mine == {pkt \in c.out : pkt.sp = sp} IN
           \/ \E acked \in SUBSET mine \ {{}}, rtt \in RTTs \cup {NoSample}, congested \in BOOLEAN :
                  \E lost \in SUBSET (mine \ acked) : ReceivedAck(sp, acked, lost, rtt, congested)
           \/ \E lost \in SUBSET mine \ {{}} : LossTimer(sp, lost)
    \/ SetMaxDatagramSize

(***************************************************************************)
(* The packets in flight when the window is reduced cause no further       *)
(* reduction, and the window grows again only after a packet sent later is *)
(* acknowledged.  Slow start, once left, is not entered again.  The window *)
(* stays at or above two datagrams and below one datagram more than the    *)
(* maximum.  (OnCongestionEvent, OnPacketAcked, MaybeExitSlowStart)        *)
(***************************************************************************)
OneReductionPerFlight ==
    /\ ~c.again
    /\ ~c.ackedSince => c.cwnd <= c.left \/ c.cwnd = MinCongestionWindow(c)
    /\ c.exited => ~InSlowStart(c)
    /\ c.cwnd >= MinWindow * DatagramSizes[1]
    /\ c.cwnd < MaxCongestionWindow(c) + MaxDatagramSize(c)
=============================================================================
