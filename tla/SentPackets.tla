---------------------------- MODULE SentPackets ----------------------------
(***************************************************************************)
(* The bookkeeping of sent packets: sentPacketHandler                      *)
(* (internal/ackhandler/sent_packet_handler.go) with its                   *)
(* sentPacketHistory (sent_packet_history.go).  It decides which packets   *)
(* are acknowledged or lost, how many bytes are in flight, when the loss   *)
(* detection timer runs and when PTO probes are due.                       *)
(*                                                                         *)
(* Time is abstracted to what the code compares: send times grow with the  *)
(* packet number, so "sent before lostSendTime" is a cut in the packet     *)
(* numbers; which of two deadlines comes first is a choice.  Every packet  *)
(* has size 1 and carries one frame, whose OnAcked and OnLost callbacks    *)
(* are recorded in the history variables acked and lost.                   *)
(***************************************************************************)
EXTENDS Integers, FiniteSets, Sequences, SequencesExt

CONSTANTS
    MaxNumbers,        \* bound on the packet numbers used in all spaces together
    MaxReceived,       \* bound on the datagrams counted before address validation
    MaxProbes,         \* bound on numProbesToSend, and on the path probes in flight
    PacketThreshold,   \* packetThreshold, the reordering threshold (3)
    Amplification,     \* amplificationFactor (3)
    MaxTracked,        \* protocol.MaxTrackedSentPackets
    MaxOutstanding     \* protocol.MaxOutstandingSentPackets

Spaces == {"initial", "handshake", "appData"}
Crypto == {"initial", "handshake"}

\* The kinds of history entries that count as outstanding (packet.outstanding).
Outstanding == {"data", "early"}
\* Entries that carry frames: "early" is a 0-RTT packet, "mtu" a path MTU probe.
Regular == Outstanding \cup {"mtu"}
\* "skipped" marks a skipped packet number, "probe" the place of a path probe.
AnyKind == Regular \cup {"skipped", "probe"}
Nil == [pn |-> -1, kind |-> "nil"]
NoAlarm == [type |-> "none", space |-> "none"]

VARIABLES
    client,     \* the perspective
    h,          \* the sentPacketHandler
    acked,      \* the packets whose frames were acknowledged
    lost,       \* the packets whose frames were declared lost
    failed      \* "ok", or why ReceivedAck returned an error

vars == <<client, h, acked, lost, failed>>

-----------------------------------------------------------------------------
(* sentPacketHistory *)

\* cleanupStart: the entries without the nil ones at the beginning.
CleanupStart(s) ==
    LET i == SelectInSeq(s, LAMBDA e : e.kind # "nil")
    IN  IF i = 0 THEN << >> ELSE IF i = 1 THEN s ELSE SubSeq(s, i, Len(s))

\* getIndex, 1-based; 0 when the packet number is not in the history.
Index(s, pn) ==
    IF s = << >> \/ pn < s[1].pn \/ pn - s[1].pn >= Len(s) THEN 0 ELSE pn - s[1].pn + 1

NumOutstanding(s) == Cardinality({i \in DOMAIN s : s[i].kind \in Outstanding})

\* Mutant: path MTU probes are counted as outstanding when they are removed.
WithoutMTU(sp, gone) ==
    [sp EXCEPT !.packets = CleanupStart([i \in DOMAIN @ |-> IF i \in gone THEN Nil ELSE @[i]]),
               !.numOutstanding = @ - Cardinality({i \in gone : sp.packets[i].kind \in Regular})]

\* The history without the entries at the given places.
Without(sp, gone) ==
    [sp EXCEPT !.packets = CleanupStart([i \in DOMAIN @ |-> IF i \in gone THEN Nil ELSE @[i]]),
               !.numOutstanding = @ - Cardinality({i \in gone : sp.packets[i].kind \in Outstanding})]

Places(sp, pns) == {i \in DOMAIN sp.packets : sp.packets[i].pn \in pns}

\* DeclareLost of each of the packets: later ACKs for them find nothing.
DeclareLost(sp, pns) == Without(sp, Places(sp, pns))

\* Remove of each of the packets, with the skipped packets right before it.
RemovePackets(sp, pns) ==
    LET at == Places(sp, pns)
        skippedBefore(i) == {j \in 1..(i-1) : \A k \in j..(i-1) : sp.packets[k].kind = "skipped"}
    IN  Without(sp, at \cup UNION {skippedBefore(i) : i \in at})

\* SkippedPacket, SentAckElicitingPacket and the placeholder of SentPathProbePacket.
Append1(sp, pn, kind) ==
    [sp EXCEPT !.packets = Append(@, [pn |-> pn, kind |-> kind]),
               !.numOutstanding = @ + IF kind \in Outstanding THEN 1 ELSE 0,
               !.highest = pn]

\* SentNonAckElicitingPacket keeps no entry in front of the history.
AppendNil(sp, pn) ==
    [sp EXCEPT !.packets = IF @ = << >> THEN @ ELSE Append(@, Nil), !.highest = pn]

\* The packet numbers of the entries of the given kinds.
Numbers(sp, kinds) == {e.pn : e \in {x \in ToSet(sp.packets) : x.kind \in kinds}}

NewSpace(pn, skip) ==
    [packets |-> << >>, probes |-> << >>, numOutstanding |-> 0, highest |-> -1,
     next |-> pn, nextToSkip |-> skip, largestAcked |-> -1, largestSent |-> -1,
     lossTime |-> FALSE]

\* The numbers the skipping generator may skip next: at least three further on.
\* Initial and Handshake packet numbers are sequential.
NextToSkip(s, next) ==
    IF s = "appData" THEN ((next + 3)..MaxNumbers) \cup {MaxNumbers + 3} ELSE {-1}

-----------------------------------------------------------------------------
(* The loss detection timer *)

Alive(g, s) == s \notin g.dropped
Has(g, s) == Alive(g, s) /\ g.sp[s].numOutstanding > 0
HasOutstandingCryptoPackets(g) == \E s \in Crypto : Has(g, s)
HasPathProbes(g) == g.sp["appData"].probes # << >>

IsAmplificationLimited(g) == ~g.addressValidated /\ g.sent >= Amplification * g.received

\* getLossTimeAndSpace: the spaces whose loss time may be the earliest.
LossTimeSpaces(g) == {s \in Spaces : Alive(g, s) /\ g.sp[s].lossTime}

\* getPTOTimeAndSpace: the spaces whose PTO may be the earliest.
PTOSpaces(g) ==
    IF ~g.confirmed /\ ~HasOutstandingCryptoPackets(g)
    THEN IF g.peerCompleted THEN {}
         ELSE {IF Alive(g, "initial") THEN "initial" ELSE "handshake"}
    ELSE {s \in Crypto : Has(g, s)}
           \cup {s \in {"appData"} : g.confirmed /\ Has(g, s)}

\* lossDetectionTime: the alarms it may return.
LossDetectionTime(g) ==
    LET acks   == {[type |-> "ack", space |-> s] : s \in LossTimeSpaces(g)}
        ptos   == {[type |-> "pto", space |-> s] : s \in PTOSpaces(g)}
        probe  == IF HasPathProbes(g) THEN {[type |-> "probe", space |-> "appData"]} ELSE {}
        timers == IF probe # {} THEN acks \cup ptos \cup probe
                  ELSE IF acks # {} THEN acks ELSE ptos
    IN  IF \/ /\ g.peerCompleted /\ ~HasOutstandingCryptoPackets(g)
              /\ ~Has(g, "appData") /\ ~HasPathProbes(g)
           \/ IsAmplificationLimited(g)
           \/ timers = {}
        THEN {NoAlarm} ELSE timers

\* The states the handler is in after setLossDetectionTimer.
SetLossDetectionTimer(g) == {[g EXCEPT !.alarm = a] : a \in LossDetectionTime(g)}

-----------------------------------------------------------------------------
(* Packet numbers and send modes *)

\* PopPacketNumber: the space after the call and the number to use, for every number the
\* generator may draw as the next one to skip.  A skipped number leaves an entry.
Pop(sp, s) ==
    IF sp.next # sp.nextToSkip THEN {[sp |-> [sp EXCEPT !.next = @ + 1], pn |-> sp.next]}
    ELSE {[sp |-> [Append1(sp, sp.next, "skipped") EXCEPT !.next = @ + 2, !.nextToSkip = n],
           pn |-> sp.next + 1] : n \in NextToSkip(s, sp.next + 2)}

\* The bound on packet numbers leaves room for n more.
CanUse(n) == h.sp["initial"].next + h.sp["handshake"].next + h.sp["appData"].next + n <= MaxNumbers

Tracked(g) ==
    LET len(s) == IF Alive(g, s) THEN Len(g.sp[s].packets) ELSE 0
    IN  len("initial") + len("handshake") + len("appData")

\* SendMode, whatever the congestion controller and the pacer say.
SendModes(g) ==
    IF IsAmplificationLimited(g) \/ Tracked(g) >= MaxTracked THEN {"none"}
    ELSE IF g.numProbes > 0 THEN {g.ptoMode}
    ELSE IF Tracked(g) >= MaxOutstanding THEN {"ack"}
    ELSE {"ack", "pacingLimited", "any"}

\* bytesSent and bytesReceived matter until the address is validated.
CountSent(g) == IF g.addressValidated THEN g ELSE [g EXCEPT !.sent = @ + 1]

\* SentPacket for a packet number that was just popped; sp1 is the space after the pop.
SentPacket(g, s, sp1, pn, kind) ==
    LET g1 == CountSent(g)
        sp2 == [sp1 EXCEPT !.largestSent = pn]
        with(sp) == [g1 EXCEPT !.sp[s] = sp]
    IN  CASE kind = "probe" ->
               SetLossDetectionTimer(with([Append1(sp2, pn, kind) EXCEPT !.probes = Append(@, pn)]))
          [] kind = "ackOnly" ->
               IF g.peerCompleted THEN {with(AppendNil(sp2, pn))}
               ELSE SetLossDetectionTimer(with(AppendNil(sp2, pn)))
          [] OTHER ->
               SetLossDetectionTimer([with(Append1(sp2, pn, kind)) EXCEPT
                   !.inFlight = @ + 1, !.numProbes = IF @ > 0 THEN @ - 1 ELSE 0])

-----------------------------------------------------------------------------
(* Acknowledgements and losses *)

\* detectLostPackets.  Packets numbered below the cut were sent before lostSendTime;
\* skipped packets and path probes have no send time, so they always were.
DetectLostPackets(g, s, cut) ==
    LET sp     == g.sp[s]
        below  == {e \in ToSet(sp.packets) : e.kind # "nil" /\ e.pn <= sp.largestAcked}
        gone   == {e \in below : \/ e.kind \notin Regular
                                 \/ e.pn < cut
                                 \/ sp.largestAcked >= e.pn + PacketThreshold}
        frames == {e.pn : e \in {x \in gone : x.kind \in Regular}}
    IN  [g    |-> [g EXCEPT !.sp[s] = [DeclareLost(sp, {e.pn : e \in gone})
                                         EXCEPT !.lossTime = below # gone],
                            !.inFlight = @ - Cardinality(frames)],
         lost |-> {s} \X frames]

\* detectLostPathProbes, when the first n path probes have timed out.
DetectLostPathProbes(g, n) ==
    LET ps == g.sp["appData"].probes
    IN  [g    |-> [g EXCEPT !.sp["appData"].probes = SubSeq(ps, n + 1, Len(ps))],
         lost |-> {"appData"} \X {ps[i] : i \in 1..n}]

\* The cuts that tell apart the packets an ACK may leave behind.
Cuts(g, s) == {0} \cup {n + 1 : n \in {m \in Numbers(g.sp[s], Regular) : m <= g.sp[s].largestAcked}}

\* ReceivedAck.  Of the packets in the history, the ACK frame contains those in S; its
\* largest packet number may be one that is not in the history any more.
ReceivedAck(s, S, largest) ==
    /\ failed = "ok" /\ Alive(h, s)
    /\ \A n \in S : n <= largest
    /\ largest \in Numbers(h.sp[s], AnyKind) => largest \in S
    /\ LET completes == client /\ ~h.peerCompleted /\ s # "initial"
           g0 == [h EXCEPT !.peerCompleted = @ \/ completes]
           sp == h.sp[s]
           probes == S \cap ToSet(sp.probes)
           newly == (S \cap Numbers(sp, Regular)) \cup probes
           g1 == [g0 EXCEPT !.sp[s] = [RemovePackets(sp, newly) EXCEPT
                                          !.probes = SelectSeq(@, LAMBDA n : n \notin probes),
                                          !.largestAcked = IF largest > @ THEN largest ELSE @]]
           skipped == S \cap Numbers(sp, {"skipped"})
       IN  \/ /\ skipped # {}
              /\ failed' = "acked a skipped packet"
              /\ UNCHANGED <<h, acked, lost>>
           \/ /\ skipped = {} /\ newly = {}
              /\ h' \in IF completes THEN SetLossDetectionTimer(g0) ELSE {g0}
              /\ UNCHANGED <<acked, lost, failed>>
           \/ /\ skipped = {} /\ newly # {}
              /\ \E cut \in Cuts(g1, s),
                    k \in IF s = "appData" THEN 0..Len(g1.sp[s].probes) ELSE {0} :
                 \E d1 \in {DetectLostPackets(g1, s, cut)} :
                 \E d2 \in {DetectLostPathProbes(d1.g, k)} :
                    /\ h' \in SetLossDetectionTimer([d2.g EXCEPT
                                 !.inFlight = @ - Cardinality(newly \ probes), !.numProbes = 0])
                    /\ lost' = lost \cup d1.lost \cup d2.lost
              /\ acked' = acked \cup ({s} \X newly)
              /\ UNCHANGED failed
    /\ UNCHANGED client

\* Mutant: no probe is asked for when the PTO of the Initial space fires.
NoInitialProbe(g, s) == IF s = "initial" THEN {g} ELSE {[g EXCEPT !.numProbes = @ + 2, !.ptoMode = s]}

\* The PTO branch of OnLossDetectionTimeout: the states it leaves the handler in.
OnPTO(g, s) ==
    IF ~Has(g, s) /\ ~(s = "appData" /\ HasPathProbes(g)) /\ ~g.peerCompleted THEN {g}
    ELSE LET g1 == [g EXCEPT !.numProbes = @ + 2, !.ptoMode = s]
         IN  IF s # "appData" THEN {g1}
             ELSE {[g1 EXCEPT !.sp[s] = Append1(p.sp, p.pn, "skipped")] : p \in Pop(g.sp[s], s)}

\* OnLossDetectionTimeout.  k path probes have timed out; when the alarm was set for a
\* loss time, the packet it was set for is past it.
OnLossDetectionTimeout ==
    /\ failed = "ok" /\ h.alarm # NoAlarm
    /\ h.numProbes + 2 <= MaxProbes /\ CanUse(2)
    /\ \E k \in 0..(IF h.confirmed THEN Len(h.sp["appData"].probes) ELSE 0) :
         LET d == DetectLostPathProbes(h, k)
             g == d.g
             only(space, set) == IF space \in set THEN {space} ELSE set
         IN
         /\ h.alarm.type = "probe" => k > 0
         /\ \/ /\ LossTimeSpaces(g) # {}
               /\ \E s \in only(IF h.alarm.type = "ack" THEN h.alarm.space ELSE "none",
                                LossTimeSpaces(g)) :
                  \E cut \in Cuts(g, s) :
                    LET below == {n \in Numbers(g.sp[s], Regular) : n <= g.sp[s].largestAcked}
                        e == DetectLostPackets(g, s, cut)
                    IN  /\ h.alarm.type = "ack" /\ below # {} => \E n \in below : n < cut
                        /\ h' \in SetLossDetectionTimer(e.g)
                        /\ lost' = lost \cup d.lost \cup e.lost
               /\ UNCHANGED failed
            \/ /\ LossTimeSpaces(g) = {} /\ g.inFlight = 0 /\ ~g.peerCompleted
               /\ lost' = lost \cup d.lost
               /\ h' \in SetLossDetectionTimer([g EXCEPT !.numProbes = @ + 1,
                              !.ptoMode = IF Alive(g, "initial") THEN "initial" ELSE "handshake"])
               /\ UNCHANGED failed
            \/ /\ LossTimeSpaces(g) = {} /\ ~(g.inFlight = 0 /\ ~g.peerCompleted)
               /\ PTOSpaces(g) # {}
               /\ \E s \in only(IF h.alarm.type = "pto" THEN h.alarm.space ELSE "none",
                                PTOSpaces(g)) :
                  \E g1 \in OnPTO(g, s) : h' \in SetLossDetectionTimer(g1)
               /\ lost' = lost \cup d.lost
               /\ UNCHANGED failed
            \/ /\ LossTimeSpaces(g) = {} /\ ~(g.inFlight = 0 /\ ~g.peerCompleted)
               /\ PTOSpaces(g) = {}
               /\ h' \in SetLossDetectionTimer(g)
               /\ lost' = lost \cup d.lost
               /\ UNCHANGED failed
    /\ UNCHANGED <<client, acked>>

-----------------------------------------------------------------------------
(* The calls of the connection *)

InitHandler(c) ==
    [sp |-> [s \in Spaces |-> NewSpace(0, IF s = "appData" THEN MaxNumbers + 3 ELSE -1)],
     dropped |-> {}, inFlight |-> 0, sent |-> 0, received |-> 0,
     addressValidated |-> c, peerCompleted |-> ~c, confirmed |-> FALSE,
     oneRTT |-> FALSE, retried |-> FALSE,
     numProbes |-> 0, ptoMode |-> "none", alarm |-> NoAlarm]

\* A connection starts from nothing, or is looked at from the moment the handshake is
\* confirmed with nothing in flight.
Init ==
    /\ client \in BOOLEAN
    /\ \E n \in NextToSkip("appData", 0), g \in {InitHandler(client),
            [InitHandler(TRUE) EXCEPT !.dropped = Crypto, !.peerCompleted = TRUE,
                                      !.confirmed = TRUE, !.oneRTT = TRUE]} :
         h = [g EXCEPT !.sp["appData"].nextToSkip = n]
    /\ acked = {} /\ lost = {} /\ failed = "ok"

\* What may be sent in a space.  0-RTT packets come before all 1-RTT packets; path MTU
\* probes and path probes are only sent once the handshake is confirmed.
Kinds(s) ==
    IF s \in Crypto THEN {"data", "ackOnly"}
    ELSE {"data", "ackOnly"}
           \cup (IF client /\ ~h.oneRTT THEN {"early"} ELSE {})
           \cup (IF h.confirmed THEN {"mtu"} ELSE {})
           \cup (IF h.confirmed /\ Len(h.sp[s].probes) < MaxProbes THEN {"probe"} ELSE {})

\* A packet is packed and sent.  Acknowledgements alone may be sent in every mode but
\* "none"; everything else needs SendAny.
Send(s, kind) ==
    /\ failed = "ok" /\ Alive(h, s) /\ kind \in Kinds(s)
    /\ SendModes(h) \cap (IF kind = "ackOnly" THEN {"ack", "pacingLimited", "any"} ELSE {"any"}) # {}
    /\ CanUse(1)
    /\ \E p \in Pop(h.sp[s], s) :
         h' \in SentPacket([h EXCEPT !.oneRTT = @ \/ (s = "appData" /\ kind # "early")],
                           s, p.sp, p.pn, kind)
    /\ UNCHANGED <<client, acked, lost, failed>>

\* sendProbePacket: QueueProbePacket declares the first outstanding packet lost, and again
\* as long as nothing could be packed from its frames; then one packet is sent.
SendProbe ==
    /\ failed = "ok" /\ h.numProbes > 0 /\ SendModes(h) = {h.ptoMode}
    /\ LET s  == h.ptoMode
           sp == h.sp[s]
           out == SetToSortSeq(Numbers(sp, Outstanding), <)
       IN  /\ CanUse(1)
           /\ \E k \in (IF out = << >> THEN {0} ELSE 1..Len(out)) :
                LET queued == {out[i] : i \in 1..k}
                    g == [h EXCEPT !.sp[s] = DeclareLost(sp, queued),
                                   !.inFlight = @ - k,
                                   !.oneRTT = @ \/ s = "appData"]
                IN  /\ \E p \in Pop(g.sp[s], s) : h' \in SentPacket(g, s, p.sp, p.pn, "data")
                    /\ lost' = lost \cup ({s} \X queued)
    /\ UNCHANGED <<client, acked, failed>>

\* Mutant: the timer stays cancelled when the amplification limit is lifted.
NoTimerAfterLimit ==
    /\ failed = "ok" /\ ~h.addressValidated /\ h.received < MaxReceived
    /\ h' = [h EXCEPT !.received = @ + 1]
    /\ UNCHANGED <<client, acked, lost, failed>>

\* ReceivedBytes: a datagram arrives before the address is validated.
ReceivedBytes ==
    /\ failed = "ok" /\ ~h.addressValidated /\ h.received < MaxReceived
    /\ LET g == [h EXCEPT !.received = @ + 1]
       IN  h' \in IF IsAmplificationLimited(h) /\ ~IsAmplificationLimited(g)
                  THEN SetLossDetectionTimer(g) ELSE {g}
    /\ UNCHANGED <<client, acked, lost, failed>>

\* ReceivedPacket: the first Handshake packet validates the client's address.
ReceivedPacket ==
    /\ failed = "ok" /\ ~client /\ ~h.addressValidated /\ h.received > 0
    /\ h' \in SetLossDetectionTimer([h EXCEPT !.addressValidated = TRUE, !.sent = 0, !.received = 0])
    /\ UNCHANGED <<client, acked, lost, failed>>

\* The ends of all three DropPackets cases.
Dropped(g) == SetLossDetectionTimer([g EXCEPT !.numProbes = 0, !.ptoMode = "none"])

\* DropPackets for Initial and Handshake.  A client drops Initial keys when it sends its
\* first Handshake packet, a server when it receives one; dropping the Handshake keys
\* confirms the handshake.
DropPackets(s) ==
    /\ failed = "ok" /\ s \in Crypto /\ Alive(h, s)
    /\ IF s = "handshake" THEN ~Alive(h, "initial")
       ELSE IF client THEN h.sp["handshake"].largestSent >= 0 ELSE h.addressValidated
    /\ h' \in Dropped([h EXCEPT !.dropped = @ \cup {s},
                                !.sp[s] = NewSpace(h.sp[s].next, -1),
                                !.peerCompleted = @ \/ (client /\ s = "handshake"),
                                !.confirmed = @ \/ s = "handshake",
                                !.inFlight = @ - Cardinality(Numbers(h.sp[s], Regular))])
    /\ acked' = {f \in acked : f[1] # s}
    /\ lost' = {f \in lost : f[1] # s}
    /\ UNCHANGED <<client, failed>>

\* DropPackets for 0-RTT: the server rejected it, before any 1-RTT packet was sent.
DropEarly ==
    /\ failed = "ok" /\ client /\ ~h.oneRTT /\ Numbers(h.sp["appData"], {"early"}) # {}
    /\ LET sp == h.sp["appData"]
       IN  h' \in Dropped([h EXCEPT
               !.sp["appData"] = RemovePackets(sp, Numbers(sp, {"early", "skipped"})),
               !.inFlight = @ - Cardinality(Numbers(sp, {"early"})),
               !.oneRTT = TRUE])
    /\ UNCHANGED <<client, acked, lost, failed>>

\* ResetForRetry: a Retry is only accepted as the first packet of the connection.
ResetForRetry ==
    /\ failed = "ok" /\ client /\ ~h.retried /\ ~h.oneRTT /\ acked = {}
    /\ h.sp["initial"].largestSent >= 0 /\ h.sp["handshake"].largestSent < 0
    /\ \A s \in Spaces : h.sp[s].largestAcked < 0
    /\ LET frames(s) == {s} \X Numbers(h.sp[s], Regular)
           fresh(s)  == {NewSpace(h.sp[s].next + IF h.sp[s].next = h.sp[s].nextToSkip THEN 1 ELSE 0, n) :
                           n \in NextToSkip(s, h.sp[s].next)}
       IN  /\ lost' = lost \cup frames("initial") \cup frames("appData")
           /\ \E i \in fresh("initial"), a \in fresh("appData") :
                h' = [h EXCEPT !.sp["initial"] = i, !.sp["appData"] = a,
                               !.inFlight = 0, !.alarm = NoAlarm, !.retried = TRUE]
    /\ UNCHANGED <<client, acked, failed>>

\* MigratedPath removes the path probes while it ranges over them: every removal shifts
\* the array the range reads (s.arr) under it, and shortens the list (s.len).
RemoveWhileRanging(ps) ==
    LET step(s, i) ==
            LET at == SelectInSeq(SubSeq(s.arr, 1, s.len), LAMBDA n : n = s.arr[i])
            IN  IF at = 0 THEN s
                ELSE [arr |-> [j \in DOMAIN s.arr |->
                                 IF j >= at /\ j < s.len THEN s.arr[j + 1] ELSE s.arr[j]],
                      len |-> s.len - 1]
        end == FoldLeft(step, [arr |-> ps, len |-> Len(ps)], [i \in DOMAIN ps |-> i])
    IN  SubSeq(end.arr, 1, end.len)

MigratedPath ==
    /\ failed = "ok" /\ h.confirmed
    /\ LET sp == h.sp["appData"]
           frames == Numbers(sp, Regular)
           sp1 == DeclareLost(sp, Numbers(sp, Regular \cup {"skipped", "probe"}))
       IN  /\ h' \in SetLossDetectionTimer([h EXCEPT
                  !.sp["appData"] = [sp1 EXCEPT !.probes = RemoveWhileRanging(@)],
                  !.inFlight = @ - Cardinality(frames)])
           /\ lost' = lost \cup ({"appData"} \X frames)
    /\ UNCHANGED <<client, acked, failed>>

Next ==
    \/ \E s \in Spaces, kind \in Regular \cup {"ackOnly", "probe"} : Send(s, kind)
    \/ SendProbe
    \/ \E s \in Spaces : \E S \in SUBSET Numbers(h.sp[s], AnyKind),
                          largest \in 0..h.sp[s].largestSent : ReceivedAck(s, S, largest)
    \/ OnLossDetectionTimeout
    \/ ReceivedBytes
    \/ ReceivedPacket
    \/ \E s \in Crypto : DropPackets(s)
    \/ DropEarly
    \/ ResetForRetry
    \/ MigratedPath

Spec == Init /\ [][Next]_vars

-----------------------------------------------------------------------------
(* Properties *)

\* bytesInFlight and numOutstanding, which the code adjusts in a dozen places, are what
\* the history says; the history starts with an entry, so getIndex can be computed from it.
HistoryExact ==
    /\ h.inFlight = Cardinality(Numbers(h.sp["initial"], Regular))
                    + Cardinality(Numbers(h.sp["handshake"], Regular))
                    + Cardinality(Numbers(h.sp["appData"], Regular))
    /\ \A s \in Spaces :
         LET ps == h.sp[s].packets IN
         /\ h.sp[s].numOutstanding = NumOutstanding(ps)
         /\ \A i \in DOMAIN ps : ps[i].kind # "nil" => Index(ps, ps[i].pn) = i
         /\ ps # << >> => ps[1].kind # "nil" /\ h.sp[s].highest = ps[1].pn + Len(ps) - 1

\* Of every packet's frames exactly one of OnAcked and OnLost is called, once: a packet
\* in the history was not reported yet, and none is reported both ways.
OneFate ==
    /\ acked \cap lost = {}
    /\ \A s \in Spaces : \A n \in Numbers(h.sp[s], Regular) :
         <<s, n>> \notin acked \cup lost

\* As long as a packet may have to be retransmitted, or a client cannot know whether the
\* server validated its address, the timer runs, unless the amplification limit forbids
\* to send anyway.
AlarmArmed ==
    /\ failed = "ok" /\ ~IsAmplificationLimited(h)
    /\ \/ HasOutstandingCryptoPackets(h)
       \/ h.confirmed /\ Has(h, "appData")
       \/ HasPathProbes(h)
       \/ ~h.peerCompleted /\ \E s \in Crypto : h.sp[s].largestSent >= 0
    => h.alarm # NoAlarm

\* A probe is only asked for in a packet number space that still exists: packing it would
\* otherwise dereference a dropped space.
ProbeSpaceAlive ==
    h.numProbes > 0 => h.ptoMode \in Spaces /\ Alive(h, h.ptoMode)

\* When the timer fires in PTO mode, a probe becomes due.  The exception is a client that
\* has only 0-RTT packets in flight while it cannot know whether the server validated its
\* address: OnLossDetectionTimeout then returns without asking for a probe.
TimeoutActs ==
    [][OnLossDetectionTimeout /\ h.alarm.type = "pto" /\ LossTimeSpaces(h) = {}
         => \/ h'.numProbes > h.numProbes
            \/ ~h.peerCompleted /\ ~HasOutstandingCryptoPackets(h) /\ Has(h, "appData")]_vars

=============================================================================
