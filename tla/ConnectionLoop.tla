--------------------------- MODULE ConnectionLoop ---------------------------
(***************************************************************************)
(* The life of one connection (connection.go): its run loop, the goroutine *)
(* of its send queue (send_queue.go), the goroutines that push received    *)
(* packets, write data and close it, and what the transport's map of       *)
(* handlers (packet_handler_map.go, closed_conn.go) holds for it.          *)
(*                                                                         *)
(* Everything is a field of one record s; a channel of capacity one is a   *)
(* Boolean.  Frames and packets are counted, the congestion window and the *)
(* pacer are counters, and time is the choice of which armed deadline      *)
(* expires.  A deadline has passed when its timer is read.                 *)
(***************************************************************************)
EXTENDS Naturals, FiniteSets

CONSTANTS
    Client,         \* BOOLEAN: the perspective
    Capacity,       \* sendQueueCapacity
    MaxReceived,    \* protocol.MaxConnUnprocessedPackets
    MaxData,        \* bound on the packets' worth of data waiting to be sent
    Window,         \* the congestion window, in packets
    Burst,          \* the pacer's budget when it is full, in packets
    MaxAfterClose,  \* bound on the packets that arrive after the connection was closed
    Closers         \* the goroutines that close the connection

\* The send queue and the congestion window hold at least one packet; fewer than 16 packets
\* arrive after the end (see PowerOfTwo).
ASSUME LoopConstants ==
    /\ Client \in BOOLEAN /\ Capacity \in Nat \ {0} /\ Window \in Nat \ {0}
    /\ MaxAfterClose \in 0..15

VARIABLE s
loopVars == <<s>>

Full == s.q = Capacity
Step(t) == s' = t
\* The deadlines the timer is set to; one that already fired is not set again.
Deadlines(t) ==
    {"idle"} \cup (IF t.ack = "alarm" /\ "ack" \notin t.last THEN {"ack"} ELSE {})
             \cup (IF t.inflight > 0 THEN {"loss"} ELSE {})
             \cup (IF t.pacing = "later" THEN {"pacing"} ELSE {})

-----------------------------------------------------------------------------
(* Closing *)

\* sendQueue.runStopped is closed: after the last packet, or by a write error.
RunStopped(t) == t.sender \in {"stopped", "failed", "crashed"}

\* Mutant: the error is stored and the run loop is not woken.
SilentError(t, e) == [t EXCEPT !.closeErr = IF @ = "none" THEN e ELSE @]

\* setCloseError in one step: only the first error counts.
SetCloseError(t, e) == [t EXCEPT !.closeErr = IF @ = "none" THEN e ELSE @, !.closeChan = TRUE]

\* The end of the loop; what no longer matters is reset.
Exit(t) ==
    [t EXCEPT !.pc = "stop", !.pacing = "none", !.sqa = FALSE, !.timer = {}, !.last = {}, !.expired = {},
              !.notify = FALSE, !.scheduled = FALSE, !.available = FALSE, !.ack = "none",
              !.budget = 0, !.inflight = 0, !.probe = FALSE, !.confirmed = FALSE]
ExitWith(t, e) == Exit(SetCloseError(t, e))

\* CloseWithError, closeWithTransportError and (immediate) destroy: set the error, signal
\* the run loop, wait for the context.
SetError(c, e) ==
    /\ s.closer[c] = "idle"
    /\ Step([s EXCEPT !.closeErr = IF @ = "none" THEN e ELSE @, !.closer[c] = "signal"])
SignalClose(c) ==
    /\ s.closer[c] = "signal"
    /\ Step([s EXCEPT !.closeChan = TRUE, !.closer[c] = "wait"])
CloserReturns(c) ==
    /\ s.closer[c] = "wait" /\ s.pc = "done"
    /\ Step([s EXCEPT !.closer[c] = "returned"])

\* sendQueue.Close: the goroutine is told to finish ...
CloseSendQueue ==
    /\ s.pc = "stop"
    /\ Step([s EXCEPT !.pc = "drain", !.closeCalled = TRUE])

Immediate == {"destroy", "idleTimeout", "writeError"}

\* Mutant: the connection IDs stay with the connection when it is destroyed.
LeaveRoute(e) == IF e = "remote" THEN "closedRemote" ELSE IF e \in Immediate THEN "connection" ELSE "closedLocal"

\* What becomes of the connection IDs.
RouteAfter(e) ==
    IF e = "remote" THEN "closedRemote"
    ELSE IF e \in Immediate \/ (Client /\ ~s.sentFirst) THEN "none" ELSE "closedLocal"

\* ... and when it has, handleCloseError closes streams and datagram queue, sends the
\* CONNECTION_CLOSE, and replaces or removes the connection IDs; the context is cancelled.
HandleCloseError ==
    /\ s.pc = "drain" /\ RunStopped(s)
    /\ Step([s EXCEPT !.pc = "done", !.received = 0, !.streams = "closed", !.data = 0,
                      !.route = RouteAfter(s.closeErr),
                      !.closeSent = (RouteAfter(s.closeErr) = "closedLocal")])

\* closedLocalConn.handlePacket: the 1st, 2nd, 4th, ... packet is answered (of at most 15).
PowerOfTwo(n) == n \in {1, 2, 4, 8}
PacketAfterClose ==
    /\ s.pc = "done" /\ s.route = "closedLocal" /\ s.late < MaxAfterClose
    /\ Step([s EXCEPT !.late = @ + 1, !.answers = IF PowerOfTwo(s.late + 1) THEN @ + 1 ELSE @])

\* The connection IDs of a closed connection are deleted some time later.
DeleteRetired ==
    /\ s.pc = "done" /\ s.route \in {"closedLocal", "closedRemote"}
    /\ Step([s EXCEPT !.route = "none"])

-----------------------------------------------------------------------------
(* The send queue *)

\* Send, which panics when the queue is full and its goroutine still runs.  When it has
\* stopped, and there is room, select may also drop the packet: nobody will write it.
Send(t) ==
    IF t.q = Capacity THEN [t EXCEPT !.panic = @ \/ ~RunStopped(t)]
    ELSE [t EXCEPT !.q = @ + 1, !.sentFirst = TRUE,
                   !.available = IF t.q + 1 = Capacity THEN FALSE ELSE @]

Dequeue ==
    /\ s.sender = "idle" /\ s.q > 0
    /\ Step([s EXCEPT !.q = @ - 1, !.sender = "writing"])

Written ==
    /\ s.sender = "writing"
    /\ Step([s EXCEPT !.sender = "idle", !.available = TRUE])

\* Run returns on a write error, with packets left in the queue, ...
WriteError ==
    /\ s.sender = "writing"
    /\ Step([s EXCEPT !.sender = "failed"])

\* ... and the goroutine destroys the connection.
DestroyImpl ==
    /\ s.sender = "failed"
    /\ Step([SetCloseError(s, "writeError") EXCEPT !.sender = "crashed"])

\* Run returns after closeCalled, when everything is written.
RunReturns ==
    /\ s.sender = "idle" /\ s.closeCalled /\ s.q = 0
    /\ Step([s EXCEPT !.sender = "stopped"])

-----------------------------------------------------------------------------
(* Received packets and data *)

Running == s.pc \notin {"stop", "drain", "done"}

\* handlePacket, which drops the packet when too many are waiting.
HandlePacket ==
    /\ Running /\ s.received < MaxReceived
    /\ Step([s EXCEPT !.received = @ + 1, !.notify = TRUE])

\* An application goroutine queues a frame and calls scheduleSending.
WriteData ==
    /\ Running /\ s.data < MaxData
    /\ Step([s EXCEPT !.data = @ + 1, !.scheduled = TRUE])

\* What one processed packet does: it may acknowledge everything in flight, may ask for an
\* ACK now or later, and may confirm the handshake.
Processed(t, i, a, b) ==
    [t EXCEPT !.inflight = i, !.ack = a, !.confirmed = b,
              !.last = IF a = "alarm" THEN @ \ {"ack"} ELSE @]
AckAfter(t) == {t.ack, "queued"} \cup (IF t.ack = "none" THEN {"alarm"} ELSE {})
ConfirmedAfter(t) == {t.confirmed, TRUE}
Effects(t) == {Processed(t, i, a, b) : i \in {0, t.inflight}, a \in AckAfter(t), b \in ConfirmedAfter(t)}

\* handlePackets: all packets, or one before the handshake is complete; the rest is
\* announced again.  Returns the states after it, with the packets processed or not.
Handled(t) ==
    LET n == {IF t.confirmed THEN t.received ELSE 1}
        u(k) == [t EXCEPT !.received = @ - k, !.notify = @ \/ t.received > k]
    IN  {[state |-> u(k), processed |-> FALSE] : k \in n}
          \cup {[state |-> x, processed |-> TRUE] : x \in UNION {Effects(u(k)) : k \in n}}

-----------------------------------------------------------------------------
(* The run loop *)

\* The top of the loop, with a check for too many queued control frames.
Top ==
    /\ s.pc = "top"
    /\ \/ Step(ExitWith(s, "internal"))
       \/ /\ s.closeChan
          /\ Step(Exit([s EXCEPT !.closeChan = FALSE]))
       \/ /\ ~s.closeChan
          /\ Step([s EXCEPT !.pc = "packets",
                            !.timer = IF s.pacing = "now" THEN @ ELSE Deadlines(s)])

\* Receive packets; wait unless packets were processed or the pacer has no objection.
\* A CONNECTION_CLOSE of the peer, or an error, ends the loop.
Leave(t, pc) == [t EXCEPT !.pc = pc, !.timer = {}]
Proceed(t, processed) ==
    IF ~t.sqa /\ (processed \/ t.pacing = "now") THEN Leave(t, "timers") ELSE [t EXCEPT !.pc = "wait"]

Packets ==
    /\ s.pc = "packets"
    /\ \/ s.received = 0 /\ Step(Proceed(s, FALSE))
       \/ s.received > 0 /\ \E h \in Handled(s) : Step(Proceed(h.state, h.processed))
       \/ s.received > 0 /\ Step(ExitWith([s EXCEPT !.received = @ - 1], "remote"))

\* The select statement.
WaitClose == s.pc = "wait" /\ s.closeChan /\ Step(Exit([s EXCEPT !.closeChan = FALSE]))
WaitScheduled == s.pc = "wait" /\ s.scheduled /\ Step(Leave([s EXCEPT !.scheduled = FALSE], "timers"))
WaitAvailable == s.pc = "wait" /\ s.sqa /\ s.available /\ Step(Leave([s EXCEPT !.available = FALSE], "timers"))
WaitNotify ==
    /\ s.pc = "wait" /\ s.notify
    /\ LET t == [s EXCEPT !.notify = FALSE]
       IN  \/ s.received = 0 /\ Step(Leave(t, "top"))
           \/ s.received > 0 /\ \E h \in Handled(t) :
                Step(Leave(h.state, IF h.processed THEN "timers" ELSE "top"))
           \/ s.received > 0 /\ Step(ExitWith([t EXCEPT !.received = @ - 1], "remote"))
WaitTimer(k) ==
    /\ s.pc = "wait" /\ k \in s.timer
    /\ Step([s EXCEPT !.pc = "timers", !.timer = {}, !.expired = {k},
                      !.last = IF k = "ack" THEN @ \cup {k} ELSE @,
                      !.budget = IF k = "pacing" THEN Burst ELSE @])

\* Loss detection; the keep-alive PING or the idle (or handshake) timeout; a send queue
\* that is full; a close error that came in meanwhile.
Timers(keepAlive) ==
    /\ s.pc = "timers"
    /\ keepAlive => "idle" \in s.expired
    /\ LET t == [s EXCEPT !.expired = {}, !.probe = @ \/ "loss" \in s.expired,
                          !.data = IF keepAlive /\ @ < MaxData THEN @ + 1 ELSE @,
                          !.ack = IF "ack" \in s.expired THEN "queued" ELSE @]
       IN  IF "idle" \in s.expired /\ ~keepAlive THEN Step(ExitWith(t, "idleTimeout"))
           ELSE IF Full THEN Step([t EXCEPT !.pc = "top", !.sqa = TRUE, !.pacing = "none"])
           ELSE IF s.closeErr # "none" THEN Step(Exit(t))
           ELSE Step([t EXCEPT !.pc = "send", !.pacing = "none"])

-----------------------------------------------------------------------------
(* triggerSending *)

Return(t) == [t EXCEPT !.pc = "sent"]
SendMode(t) ==
    IF t.probe THEN "PTO" ELSE IF t.inflight >= Window THEN "ack"
    ELSE IF t.budget = 0 THEN "pacingLimited" ELSE "any"
SentPacket(t) ==
    [Send(t) EXCEPT !.inflight = IF @ < Window THEN @ + 1 ELSE @, !.ack = "none",
                    !.budget = IF @ > 0 THEN @ - 1 ELSE 0]

\* sendProbePacket; the probe carries data that was lost, or a PING.
SendProbe(t) ==
    LET p == [SentPacket(t) EXCEPT !.probe = FALSE]
    IN  IF p.q = Capacity THEN Return([p EXCEPT !.scheduled = TRUE]) ELSE p

MaybeSendAckOnly(t) ==
    Return(IF t.ack # "queued" THEN t ELSE [Send(t) EXCEPT !.ack = "none"])

\* sendPackets before the handshake is confirmed: one coalesced packet.
SendCoalesced(t) ==
    LET p == [SentPacket(t) EXCEPT !.data = IF @ > 0 THEN @ - 1 ELSE 0]
        m == SendMode(p)
    IN  Return([p EXCEPT !.pacing = IF m = "pacingLimited" THEN "later" ELSE IF m = "any" THEN "now" ELSE @])

\* One round of sendPacketsWithoutGSO, or of sendPacketsWithGSO when n packets share a buffer.
SendShortHeader(t, n) ==
    LET p == [SentPacket(t) EXCEPT !.data = IF @ > n THEN @ - n ELSE 0]
        m == SendMode(p)
    IN  IF p.q = Capacity THEN Return(p)
        ELSE IF m = "pacingLimited" THEN Return([p EXCEPT !.pacing = "later"])
        ELSE IF m # "any" THEN Return(p)
        ELSE IF p.received > 0 THEN Return([p EXCEPT !.pacing = "now"])
        ELSE p

SendPackets(t) ==
    \/ t.confirmed /\ Step(Return([SentPacket(t) EXCEPT !.scheduled = TRUE]))   \* an MTU probe
    \/ t.data = 0 /\ t.ack # "queued" /\ Step(Return(t))
    \/ /\ t.data > 0 \/ t.ack = "queued"
       /\ IF t.confirmed THEN \E n \in {1, 2} : Step(SendShortHeader(t, n))
          ELSE Step(SendCoalesced(t))

TriggerSending ==
    /\ s.pc = "send"
    /\ LET m == SendMode(s)
       IN  \/ m = "PTO" /\ Step(SendProbe(s))
           \/ m = "ack" /\ Step(MaybeSendAckOnly(s))
           \/ m = "pacingLimited" /\ Step(MaybeSendAckOnly([s EXCEPT !.pacing = "later"]))
           \/ m = "any" /\ SendPackets(s)
           \/ Step(ExitWith(s, "internal"))

\* The end of the loop body.
EndOfRound ==
    /\ s.pc = "sent"
    /\ Step([s EXCEPT !.pc = "top", !.sqa = Full, !.pacing = IF Full THEN "none" ELSE @])

-----------------------------------------------------------------------------
LoopInit == s = [pc |-> "top", received |-> 0, notify |-> FALSE,
             data |-> IF Client THEN 1 ELSE 0, scheduled |-> Client,
             q |-> 0, available |-> FALSE, sqa |-> FALSE, sender |-> "idle", closeCalled |-> FALSE,
             pacing |-> "none", budget |-> Burst, inflight |-> 0, probe |-> FALSE, ack |-> "none",
             timer |-> {}, last |-> {}, expired |-> {}, confirmed |-> FALSE, sentFirst |-> FALSE,
             closeErr |-> "none", closeChan |-> FALSE, closer |-> [c \in Closers |-> "idle"],
             streams |-> "open", route |-> "connection", closeSent |-> FALSE,
             late |-> 0, answers |-> 0, panic |-> FALSE]

Loop ==
    \/ Top \/ Packets \/ WaitClose \/ WaitScheduled \/ WaitAvailable \/ WaitNotify
    \/ \E k \in {"idle", "ack", "loss", "pacing"} : WaitTimer(k)
    \/ (\E k \in BOOLEAN : Timers(k)) \/ TriggerSending \/ EndOfRound \/ CloseSendQueue \/ HandleCloseError

Sender == Dequeue \/ Written \/ WriteError \/ DestroyImpl \/ RunReturns

LoopNext ==
    \/ Loop \/ Sender
    \/ HandlePacket \/ WriteData
    \/ \E c \in Closers :
         \/ \E e \in {"local", "destroy"} : SetError(c, e)
         \/ SignalClose(c)
         \/ CloserReturns(c)
    \/ PacketAfterClose \/ DeleteRetired

LoopSpec == LoopInit /\ [][LoopNext]_loopVars

-----------------------------------------------------------------------------
(* Properties *)

\* sendQueue.Send never panics: whenever the run loop sends it has seen room in the queue,
\* and only the sender goroutine has touched it since (send_queue.go:61).
SendNeverPanics == ~s.panic

\* Whenever the run loop sleeps, everything it should react to will wake it: queued packets
\* are announced; data that may be sent is announced, or waits for room in the send queue,
\* for the pacer, or for an ACK or the loss timer of what is in flight; an owed ACK has its
\* alarm or waits for room; a close error is announced; and the idle timer runs.  After a
\* round that stopped at a full queue which has drained since, only the loss timer is left.
WakesUp ==
    s.pc = "wait" =>
        /\ s.received > 0 => s.notify
        /\ s.data > 0 =>
             \/ s.scheduled \/ {"pacing", "loss"} \cap s.timer # {}
             \/ s.sqa /\ (s.q > 0 \/ s.available \/ s.sender # "idle")
        /\ s.sqa => s.q > 0 \/ s.available \/ s.sender # "idle"
        /\ s.ack = "alarm" => "ack" \in s.timer \/ s.sqa
        /\ s.closeErr # "none" =>
             s.closeChan \/ \E c \in Closers : s.closer[c] = "signal"
        /\ "idle" \in s.timer

\* The run loop is woken for everything it must react to, and never overfills the send queue.
NoLostWakeUp == WakesUp /\ SendNeverPanics

\* A closed connection leaves nothing behind: streams are closed, no packet is routed to
\* it, a CONNECTION_CLOSE is written for a local error only, after every queued packet
\* unless writing failed, and it is repeated at most once more than log2 of the packets
\* that still arrive.
ClosedCleanly ==
    s.pc = "done" =>
        /\ s.streams = "closed" /\ s.route # "connection" /\ s.closeErr # "none"
        /\ s.closeSent => s.closeErr \notin Immediate \cup {"remote"} /\ (Client => s.sentFirst)
        /\ s.closeSent => s.q = 0 \/ s.sender # "stopped"
        /\ s.answers <= 1 + (IF s.late >= 8 THEN 3 ELSE IF s.late >= 4 THEN 2 ELSE IF s.late >= 2 THEN 1 ELSE 0)
=============================================================================
