------------------------------- MODULE H3Conn -------------------------------
(***************************************************************************)
(* An HTTP/3 connection of a server with an idle timeout (http3/conn.go,   *)
(* state_tracking_stream.go, datagram.go): the map of request streams, the *)
(* timer that runs while it is empty, the unidirectional streams of the    *)
(* peer, and the datagrams handed to the streams.                          *)
(*                                                                         *)
(* n.streams is the map; n.send and n.recv are the streams with a sendErr  *)
(* and a recvErr.  The idle timer is "running", "stopped" or "fired" (its  *)
(* function was started and has not closed the connection yet).            *)
(***************************************************************************)
EXTENDS Naturals, FiniteSets

CONSTANTS
    RequestStreams,             \* the request streams of the peer
    StreamDatagramQueueLen,     \* streamDatagramQueueLen
    MaxDatagrams,               \* bound: datagrams that arrive
    MaxUniStreams               \* bound: unidirectional streams that arrive

VARIABLE n

ConnInit ==
    \E enable, supported \in BOOLEAN :
        n = [enable |-> enable, supported |-> supported, closed |-> FALSE, timer |-> "running",
             streams |-> {}, registered |-> {}, send |-> {}, recv |-> {}, rcvd |-> {}, uni |-> 0,
             settings |-> "none", parsing |-> FALSE, loop |-> "none", dgram |-> "none", arrived |-> 0,
             queue |-> [s \in RequestStreams |-> 0], hasData |-> [s \in RequestStreams |-> FALSE],
             receiver |-> [s \in RequestStreams |-> "idle"]]

\* CloseWithError of the HTTP/3 connection also stops the idle timer.
CloseWithError(t) == [t EXCEPT !.closed = TRUE, !.timer = IF @ = "running" THEN "stopped" ELSE @]

\* c.Connection.CloseWithError leaves the timer alone.
CloseQUIC(t) == [t EXCEPT !.closed = TRUE]

\* acceptStream: the stream is entered, the first one stops the timer.
AcceptStream(s) ==
    /\ ~n.closed /\ s \notin n.registered
    /\ n' = [n EXCEPT !.streams = @ \cup {s}, !.registered = @ \cup {s},
                      !.timer = IF @ = "running" /\ n.streams = {} THEN "stopped" ELSE @]

\* clearStream: when the last stream is gone the timer is armed again.
ClearStream(t, s) ==
    [t EXCEPT !.streams = @ \ {s}, !.timer = IF t.streams \subseteq {s} /\ @ # "fired" THEN "running" ELSE @]

\* closeSend, from Close, CancelWrite, a failed Write or the end of the
\* stream's context; the first of them counts.
CloseSendSide(s) ==
    /\ s \in n.registered \ n.send
    /\ n' = [(IF s \in n.recv THEN ClearStream(n, s) ELSE n) EXCEPT !.send = @ \cup {s}]

SignalHasData(t, s) == [t EXCEPT !.hasData[s] = TRUE]

\* Mutant: SetReceiveError does not signal.
CloseReceiveSilent(s) ==
    /\ s \in n.registered \ n.recv
    /\ n' = [(IF s \in n.send THEN ClearStream(n, s) ELSE n) EXCEPT !.recv = @ \cup {s}]

\* closeReceive, from CancelRead or a failed Read (EOF included); the
\* datagrammer's SetReceiveError wakes a receiver.
CloseReceiveSide(s) ==
    /\ s \in n.registered \ n.recv
    /\ n' = SignalHasData([(IF s \in n.send THEN ClearStream(n, s) ELSE n) EXCEPT !.recv = @ \cup {s}], s)

\* onIdleTimer.
IdleTimer ==
    \/ n.timer = "running" /\ n' = [n EXCEPT !.timer = "fired"]
    \/ n.timer = "fired" /\ n' = [CloseWithError(n) EXCEPT !.timer = "stopped"]

PeerCloses == ~n.closed /\ n' = CloseQUIC(n)

\* handleUnidirectionalStreams: a stream of each known type may come once; a
\* push stream is an error, an unknown one is ignored.
UniStream(type) ==
    /\ ~n.closed /\ n.uni < MaxUniStreams
    /\ \/ type \in {"control", "encoder", "decoder"} /\ type \in n.rcvd /\ n' = [CloseQUIC(n) EXCEPT !.uni = @ + 1]
       \/ type \in {"control", "encoder", "decoder"} /\ type \notin n.rcvd
             /\ n' = [n EXCEPT !.rcvd = @ \cup {type}, !.uni = @ + 1, !.parsing = @ \/ type = "control"]
       \/ type = "push" /\ n' = [CloseQUIC(n) EXCEPT !.uni = @ + 1]
       \/ type = "unknown" /\ n' = [n EXCEPT !.uni = @ + 1]

\* handleUnidirectionalStreams, on the control stream: the first frame must be
\* SETTINGS; with datagrams on both sides the loop that receives them starts.
ControlFrame ==
    /\ n.parsing
    /\ \/ n' = CloseQUIC([n EXCEPT !.parsing = FALSE])
       \/ ~n.closed /\ \E datagram \in BOOLEAN :
             LET t == [n EXCEPT !.parsing = FALSE, !.settings = IF datagram THEN "datagram" ELSE "plain"]
             IN  n' = IF ~datagram THEN t
                      ELSE IF n.enable /\ ~n.supported THEN CloseQUIC(t)
                      ELSE [t EXCEPT !.loop = "run"]

\* receiveDatagrams: a datagram is looked up in the map; one for a stream that
\* is not there ends the loop, a malformed one closes the connection.
ReceiveDatagrams ==
    /\ n.loop = "run"
    /\ \/ n.closed /\ n' = [n EXCEPT !.loop = "ended"]
       \/ /\ ~n.closed /\ n.arrived < MaxDatagrams
          /\ \/ n' = [CloseQUIC(n) EXCEPT !.loop = "ended", !.arrived = @ + 1]
             \/ \E s \in RequestStreams \ n.streams : n' = [n EXCEPT !.loop = "ended", !.arrived = @ + 1]
             \/ \E s \in n.streams : n' = [n EXCEPT !.loop = "enqueue", !.dgram = s, !.arrived = @ + 1]

\* datagrammer.enqueue, after the map's mutex was released.
Enqueue ==
    /\ n.loop = "enqueue"
    /\ LET s == n.dgram
           t == [n EXCEPT !.loop = "run", !.dgram = "none"]
       IN  n' = IF s \in n.recv \/ n.queue[s] >= StreamDatagramQueueLen THEN t
                ELSE SignalHasData([t EXCEPT !.queue[s] = @ + 1], s)

(***************************************************************************)
(* datagrammer.Receive: the queue, then the error, then the wait, which    *)
(* the caller's context may end.                                           *)
(***************************************************************************)
Receive(s) ==
    \/ /\ n.receiver[s] = "idle" /\ s \in n.registered
       /\ \/ n.queue[s] > 0 /\ n' = [n EXCEPT !.queue[s] = @ - 1]
          \/ n.queue[s] = 0 /\ s \in n.recv /\ n' = [n EXCEPT !.receiver[s] = "returned"]
          \/ n.queue[s] = 0 /\ s \notin n.recv /\ n' = [n EXCEPT !.receiver[s] = "waiting"]
    \/ /\ n.receiver[s] = "waiting" /\ n.hasData[s]
       /\ n' = [n EXCEPT !.receiver[s] = "idle", !.hasData[s] = FALSE]
    \/ /\ n.receiver[s] = "waiting"
       /\ n' = [n EXCEPT !.receiver[s] = "returned"]

ConnNext ==
    \/ \E s \in RequestStreams : AcceptStream(s) \/ CloseSendSide(s) \/ CloseReceiveSide(s) \/ Receive(s)
    \/ \E type \in {"control", "encoder", "decoder", "push", "unknown"} : UniStream(type)
    \/ IdleTimer \/ PeerCloses \/ ControlFrame \/ ReceiveDatagrams \/ Enqueue

ConnSpec == ConnInit /\ [][ConnNext]_n

(***************************************************************************)
(* A stream is in the map exactly while one of its sides is unfinished,    *)
(* and the idle timer never runs beside a stream and always runs without   *)
(* one: a request is not cut off by the timeout that was armed before it,  *)
(* and an idle connection is closed.  (acceptStream, clearStream,          *)
(* closeSend, closeReceive)                                                *)
(***************************************************************************)
StreamsTracked ==
    /\ n.streams = n.registered \ (n.send \cap n.recv)
    /\ n.timer = "running" => n.streams = {}
    /\ n.timer = "stopped" => n.streams # {} \/ n.closed

(***************************************************************************)
(* A receiver of datagrams never sleeps beside a datagram or an error: the *)
(* one-slot channel holds a signal.  (datagrammer.enqueue,                 *)
(* SetReceiveError, Receive)                                               *)
(***************************************************************************)
DatagramReceiverWoken ==
    \A s \in RequestStreams : n.receiver[s] = "waiting" /\ (n.queue[s] > 0 \/ s \in n.recv) => n.hasData[s]

\* The streams of a connection and the readers of its datagrams (conn.go, datagram.go).
ConnTracked == StreamsTracked /\ DatagramReceiverWoken
=============================================================================
