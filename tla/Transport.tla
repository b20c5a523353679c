----------------------------- MODULE Transport -----------------------------
(***************************************************************************)
(* A Transport (transport.go, u_transport.go), the server listening on it  *)
(* (server.go), its map of packet handlers (packet_handler_map.go) and one *)
(* call of Dial, with every goroutine they start: the reader of the        *)
(* socket, the server's run loop and its sender of rejections, one         *)
(* handleNewConn per connection, Accept, doDial and the goroutine it       *)
(* starts, and the callers of Transport.Close and Listener.Close.          *)
(*                                                                         *)
(* Everything is a field of one record s.  A connection is its life cycle  *)
(* as the transport sees it (ConnectionLoop has the rest); it is named by  *)
(* the connection ID that routes to it, which no other connection uses.    *)
(***************************************************************************)
EXTENDS Naturals, Sequences, FiniteSets

CONSTANTS
    Ids,            \* the destination connection IDs of the clients
    Tokens,         \* what an Initial may carry: "none", "valid", "stale", "badRetry"
    MaxPackets,     \* bound on the packets that arrive from clients, by kind of transport
    MaxTime,        \* bound on the clock
    ReceiveQueue,   \* protocol.MaxServerUnprocessedPackets
    ReplyQueue,     \* capacity of each queue of packets to reject
    AcceptQueue,    \* protocol.MaxAcceptQueueSize
    Max0RTTQueues, Max0RTTQueueLen, Max0RTTQueueingDuration

VARIABLE s
vars == <<s>>

Step(t) == s' = t
Conns == Ids \cup {"dial"}
Closers == {"transport", "listener", "reader", "dialer"}
Replies == {"version", "retry", "invalidToken", "refused"}
First == CHOOSE i \in Ids : TRUE
Packets == [type : {"initial"}, id : Ids, token : Tokens]
           \cup [type : {"zeroRTT"}, id : Ids, token : {"none"}]
           \cup [type : {"version"}, id : {First}, token : {"none"}]

\* destroy and closeWithTransportError ask a connection to close and wait for it.
Destroy(t, C) == [t EXCEPT !.conn = [c \in Conns |-> IF c \in C /\ @[c] \in {"handshake", "ready"}
                                                      THEN "closing" ELSE @[c]]]

-----------------------------------------------------------------------------
(* Connections *)

\* HandshakeComplete() is closed.
HandshakeComplete(c) ==
    /\ s.conn[c] = "handshake"
    /\ Step([s EXCEPT !.conn[c] = "ready", !.completed = @ \cup {c}])

\* The end of connection.run: its connection IDs are gone and its context is done.  The
\* client is to be recreated when a Version Negotiation packet comes first.
RunReturns(c, e) ==
    /\ s.conn[c] \in {"handshake", "ready", "closing"}
    /\ e = "recreate" => c = "dial" /\ s.conn[c] = "handshake" /\ ~s.negotiated
    /\ Step([s EXCEPT !.conn[c] = "closed", !.map = @ \ {c}, !.recreate = (e = "recreate")])

-----------------------------------------------------------------------------
(* Transport.close, Transport.Close, baseServer.close and closeServer *)

\* After Transport.close the reader returns; Close interrupts it and waits for it.
AfterClose(t, a) ==
    IF a = "reader" THEN [t EXCEPT !.pc[a] = "done", !.reader = "done"]
    ELSE [t EXCEPT !.pc[a] = "listening", !.socket = IF s.conf.created THEN "closed" ELSE "deadline"]

\* Mutant: the mutex is not held while the connections are destroyed.
CloseWithoutMutex(a) ==
    /\ s.pc[a] = "lock" /\ s.mutex = "none"
    /\ IF s.closeErr # "none" THEN Step(AfterClose(s, a))
       ELSE Step([Destroy(s, s.map) EXCEPT !.snapshot = s.map, !.pc[a] = "destroy"])

\* Transport.close takes the mutex and has every handler of the map destroyed, ...
CloseLocks(a) ==
    /\ s.pc[a] = "lock" /\ s.mutex = "none"
    /\ IF s.closeErr # "none" THEN Step(AfterClose(s, a))
       ELSE Step([Destroy(s, s.map) EXCEPT !.mutex = a, !.snapshot = s.map, !.pc[a] = "destroy"])

Finish(t, a) == AfterClose([t EXCEPT !.closeErr = "transport", !.mutex = "none"], a)

\* ... waits for that, and closes the server.
HandlersDestroyed(a) ==
    /\ s.pc[a] = "destroy" /\ \A c \in s.snapshot : s.conn[c] = "closed"
    /\ LET t == [s EXCEPT !.snapshot = {}]
       IN  Step(IF s.server THEN [t EXCEPT !.pc[a] = "server"] ELSE Finish(t, a))

\* baseServer.close under closeMx: a second call returns; the first stops the run loop ...
ServerClose(a) ==
    /\ s.pc[a] = "server" /\ \A b \in Closers : s.pc[b] # "running"
    /\ Step(IF ~s.errorChan THEN [s EXCEPT !.errorChan = TRUE, !.pc[a] = "running"]
            ELSE IF a = "listener" THEN [s EXCEPT !.pc[a] = "done"]
            ELSE Finish(s, a))
ServerRan(a) ==
    /\ s.pc[a] = "running" /\ ~s.running
    /\ Step([s EXCEPT !.pc[a] = IF a = "listener" THEN "notify" ELSE "handshakes"])

\* Mutant: closeServer keeps the mutex while it waits for the reader.
CloseServerLocked ==
    /\ s.pc["listener"] = "notify" /\ s.mutex = "none"
    /\ Step([s EXCEPT !.server = FALSE, !.mutex = IF s.conf.single THEN "listener" ELSE @,
                      !.closeErr = IF s.conf.single THEN "server" ELSE @,
                      !.socket = IF s.conf.created THEN "closed" ELSE IF s.conf.single THEN "deadline" ELSE @,
                      !.pc["listener"] = IF s.conf.single THEN "listening" ELSE "handshakes"])

\* ... tells the transport (only Listener.Close does) ...
CloseServer ==
    /\ s.pc["listener"] = "notify" /\ s.mutex = "none"
    /\ Step([s EXCEPT !.server = FALSE,
                      !.closeErr = IF s.conf.single THEN "server" ELSE @,
                      !.socket = IF s.conf.created THEN "closed" ELSE IF s.conf.single THEN "deadline" ELSE @,
                      !.pc["listener"] = IF s.conf.single THEN "listening" ELSE "handshakes"])
ListeningDone(a) ==
    /\ s.pc[a] = "listening" /\ s.reader = "done"
    /\ Step([s EXCEPT !.pc[a] = IF a = "listener" THEN "handshakes" ELSE "done"])

\* ... and stops Accept when every handleNewConn has returned.
HandshakesDone(a) ==
    /\ s.pc[a] = "handshakes" /\ \A c \in Ids : s.handler[c] \in {"none", "done"}
    /\ LET t == [s EXCEPT !.stopAccepting = TRUE]
       IN  Step(IF a = "listener" THEN [t EXCEPT !.pc[a] = "done"] ELSE Finish(t, a))

CallClose(a) ==
    /\ s.pc[a] = "idle" /\ a \in (IF s.conf.single THEN {"listener"} ELSE {"transport", "listener"})
    /\ a = "listener" => s.conf.listen
    /\ Step([s EXCEPT !.pc[a] = IF a = "listener" THEN "server" ELSE "lock"])

-----------------------------------------------------------------------------
(* The reader of the socket *)

\* handlePacket: a packet of a known connection goes there.
ReadPacket(p) ==
    /\ s.reader = "read" /\ s.socket = "open" /\ s.packets < MaxPackets[s.conf.kind]
    /\ p.type = "zeroRTT" => s.conf.early
    /\ p.type = "version" \/ p.token # "none" => s.conf.kind = "listen"
    /\ Step(IF p.id \in s.map THEN [s EXCEPT !.packets = @ + 1]
            ELSE [s EXCEPT !.packets = @ + 1, !.reader = "dispatch", !.packet = <<p, s.now>>])

\* The others go to the server, if there is one; select chooses between a free place in
\* its queue and its being closed.
Dispatch ==
    /\ s.reader = "dispatch" /\ s.mutex = "none"
    /\ LET t == [s EXCEPT !.reader = "read", !.packet = <<>>]
       IN  \/ /\ s.server /\ Len(s.receive) < ReceiveQueue
              /\ Step([t EXCEPT !.receive = Append(@, s.packet)])
           \/ /\ ~s.server \/ s.errorChan \/ Len(s.receive) = ReceiveQueue
              /\ Step(t)

\* maybeHandleStatelessReset
StatelessReset(c) ==
    /\ s.reader = "read" /\ s.socket = "open" /\ c \in s.map
    /\ Step(Destroy(s, {c}))

\* The deadline that closing sets is a temporary error; any other one closes the transport.
ReadDeadline ==
    /\ s.reader = "read" /\ s.socket = "deadline" /\ s.mutex = "none" /\ s.closeErr # "none"
    /\ Step([s EXCEPT !.reader = "done"])
ReadFails ==
    /\ s.reader = "read" /\ s.socket # "deadline"
    /\ Step([s EXCEPT !.reader = "closing", !.pc["reader"] = "lock"])

Tick ==
    /\ s.conf.early /\ s.running /\ s.now < MaxTime /\ s.packets \in 1..(MaxPackets[s.conf.kind] - 1)
    /\ Step([s EXCEPT !.now = @ + 1])

-----------------------------------------------------------------------------
(* The server's run loop *)

NoQueue == [n |-> 0, exp |-> 0]

ServerStops ==
    /\ s.running /\ s.errorChan
    /\ Step([s EXCEPT !.running = FALSE, !.receive = <<>>, !.zeroRTT = [i \in Ids |-> NoQueue],
                      !.cleanup = 0, !.now = 0, !.reply = [r \in Replies |-> 0]])

\* cleanupZeroRTTQueues (0 is no time): expired queues go, the next cleanup is the
\* earliest expiration of the others.
CleanupZeroRTTQueues(t, at) ==
    LET kept == {i \in Ids : t.zeroRTT[i].n > 0 /\ t.zeroRTT[i].exp > at}
        earliest == {e \in 1..(MaxTime + Max0RTTQueueingDuration) : \E i \in kept : t.zeroRTT[i].exp = e}
    IN  [t EXCEPT !.zeroRTT = [i \in Ids |-> IF i \in kept THEN @[i] ELSE NoQueue],
                  !.cleanup = IF kept = {} THEN 0 ELSE CHOOSE e \in earliest : \A f \in earliest : e <= f]

\* handle0RTTPacket queues the packet until its connection exists.
Handle0RTTPacket(t, i, at) ==
    LET open == {j \in Ids : t.zeroRTT[j].n > 0}
        expiration == at + Max0RTTQueueingDuration
    IN  IF i \in t.map \/ t.zeroRTT[i].n = Max0RTTQueueLen THEN t
        ELSE IF i \in open THEN [t EXCEPT !.zeroRTT[i].n = @ + 1]
        ELSE IF Cardinality(open) >= Max0RTTQueues THEN t
        ELSE [t EXCEPT !.zeroRTT[i] = [n |-> 1, exp |-> expiration],
                       !.cleanup = IF @ = 0 \/ @ > expiration THEN expiration ELSE @]

\* A packet to reject waits for runSendQueue, or is dropped when its queue is full.
Reject(t, r) == [t EXCEPT !.reply[r] = IF @ < ReplyQueue THEN @ + 1 ELSE @]

\* The connection handleInitialImpl creates, with the 0-RTT packets that came first.
NewConn(t, i) ==
    [t EXCEPT !.conn[i] = "handshake", !.map = @ \cup {i}, !.handler[i] = "wait",
              !.zeroRTT[i] = NoQueue]

\* handleInitialImpl: a bad Retry token is an error, any other bad token is ignored;
\* then the address may have to be validated, and the application may refuse.
HandleInitial(t, i, token, verify, refuse) ==
    IF i \in t.map THEN t
    ELSE IF token = "badRetry" THEN Reject(t, "invalidToken")
    ELSE IF token # "valid" /\ verify THEN Reject([t EXCEPT !.zeroRTT[i] = NoQueue], "retry")
    ELSE IF refuse THEN Reject([t EXCEPT !.zeroRTT[i] = NoQueue], "refused")
    ELSE IF t.conn[i] = "none" THEN NewConn(t, i) ELSE t

\* handlePacketImpl: a cleanup that is due comes after the packet.
HandlePacketImpl(verify, refuse) ==
    /\ s.running /\ s.receive # <<>>
    /\ LET p  == Head(s.receive)[1]
           at == Head(s.receive)[2]
           t  == [s EXCEPT !.receive = Tail(@)]
           u  == CASE p.type = "version" -> Reject(t, "version")
                   [] p.type = "zeroRTT" -> Handle0RTTPacket(t, p.id, at)
                   [] p.type = "initial" -> HandleInitial(t, p.id, p.token, verify, refuse)
       IN  /\ p.type = "initial" \/ (~verify /\ ~refuse)
           /\ Step(IF s.cleanup # 0 /\ at > s.cleanup THEN CleanupZeroRTTQueues(u, at) ELSE u)

\* runSendQueue
SendReply(r) ==
    /\ s.running /\ s.reply[r] > 0
    /\ Step([s EXCEPT !.reply[r] = @ - 1])

-----------------------------------------------------------------------------
(* handleNewConn and Accept *)

\* The select: the server is closed, the connection is gone, or it is ready.
NewConnRefused(c) ==
    /\ s.handler[c] = "wait" /\ s.errorChan
    /\ Step([Destroy(s, {c}) EXCEPT !.handler[c] = "refuse"])
NewConnGone(c) ==
    /\ s.handler[c] \in {"wait", "refuse"} /\ s.conn[c] = "closed"
    /\ Step([s EXCEPT !.handler[c] = "done"])
NewConnReady(c) ==
    /\ s.handler[c] = "wait" /\ (c \in s.completed \/ s.conf.early)
    /\ Step([s EXCEPT !.handler[c] = "push"])

\* A ready connection is queued for Accept, or refused when the queue is full.
QueueConn(c) ==
    /\ s.handler[c] = "push"
    /\ Step(IF Len(s.queue) < AcceptQueue THEN [s EXCEPT !.queue = Append(@, c), !.handler[c] = "done"]
            ELSE [Destroy(s, {c}) EXCEPT !.handler[c] = "refuse"])

\* Accept takes a connection, and fails when the server is closed and none is left.
Accept ==
    /\ s.queue # <<>>
    /\ Step([s EXCEPT !.accepted = @ \cup {Head(s.queue)}, !.queue = Tail(@)])
AcceptFails ==
    /\ s.stopAccepting /\ s.queue = <<>> /\ ~s.acceptErr
    /\ Step([s EXCEPT !.acceptErr = TRUE])

-----------------------------------------------------------------------------
(* doDial *)

\* Under the mutex: the connection is added to the map unless the transport is closed.
DoDial ==
    /\ s.dial = "call" /\ s.mutex = "none"
    /\ Step(IF s.closeErr # "none" THEN [s EXCEPT !.dial = "failed"]
            ELSE [s EXCEPT !.dial = "wait", !.routine = "run", !.conn["dial"] = "handshake", !.map = @ \cup {"dial"}])

\* The goroutine that called run: the errors are handed over; a single-use transport is
\* closed first.
RoutineReturns ==
    /\ s.routine = "run" /\ s.conn["dial"] = "closed"
    /\ Step(IF s.recreate THEN [s EXCEPT !.routine = "recreate"]
            ELSE IF s.conf.single THEN [s EXCEPT !.routine = "closing", !.pc["dialer"] = "lock"]
            ELSE [s EXCEPT !.routine = "error"])
RoutineCloses ==
    /\ s.routine = "closing" /\ s.pc["dialer"] = "done"
    /\ Step([s EXCEPT !.routine = "error"])

\* doDial's select
DialDone ==
    /\ s.dial = "wait" /\ ("dial" \in s.completed \/ s.conf.early)
    /\ Step([s EXCEPT !.dial = "conn"])
DialCancelled ==
    /\ s.dial = "wait"
    /\ Step([Destroy(s, {"dial"}) EXCEPT !.dial = "abort"])
DialFailed ==
    /\ s.dial \in {"wait", "abort"} /\ s.routine = "error"
    /\ Step([s EXCEPT !.dial = "failed", !.routine = "done"])
DialRecreates ==
    /\ s.dial \in {"wait", "abort"} /\ s.routine = "recreate"
    /\ Step([s EXCEPT !.dial = IF @ = "wait" THEN "call" ELSE "failed", !.routine = "done", !.negotiated = TRUE])

-----------------------------------------------------------------------------
\* One transport of each kind: shared by a listener and Dial; with a listener only, for
\* more or (Listen) for that alone; made by ListenAddrEarly; made by Dial or DialAddr.
Configs ==
    [kind : {"shared"}, single : {FALSE}, created : {FALSE}, listen : {TRUE}, dials : {TRUE}, early : {FALSE}]
    \cup [kind : {"listen"}, single : BOOLEAN, created : {FALSE}, listen : {TRUE}, dials : {FALSE}, early : {FALSE}]
    \cup [kind : {"early"}, single : {TRUE}, created : {TRUE}, listen : {TRUE}, dials : {FALSE}, early : {TRUE}]
    \cup [kind : {"dial"}, single : {TRUE}, created : BOOLEAN, listen : {FALSE}, dials : {TRUE}, early : BOOLEAN]

Init ==
    \E f \in Configs :
        s = [conf |-> f, closeErr |-> "none", server |-> f.listen, mutex |-> "none", snapshot |-> {},
             map |-> {}, pc |-> [a \in Closers |-> "idle"], socket |-> "open", reader |-> "read",
             packet |-> <<>>, packets |-> 0, now |-> 0,
             errorChan |-> FALSE, running |-> f.listen, stopAccepting |-> FALSE, receive |-> <<>>,
             zeroRTT |-> [i \in Ids |-> NoQueue], cleanup |-> 0, reply |-> [r \in Replies |-> 0],
             conn |-> [c \in Conns |-> "none"], completed |-> {}, recreate |-> FALSE, negotiated |-> FALSE,
             handler |-> [c \in Ids |-> "none"], queue |-> <<>>,
             accepted |-> {}, acceptErr |-> FALSE,
             dial |-> IF f.dials THEN "call" ELSE "none", routine |-> "none"]

Next ==
    \/ \E c \in Conns : HandshakeComplete(c) \/ StatelessReset(c) \/ \E e \in {"error", "recreate"} : RunReturns(c, e)
    \/ \E a \in Closers : \/ CallClose(a) \/ CloseLocks(a) \/ HandlersDestroyed(a) \/ ServerClose(a)
                          \/ ServerRan(a) \/ ListeningDone(a) \/ HandshakesDone(a)
    \/ CloseServer
    \/ (\E p \in Packets : ReadPacket(p)) \/ Dispatch \/ ReadDeadline \/ ReadFails \/ Tick
    \/ ServerStops \/ \E v, r \in BOOLEAN : HandlePacketImpl(v, r)
    \/ \E r \in Replies : SendReply(r)
    \/ \E c \in Ids : NewConnRefused(c) \/ NewConnGone(c) \/ NewConnReady(c) \/ QueueConn(c)
    \/ Accept \/ AcceptFails
    \/ DoDial \/ RoutineReturns \/ RoutineCloses \/ DialDone \/ DialCancelled \/ DialFailed \/ DialRecreates

Spec == Init /\ [][Next]_vars

-----------------------------------------------------------------------------
(* Properties *)

\* A connection whose handleNewConn has returned has an owner: it is in the accept queue,
\* the application has it, or it is closed or about to be.  And once the transport was
\* closed, no dialed connection is open (transport.go, close and doDial under one mutex).
NoOrphan ==
    /\ \A c \in Ids : s.handler[c] = "done" =>
           c \in s.accepted \/ s.conn[c] \in {"closing", "closed"} \/ \E k \in 1..Len(s.queue) : s.queue[k] = c
    /\ s.closeErr = "transport" => s.conn["dial"] \in {"none", "closed"}

\* Accept reports that the server is closed only when no connection will ever be queued
\* again: the ones that completed the handshake are handed out first (server.go, the
\* comment on stopAccepting).
DrainedBeforeError ==
    s.acceptErr => s.queue = <<>> /\ \A c \in Ids : s.handler[c] \in {"none", "done"}

\* A cleanup is scheduled no later than any queue of 0-RTT packets expires, so that no
\* queue outlives the next packet after its expiration (server.go, cleanupZeroRTTQueues).
CleanupScheduled ==
    \A i \in Ids : s.zeroRTT[i].n > 0 => s.cleanup # 0 /\ s.cleanup <= s.zeroRTT[i].exp

\* Nobody waits for ever: when no step is possible, every call of Transport.Close and
\* Listener.Close, every handleNewConn and every Dial has returned (they take two mutexes
\* and wait for each other's goroutines; every behaviour of the model is finite).
NobodyStuck ==
    \/ ENABLED Next
    \/ /\ \A a \in Closers : s.pc[a] \in {"idle", "done"}
       /\ \A c \in Ids : s.handler[c] \in {"none", "done"}
       /\ s.dial \in {"none", "conn", "failed"} /\ s.routine \in {"none", "run", "recreate", "error", "done"}

\* Every connection has an owner, Accept reports an error only after what was queued, and
\* queued 0-RTT packets do not stay.
ServerSound == NoOrphan /\ DrainedBeforeError /\ CleanupScheduled

\* The bounds on arriving packets that the run uses, by kind of transport.
PacketBounds == [kind \in {"shared", "listen", "early", "dial"} |->
                    CASE kind = "early" -> 3 [] kind = "listen" -> 2 [] OTHER -> 1]
=============================================================================
