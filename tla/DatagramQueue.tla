--------------------------- MODULE DatagramQueue ---------------------------
(***************************************************************************)
(* The queues of DATAGRAM frames (datagram_queue.go): goroutines that add  *)
(* datagrams and block while the queue is full, the packer that pops them, *)
(* the limit the peer sets (again when 0-RTT was attempted), received      *)
(* datagrams and the goroutine that receives them, and the close.  Every   *)
(* critical section of sendMx and rcvMx is one step.                       *)
(***************************************************************************)
EXTENDS Naturals, Sequences, FiniteSets, SequencesExt

CONSTANTS
    Adders,                 \* goroutines calling Add
    Receivers,              \* goroutines calling Receive
    Limits,                 \* values of maxOutgoingDatagramFrameSize
    SizeOf,                 \* size of the datagram of each adder
    MaxDatagramSendQueueLen, MaxDatagramRcvQueueLen,
    MaxArrivals             \* bound on the datagrams received

VARIABLE d

Queue(t) == d' = t
Waiting == {a \in Adders : d.add[a] = "waiting"}
Valid(a, limit) == SizeOf[a] <= limit

-----------------------------------------------------------------------------
\* One turn of the loop of Add, at its start or after sendCond woke it up.
Add(a) ==
    /\ d.add[a] \in {"new", "woken"}
    /\ Queue(IF d.closed \/ ~Valid(a, d.limit) THEN [d EXCEPT !.add[a] = "error"]
             ELSE IF Len(d.send) < MaxDatagramSendQueueLen THEN [d EXCEPT !.add[a] = "done", !.send = Append(@, a)]
             ELSE [d EXCEPT !.add[a] = "waiting", !.cond = Append(@, a)])

\* sendCond.Broadcast and sendCond.Signal
Broadcast(t) ==
    [t EXCEPT !.cond = <<>>, !.add = [a \in Adders |-> IF @[a] = "waiting" THEN "woken" ELSE @[a]]]
Signal(t) ==
    IF t.cond = <<>> THEN t ELSE [t EXCEPT !.cond = Tail(@), !.add[Head(t.cond)] = "woken"]

\* Mutant: only one of the blocked senders is woken up.
SignalLimit(n) ==
    /\ ~d.closed /\ n \in Limits \ {d.limit}
    /\ Queue(Signal([d EXCEPT !.limit = n, !.send = SelectSeq(@, LAMBDA a : Valid(a, n))]))

SetMaxOutgoingDatagramFrameSize(n) ==
    /\ ~d.closed /\ n \in Limits \ {d.limit}
    /\ Queue(Broadcast([d EXCEPT !.limit = n, !.send = SelectSeq(@, LAMBDA a : Valid(a, n))]))

\* The packer peeked at the first datagram and sent it, or dropped it because it is too large.
Pop ==
    /\ d.send # <<>>
    /\ Queue(Signal([d EXCEPT !.send = Tail(@)]))

-----------------------------------------------------------------------------
HandleDatagramFrame ==
    /\ ~d.closed /\ d.arrivals < MaxArrivals
    /\ Queue(IF d.rcv >= MaxDatagramRcvQueueLen THEN [d EXCEPT !.arrivals = @ + 1]
             ELSE [d EXCEPT !.arrivals = @ + 1, !.rcv = @ + 1, !.rcvd = TRUE])

\* Receive takes a datagram if there is one, ...
Receive(r) ==
    /\ d.recv[r] = "check"
    /\ Queue(IF d.rcv > 0 THEN [d EXCEPT !.rcv = @ - 1] ELSE [d EXCEPT !.recv[r] = "unlocked"])
\* ... or waits for the notification, the close or its context.
ReceiveWaits(r) ==
    /\ d.recv[r] = "unlocked"
    /\ Queue([d EXCEPT !.recv[r] = "select"])
ReceiveWakes(r) ==
    /\ d.recv[r] = "select" /\ d.rcvd
    /\ Queue([d EXCEPT !.recv[r] = "check", !.rcvd = FALSE])
ReceiveReturns(r) ==
    /\ d.recv[r] = "select"
    /\ Queue([d EXCEPT !.recv[r] = IF d.closed THEN "closed" ELSE "check"])

CloseWithError ==
    /\ ~d.closed
    /\ Queue(Broadcast([d EXCEPT !.closed = TRUE]))

DatagramInit ==
    \E n \in Limits :
        d = [limit |-> n, send |-> <<>>, add |-> [a \in Adders |-> "new"], cond |-> <<>>, rcv |-> 0, rcvd |-> FALSE,
             recv |-> [r \in Receivers |-> "check"], arrivals |-> 0, closed |-> FALSE]

DatagramNext ==
    \/ (\E a \in Adders : Add(a)) \/ (\E n \in Limits : SetMaxOutgoingDatagramFrameSize(n)) \/ Pop
    \/ HandleDatagramFrame \/ CloseWithError
    \/ \E r \in Receivers : Receive(r) \/ ReceiveWaits(r) \/ ReceiveWakes(r) \/ ReceiveReturns(r)

-----------------------------------------------------------------------------
\* A sender is only left blocked in Add while its datagram is allowed and the queue is full,
\* or while a sender that was woken up has yet to look; and what is queued respects the
\* limit of the peer (datagram_queue.go, Add, Pop, SetMaxOutgoingDatagramFrameSize).
NoStrandedSender ==
    /\ \A a \in Waiting : /\ ~d.closed /\ Valid(a, d.limit)
                          /\ \/ Len(d.send) >= MaxDatagramSendQueueLen
                             \/ \E b \in Adders : d.add[b] = "woken"
    /\ \A k \in 1..Len(d.send) : Valid(d.send[k], d.limit)

\* A receiver does not wait while a datagram is queued and nothing is going to wake it up
\* (datagram_queue.go, HandleDatagramFrame and Receive, with one receiver).
ReceiverNotified ==
    \A r \in Receivers : d.recv[r] \in {"unlocked", "select"} /\ d.rcv > 0 => d.rcvd

\* Nobody is left waiting at either end of the DATAGRAM queues: see the two definitions above.
DatagramsServed == NoStrandedSender /\ ReceiverNotified
=============================================================================
