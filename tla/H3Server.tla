------------------------------ MODULE H3Server ------------------------------
(***************************************************************************)
(* http3/server.go: how an HTTP/3 server takes connections (from a         *)
(* listener and through ServeQUICConn), counts them, and stops them in     *)
(* Close and Shutdown.                                                     *)
(*                                                                         *)
(* One goroutine serves the listener, one handles each connection, one     *)
(* calls Close and one Shutdown.  The mutex is held by Close while it      *)
(* waits for the connections; everything else it protects is one step.     *)
(* A channel is a number; s.chan is connHandlingDone and s.closedChans the *)
(* channels that were closed.                                              *)
(***************************************************************************)
EXTENDS Naturals, FiniteSets

CONSTANTS
    Listened,      \* connections that arrive on the listener
    Direct,        \* connections passed to ServeQUICConn
    MaxRequests,   \* bound: requests of one connection
    Deadline       \* the context of Shutdown has a deadline

VARIABLE s

Conns == Listened \cup Direct
Callers == {"close", "shutdown"}
Serving == {"start", "loop", "drain", "wait", "done", "check"}

ServerInit ==
    s = [closed |-> FALSE, used |-> FALSE, closing |-> FALSE, grace |-> FALSE, locked |-> FALSE,
         count |-> 0, chan |-> 0, closedChans |-> {}, panicked |-> FALSE,
         listener |-> "new", listenerClosed |-> FALSE, taken |-> {},
         pc |-> [c \in Conns |-> "new"], connClosed |-> [c \in Conns |-> FALSE],
         next |-> [c \in Conns |-> 0], running |-> [c \in Conns |-> {}], goAway |-> [c \in Conns |-> MaxRequests],
         caller |-> [k \in Callers |-> "idle"], waits |-> 0]

Goto(t, c, p) == [t EXCEPT !.pc[c] = p]

(***************************************************************************)
(* init: the contexts are made once, connHandlingDone at every call.       *)
(***************************************************************************)
InitServer(t) == [t EXCEPT !.used = TRUE, !.chan = @ + 1]

\* ServeListener, Serve and ListenAndServe: addListener under the mutex.
AddListener ==
    /\ s.listener = "new" /\ ~s.locked
    /\ s' = IF s.closed THEN [s EXCEPT !.listener = "returned"] ELSE [InitServer(s) EXCEPT !.listener = "accept"]

\* serveListener: Accept returns a connection, which it may do after the grace
\* context was cancelled.
AcceptConn(c) ==
    /\ s.listener = "accept" /\ ~s.listenerClosed /\ s.taken = {} /\ s.pc[c] = "new" /\ c \in Listened
    /\ s' = [Goto(s, c, "accepted") EXCEPT !.taken = {c}]

\* serveListener: the error and grace check after Accept; a connection that
\* came with a cancelled context is dropped.
CheckGrace ==
    /\ s.listener = "accept"
    /\ \/ s.grace /\ s' = [s EXCEPT !.listener = "remove", !.taken = {},
                                    !.pc = [c \in Conns |-> IF c \in s.taken THEN "dropped" ELSE @[c]]]
       \/ s.listenerClosed /\ s.taken = {} /\ s' = [s EXCEPT !.listener = "remove"]
       \/ ~s.grace /\ s.taken # {} /\ s' = [s EXCEPT !.listener = "count"]

\* serveListener: the connection is counted and its goroutine started.
CountConn(c) ==
    /\ s.listener = "count" /\ c \in s.taken
    /\ s' = [Goto(s, c, "start") EXCEPT !.count = @ + 1, !.taken = {}, !.listener = "accept"]

RemoveListener ==
    /\ s.listener = "remove" /\ ~s.locked
    /\ s' = [s EXCEPT !.listener = "returned"]

\* ServeQUICConn: init under the mutex, then the count.
ServeQUICConn(c) ==
    /\ c \in Direct
    /\ \/ s.pc[c] = "new" /\ ~s.locked /\ s' = InitServer(Goto(s, c, "accepted"))
       \/ s.pc[c] = "accepted" /\ s' = [Goto(s, c, "start") EXCEPT !.count = @ + 1]

\* handleConn: the control stream is opened, which fails on a closed connection.
StartConn(c) ==
    /\ s.pc[c] = "start"
    /\ s' = Goto(s, c, IF s.connClosed[c] THEN "done" ELSE "loop")

\* handleConn: a request stream is accepted and its handler started.
AcceptRequest(c) ==
    /\ s.pc[c] = "loop" /\ ~s.connClosed[c] /\ s.next[c] < MaxRequests
    /\ s' = [s EXCEPT !.next[c] = @ + 1, !.running[c] = @ \cup {s.next[c]}]

\* handleConn: acceptStream failed, because the grace context is done or the
\* connection is closed.
AcceptFails(c) ==
    /\ s.pc[c] = "loop" /\ (s.grace \/ s.connClosed[c])
    /\ s' = IF s.closing THEN [Goto(s, c, "wait") EXCEPT !.connClosed[c] = TRUE]
            ELSE IF s.grace THEN [Goto(s, c, "drain") EXCEPT !.goAway[c] = s.next[c]]
            ELSE Goto(s, c, "wait")

\* handleConn: after the GOAWAY, the client closes or the grace period ends.
Drained(c) ==
    /\ s.pc[c] = "drain" /\ (s.connClosed[c] \/ s.closing)
    /\ s' = [Goto(s, c, "wait") EXCEPT !.connClosed[c] = TRUE]

HandlerDone(c) ==
    \E r \in s.running[c] : s' = [s EXCEPT !.running[c] = @ \ {r}]

ConnDone(c) ==
    /\ s.pc[c] = "wait" /\ s.running[c] = {}
    /\ s' = Goto(s, c, "done")

\* Mutant: the count is compared before it is decremented.
DecreaseLate(c) ==
    \/ /\ s.pc[c] = "done"
       /\ s' = [Goto(s, c, IF s.count = 0 THEN "check" ELSE "gone") EXCEPT !.count = @ - 1]
    \/ /\ s.pc[c] = "check"
       /\ s' = IF s.grace THEN [Goto(s, c, "gone") EXCEPT !.panicked = s.chan \in s.closedChans, !.closedChans = @ \cup {s.chan}]
               ELSE Goto(s, c, "gone")

(***************************************************************************)
(* decreaseConnCount: the counter is atomic, the test of the context and   *)
(* the close are later steps.  Closing a closed channel panics.            *)
(***************************************************************************)
DecreaseConnCount(c) ==
    \/ /\ s.pc[c] = "done"
       /\ s' = [Goto(s, c, IF s.count = 1 THEN "check" ELSE "gone") EXCEPT !.count = @ - 1]
    \/ /\ s.pc[c] = "check"
       /\ s' = IF s.grace THEN [Goto(s, c, "gone") EXCEPT !.panicked = s.chan \in s.closedChans, !.closedChans = @ \cup {s.chan}]
               ELSE Goto(s, c, "gone")

ClientCloses(c) ==
    /\ s.pc[c] # "new" /\ ~s.connClosed[c]
    /\ s' = [s EXCEPT !.connClosed[c] = TRUE]

(***************************************************************************)
(* Close, from its call on: the contexts and listeners under the mutex,    *)
(* then the counter, then the wait, all with the mutex held.               *)
(***************************************************************************)
CloseLocks(k) ==
    /\ s.caller[k] = "closing" /\ ~s.locked
    /\ s' = IF ~s.used THEN [s EXCEPT !.closed = TRUE, !.caller[k] = "returned"]
            ELSE [s EXCEPT !.closed = TRUE, !.closing = TRUE, !.grace = TRUE, !.locked = TRUE,
                           !.listenerClosed = s.listener \notin {"new", "returned"}, !.caller[k] = "counting"]

CloseCounts(k) ==
    /\ s.caller[k] = "counting"
    /\ s' = IF s.count = 0 THEN [s EXCEPT !.locked = FALSE, !.caller[k] = "returned"]
            ELSE [s EXCEPT !.caller[k] = "waiting"]

CloseReturns(k) ==
    /\ s.caller[k] = "waiting" /\ s.chan \in s.closedChans
    /\ s' = [s EXCEPT !.locked = FALSE, !.caller[k] = "returned"]

(***************************************************************************)
(* Shutdown: the grace context under the mutex, then the counter and the   *)
(* channel without it, then Close.                                         *)
(***************************************************************************)
Shutdown ==
    \/ /\ s.caller["shutdown"] = "idle" /\ ~s.locked
       /\ s' = IF s.used THEN [s EXCEPT !.closed = TRUE, !.grace = TRUE, !.caller["shutdown"] = "loading"]
               ELSE [s EXCEPT !.closed = TRUE, !.caller["shutdown"] = "returned"]
    \/ /\ s.caller["shutdown"] = "loading"
       /\ s' = [s EXCEPT !.caller["shutdown"] = IF s.count = 0 THEN "closing" ELSE "grace", !.waits = s.chan]
    \/ /\ s.caller["shutdown"] = "grace"     \* the channel is closed, or the context is done
       /\ s' = [s EXCEPT !.caller["shutdown"] = "closing"]

Close ==
    /\ s.caller["close"] = "idle"
    /\ s' = [s EXCEPT !.caller["close"] = "closing"]

ServerNext ==
    /\ ~s.panicked
    /\ \/ AddListener \/ CheckGrace \/ RemoveListener \/ Shutdown \/ Close
       \/ \E c \in Conns : \/ AcceptConn(c) \/ CountConn(c) \/ ServeQUICConn(c) \/ StartConn(c) \/ AcceptRequest(c)
                           \/ AcceptFails(c) \/ Drained(c) \/ HandlerDone(c) \/ ConnDone(c) \/ DecreaseConnCount(c)
                           \/ ClientCloses(c)
       \/ \E k \in Callers : CloseLocks(k) \/ CloseCounts(k) \/ CloseReturns(k)

ServerSpec == ServerInit /\ [][ServerNext]_s

(***************************************************************************)
(* Close never waits in vain: while it waits on connHandlingDone with the  *)
(* mutex held, that channel is closed or a counted connection is left to   *)
(* close it, and the counter is the number of such connections.  And the   *)
(* ID sent in a GOAWAY is exact: no request at or above it is ever handed  *)
(* to a handler.  (init, decreaseConnCount, handleConn, Close, Shutdown)   *)
(***************************************************************************)
ServerStops ==
    /\ s.count = Cardinality({c \in Conns : s.pc[c] \in Serving \ {"check"}})
    /\ \A k \in Callers : s.caller[k] = "waiting" => \/ s.panicked \/ s.chan \in s.closedChans
                                                      \/ \E c \in Conns : s.pc[c] \in Serving
    /\ \A c \in Conns : s.next[c] <= s.goAway[c]
=============================================================================
