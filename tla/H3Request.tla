----------------------------- MODULE H3Request -----------------------------
(***************************************************************************)
(* One HTTP/3 request, seen by the four goroutines that share its stream   *)
(* on the client (http3/client.go, body.go, http_stream.go): roundTrip,    *)
(* the goroutine that watches the request's context, the one that sends    *)
(* the body, and the application reading the response body; and by the     *)
(* server's handleRequest (http3/server.go).                               *)
(*                                                                         *)
(* A side of the stream is "open", "fin" (Close, or EOF read), or "reset"  *)
(* (CancelWrite, CancelRead).  A call that cancels takes effect only on an *)
(* open side.  q.closes counts the closes of the channel reqDone: a second *)
(* one panics.                                                             *)
(***************************************************************************)
EXTENDS Naturals

CONSTANT Max1xx      \* max1xxResponses

VARIABLE q

Idle == [send |-> "open", recv |-> "open"]

RequestInit ==
    \E zeroRTT, early, extended, hasBody \in BOOLEAN :
        q = [zeroRTT |-> zeroRTT, extended |-> extended, hasBody |-> hasBody,
             complete |-> ~early, settings |-> "none", conn |-> "open", ctxDone |-> FALSE,
             main |-> "handshake", watcher |-> "none", sender |-> "none", body |-> "none",
             closes |-> 0, num1xx |-> 0, cause |-> "none", str |-> Idle, peer |-> Idle, server |-> "none"]

CancelWrite(t) == IF t.str.send = "open" THEN [t EXCEPT !.str.send = "reset"] ELSE t
CancelRead(t) == IF t.str.recv = "open" THEN [t EXCEPT !.str.recv = "reset"] ELSE t
CancelBoth(t) == CancelRead(CancelWrite(t))
CloseSend(t) == IF t.str.send = "open" THEN [t EXCEPT !.str.send = "fin"] ELSE t
CloseConn(t) == [t EXCEPT !.conn = "closed"]
Alive(t) == t.conn = "open" /\ t.str.recv = "open"

\* roundTrip: the wait for the handshake, which a 0-RTT request skips.
AwaitHandshake ==
    /\ q.main = "handshake"
    /\ \/ (q.zeroRTT \/ q.complete) /\ q' = [q EXCEPT !.main = IF q.extended THEN "settings" ELSE "open"]
       \/ ~q.zeroRTT /\ q.ctxDone /\ q' = [q EXCEPT !.main = "failed"]

\* roundTrip: an Extended CONNECT waits for the SETTINGS or the connection's end.
AwaitSettings ==
    /\ q.main = "settings"
    /\ \/ q.settings # "none" /\ q' = [q EXCEPT !.main = IF q.settings = "extended" THEN "open" ELSE "failed"]
       \/ q.conn = "closed" /\ q' = [q EXCEPT !.main = "failed"]

\* openRequestStream, and the start of the watcher.
OpenRequestStream ==
    /\ q.main = "open"
    /\ \/ (q.conn = "closed" \/ q.ctxDone) /\ q' = [q EXCEPT !.main = "failed"]
       \/ q.conn = "open" /\ q' = [q EXCEPT !.main = "header", !.watcher = "run"]

\* doRequest: the header (it may be invalid, or the stream fail), then Close or
\* the goroutine that sends the body.
SendRequestHeader ==
    /\ q.main = "header"
    /\ \/ q' = [q EXCEPT !.main = "error", !.cause = "request"]
       \/ /\ q.conn = "open" /\ q.str.send = "open"
          /\ q' = IF q.hasBody THEN [q EXCEPT !.main = "read", !.sender = "run", !.server = "headers"]
                  ELSE CloseSend([q EXCEPT !.main = "read", !.server = "headers"])

\* sendRequestBody and the Close after it: the body ends, its Read fails or it
\* is too long (the write side is cancelled), or the stream fails.
SendRequestBody ==
    /\ q.sender = "run"
    /\ \/ q' = CloseSend([q EXCEPT !.sender = "done"])
       \/ q' = CloseSend(CancelWrite([q EXCEPT !.sender = "done"]))

\* The goroutine of roundTrip that watches the request's context.
Watch ==
    /\ q.watcher = "run"
    /\ \/ q.ctxDone /\ q' = CancelBoth([q EXCEPT !.watcher = "done"])
       \/ q.closes > 0 /\ q' = [q EXCEPT !.watcher = "done"]

\* Mutant: a malformed response leaves the stream as it is.
ReadResponseKeeps ==
    /\ q.main = "read"
    /\ \/ ~Alive(q) /\ q' = [q EXCEPT !.main = "error", !.cause = "response"]
       \/ Alive(q) /\ q.server = "answered" /\ q' = [q EXCEPT !.main = "error", !.cause = "response"]
       \/ Alive(q) /\ q.server = "answered" /\ q' = CloseConn([q EXCEPT !.main = "error", !.cause = "response"])
       \/ Alive(q) /\ q.server = "answered" /\ q.num1xx <= Max1xx
             /\ q' = IF q.num1xx = Max1xx THEN [q EXCEPT !.main = "error", !.cause = "limit", !.num1xx = @ + 1] ELSE [q EXCEPT !.num1xx = @ + 1]
       \/ Alive(q) /\ q.server = "answered" /\ q' = [q EXCEPT !.main = "returned", !.body = "open"]

(***************************************************************************)
(* ReadResponse in the loop of doRequest: the read fails or the response   *)
(* is malformed (both sides are cancelled), is no HEADERS frame or does    *)
(* not decode (the connection is closed), is informational (the loop goes  *)
(* on, up to max1xxResponses), or is the response.                         *)
(***************************************************************************)
ReadResponse ==
    /\ q.main = "read"
    /\ \/ ~Alive(q) /\ q' = CancelBoth([q EXCEPT !.main = "error", !.cause = "response"])
       \/ Alive(q) /\ q.server = "answered" /\ q' = CancelBoth([q EXCEPT !.main = "error", !.cause = "response"])
       \/ Alive(q) /\ q.server = "answered" /\ q' = CloseConn([q EXCEPT !.main = "error", !.cause = "response"])
       \/ Alive(q) /\ q.server = "answered" /\ q.num1xx <= Max1xx
             /\ q' = IF q.num1xx = Max1xx THEN [q EXCEPT !.main = "error", !.cause = "limit", !.num1xx = @ + 1] ELSE [q EXCEPT !.num1xx = @ + 1]
       \/ Alive(q) /\ q.server = "answered" /\ q' = [q EXCEPT !.main = "returned", !.body = "open"]

\* roundTrip, after an error of doRequest: reqDone is closed and the watcher awaited.
RoundTripFails ==
    \/ q.main = "error" /\ q' = [q EXCEPT !.main = "joining", !.closes = @ + 1]
    \/ q.main = "joining" /\ q.watcher = "done" /\ q' = [q EXCEPT !.main = "failed"]

RequestDone(t) == IF t.body = "open" THEN [t EXCEPT !.closes = @ + 1, !.body = "done"] ELSE t

(***************************************************************************)
(* hijackableBody: Read ends with EOF, with a stream error, or with too    *)
(* much data (both sides are cancelled); Close cancels reading.            *)
(***************************************************************************)
UseBody ==
    /\ q.body \in {"open", "done"}
    /\ \/ Alive(q) /\ q.server = "answered" /\ q' = RequestDone([q EXCEPT !.str.recv = "fin"])
       \/ Alive(q) /\ q.server = "answered" /\ q' = RequestDone(CancelBoth(q))
       \/ ~Alive(q) /\ q' = RequestDone(q)
       \/ q' = [CancelRead(RequestDone(q)) EXCEPT !.body = "closed"]

\* The request's context ends; the connection closes; the handshake completes
\* (the channel is closed by handleHandshakeComplete, and only there).
ContextDone == ~q.ctxDone /\ q' = [q EXCEPT !.ctxDone = TRUE]
ConnCloses == q.conn = "open" /\ q' = CloseConn(q)
HandshakeCompletes == ~q.complete /\ q.conn = "open" /\ q' = [q EXCEPT !.complete = TRUE]
SettingsArrive ==
    /\ q.settings = "none" /\ q.conn = "open" /\ q.extended
    /\ \E k \in {"extended", "plain"} : q' = [q EXCEPT !.settings = k]

PeerCancelBoth(t) == [t EXCEPT !.peer = [send |-> IF @.send = "open" THEN "reset" ELSE @.send,
                                         recv |-> IF @.recv = "open" THEN "reset" ELSE @.recv]]

(***************************************************************************)
(* handleRequest: the header cannot be read or is malformed (both sides    *)
(* are cancelled), is no HEADERS frame or does not decode (the connection  *)
(* is closed), or the handler runs: it hijacks the stream, writes, panics  *)
(* (both sides are cancelled), or returns (Close, and CancelRead unless    *)
(* the EOF was read).                                                      *)
(***************************************************************************)
HandleRequest ==
    /\ q.server \in {"headers", "answered"} /\ q.peer = Idle
    /\ \/ q.server = "headers" /\ q' = PeerCancelBoth([q EXCEPT !.server = "done"])
       \/ q.server = "headers" /\ q' = CloseConn([q EXCEPT !.server = "done"])
       \/ q.server = "headers" /\ q' = [q EXCEPT !.server = "hijacked"]
       \/ q.server = "headers" /\ q' = [q EXCEPT !.server = "answered"]
       \/ q' = PeerCancelBoth([q EXCEPT !.server = "done"])
       \/ \E eof \in BOOLEAN : q' = [q EXCEPT !.server = "answered", !.peer = [send |-> "fin", recv |-> IF eof THEN "fin" ELSE "reset"]]

RequestNext ==
    \/ AwaitHandshake \/ AwaitSettings \/ OpenRequestStream \/ SendRequestHeader \/ SendRequestBody \/ Watch
    \/ ReadResponse \/ RoundTripFails \/ UseBody \/ ContextDone \/ ConnCloses \/ HandshakeCompletes \/ SettingsArrive
    \/ HandleRequest

RequestSpec == RequestInit /\ [][RequestNext]_q

(***************************************************************************)
(* The channel reqDone is closed at most once, whichever of a failing      *)
(* round trip, the end of the body and its Close come together, and no     *)
(* watcher is left once roundTrip failed.  (roundTrip, hijackableBody)     *)
(***************************************************************************)
ReqDoneOnce == q.closes <= 1 /\ (q.main = "failed" => q.watcher # "run")

(***************************************************************************)
(* A finished request keeps nothing open: when the application has closed  *)
(* the response body, or the response could not be read, and the request   *)
(* body is done, no side of the stream is open on a live connection, so    *)
(* that its slot can be given back; and so on the server, unless the       *)
(* stream was hijacked.  (doRequest, ReadResponse, handleRequest)          *)
(***************************************************************************)
NothingLeftOpen ==
    /\ q.conn = "open" /\ q.sender # "run" /\ (q.body = "closed" \/ (q.main = "failed" /\ q.cause = "response"))
          => q.str.recv # "open" /\ q.str.send # "open"
    /\ q.conn = "open" /\ q.server = "done" => q.peer.send # "open" /\ q.peer.recv # "open"

\* A request ends once and leaves nothing open (client.go, body.go, server.go).
RequestEnds == ReqDoneOnce /\ NothingLeftOpen
=============================================================================
