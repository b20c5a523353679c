----------------------------- MODULE H3Response -----------------------------
(***************************************************************************)
(* A response on its way from a handler to the reader of its body: the     *)
(* responseWriter (http3/response_writer.go) under any sequence of calls,  *)
(* the end of handleRequest (server.go), and the client's ReadResponse,    *)
(* stream.Read and body.Read (http_stream.go, body.go) on the frames.      *)
(*                                                                         *)
(* A frame is <<"headers", status, length>> (length NoLength without a     *)
(* Content-Length field), <<"data", bytes>> or <<"trailers">>.  The        *)
(* client reads once the handler is done: the stream is a FIFO and the     *)
(* client does not influence the handler other than by failing writes      *)
(* (StreamFails).                                                          *)
(***************************************************************************)
EXTENDS Integers, Sequences

CONSTANTS
    WriteSizes,             \* lengths of the slices a handler writes
    Lengths,                \* values a handler gives to Content-Length
    MaxSmallResponseSize,   \* maxSmallResponseSize
    MaxCalls                \* bound: calls of the handler

VARIABLE x

NoLength == -1
Status == {103, 200, 204}       \* informational, with a body, without one

ResponseInit ==
    \E head \in BOOLEAN :
        x = [head |-> head, calls |-> 0, phase |-> "handler", broken |-> FALSE, hijacked |-> FALSE,
             status |-> 0, complete |-> FALSE, written |-> FALSE, lengthField |-> NoLength, contentLen |-> 0,
             num |-> 0, small |-> 0, accepted |-> 0, trailer |-> FALSE, out |-> <<>>,
             got |-> 0, remaining |-> NoLength, inFrame |-> 0, read |-> 0, parsedTrailer |-> FALSE, result |-> "none"]

BodyAllowed(status) == status = 200

\* writeUnframed: nothing is written on a failed stream.
Emit(t, frame) == IF t.broken THEN t ELSE [t EXCEPT !.out = Append(@, frame)]

\* writeHeader.
SendHeader(t, status) == Emit(t, <<"headers", status, t.lengthField>>)

\* WriteHeader: an informational header is sent at once and leaves the rest
\* open; the first other status fixes the header and the announced length.
WriteHeader(t, status) ==
    IF t.complete THEN t
    ELSE IF status < 200 THEN SendHeader([t EXCEPT !.status = status], status)
    ELSE [t EXCEPT !.status = status, !.complete = TRUE,
                   !.contentLen = IF t.lengthField # NoLength THEN t.lengthField ELSE 0]

\* Mutant: the DATA frame announces the new slice only.
DoWriteShort(t, bytes) ==
    LET h == IF t.written THEN t ELSE SendHeader(t, t.status)
        w == IF t.broken THEN h ELSE [h EXCEPT !.written = TRUE]
    IN  IF t.broken \/ t.small + bytes = 0 THEN w
        ELSE [Emit(w, <<"data", bytes>>) EXCEPT !.small = 0]

\* doWrite: the header if it was not written, then one DATA frame with what was
\* buffered and the new bytes.
DoWrite(t, bytes) ==
    LET h == IF t.written THEN t ELSE SendHeader(t, t.status)
        w == IF t.broken THEN h ELSE [h EXCEPT !.written = TRUE]
    IN  IF t.broken \/ t.small + bytes = 0 THEN w
        ELSE [Emit(w, <<"data", t.small + bytes>>) EXCEPT !.small = 0]

\* Write: implicit status, the checks of status and length, HEAD, the small
\* buffer, doWrite.  accepted counts the bytes reported as written.
Write(t, bytes) ==
    LET h == IF t.complete THEN t ELSE WriteHeader(t, 200)
        m == [h EXCEPT !.num = @ + bytes]
        ok == [m EXCEPT !.accepted = @ + bytes]
    IN  IF t.complete /\ ~BodyAllowed(t.status) THEN t
        ELSE IF m.contentLen # 0 /\ m.num > m.contentLen THEN m
        ELSE IF m.head THEN ok
        ELSE IF ~m.written /\ m.small + bytes < MaxSmallResponseSize THEN [ok EXCEPT !.small = @ + bytes]
        ELSE DoWrite(IF m.broken THEN m ELSE ok, bytes)

\* FlushError.
Flush(t) == DoWrite(IF t.complete THEN t ELSE WriteHeader(t, 200), 0)

Call(t) == x.phase = "handler" /\ ~x.hijacked /\ x.calls < MaxCalls /\ x' = [t EXCEPT !.calls = @ + 1]

\* A handler's calls.  As http.ResponseWriter asks of it, a handler sets fields
\* other than trailers before the status.  HTTPStream hands the stream over.
HandlerCalls ==
    \/ \E status \in Status : Call(WriteHeader(x, status))
    \/ \E bytes \in WriteSizes : Call(Write(x, bytes))
    \/ Call(Flush(x))
    \/ \E l \in Lengths : ~x.complete /\ Call([x EXCEPT !.lengthField = l])
    \/ Call([x EXCEPT !.trailer = TRUE])                    \* a trailer field, declared or prefixed
    \/ Call([Flush(x) EXCEPT !.hijacked = TRUE])

\* The client cancels, or the connection goes away.
StreamFails == x.phase = "handler" /\ ~x.broken /\ x' = [x EXCEPT !.broken = TRUE]

(***************************************************************************)
(* handleRequest, after the handler returned: the Content-Length of a      *)
(* response that is still buffered, Flush and flushTrailers.               *)
(***************************************************************************)
HandlerReturns ==
    /\ x.phase = "handler"
    /\ LET l == IF ~x.written /\ x.lengthField = NoLength THEN [x EXCEPT !.lengthField = x.num] ELSE x
           e == Flush(l)
       IN  x' = IF x.hijacked THEN [x EXCEPT !.phase = "aborted"]
                ELSE [(IF x.trailer THEN Emit(e, <<"trailers">>) ELSE e) EXCEPT !.phase = IF x.broken THEN "aborted" ELSE "reading"]

\* ParseNext: the next frame of the stream.
Frame == x.out[1]
Pop(t) == [t EXCEPT !.out = Tail(@)]

\* ReadResponse, in the loop of doRequest.
ReadHeaders ==
    /\ x.phase = "reading" /\ x.got < 200
    /\ IF x.out = <<>> \/ Frame[1] # "headers" THEN x' = [x EXCEPT !.result = "malformed", !.phase = "end"]
       ELSE x' = Pop([x EXCEPT !.got = Frame[2], !.remaining = Frame[3]])

TooMuch(t) == t.remaining # NoLength /\ (t.remaining < 0 \/ (t.remaining = 0 /\ t.inFrame > 0))

\* stream.Read and body.Read with a buffer of that size: a frame is parsed when
\* the last one is used up, then its bytes are read, up to the announced rest.
ReadBody(size) ==
    /\ x.phase = "reading" /\ x.got >= 200
    /\ LET parse == x.inFrame = 0
           end == parse /\ x.out = <<>>
           trailers == parse /\ ~end /\ Frame[1] # "data"
           t == IF parse /\ ~end /\ ~trailers THEN Pop([x EXCEPT !.inFrame = Frame[2]]) ELSE x
           room == IF x.remaining # NoLength /\ x.remaining < size THEN x.remaining ELSE size
           k == IF t.inFrame < room THEN t.inFrame ELSE room
           r == [t EXCEPT !.inFrame = @ - k, !.read = @ + k,
                          !.remaining = IF @ = NoLength THEN NoLength ELSE @ - k]
       IN  x' = IF end THEN [x EXCEPT !.result = "eof", !.phase = "end"]
                ELSE IF trailers /\ x.parsedTrailer THEN [x EXCEPT !.result = "malformed", !.phase = "end"]
                ELSE IF trailers THEN Pop([x EXCEPT !.parsedTrailer = TRUE])
                ELSE IF x.parsedTrailer THEN [x EXCEPT !.result = "malformed", !.phase = "end"]
                ELSE IF TooMuch(r) THEN [r EXCEPT !.result = "tooMuch", !.phase = "end"]
                ELSE r

ResponseNext == HandlerCalls \/ StreamFails \/ HandlerReturns \/ ReadHeaders \/ \E size \in WriteSizes : ReadBody(size)

(***************************************************************************)
(* What a handler wrote is what the client reads: whatever the calls, the  *)
(* client accepts the response, gets its status, every byte that Write     *)
(* reported as written (none for HEAD) and the trailers, and the announced *)
(* length is never exceeded.  (Write, doWrite, handleRequest,              *)
(* ReadResponse, body.Read)                                                *)
(***************************************************************************)
ResponseArrives ==
    x.phase = "end" => /\ x.result = "eof" /\ x.got = x.status
                       /\ x.read = IF x.head THEN 0 ELSE x.accepted
                       /\ x.parsedTrailer = x.trailer
=============================================================================
