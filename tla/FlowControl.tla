------------------------------ MODULE FlowControl ------------------------------
(* Flow control (internal/flowcontrol): the stream controllers and the connection *)
(* controller of a sender and of a receiver, and the frames between them.  Only    *)
(* offsets matter.  Frames are reordered and duplicated; retransmission is the     *)
(* fairness of their delivery.  On the receiver, one application goroutine per     *)
(* stream reads or cancels, and the run loop handles frames; the connection window *)
(* is updated only when the run loop wakes up to send.                             *)
EXTENDS Integers, FiniteSets, FiniteSetsExt

CONSTANTS
  Streams,
  Cancellable,     \* the streams whose reader may call CancelRead
  StreamWindow,    \* initial receive window of a stream
  MaxStreamWindow, \* maximal receive window of a stream
  ConnWindow,      \* initial receive window of the connection
  MaxConnWindow,   \* maximal receive window of the connection
  MaxData          \* bound: bytes the application writes to each stream

VARIABLES
  \* sender: bytesSent and sendWindow; streams with FIN or RESET_STREAM sent, completed streams
  sent, sendWindow, finished, completed, connSent, connSendWindow,
  \* frames sent: MAX_STREAM_DATA for each stream, MAX_DATA, STOP_SENDING, RESET_STREAM
  maxStreamData, maxData, stopSending, reset,
  stopQueued, stopUnacked, \* STOP_SENDING frames to be sent, sent and not acknowledged
  \* receiver, per stream: bytesRead, highestReceived, receiveWindow, receiveWindowSize, and
  \* the streams with receivedFinalOffset, queuedMaxStreamData, ...
  read, highest, window, size, final, queuedMaxStreamData,
  cancelledLocally, cancelledRemotely,
  \* receiver, connection
  connRead, connHighest, connWindow, connSize,
  app,      \* where the application goroutine of each stream is, in Read or CancelRead
  reading,  \* the bytes that Read has yet to report to the connection
  wake,     \* the run loop has a reason to run
  error     \* a frame was answered with an error

sendVars == <<sent, sendWindow, finished, completed, connSent, connSendWindow>>
netVars == <<maxStreamData, maxData, stopSending, reset, stopQueued, stopUnacked>>
windowVars == <<window, size, queuedMaxStreamData>>
cancelVars == <<cancelledLocally, cancelledRemotely>>
connWindowVars == <<connWindow, connSize>>
appVars == <<app, reading>>
vars == <<sendVars, netVars, windowVars, cancelVars, connWindowVars, appVars,
          read, highest, final, connRead, connHighest, wake, error>>

TypeOK ==
  /\ {sent, sendWindow, read, highest, window, size, reading}
       \subseteq [Streams -> Nat]
  /\ {finished, completed, stopSending, reset, stopQueued, stopUnacked, final, queuedMaxStreamData, cancelledLocally,
      cancelledRemotely} \subseteq SUBSET Streams
  /\ {connSent, connSendWindow, connRead, connHighest, connWindow, connSize} \subseteq Nat
  /\ \A s \in Streams : maxStreamData[s] \subseteq Nat
  /\ maxData \subseteq Nat
  /\ app \in [Streams -> {"idle", "addConnRead", "queueStopSending", "queueAndAbandon", "abandon"}]
  /\ wake \in BOOLEAN /\ error \in BOOLEAN

Everywhere(v) == [s \in Streams |-> v]

\* The transport parameters have been exchanged.
Init ==
  /\ sent = Everywhere(0) /\ sendWindow = Everywhere(StreamWindow)
  /\ connSent = 0 /\ connSendWindow = ConnWindow
  /\ finished = {} /\ completed = {} /\ stopSending = {} /\ reset = {} /\ stopQueued = {} /\ stopUnacked = {}
  /\ maxStreamData = Everywhere({}) /\ maxData = {}
  /\ read = Everywhere(0) /\ highest = Everywhere(0) /\ final = {}
  /\ window = Everywhere(StreamWindow) /\ size = Everywhere(StreamWindow)
  /\ queuedMaxStreamData = {}
  /\ cancelledLocally = {} /\ cancelledRemotely = {}
  /\ connRead = 0 /\ connHighest = 0
  /\ connWindow = ConnWindow /\ connSize = ConnWindow
  /\ app = Everywhere("idle") /\ reading = Everywhere(0)
  /\ wake = FALSE /\ error = FALSE

--------------------------------------------------------------------------------
(* The sender. *)

receiverVars == <<windowVars, cancelVars, connWindowVars, appVars, read, highest, final,
                  connRead, connHighest, wake, error>>

Smaller(a, b) == IF a <= b THEN a ELSE b
Larger(a, b) == IF a >= b THEN a ELSE b

SendWindowSize(s) == Smaller(sendWindow[s] - sent[s], connSendWindow - connSent)

\* popStreamFrame takes n bytes.
SendData(s, n) ==
  /\ s \notin finished
  /\ n <= SendWindowSize(s)
  /\ sent[s] + n <= MaxData
  /\ sent' = [sent EXCEPT ![s] = @ + n]
  /\ connSent' = connSent + n
  /\ UNCHANGED <<sendWindow, finished, completed, connSendWindow, netVars, receiverVars>>

\* The FIN is sent with or after the last byte.
SendFin(s) ==
  /\ s \notin finished /\ sent[s] = MaxData
  /\ finished' = finished \cup {s}
  /\ UNCHANGED <<sent, sendWindow, completed, connSent, connSendWindow, netVars,
                 receiverVars>>

\* Everything including the FIN is acknowledged: the stream is completed and forgotten.
ReceiveLastAck(s) ==
  /\ s \in final \ (reset \cup completed)
  /\ completed' = completed \cup {s}
  /\ UNCHANGED <<sent, sendWindow, finished, connSent, connSendWindow, netVars, receiverVars>>

\* STOP_SENDING arrives for a stream that is not completed: RESET_STREAM with the bytes
\* sent so far as final size.
ReceiveStopSending(s) ==
  /\ s \in stopSending \ (reset \cup completed)
  /\ finished' = finished \cup {s}
  /\ reset' = reset \cup {s}
  /\ UNCHANGED <<sent, sendWindow, completed, connSent, connSendWindow,
                 maxStreamData, maxData, stopSending, stopQueued, stopUnacked, receiverVars>>

UpdateSendWindow(old, new) == IF new > old THEN new ELSE old

ReceiveMaxStreamData(s, limit) ==
  /\ limit \in maxStreamData[s]
  /\ sendWindow' = [sendWindow EXCEPT ![s] = UpdateSendWindow(@, limit)]
  /\ UNCHANGED <<sent, finished, completed, connSent, connSendWindow, netVars,
                 receiverVars>>

ReceiveMaxData(limit) ==
  /\ limit \in maxData
  /\ connSendWindow' = UpdateSendWindow(connSendWindow, limit)
  /\ UNCHANGED <<sent, sendWindow, finished, completed, connSent, netVars,
                 receiverVars>>

--------------------------------------------------------------------------------
(* The receiver: frames with data. *)

\* highestReceived of the connection after UpdateHighestReceived.
IncrementHighestReceived(s, offset) ==
  IF offset > highest[s] THEN connHighest + (offset - highest[s]) ELSE connHighest

InconsistentFinalSize(s, offset, fin) ==
  \/ s \in final /\ offset > highest[s]
  \/ fin /\ offset < highest[s]

UpdateHighestReceived(s, offset, fin) ==
  /\ final' = IF fin THEN final \cup {s} ELSE final
  /\ highest' = [highest EXCEPT ![s] = IF offset > @ THEN offset ELSE @]
  /\ connHighest' = IncrementHighestReceived(s, offset)
  /\ error' = \/ error
              \/ InconsistentFinalSize(s, offset, fin)
              \/ highest'[s] > window[s]
              \/ connHighest' > connWindow

\* Mutant: the connection does not get the unread bytes back.
AbandonStreamOnly(s, high) == connRead

\* bytesRead of the connection after Abandon.
AbandonConn(s, high) == connRead + (high - read[s])

Abandon(s, high) ==
  /\ read' = [read EXCEPT ![s] = high]
  /\ connRead' = AbandonConn(s, high)

\* Read holds the mutex of the stream; handlers of frames for the stream wait for it.
Unlocked(s) == app[s] # "addConnRead"

\* A STREAM frame that ends at offset and brings something new, after others or before
\* them.  The FIN completes a stream that was cancelled before; its unread bytes are
\* given back.
ReceiveData(s, offset, fin) ==
  /\ ~error /\ Unlocked(s)
  /\ offset <= sent[s]
  /\ offset > highest[s] \/ (fin /\ s \notin final)
  /\ fin => s \in finished \ reset /\ offset = sent[s]
  /\ UpdateHighestReceived(s, offset, fin)
  /\ IF fin /\ s \notin final /\ s \in cancelledLocally
     THEN Abandon(s, highest'[s])
     ELSE UNCHANGED <<read, connRead>>
  /\ wake' = TRUE
  /\ UNCHANGED <<sendVars, netVars, windowVars, cancelVars, connWindowVars, appVars>>

\* RESET_STREAM gives the unread bytes back; the reader gets an error.
ReceiveReset(s) ==
  /\ ~error /\ Unlocked(s)
  /\ s \in reset \ cancelledRemotely
  /\ UpdateHighestReceived(s, sent[s], TRUE)
  /\ Abandon(s, highest'[s])
  /\ cancelledRemotely' = cancelledRemotely \cup ({s} \ cancelledLocally)
  /\ wake' = TRUE
  /\ UNCHANGED <<sendVars, netVars, windowVars, cancelledLocally, connWindowVars, appVars>>

--------------------------------------------------------------------------------
(* The receiver: the application. *)

\* hasWindowUpdate, with WindowUpdateThreshold = 0.25.
HasWindowUpdate(remaining, siz) == remaining <= (3 * siz) \div 4

\* Read copies n bytes: first the stream controller, then the one of the connection.
Read(s, n) ==
  /\ ~error
  /\ app[s] = "idle" /\ s \notin cancelledLocally \cup cancelledRemotely
  /\ n <= highest[s] - read[s]
  /\ read' = [read EXCEPT ![s] = @ + n]
  /\ queuedMaxStreamData' = IF s \notin final /\ HasWindowUpdate(window[s] - read'[s], size[s])
                            THEN queuedMaxStreamData \cup {s} ELSE queuedMaxStreamData
  /\ app' = [app EXCEPT ![s] = "addConnRead"]
  /\ reading' = [reading EXCEPT ![s] = n]
  /\ UNCHANGED <<sendVars, netVars, cancelVars, window, size, connWindowVars,
                 highest, final, connRead, connHighest, wake, error>>

\* Mutant: only an update of the stream's own window wakes the run loop.
NeverWakes(total) == FALSE

ConnReadWakes(total) == HasWindowUpdate(connWindow - total, connSize)

\* The end of Read: onHasStreamControlFrame and onHasConnectionData wake the run loop.
AddConnRead(s) ==
  /\ app[s] = "addConnRead"
  /\ connRead' = connRead + reading[s]
  /\ wake' = (wake \/ s \in queuedMaxStreamData \/ ConnReadWakes(connRead'))
  /\ app' = [app EXCEPT ![s] = "idle"]
  /\ reading' = [reading EXCEPT ![s] = 0]
  /\ UNCHANGED <<sendVars, netVars, windowVars, cancelVars, connWindowVars, read, highest, final,
                 connHighest, error>>

\* CancelRead, the part under the mutex.  It completes the stream if the final size is
\* known and not everything was read.
CancelRead(s) ==
  /\ ~error
  /\ s \in Cancellable
  /\ app[s] = "idle" /\ s \notin cancelledLocally \cup cancelledRemotely
  /\ ~(s \in final /\ read[s] = highest[s])
  /\ cancelledLocally' = cancelledLocally \cup {s}
  /\ app' = [app EXCEPT ![s] = IF s \in final THEN "queueAndAbandon" ELSE "queueStopSending"]
  /\ UNCHANGED <<sendVars, netVars, windowVars, cancelledRemotely, connWindowVars, reading, read,
                 highest, final, connRead, connHighest, wake, error>>

\* onHasStreamControlFrame, after the mutex was released.
QueueStopSending(s) ==
  /\ app[s] \in {"queueStopSending", "queueAndAbandon"}
  /\ stopQueued' = stopQueued \cup {s}
  /\ wake' = TRUE
  /\ app' = [app EXCEPT ![s] = IF @ = "queueAndAbandon" THEN "abandon" ELSE "idle"]
  /\ UNCHANGED <<sendVars, maxStreamData, maxData, stopSending, stopUnacked, reset, windowVars,
                 cancelVars, connWindowVars, reading, read, highest, final, connRead, connHighest, error>>

\* The call of Abandon in CancelRead.
AbandonUnlocked(s) ==
  /\ app[s] = "abandon"
  /\ Abandon(s, highest[s])
  /\ app' = [app EXCEPT ![s] = "idle"]
  /\ UNCHANGED <<sendVars, netVars, windowVars, cancelVars, connWindowVars, reading, highest,
                 final, connHighest, wake, error>>

\* The packet with STOP_SENDING is acknowledged.
ReceiveAck(s) ==
  /\ s \in stopUnacked
  /\ stopUnacked' = stopUnacked \ {s}
  /\ wake' = TRUE
  /\ UNCHANGED <<sendVars, maxStreamData, maxData, stopSending, stopQueued, reset, windowVars, cancelVars,
                 connWindowVars, appVars, read, highest, final, connRead, connHighest, error>>

--------------------------------------------------------------------------------
(* The receiver: window updates, sent by the run loop. *)

\* receiveWindowSize after maybeAdjustWindowSize.  Whether the window is consumed so
\* fast that it grows depends on the round-trip time and on the application: a choice.
AdjustedSize(siz, maxSize, grow) == IF grow THEN Smaller(2 * siz, maxSize) ELSE siz

\* receiveWindow after getWindowUpdate.
NewOffset(bytesRead, siz) == bytesRead + siz

\* sendPackets: MAX_DATA if the connection controller has an update, and the STOP_SENDING
\* frames.  The run loop goes on while streams have window updates to send.
SendConnUpdate(grow) ==
  /\ wake
  /\ IF HasWindowUpdate(connWindow - connRead, connSize)
     THEN /\ connSize' = AdjustedSize(connSize, MaxConnWindow, grow)
          /\ connWindow' = NewOffset(connRead, connSize')
          /\ maxData' = maxData \cup {connWindow'}
     ELSE UNCHANGED <<connWindowVars, maxData>>
  /\ stopSending' = stopSending \cup stopQueued
  /\ stopUnacked' = stopUnacked \cup stopQueued
  /\ stopQueued' = {}
  /\ wake' = (queuedMaxStreamData # {})
  /\ UNCHANGED <<sendVars, maxStreamData, reset, windowVars, cancelVars,
                 appVars, read, highest, final, connRead, connHighest, error>>

\* EnsureMinimumWindowSize: the connection window follows the stream window, times 1.5.
ConnSizeFor(siz) == Larger(connSize, Smaller((3 * siz) \div 2, MaxConnWindow))

\* getControlFrame: MAX_STREAM_DATA, unless the final size arrived in the meantime (the
\* frame then carries 0, which the sender ignores).
SendStreamUpdate(s, grow, allowed) ==
  /\ wake /\ s \in queuedMaxStreamData /\ Unlocked(s)
  /\ queuedMaxStreamData' = queuedMaxStreamData \ {s}
  /\ IF s \notin final /\ HasWindowUpdate(window[s] - read[s], size[s])
     THEN /\ size' = [size EXCEPT ![s] = AdjustedSize(@, MaxStreamWindow, grow)]
          /\ window' = [window EXCEPT ![s] = NewOffset(read[s], size'[s])]
          /\ maxStreamData' = [maxStreamData EXCEPT ![s] = @ \cup {window'[s]}]
          /\ connSize' = IF size'[s] > size[s] /\ allowed THEN ConnSizeFor(size'[s]) ELSE connSize
     ELSE UNCHANGED <<window, size, maxStreamData, connSize>>
  /\ UNCHANGED <<sendVars, maxData, stopSending, reset, stopQueued, stopUnacked, cancelVars, connWindow, appVars,
                 read, highest, final, connRead, connHighest, wake, error>>

--------------------------------------------------------------------------------
SenderStep ==
  \/ \E s \in Streams, n \in 1..MaxData : SendData(s, n)
  \/ \E s \in Streams : SendFin(s)
  \/ \E s \in Streams : ReceiveLastAck(s)
  \/ \E s \in Streams : ReceiveStopSending(s)
  \/ \E s \in Streams : \E limit \in maxStreamData[s] : ReceiveMaxStreamData(s, limit)
  \/ \E limit \in maxData : ReceiveMaxData(limit)

AppStep ==
  \/ \E s \in Streams, n \in 1..MaxData : Read(s, n)
  \/ \E s \in Streams : AddConnRead(s)
  \/ \E s \in Streams : CancelRead(s)
  \/ \E s \in Streams : QueueStopSending(s)
  \/ \E s \in Streams : AbandonUnlocked(s)

RunLoopStep ==
  \/ \E s \in Streams, offset \in 1..MaxData, fin \in BOOLEAN : ReceiveData(s, offset, fin)
  \/ \E s \in Streams : ReceiveReset(s)
  \/ \E s \in Streams : ReceiveAck(s)
  \/ \E grow \in BOOLEAN : SendConnUpdate(grow)
  \/ \E s \in Streams, grow, allowed \in BOOLEAN : SendStreamUpdate(s, grow, allowed)

Next == SenderStep \/ AppStep \/ RunLoopStep

Spec == Init /\ [][Next]_vars

\* What is sure to happen: frames that are sent arrive in the end, the sender sends what it
\* may, goroutines run, the application reads what there is and the run loop handles its events.
SureStep ==
  \/ \E s \in Streams :
       \/ \E n \in 1..MaxData : SendData(s, n) \/ Read(s, n)
       \/ SendFin(s) \/ ReceiveStopSending(s) \/ ReceiveReset(s) \/ ReceiveAck(s)
       \/ \E limit \in maxStreamData[s] : ReceiveMaxStreamData(s, limit)
       \/ ReceiveData(s, sent[s], FALSE) \/ ReceiveData(s, sent[s], TRUE)
       \/ AddConnRead(s) \/ QueueStopSending(s) \/ AbandonUnlocked(s)
       \/ \E grow, allowed \in BOOLEAN : SendStreamUpdate(s, grow, allowed)
  \/ \E limit \in maxData : ReceiveMaxData(limit)
  \/ \E grow \in BOOLEAN : SendConnUpdate(grow)

Fairness == WF_vars(SureStep)

FairSpec == Spec /\ Fairness

--------------------------------------------------------------------------------
\* Two endpoints that run this code never close the connection with FLOW_CONTROL_ERROR
\* or FINAL_SIZE_ERROR, whatever the order in which data and window updates arrive.
NoFlowControlError == ~error

\* An endpoint never has more unread bytes than the configured maxima, on a stream and
\* on the connection, however often the windows are enlarged and streams abandoned.
UnreadBounded ==
  /\ \A s \in Streams : highest[s] - read[s] <= MaxStreamWindow
  /\ connHighest - connRead <= MaxConnWindow

Total(f) == MapThenSumSet(LAMBDA s : f[s], Streams)

\* The connection counts every byte of every stream exactly once, when it is received
\* and when it is read or abandoned: also a stream that is cancelled on both sides, or
\* abandoned between the two halves of a Read, neither leaks nor doubles credit.
CreditConserved ==
  /\ connHighest = Total(highest)
  /\ connRead + Total(reading) = Total(read)
  /\ connSent = Total(sent)

ConnUpdateDue == HasWindowUpdate(connWindow - connRead, connSize)

\* Once a quarter of the connection's window has been consumed, a higher offset is
\* advertised: the run loop learns of every byte that is read or abandoned.
ConnUpdateAdvertised == ConnUpdateDue ~> ~ConnUpdateDue

\* Nothing keeps the sender blocked for ever: when nothing is sure to happen any more, every
\* stream was sent to its end and no update of the connection's window is due.
FlowSettles == ~ENABLED <<SureStep>>_vars => finished = Streams /\ ~ConnUpdateDue
================================================================================
