------------------------------- MODULE SendStream -------------------------------
(* The sending side of a stream (send_stream.go) between the goroutine that calls   *)
(* Write and Close, a goroutine that calls CancelWrite, and the run loop, which     *)
(* pops STREAM and RESET_STREAM frames through the framer and handles ACKs, losses  *)
(* and frames of the peer.  Bytes are represented by their offsets.  A goroutine    *)
(* that leaves the mutex and then calls into the framer takes two steps.            *)
EXTENDS Integers, Sequences, FiniteSets

CONSTANTS
  MaxData,    \* bound: bytes passed to Write in all
  MaxBuffer,  \* MaxPacketBufferSize, in bytes of the model
  MaxFrame,   \* bytes that fit into a STREAM frame
  Window,     \* the initial limit of the peer
  MaxLost,    \* bound: frames that are declared lost
  Deadlines   \* whether the application uses SetWriteDeadline

VARIABLES
  data,          \* bytes in dataForWriting; nil if 0
  nextFrame,     \* bytes in nextFrame; nil if 0
  accepted,      \* bytes passed to Write so far
  writeOffset, sendWindow, lastBlockedAt,
  retransmissionQueue, numOutstandingFrames,
  queuedReset,   \* queuedResetStreamFrame # nil; its FinalSize is resetSize
  resetSize,
  finishedWriting, finSent, cancelled, cancellationFlagged, closedForShutdown, completed,
  finalError,    \* "none", "cancel" or "shutdown"
  writeChan, deadline, timer, ctxDone,
  writer,        \* the goroutine in Write or Close
  canceller,     \* the goroutine in CancelWrite
  active,        \* the framer has the stream in activeStreams
  control,       \* ... and in streamsWithControlFrames
  inFlight, resetInFlight,           \* frames in packets that are not acknowledged
  ackedBytes, finAcked, resetAcked,  \* what the peer has received
  lost

appVars == <<data, nextFrame, accepted, writeOffset>>
windowVars == <<sendWindow, lastBlockedAt>>
resetVars == <<queuedReset, resetSize>>
cancelVars == <<cancelled, cancellationFlagged, finalError, closedForShutdown>>
deadlineVars == <<deadline, timer>>
netVars == <<inFlight, resetInFlight, ackedBytes, finAcked, resetAcked, lost>>
sendVars == <<appVars, windowVars, resetVars, cancelVars, deadlineVars, netVars, finishedWriting,
          finSent, completed, retransmissionQueue, numOutstandingFrames, writeChan, ctxDone,
          writer, canceller, active, control>>

Frame == [off : 0..MaxData, len : 0..MaxFrame, fin : BOOLEAN]
Bytes(f) == f.off .. (f.off + f.len - 1)
Elements(q) == {q[i] : i \in DOMAIN q}

SendTypeOK ==
  /\ {data, nextFrame, accepted, writeOffset, sendWindow, lastBlockedAt, resetSize} \subseteq 0..MaxData
  /\ Elements(retransmissionQueue) \cup inFlight \subseteq Frame
  /\ numOutstandingFrames \in Nat
  /\ {queuedReset, finishedWriting, finSent, cancelled, cancellationFlagged, closedForShutdown,
      completed, writeChan, timer, ctxDone, canceller, active, control, resetInFlight, finAcked,
      resetAcked} \subseteq BOOLEAN
  /\ finalError \in {"none", "cancel", "shutdown"}
  /\ deadline \in {"none", "future", "passed"}
  /\ writer \in {"idle", "notify", "copied", "wait", "closing"}
  /\ ackedBytes \subseteq 0..(MaxData - 1)
  /\ lost \in 0..MaxLost

SendInit ==
  /\ data = 0 /\ nextFrame = 0 /\ accepted = 0 /\ writeOffset = 0
  /\ sendWindow = Window /\ lastBlockedAt = 0
  /\ retransmissionQueue = <<>> /\ numOutstandingFrames = 0
  /\ queuedReset = FALSE /\ resetSize = 0
  /\ finishedWriting = FALSE /\ finSent = FALSE
  /\ cancelled = FALSE /\ cancellationFlagged = FALSE /\ finalError = "none"
  /\ closedForShutdown = FALSE /\ completed = FALSE
  /\ writeChan = FALSE /\ deadline = "none" /\ timer = FALSE /\ ctxDone = FALSE
  /\ writer = "idle" /\ canceller = FALSE
  /\ active = FALSE /\ control = FALSE
  /\ inFlight = {} /\ resetInFlight = FALSE
  /\ ackedBytes = {} /\ finAcked = FALSE /\ resetAcked = FALSE
  /\ lost = 0

--------------------------------------------------------------------------------
(* Completion.  onStreamCompleted takes the stream out of the framer. *)

\* The condition of isNewlyCompleted, after the assignments of the calling function.
AllDone ==
  /\ numOutstandingFrames' = 0 /\ retransmissionQueue' = <<>> /\ ~queuedReset'
  /\ finSent' \/ (cancelled' /\ (cancellationFlagged' \/ finishedWriting'))

CheckCompleted ==
  /\ completed' = (completed \/ AllDone)
  /\ active' = (active /\ (completed \/ ~AllDone))

--------------------------------------------------------------------------------
(* Write. *)

\* What the deadline leaves of dataForWriting.
DropData(d) == 0

CanBuffer(d) == nextFrame + d <= MaxBuffer

\* Write returns with an error: a cancellation has been seen by the application.
ReturnFinalError ==
  /\ cancellationFlagged' = (cancellationFlagged \/ cancelled)
  /\ CheckCompleted
  /\ writer' = "idle"

\* One round of the loop in write: d bytes are left; "copied" and "waiting" tell where the
\* goroutine is after the mutex was released.
WriteLoop(d, copied, waiting) ==
  \/ /\ d > 0 /\ CanBuffer(d)
     /\ nextFrame' = nextFrame + d /\ data' = 0
     /\ writer' = copied /\ timer' = FALSE
     /\ UNCHANGED <<cancellationFlagged, completed, active>>
  \/ /\ ~(d > 0 /\ CanBuffer(d)) /\ deadline = "passed"
     /\ data' = DropData(d) /\ writer' = "idle" /\ timer' = FALSE
     /\ UNCHANGED <<nextFrame, cancellationFlagged, completed, active>>
  \/ /\ ~(d > 0 /\ CanBuffer(d)) /\ deadline # "passed"
     /\ d = 0
     /\ data' = 0 /\ writer' = "idle" /\ timer' = FALSE
     /\ UNCHANGED <<nextFrame, cancellationFlagged, completed, active>>
  \/ /\ ~(d > 0 /\ CanBuffer(d)) /\ deadline # "passed"
     /\ d > 0 /\ finalError # "none"
     /\ data' = d /\ timer' = FALSE
     /\ ReturnFinalError
     /\ UNCHANGED nextFrame
  \/ /\ ~(d > 0 /\ CanBuffer(d)) /\ deadline # "passed"
     /\ d > 0 /\ finalError = "none"
     /\ data' = d /\ writer' = waiting /\ timer' = (deadline = "future")
     /\ UNCHANGED <<nextFrame, cancellationFlagged, completed, active>>

\* Write(p) with len(p) = n.
Write(n) ==
  /\ writer = "idle" /\ accepted + n <= MaxData
  /\ finalError = "none" /\ ~finishedWriting /\ deadline # "passed"
  /\ accepted' = accepted + n
  /\ UNCHANGED <<writeOffset, windowVars, resetVars, cancelled, finalError, closedForShutdown, deadline,
                 netVars, finishedWriting, finSent, retransmissionQueue, numOutstandingFrames,
                 writeChan, ctxDone, canceller, control>>
  /\ WriteLoop(n, "copied", "notify")

\* Write on a stream that was cancelled or shut down.
WriteFails ==
  /\ writer = "idle" /\ finalError # "none"
  /\ UNCHANGED <<appVars, windowVars, resetVars, cancelled, finalError, closedForShutdown, deadlineVars,
                 netVars, finishedWriting, finSent, retransmissionQueue, numOutstandingFrames,
                 writeChan, ctxDone, canceller, control>>
  /\ ReturnFinalError

\* onHasStreamData, outside the mutex.
NotifySender ==
  /\ writer \in {"notify", "copied"}
  /\ active' = TRUE
  /\ writer' = IF writer = "notify" THEN "wait" ELSE "idle"
  /\ UNCHANGED <<appVars, windowVars, resetVars, cancelVars, deadlineVars, netVars, finishedWriting,
                 finSent, completed, retransmissionQueue, numOutstandingFrames, writeChan, ctxDone,
                 canceller, control>>

\* The writer is woken up by signalWrite or by the timer (which may have been set for an
\* earlier deadline).
Wake ==
  /\ writer = "wait"
  /\ \/ writeChan /\ writeChan' = FALSE
     \/ timer /\ UNCHANGED writeChan
  /\ UNCHANGED <<accepted, writeOffset, windowVars, resetVars, cancelled, finalError, closedForShutdown,
                 deadline, netVars, finishedWriting, finSent, retransmissionQueue,
                 numOutstandingFrames, ctxDone, canceller, control>>
  /\ WriteLoop(data, "idle", "wait")

\* SetWriteDeadline.  (A deadline in the past is one that passes at once.)
SetWriteDeadline(d) ==
  /\ Deadlines /\ deadline # d
  /\ deadline' = d
  /\ writeChan' = TRUE
  /\ UNCHANGED <<appVars, windowVars, resetVars, cancelVars, timer, netVars, finishedWriting, finSent,
                 completed, retransmissionQueue, numOutstandingFrames, ctxDone, writer, canceller,
                 active, control>>

\* Time passes.
DeadlinePasses ==
  /\ deadline = "future"
  /\ deadline' = "passed"
  /\ UNCHANGED <<appVars, windowVars, resetVars, cancelVars, timer, netVars, finishedWriting, finSent,
                 completed, retransmissionQueue, numOutstandingFrames, writeChan, ctxDone, writer,
                 canceller, active, control>>

--------------------------------------------------------------------------------
(* Close, CancelWrite and shutdown. *)

\* Close, which must not be called concurrently with Write.
Close ==
  /\ writer = "idle"
  /\ ~closedForShutdown /\ ~finishedWriting
  /\ finishedWriting' = TRUE
  /\ cancellationFlagged' = (cancellationFlagged \/ cancelled)
  /\ writer' = IF cancelled THEN "idle" ELSE "closing"
  /\ UNCHANGED <<appVars, windowVars, resetVars, cancelled, finalError, closedForShutdown, deadlineVars,
                 netVars, finSent, retransmissionQueue, numOutstandingFrames, writeChan, ctxDone,
                 canceller, control>>
  /\ CheckCompleted

\* The rest of Close: onHasStreamData, then the context is cancelled.
CloseNotifies ==
  /\ writer = "closing"
  /\ active' = TRUE
  /\ ctxDone' = TRUE
  /\ writer' = "idle"
  /\ UNCHANGED <<appVars, windowVars, resetVars, cancelVars, deadlineVars, netVars, finishedWriting,
                 finSent, completed, retransmissionQueue, numOutstandingFrames, writeChan, canceller,
                 control>>

\* FinalSize of the RESET_STREAM frame.
ResetFinalSize == writeOffset

\* Mutant: the writer is not woken.
NotSignalled == writeChan

\* writeChan after signalWrite in cancelWrite.
SignalledByCancel == TRUE

\* cancelWrite of a stream that was not cancelled before, under the mutex.
DoCancel(flag) ==
  /\ cancelled' = TRUE /\ finalError' = "cancel" /\ ctxDone' = TRUE
  /\ cancellationFlagged' = (cancellationFlagged \/ flag)
  /\ numOutstandingFrames' = 0 /\ retransmissionQueue' = <<>>
  /\ queuedReset' = TRUE /\ resetSize' = ResetFinalSize
  /\ UNCHANGED <<appVars, windowVars, closedForShutdown, deadlineVars, netVars, finishedWriting,
                 finSent, completed, writer, active>>

\* CancelWrite.
CancelWrite ==
  /\ ~canceller /\ ~closedForShutdown /\ ~cancelled
  /\ DoCancel(TRUE)
  /\ canceller' = TRUE
  /\ UNCHANGED <<writeChan, control>>

\* The rest of CancelWrite: signalWrite and onHasStreamControlFrame.
CancelSignals ==
  /\ canceller
  /\ canceller' = FALSE
  /\ writeChan' = SignalledByCancel
  /\ control' = TRUE
  /\ UNCHANGED <<appVars, windowVars, resetVars, cancelVars, deadlineVars, netVars, finishedWriting,
                 finSent, completed, retransmissionQueue, numOutstandingFrames, ctxDone, writer, active>>

\* CancelWrite of a stream that is cancelled already, for example by STOP_SENDING.
CancelWriteAgain ==
  /\ ~closedForShutdown /\ cancelled /\ ~cancellationFlagged
  /\ cancellationFlagged' = TRUE
  /\ UNCHANGED <<appVars, windowVars, resetVars, cancelled, finalError, closedForShutdown, deadlineVars,
                 netVars, finishedWriting, finSent, retransmissionQueue, numOutstandingFrames,
                 writeChan, ctxDone, writer, canceller, control>>
  /\ CheckCompleted

\* A STOP_SENDING frame.  Frames for a completed stream are dropped by the streams map.
ReceiveStopSending ==
  /\ ~closedForShutdown /\ ~cancelled /\ ~completed
  /\ DoCancel(FALSE)
  /\ writeChan' = SignalledByCancel /\ control' = TRUE
  /\ UNCHANGED canceller

\* The connection is closed; the run loop stops.
CloseForShutdown ==
  /\ ~closedForShutdown /\ ~completed
  /\ closedForShutdown' = TRUE
  /\ finalError' = IF finalError = "none" /\ ~finishedWriting THEN "shutdown" ELSE finalError
  /\ writeChan' = TRUE
  /\ UNCHANGED <<appVars, windowVars, resetVars, cancelled, cancellationFlagged, deadlineVars, netVars,
                 finishedWriting, finSent, completed, retransmissionQueue, numOutstandingFrames,
                 ctxDone, writer, canceller, active, control>>

--------------------------------------------------------------------------------
(* The run loop: frames for the next packet.  A call of popStreamFrame that finds no    *)
(* room in the packet or no credit leaves everything as it is.                          *)

\* Whether getDataForWriting wakes the writer.
WakeWriter(rest) == rest = 0 \/ CanBuffer(rest)

RunLoop == active /\ ~closedForShutdown /\ finalError = "none"

Sent(f) ==
  /\ inFlight' = inFlight \cup {f}
  /\ numOutstandingFrames' = numOutstandingFrames + 1

\* The frame that MaybeSplitOffFrame puts into the packet.
SplitOff(f, n) == [f EXCEPT !.len = n, !.fin = FALSE]

\* Mutant: the rest keeps the offset of the frame.
RestInPlace(f, n) == [f EXCEPT !.len = @ - n]

\* What is left of the frame in the queue.
RestOf(f, n) == [f EXCEPT !.off = @ + n, !.len = @ - n]

\* A frame of the retransmission queue, or the part of it that fits.
PopRetransmission(n) ==
  /\ RunLoop /\ retransmissionQueue # <<>>
  /\ LET f == Head(retransmissionQueue) IN
       IF f.len > n
       THEN /\ Sent(SplitOff(f, n))
            /\ retransmissionQueue' = <<RestOf(f, n)>> \o Tail(retransmissionQueue)
       ELSE /\ Sent(f)
            /\ retransmissionQueue' = Tail(retransmissionQueue)
  /\ UNCHANGED <<appVars, windowVars, resetVars, cancelVars, deadlineVars, resetInFlight, ackedBytes,
                 finAcked, resetAcked, lost, finishedWriting, finSent, completed, writeChan, ctxDone,
                 writer, canceller, active, control>>

\* New data, n bytes of it, with the FIN if the application has closed the stream.
PopData(n) ==
  /\ RunLoop /\ retransmissionQueue = <<>>
  /\ n <= sendWindow - writeOffset
  /\ \/ /\ nextFrame > 0 /\ n <= nextFrame
        /\ nextFrame' = nextFrame - n /\ UNCHANGED data
        /\ writeChan' = (writeChan \/ n = nextFrame)
        /\ active' = (nextFrame' > 0 \/ data > 0)
     \/ /\ nextFrame = 0 /\ n <= data
        /\ data' = data - n /\ UNCHANGED nextFrame
        /\ writeChan' = (writeChan \/ WakeWriter(data'))
        /\ active' = (data' > 0 \/ finishedWriting)
  /\ writeOffset' = writeOffset + n
  /\ lastBlockedAt' = IF writeOffset' = sendWindow THEN sendWindow ELSE lastBlockedAt
  /\ finSent' = (finishedWriting /\ data' = 0 /\ nextFrame' = 0)
  /\ Sent([off |-> writeOffset, len |-> n, fin |-> finSent'])
  /\ UNCHANGED <<accepted, sendWindow, resetVars, cancelVars, deadlineVars, resetInFlight, ackedBytes,
                 finAcked, resetAcked, lost, finishedWriting, completed, retransmissionQueue, ctxDone,
                 writer, canceller, control>>

NothingToSend == retransmissionQueue = <<>> /\ data = 0 /\ nextFrame = 0

\* A FIN without data.
PopFin ==
  /\ RunLoop /\ NothingToSend /\ finishedWriting /\ ~finSent
  /\ finSent' = TRUE
  /\ Sent([off |-> writeOffset, len |-> 0, fin |-> TRUE])
  /\ active' = FALSE
  /\ UNCHANGED <<appVars, windowVars, resetVars, cancelVars, deadlineVars, resetInFlight, ackedBytes,
                 finAcked, resetAcked, lost, finishedWriting, completed, retransmissionQueue, writeChan,
                 ctxDone, writer, canceller, control>>

\* The framer asks a stream that has nothing to send, and forgets it.
PopNothing ==
  /\ active /\ ~closedForShutdown
  /\ finalError # "none" \/ (NothingToSend /\ (finSent \/ ~finishedWriting))
  /\ active' = FALSE
  /\ UNCHANGED <<appVars, windowVars, resetVars, cancelVars, deadlineVars, netVars, finishedWriting,
                 finSent, completed, retransmissionQueue, numOutstandingFrames, writeChan, ctxDone,
                 writer, canceller, control>>

\* getControlFrame.
PopReset ==
  /\ control /\ ~closedForShutdown
  /\ control' = FALSE
  /\ IF queuedReset
     THEN /\ numOutstandingFrames' = numOutstandingFrames + 1
          /\ resetInFlight' = TRUE
          /\ queuedReset' = FALSE
     ELSE UNCHANGED <<numOutstandingFrames, resetInFlight, queuedReset>>
  /\ UNCHANGED <<appVars, windowVars, resetSize, cancelVars, deadlineVars, inFlight, ackedBytes, finAcked,
                 resetAcked, lost, finishedWriting, finSent, completed, retransmissionQueue,
                 writeChan, ctxDone, writer, canceller, active>>

--------------------------------------------------------------------------------
(* The run loop: acknowledgements, losses and MAX_STREAM_DATA. *)

\* OnAcked and OnLost of a STREAM frame do nothing once the stream is cancelled.
Counts == ~cancelled

AckFrame(f) ==
  /\ ~closedForShutdown /\ f \in inFlight
  /\ inFlight' = inFlight \ {f}
  /\ ackedBytes' = ackedBytes \cup Bytes(f)
  /\ finAcked' = (finAcked \/ f.fin)
  /\ UNCHANGED <<appVars, windowVars, resetVars, cancelVars, deadlineVars, resetInFlight, resetAcked, lost,
                 finishedWriting, finSent, retransmissionQueue, writeChan, ctxDone, writer, canceller,
                 control>>
  /\ IF Counts
     THEN numOutstandingFrames' = numOutstandingFrames - 1 /\ CheckCompleted
     ELSE UNCHANGED <<numOutstandingFrames, completed, active>>

LoseFrame(f) ==
  /\ ~closedForShutdown /\ f \in inFlight /\ lost < MaxLost
  /\ lost' = lost + 1
  /\ inFlight' = inFlight \ {f}
  /\ IF Counts
     THEN /\ retransmissionQueue' = Append(retransmissionQueue, f)
          /\ numOutstandingFrames' = numOutstandingFrames - 1
          /\ active' = TRUE
     ELSE UNCHANGED <<retransmissionQueue, numOutstandingFrames, active>>
  /\ UNCHANGED <<appVars, windowVars, resetVars, cancelVars, deadlineVars, resetInFlight, ackedBytes,
                 finAcked, resetAcked, finishedWriting, finSent, completed, writeChan, ctxDone,
                 writer, canceller, control>>

AckReset ==
  /\ ~closedForShutdown /\ resetInFlight
  /\ resetInFlight' = FALSE /\ resetAcked' = TRUE
  /\ numOutstandingFrames' = numOutstandingFrames - 1
  /\ UNCHANGED <<appVars, windowVars, resetVars, cancelVars, deadlineVars, inFlight, ackedBytes, finAcked,
                 lost, finishedWriting, finSent, retransmissionQueue, writeChan, ctxDone, writer,
                 canceller, control>>
  /\ CheckCompleted

\* streamsWithControlFrames after OnLost of RESET_STREAM.
ControlAfterLoss == TRUE

LoseReset ==
  /\ ~closedForShutdown /\ resetInFlight /\ lost < MaxLost
  /\ lost' = lost + 1
  /\ resetInFlight' = FALSE /\ queuedReset' = TRUE
  /\ numOutstandingFrames' = numOutstandingFrames - 1
  /\ control' = ControlAfterLoss
  /\ UNCHANGED <<appVars, windowVars, resetSize, cancelVars, deadlineVars, inFlight, ackedBytes, finAcked,
                 resetAcked, finishedWriting, finSent, completed, retransmissionQueue, writeChan,
                 ctxDone, writer, canceller, active>>

\* updateSendWindow.
ReceiveMaxStreamData(limit) ==
  /\ ~closedForShutdown /\ ~completed /\ limit > sendWindow
  /\ sendWindow' = limit
  /\ active' = (active \/ data > 0 \/ nextFrame > 0)
  /\ UNCHANGED <<appVars, lastBlockedAt, resetVars, cancelVars, deadlineVars, netVars, finishedWriting,
                 finSent, completed, retransmissionQueue, numOutstandingFrames, writeChan, ctxDone,
                 writer, canceller, control>>

--------------------------------------------------------------------------------
AppStep ==
  \/ \E n \in 1..MaxData : Write(n)
  \/ WriteFails \/ NotifySender \/ Wake
  \/ \E d \in {"none", "future"} : SetWriteDeadline(d)
  \/ DeadlinePasses
  \/ Close \/ CloseNotifies
  \/ CancelWrite \/ CancelSignals \/ CancelWriteAgain

RunLoopStep ==
  \/ \E n \in 1..MaxFrame : PopRetransmission(n)
  \/ \E n \in 1..MaxFrame : PopData(n)
  \/ PopFin \/ PopNothing \/ PopReset
  \/ \E f \in inFlight : AckFrame(f)
  \/ \E f \in inFlight : LoseFrame(f)
  \/ AckReset \/ LoseReset
  \/ \E limit \in 1..MaxData : ReceiveMaxStreamData(limit)
  \/ ReceiveStopSending \/ CloseForShutdown

SendNext == AppStep \/ RunLoopStep

SendSpec == SendInit /\ [][SendNext]_sendVars

\* What is sure to happen: goroutines run, timers fire, the run loop sends for the streams the
\* framer knows, what is sent is acknowledged (losses are finite) and the peer's reader
\* gives credit.  The application need not call anything.  Each of these steps uses up
\* something that only other calls provide, so they come to an end.
SureStep ==
  \/ NotifySender
  \/ (writeChan \/ deadline = "passed") /\ Wake
  \/ CloseNotifies \/ CancelSignals
  \/ \E n \in 1..MaxFrame : PopRetransmission(n) \/ PopData(n)
  \/ PopFin \/ PopReset
  \/ \E f \in inFlight : AckFrame(f)
  \/ AckReset
  \/ \E limit \in 1..MaxData : ReceiveMaxStreamData(limit)

--------------------------------------------------------------------------------
Queued == Elements(retransmissionQueue)

\* Nothing is lost for good and nothing is sent twice at a time: unless the stream is
\* cancelled, every byte that was taken from the application, and the FIN, is
\* acknowledged, in flight or queued for retransmission, and only one of these.
EveryByteAccountedFor ==
  ~cancelled =>
    /\ \A b \in 0..(writeOffset - 1) :
         Cardinality({f \in inFlight : b \in Bytes(f)})
           + Cardinality({i \in DOMAIN retransmissionQueue : b \in Bytes(retransmissionQueue[i])})
           + (IF b \in ackedBytes THEN 1 ELSE 0) = 1
    /\ finSent <=> finAcked \/ \E f \in inFlight \cup Queued : f.fin

\* numOutstandingFrames is the number of frames whose fate is open (frames sent before a
\* cancellation do not count): OnAcked and OnLost never make it negative, which panics.
OutstandingExact ==
  numOutstandingFrames = (IF cancelled THEN 0 ELSE Cardinality(inFlight)) + (IF resetInFlight THEN 1 ELSE 0)

\* A stream is forgotten only when the peer has everything up to the FIN, or has the
\* RESET_STREAM.
CompletedIsDelivered ==
  completed => \/ resetAcked
               \/ finAcked /\ ackedBytes = 0..(writeOffset - 1) /\ NothingToSend

\* All frames that end the stream agree on its size, and no frame exceeds it, whatever
\* the order of Close, CancelWrite and STOP_SENDING.
FinalSizeConsistent ==
  /\ \A f \in inFlight \cup Queued :
       f.off + f.len <= writeOffset /\ (f.fin => f.off + f.len = writeOffset)
  /\ (queuedReset \/ resetInFlight \/ resetAcked) => resetSize = writeOffset
  /\ finSent => nextFrame = 0 /\ data = 0

\* After Write has returned, no frame is filled from the slice that it was given.
BufferNotUsedAfterWrite == writer \in {"idle", "closing"} /\ data > 0 => finalError # "none"

\* All of these, of the sending half of one stream (send_stream.go).
SendExact ==
  /\ EveryByteAccountedFor /\ OutstandingExact /\ CompletedIsDelivered
  /\ FinalSizeConsistent /\ BufferNotUsedAfterWrite

\* No wake-up is lost: when nothing is sure to happen any more, Write and Close have returned,
\* and a stream that the application has closed, or whose cancellation it knows, is completed.
SendSettles ==
  ~ENABLED SureStep =>
    /\ writer = "idle"
    /\ finishedWriting \/ cancellationFlagged => completed \/ closedForShutdown
================================================================================
