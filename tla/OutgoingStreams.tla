---------------------------- MODULE OutgoingStreams ----------------------------
(* The map of streams that this endpoint opens (streams_map_outgoing.go), for   *)
(* one stream type.  Application goroutines call OpenStream and OpenStreamSync; *)
(* the connection's run loop calls SetMaxStream, DeleteStream and               *)
(* CloseWithError.  Everything a call does while it holds m.mutex is one step.  *)
(* OpenStreamSync gives the mutex up while it waits in a select, so a waiter    *)
(* has three control points outside the lock:                                  *)
(*   "waiting"    in (or on its way to) the select of line 95                   *)
(*   "woken"      received from its channel, about to take the mutex            *)
(*   "cancelled"  took the ctx.Done() branch, about to take the mutex           *)
EXTENDS Integers, FiniteSets, Sequences

CONSTANTS
  Callers,      \* goroutines that open streams
  Cancellable,  \* the callers whose context may be cancelled while they wait
  MaxLimit,     \* bound: the highest stream limit the peer grants
  MaxWaits      \* bound: number of times a caller is put into the queue

ASSUME OutgoingAssumption ==
  /\ IsFiniteSet(Callers)
  /\ Cancellable \subseteq Callers
  /\ MaxLimit \in Nat
  /\ MaxWaits \in Nat

VARIABLES
  streams,        \* m.streams: the numbers of the streams in the map
  openQueue,      \* DOMAIN of m.openQueue: the positions of the waiters
  token,          \* the positions whose channel (capacity 1) holds a value
  lowestInQueue,
  highestInQueue,
  nextStream,
  maxStream,
  blockedSent,
  closed,         \* m.closeErr # nil; closes every channel in openQueue
  pc,             \* where each caller is
  pos,            \* queuePos of each caller that is not idle
  blockedFrames   \* history: the limits of the STREAMS_BLOCKED frames queued

queueVars == <<openQueue, token, lowestInQueue, highestInQueue>>
vars == <<streams, queueVars, nextStream, maxStream, blockedSent, closed, pc, pos,
          blockedFrames>>

InvalidStreamNum == -1

TypeOK ==
  /\ streams \subseteq (Nat \ {0})
  /\ openQueue \subseteq Nat
  /\ token \subseteq openQueue
  /\ lowestInQueue \in Nat
  /\ highestInQueue \in Nat
  /\ nextStream \in Nat \ {0}
  /\ maxStream \in Int
  /\ maxStream >= InvalidStreamNum
  /\ blockedSent \in BOOLEAN
  /\ closed \in BOOLEAN
  /\ pc \in [Callers -> {"idle", "waiting", "woken", "cancelled"}]
  /\ pos \in [Callers -> Nat]
  /\ blockedFrames \in Seq(Nat)

Init ==
  /\ streams = {}
  /\ openQueue = {}
  /\ token = {}
  /\ lowestInQueue = 0
  /\ highestInQueue = 0
  /\ nextStream = 1
  /\ maxStream = InvalidStreamNum
  /\ blockedSent = FALSE
  /\ closed = FALSE
  /\ pc = [c \in Callers |-> "idle"]
  /\ pos = [c \in Callers |-> 0]
  /\ blockedFrames = << >>

--------------------------------------------------------------------------------
(* Helpers that the code calls with the mutex held.                             *)

\* Mutant: the first stream after the limit is opened as well.
CreditOffByOne == nextStream <= maxStream + 1

HasCredit == nextStream <= maxStream

openStream ==
  /\ streams' = streams \cup {nextStream}
  /\ nextStream' = nextStream + 1

\* The limit that STREAMS_BLOCKED reports: 0 while no limit is known.
ReportedLimit(limit) == IF limit = InvalidStreamNum THEN 0 ELSE limit

\* blockedSent as it is when maybeSendBlockedFrame is called.
maybeSendBlockedFrame(wasSent, limit) ==
  /\ blockedSent' = TRUE
  /\ blockedFrames' = IF wasSent THEN blockedFrames
                      ELSE Append(blockedFrames, ReportedLimit(limit))

\* The position whose channel unblockOpenSync sends to: the first one from
\* lowestInQueue up that is still in the queue.
ToUnblock(queue, lowest, highest) ==
  {q \in queue : lowest <= q /\ q <= highest /\ \A r \in queue : lowest <= r => q <= r}

\* The send never blocks: a full channel keeps its value.  The channel of a
\* waiter that has left the queue is garbage.
unblockOpenSync(queue, lowest) ==
  token' = (token \cap queue) \cup ToUnblock(queue, lowest, highestInQueue)

--------------------------------------------------------------------------------
(* Calls of the application.  A connection is handed to the application once    *)
(* the transport parameters are applied, which sets the first limit             *)
(* (connection.go, handleTransportParameters and handleHandshakeComplete).      *)

Usable == maxStream # InvalidStreamNum

\* Mutant: OpenStream does not look at the queue.
OpenBargesIn == HasCredit

MayOpenDirectly == openQueue = {} /\ HasCredit

\* A call on a closed map returns closeErr and changes nothing.
OpenStream(c) ==
  /\ pc[c] = "idle" /\ Usable /\ ~closed
  /\ IF MayOpenDirectly
     THEN openStream /\ UNCHANGED <<blockedSent, blockedFrames>>
     ELSE maybeSendBlockedFrame(blockedSent, maxStream) /\ UNCHANGED <<streams, nextStream>>
  /\ UNCHANGED <<queueVars, maxStream, closed, pc, pos>>

\* OpenStreamSync up to the first select.
OpenStreamSync(c) ==
  /\ pc[c] = "idle" /\ Usable /\ ~closed
  /\ \/ /\ MayOpenDirectly
        /\ openStream
        /\ UNCHANGED <<queueVars, blockedSent, blockedFrames, pc, pos>>
     \/ /\ ~MayOpenDirectly
        /\ highestInQueue < MaxWaits
        /\ pos' = [pos EXCEPT ![c] = highestInQueue]
        /\ pc' = [pc EXCEPT ![c] = "waiting"]
        /\ openQueue' = openQueue \cup {highestInQueue}
        /\ highestInQueue' = highestInQueue + 1
        /\ lowestInQueue' = IF openQueue = {} THEN highestInQueue ELSE lowestInQueue
        /\ maybeSendBlockedFrame(blockedSent, maxStream)
        /\ UNCHANGED <<streams, nextStream, token>>
  /\ UNCHANGED <<maxStream, closed>>

\* The waiter's channel holds a value, or CloseWithError closed it.
WaitChanReady(c) == pos[c] \in token \/ closed

SelectWaitChan(c) ==
  /\ pc[c] = "waiting"
  /\ WaitChanReady(c)
  /\ pc' = [pc EXCEPT ![c] = "woken"]
  /\ token' = token \ {pos[c]}
  /\ UNCHANGED <<streams, openQueue, lowestInQueue, highestInQueue, nextStream,
                 maxStream, blockedSent, closed, pos, blockedFrames>>

\* The select takes the ctx.Done() branch.  It may do so with a value in the
\* channel: select picks any branch that is ready.
SelectCtxDone(c) ==
  /\ pc[c] = "waiting"
  /\ c \in Cancellable
  /\ pc' = [pc EXCEPT ![c] = "cancelled"]
  /\ UNCHANGED <<streams, queueVars, nextStream, maxStream, blockedSent, closed,
                 pos, blockedFrames>>

\* Lines 97-99: the waiter leaves the queue and returns ctx.Err().
ReturnCancelled(c) ==
  /\ pc[c] = "cancelled"
  /\ pc' = [pc EXCEPT ![c] = "idle"]
  /\ openQueue' = openQueue \ {pos[c]}
  /\ token' = token \ {pos[c]}
  /\ UNCHANGED <<streams, lowestInQueue, highestInQueue, nextStream, maxStream,
                 blockedSent, closed, pos, blockedFrames>>

\* Lines 102-106: the map was closed while the waiter waited.  Its entry stays.
ReturnClosed(c) ==
  /\ pc[c] = "woken" /\ closed
  /\ pc' = [pc EXCEPT ![c] = "idle"]
  /\ UNCHANGED <<streams, queueVars, nextStream, maxStream, blockedSent, closed,
                 pos, blockedFrames>>

\* Lines 107-110: no stream available, back to the select.
KeepWaiting(c) ==
  /\ pc[c] = "woken" /\ ~closed /\ ~HasCredit
  /\ pc' = [pc EXCEPT ![c] = "waiting"]
  /\ UNCHANGED <<streams, queueVars, nextStream, maxStream, blockedSent, closed,
                 pos, blockedFrames>>

\* lowestInQueue once c has left the queue.
LowestAfter(c) == pos[c] + 1

\* Lines 111-115: open the stream, leave the queue, wake the next waiter.
OpenWaiting(c) ==
  /\ pc[c] = "woken" /\ ~closed /\ HasCredit
  /\ openStream
  /\ pc' = [pc EXCEPT ![c] = "idle"]
  /\ openQueue' = openQueue \ {pos[c]}
  /\ lowestInQueue' = LowestAfter(c)
  /\ unblockOpenSync(openQueue \ {pos[c]}, LowestAfter(c))
  /\ UNCHANGED <<highestInQueue, maxStream, blockedSent, closed, pos, blockedFrames>>

--------------------------------------------------------------------------------
(* Calls of the run loop.  It handles no frame after handleCloseError.          *)

IsStaleLimit(num) == num <= maxStream

\* Not every waiter can be served under the new limit.
StillBlocked(num) == num < nextStream - 1 + Cardinality(openQueue)

SetMaxStream(num) ==
  /\ ~closed
  /\ ~IsStaleLimit(num)
  /\ maxStream' = num
  /\ IF StillBlocked(num)
     THEN maybeSendBlockedFrame(FALSE, num)
     ELSE blockedSent' = FALSE /\ UNCHANGED blockedFrames
  /\ unblockOpenSync(openQueue, lowestInQueue)
  /\ UNCHANGED <<streams, openQueue, lowestInQueue, highestInQueue, nextStream, closed, pc, pos>>

\* A stream completes (connection.go, onStreamCompleted), on the run loop or on
\* the goroutine of the application.
DeleteStream(num) ==
  /\ num \in streams
  /\ streams' = streams \ {num}
  /\ UNCHANGED <<queueVars, nextStream, maxStream, blockedSent, closed, pc, pos,
                 blockedFrames>>

CloseWithError ==
  /\ ~closed
  /\ closed' = TRUE
  /\ UNCHANGED <<streams, queueVars, nextStream, maxStream, blockedSent, pc, pos,
                 blockedFrames>>

--------------------------------------------------------------------------------
\* What a waiter does on its own once it is scheduled.
WaiterStep(c) ==
  \/ SelectWaitChan(c)
  \/ ReturnCancelled(c)
  \/ ReturnClosed(c)
  \/ KeepWaiting(c)
  \/ OpenWaiting(c)

Next ==
  \/ \E c \in Callers :
       \/ OpenStream(c)
       \/ OpenStreamSync(c)
       \/ SelectWaitChan(c)
       \/ SelectCtxDone(c)
       \/ ReturnCancelled(c)
       \/ ReturnClosed(c)
       \/ KeepWaiting(c)
       \/ OpenWaiting(c)
  \/ \E num \in 0..MaxLimit : SetMaxStream(num)
  \/ \E num \in streams : DeleteStream(num)
  \/ CloseWithError

Spec == Init /\ [][Next]_vars

\* The Go scheduler runs every goroutine that can run, and a select with a ready
\* branch proceeds.
Fairness == \A c \in Callers : WF_vars(WaiterStep(c))

FairSpec == Spec /\ Fairness
--------------------------------------------------------------------------------
(* Properties.                                                                  *)

\* No stream beyond the peer's limit is ever opened: not by OpenStream, not by a
\* waiter that was woken under an older state of the map, whatever the order.
WithinLimit == nextStream - 1 <= ReportedLimit(maxStream)

\* Streams go to callers in the order in which they started to wait: a direct
\* open happens only if nobody waits, and a waiter that opens a stream is the
\* oldest one in the queue.  This is what lowestInQueue is for (lines 87, 113,
\* 203), and it must survive cancelled waiters that leave holes in the queue.
ServedInOrder ==
  [][nextStream' # nextStream =>
       \/ openQueue = {}
       \/ \E c \in Callers : /\ pc[c] = "woken" /\ pc'[c] = "idle"
                             /\ \A q \in openQueue : pos[c] <= q]_vars

\* The search of unblockOpenSync starts at or below every waiter: no waiter is
\* ever out of reach of the loop of line 203.
WaitersReachable ==
  \A q \in openQueue : lowestInQueue <= q /\ q < highestInQueue

\* The peer knows that we are blocked: if the current limit does not cover all
\* waiters, STREAMS_BLOCKED was queued for exactly this limit (lines 91, 181).
\* Without it a peer that waits for the frame would never raise the limit.
BlockedIsReported ==
  (openQueue # {} /\ Cardinality(openQueue) > maxStream - (nextStream - 1))
    => \E i \in 1..Len(blockedFrames) : blockedFrames[i] = maxStream

\* STREAMS_BLOCKED is queued at most once for a limit (comment at line 126),
\* however SetMaxStream and the callers interleave.
OneBlockedFramePerLimit ==
  \A i, j \in 1..Len(blockedFrames) : i < j => blockedFrames[i] < blockedFrames[j]

\* While no context is cancelled, credit and waiters imply a wake-up in flight:
\* some waiter has a value in its channel or is about to take the mutex.
CreditIsSignalled ==
  (openQueue # {} /\ HasCredit /\ ~closed)
    => \E c \in Callers : \/ pc[c] = "woken"
                          \/ pc[c] = "waiting" /\ pos[c] \in token

\* OpenStreamSync "blocks until a new stream can be opened" (interface.go:168):
\* a caller does not stay blocked while the limit allows a stream.
OpenedWhenPossible ==
  \A c \in Callers :
    (pc[c] = "waiting" /\ HasCredit) ~> (pc[c] = "idle" \/ ~HasCredit)

\* CloseWithError releases every blocked caller.
CloseReleasesWaiters ==
  \A c \in Callers : (closed /\ pc[c] # "idle") ~> (pc[c] = "idle")
================================================================================
