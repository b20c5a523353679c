------------------------------ MODULE StreamLimits ------------------------------
(* Two endpoints and one stream type: the opener's map (OutgoingStreams) and the *)
(* acceptor, taken at the level of StreamCredit, which IncomingStreams           *)
(* implements.  Between them, MAX_STREAMS frames: the acceptor queues one for    *)
(* each new limit; they may arrive late, out of order and more than once, since  *)
(* a frame of a lost packet is sent again as it was.  The initial limit travels  *)
(* in the transport parameters.  STREAMS_BLOCKED changes nothing at the acceptor *)
(* (connection.go, handleFrame).                                                 *)
EXTENDS OutgoingStreams

CONSTANT MaxNumStreams  \* the acceptor's limit on unfinished streams

ASSUME StreamLimitsAssumption == MaxNumStreams \in Nat /\ MaxNumStreams <= MaxLimit

VARIABLES
  granted, opened, done,  \* the acceptor, see StreamCredit
  maxStreamsFrames        \* the limits of all MAX_STREAMS frames sent so far

acceptorVars == <<granted, opened, done>>
limitVars == <<vars, acceptorVars, maxStreamsFrames>>

Acceptor == INSTANCE StreamCredit WITH MaxStreamCount <- MaxLimit

LimitsInit ==
  /\ Init
  /\ Acceptor!CreditInit
  /\ maxStreamsFrames = {MaxNumStreams}

\* The application, or a goroutine that waits in OpenStreamSync.
OpenerStep ==
  /\ \/ \E c \in Callers : OpenStream(c) \/ OpenStreamSync(c) \/ WaiterStep(c) \/ SelectCtxDone(c)
     \/ \E num \in streams : DeleteStream(num)
     \/ CloseWithError
  /\ UNCHANGED <<acceptorVars, maxStreamsFrames>>

\* HandleMaxStreamsFrame or UpdateLimits, with any frame sent so far.
ReceiveMaxStreams(num) ==
  /\ SetMaxStream(num)
  /\ UNCHANGED <<acceptorVars, maxStreamsFrames>>

\* The first frame of a stream reaches the acceptor.
ReceiveStream(num) ==
  /\ Acceptor!Open(num)
  /\ UNCHANGED <<vars, maxStreamsFrames>>

\* Mutant: MAX_STREAMS is not queued for the new limit.
FinishSilently ==
  /\ Acceptor!Finish
  /\ UNCHANGED <<vars, maxStreamsFrames>>

\* A stream is accepted and complete at the acceptor.
FinishStream ==
  /\ Acceptor!Finish
  /\ maxStreamsFrames' = maxStreamsFrames \cup {granted'}
  /\ UNCHANGED vars

LimitsNext ==
  \/ OpenerStep
  \/ \E num \in maxStreamsFrames : ReceiveMaxStreams(num)
  \/ \E num \in 1..(nextStream - 1) : ReceiveStream(num)
  \/ FinishStream

LimitsSpec == LimitsInit /\ [][LimitsNext]_limitVars

\* Two endpoints that run this code never close the connection over stream
\* limits: at any time every stream the opener has opened is within what the
\* acceptor grants (GetOrOpenStream, streams_map_incoming.go:103), and what the
\* opener believes to be the limit was really granted.
NeverRejected == nextStream - 1 <= granted /\ maxStream <= granted

\* The limit of streams is never exceeded by an endpoint that runs this code, and the
\* acceptor is told when its limit keeps callers waiting.
LimitsAgree == TypeOK /\ NeverRejected /\ BlockedIsReported

\* Every caller that waits gets its stream in the end, as long as stream IDs last and
\* no waiter is cancelled (one that is may take a wake-up with it).
EveryWaiterServed ==
  [](\A c \in Callers : pc[c] # "cancelled") => \A c \in Callers :
    pc[c] = "waiting" ~> (pc[c] = "idle" \/ closed \/ nextStream > MaxLimit)
================================================================================
