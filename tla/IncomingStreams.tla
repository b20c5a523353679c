---------------------------- MODULE IncomingStreams ----------------------------
(* The map of streams that the peer opens (streams_map_incoming.go), for one    *)
(* stream type.  The run loop calls GetOrOpenStream for the frames it receives  *)
(* and CloseWithError; application goroutines call AcceptStream; a stream calls *)
(* DeleteStream from whichever goroutine completes it.                          *)
(*                                                                              *)
(* Steps: everything done while the mutex is held, and every operation on       *)
(* newStreamChan outside of it.  An acceptor is                                 *)
(*   "locking"   about to take the mutex and to look at the map                 *)
(*   "toSelect"  found nothing, released the mutex, not yet in the select       *)
(*   "parked"    blocked in the select of line 82                               *)
(* A value sent to newStreamChan goes to a parked receiver if there is one;     *)
(* otherwise it stays in the buffer (capacity 1) or is dropped (line 132).      *)
EXTENDS Integers, FiniteSets

CONSTANTS
  Acceptors,       \* goroutines that call AcceptStream
  MaxNumStreams,   \* m.maxNumStreams
  MaxStreamCount   \* protocol.MaxStreamCount

ASSUME IncomingAssumption ==
  /\ IsFiniteSet(Acceptors)
  /\ MaxNumStreams \in Nat
  /\ MaxStreamCount \in Nat
  /\ MaxNumStreams <= MaxStreamCount

VARIABLES
  streams,             \* DOMAIN of m.streams
  shouldDelete,        \* the entries of m.streams with shouldDelete set
  nextStreamToAccept,
  nextStreamToOpen,
  maxStream,
  newStreamChan,       \* the buffer of the channel holds a value
  closeErr,            \* m.closeErr # nil
  pc,                  \* where each acceptor is
  loop,                \* the run loop: "ready", "opening", "failed", "closing", "stopped"
  pending              \* "opening": the stream GetOrOpenStream is about to open

mapVars == <<streams, shouldDelete, nextStreamToAccept, nextStreamToOpen, maxStream>>
vars == <<mapVars, newStreamChan, closeErr, pc, loop, pending>>

StreamNums == 1..MaxStreamCount

TypeOK ==
  /\ streams \subseteq StreamNums
  /\ shouldDelete \subseteq streams
  /\ nextStreamToAccept \in Nat \ {0}
  /\ nextStreamToOpen \in Nat \ {0}
  /\ maxStream \in Nat
  /\ newStreamChan \in BOOLEAN
  /\ closeErr \in BOOLEAN
  /\ pc \in [Acceptors -> {"idle", "locking", "toSelect", "parked"}]
  /\ loop \in {"ready", "opening", "failed", "closing", "stopped"}
  /\ pending \in Nat

Init ==
  /\ streams = {}
  /\ shouldDelete = {}
  /\ nextStreamToAccept = 1
  /\ nextStreamToOpen = 1
  /\ maxStream = MaxNumStreams
  /\ newStreamChan = FALSE
  /\ closeErr = FALSE
  /\ pc = [a \in Acceptors |-> "idle"]
  /\ loop = "ready"
  /\ pending = 0

--------------------------------------------------------------------------------
(* deleteStream, called with the mutex held.                                    *)

\* The limit that leaves room for MaxNumStreams streams, numStreams being open.
LimitAfter(numStreams) == nextStreamToOpen + (MaxNumStreams - numStreams) - 1

\* Mutant: the check against protocol.MaxStreamCount is missing.
NewLimitUncapped(numStreams) ==
  IF MaxNumStreams > numStreams THEN LimitAfter(numStreams) ELSE maxStream

NewLimit(numStreams) ==
  IF MaxNumStreams > numStreams /\ LimitAfter(numStreams) <= MaxStreamCount
  THEN LimitAfter(numStreams)
  ELSE maxStream

\* accepted: num < nextStreamToAccept as deleteStream sees it.
deleteStream(num, accepted) ==
  IF accepted
  THEN /\ streams' = streams \ {num}
       /\ shouldDelete' = shouldDelete \ {num}
       /\ maxStream' = NewLimit(Cardinality(streams \ {num}))
  ELSE /\ shouldDelete' = shouldDelete \cup {num}
       /\ UNCHANGED <<streams, maxStream>>

WasAccepted(num) == num < nextStreamToAccept

\* A stream completes.  It does so once, so deleteStream finds it in the map and
\* not yet marked.
DeleteStream(num) ==
  /\ num \in streams \ shouldDelete
  /\ deleteStream(num, WasAccepted(num))
  /\ UNCHANGED <<nextStreamToAccept, nextStreamToOpen, newStreamChan, closeErr, pc, loop, pending>>

--------------------------------------------------------------------------------
(* AcceptStream                                                                 *)

\* Lines 61-64: drain the channel.
AcceptStream(a) ==
  /\ pc[a] = "idle"
  /\ pc' = [pc EXCEPT ![a] = "locking"]
  /\ newStreamChan' = FALSE
  /\ UNCHANGED <<mapVars, closeErr, loop, pending>>

AcceptClosed(a) ==
  /\ pc[a] = "locking" /\ closeErr
  /\ pc' = [pc EXCEPT ![a] = "idle"]
  /\ UNCHANGED <<mapVars, newStreamChan, closeErr, loop, pending>>

DeleteOnAccept == nextStreamToAccept \in shouldDelete

\* Lines 77-80, 89-98: take the next stream, and delete it if it is complete.
AcceptNext(a) ==
  /\ pc[a] = "locking" /\ ~closeErr
  /\ nextStreamToAccept \in streams
  /\ pc' = [pc EXCEPT ![a] = "idle"]
  /\ nextStreamToAccept' = nextStreamToAccept + 1
  /\ IF DeleteOnAccept
     THEN deleteStream(nextStreamToAccept, TRUE)
     ELSE UNCHANGED <<streams, shouldDelete, maxStream>>
  /\ UNCHANGED <<nextStreamToOpen, newStreamChan, closeErr, loop, pending>>

AcceptNothing(a) ==
  /\ pc[a] = "locking" /\ ~closeErr
  /\ nextStreamToAccept \notin streams
  /\ pc' = [pc EXCEPT ![a] = "toSelect"]
  /\ UNCHANGED <<mapVars, newStreamChan, closeErr, loop, pending>>

ChanClosed == loop = "stopped"

\* The select finds a value in the buffer, or the channel closed.
SelectReceive(a) ==
  /\ pc[a] = "toSelect"
  /\ newStreamChan \/ ChanClosed
  /\ pc' = [pc EXCEPT ![a] = "locking"]
  /\ newStreamChan' = FALSE
  /\ UNCHANGED <<mapVars, closeErr, loop, pending>>

SelectPark(a) ==
  /\ pc[a] = "toSelect"
  /\ ~newStreamChan /\ ~ChanClosed
  /\ pc' = [pc EXCEPT ![a] = "parked"]
  /\ UNCHANGED <<mapVars, newStreamChan, closeErr, loop, pending>>

\* ctx.Done(): leaves a value in the channel where it is.
SelectCtxDone(a) ==
  /\ pc[a] \in {"toSelect", "parked"}
  /\ pc' = [pc EXCEPT ![a] = "idle"]
  /\ UNCHANGED <<mapVars, newStreamChan, closeErr, loop, pending>>

--------------------------------------------------------------------------------
(* The run loop                                                                 *)

Parked == {a \in Acceptors : pc[a] = "parked"}

\* k non-blocking sends to newStreamChan: they wake parked receivers, and one
\* value can stay in the buffer.
SendNewStream(k, woken) ==
  /\ Cardinality(woken) = IF k <= Cardinality(Parked) THEN k ELSE Cardinality(Parked)
  /\ newStreamChan' = (newStreamChan \/ k > Cardinality(Parked))

LimitExceeded(num) == num > maxStream

\* Lines 102-109: the peer exceeds its limit; the connection will be closed.
GetOrOpenStreamError(num) ==
  /\ loop = "ready"
  /\ LimitExceeded(num)
  /\ loop' = "failed"
  /\ UNCHANGED <<mapVars, newStreamChan, closeErr, pc, pending>>

\* Lines 102-122: num is to be opened; the read lock is released.  (A frame for
\* num < nextStreamToOpen finds its stream, or nil, and changes nothing.)
GetOrOpenStreamCheck(num) ==
  /\ loop = "ready"
  /\ ~LimitExceeded(num)
  /\ num >= nextStreamToOpen
  /\ loop' = "opening"
  /\ pending' = num
  /\ UNCHANGED <<mapVars, newStreamChan, closeErr, pc>>

\* Mutant: only the stream itself is opened, not the ones below it.
NewStreamOnly == {pending}

NewStreams == nextStreamToOpen..pending

\* Lines 124-138: open the stream and all lower ones.
GetOrOpenStreamOpen ==
  /\ loop = "opening"
  /\ streams' = streams \cup NewStreams
  /\ nextStreamToOpen' = pending + 1
  /\ \E woken \in SUBSET Parked :
       /\ SendNewStream(pending - nextStreamToOpen + 1, woken)
       /\ pc' = [a \in Acceptors |-> IF a \in woken THEN "locking" ELSE pc[a]]
  /\ loop' = "ready"
  /\ UNCHANGED <<shouldDelete, nextStreamToAccept, maxStream, closeErr, pending>>

\* Lines 188-193.
CloseWithError ==
  /\ loop \in {"ready", "failed"}
  /\ loop' = "closing"
  /\ closeErr' = TRUE
  /\ UNCHANGED <<mapVars, newStreamChan, pc, pending>>

\* Mutant: the channel is never closed.
CloseLeavesParked ==
  /\ loop = "closing"
  /\ loop' = "stopped"
  /\ UNCHANGED <<mapVars, newStreamChan, closeErr, pc, pending>>

\* Line 194: closing the channel wakes every receiver.
CloseNewStreamChan ==
  /\ loop = "closing"
  /\ loop' = "stopped"
  /\ pc' = [a \in Acceptors |-> IF a \in Parked THEN "locking" ELSE pc[a]]
  /\ UNCHANGED <<mapVars, newStreamChan, closeErr, pending>>

--------------------------------------------------------------------------------
AcceptorStep(a) ==
  \/ AcceptClosed(a)
  \/ AcceptNext(a)
  \/ AcceptNothing(a)
  \/ SelectReceive(a)
  \/ SelectPark(a)

Next ==
  \/ \E a \in Acceptors :
       \/ AcceptStream(a)
       \/ AcceptClosed(a)
       \/ AcceptNext(a)
       \/ AcceptNothing(a)
       \/ SelectReceive(a)
       \/ SelectPark(a)
       \/ SelectCtxDone(a)
  \/ \E num \in StreamNums : DeleteStream(num)
  \/ \E num \in StreamNums : GetOrOpenStreamError(num)
  \/ \E num \in StreamNums : GetOrOpenStreamCheck(num)
  \/ GetOrOpenStreamOpen
  \/ CloseWithError
  \/ CloseNewStreamChan

Spec == Init /\ [][Next]_vars

\* Goroutines that can run are run; the run loop finishes the call it is in.
Fairness ==
  /\ \A a \in Acceptors : WF_vars(AcceptorStep(a))
  /\ WF_vars(CloseNewStreamChan)

FairSpec == Spec /\ Fairness
--------------------------------------------------------------------------------
(* Properties.                                                                  *)

\* The limit is exact: whatever the order of opens, accepts and completions, the
\* peer may open precisely the streams that leave MaxNumStreams unfinished, or
\* all that stream IDs can encode.  deleteStream recomputes the limit from two
\* other fields (line 174), AcceptStream may do so in the place of the stream.
LimitExact ==
  LET limit == nextStreamToOpen - 1 + (MaxNumStreams - Cardinality(streams))
  IN  maxStream = IF limit <= MaxStreamCount THEN limit ELSE MaxStreamCount

\* The peer never has more streams in the map than the configuration allows.
AtMostMaxNumStreams == Cardinality(streams) <= MaxNumStreams

\* "maxStream can only increase" (line 126): what makes it correct to release the
\* read lock between the check and the opening of a stream.
MaxStreamIncreases == [][maxStream' >= maxStream]_vars

\* GetOrOpenStream opens num after it released and retook the lock; the check it
\* made before still holds then, and nobody else has opened the stream.
CheckStillHolds == loop = "opening" => nextStreamToOpen <= pending /\ pending <= maxStream

\* Every stream that the peer opened can be accepted: the streams from
\* nextStreamToAccept on are all in the map, also if they are complete by then.
NoHole == nextStreamToAccept..(nextStreamToOpen - 1) \subseteq streams

\* Completed streams are kept only until they are accepted.
KeptUntilAccepted == \A num \in shouldDelete : num >= nextStreamToAccept

\* "AcceptStream returns the next stream opened by the peer, blocking until one is
\* available" (interface.go:152).
AcceptedWhenAvailable ==
  \A a \in Acceptors :
    (pc[a] # "idle" /\ nextStreamToAccept \in streams)
      ~> (pc[a] = "idle" \/ nextStreamToAccept \notin streams)

\* CloseWithError releases every acceptor, also one that was on its way into the
\* select when closeErr was set.
CloseReleasesAcceptors ==
  \A a \in Acceptors : (closeErr /\ pc[a] # "idle") ~> (pc[a] = "idle")

\* The map implements the credit scheme: a stream is done when it left the map.
Credit == INSTANCE StreamCredit WITH
            granted <- maxStream,
            opened  <- nextStreamToOpen - 1,
            done    <- nextStreamToOpen - 1 - Cardinality(streams)

\* Every step of the map is a step of StreamCredit or invisible to it.
ImplementsCredit == Credit!CreditSpec
================================================================================
