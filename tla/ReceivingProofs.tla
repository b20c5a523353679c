---------------------------- MODULE ReceivingProofs ----------------------------
(* What an endpoint grants to its peer and what it concludes from its peer's    *)
(* acknowledgments: the map of incoming streams, for every set of acceptors, every *)
(* configured number of streams and every cap on stream numbers; the verdict on *)
(* ECN (ecn.go), for every number of packets and of testing packets.            *)
EXTENDS IncomingStreams, ECN, FiniteSetTheorems, TLAPS

--------------------------------------------------------------------------------
(* The inductive invariant.                                                     *)

\* The streams in the map are streams that the peer opened, and the acceptors are
\* not ahead of the peer.
OnlyOpened ==
  /\ streams \subseteq 1..(nextStreamToOpen - 1)
  /\ nextStreamToAccept <= nextStreamToOpen

IInv ==
  /\ TypeOK
  /\ OnlyOpened
  /\ NoHole
  /\ KeptUntilAccepted
  /\ AtMostMaxNumStreams
  /\ LimitExact
  /\ CheckStillHolds

\* The map is finite and its size is a number.
LEMMA FiniteStreams ==
  ASSUME IInv
  PROVE  IsFiniteSet(streams) /\ Cardinality(streams) \in Nat
<1>1. IsFiniteSet(1..(nextStreamToOpen - 1))
  BY FS_Interval DEF IInv, TypeOK
<1>2. IsFiniteSet(streams)
  BY Zenon, <1>1, FS_Subset DEF IInv, OnlyOpened
<1> QED
  BY <1>2, FS_CardinalityType

\* What removing a stream from the map does to its size.
LEMMA RemoveStream ==
  ASSUME IInv, NEW num \in streams
  PROVE  Cardinality(streams \ {num}) = Cardinality(streams) - 1
  BY FiniteStreams, FS_RemoveElement

\* Opening the streams up to pending adds exactly the numbers in between.
LEMMA AddStreams ==
  ASSUME IInv, loop = "opening"
  PROVE  Cardinality(streams \cup NewStreams)
           = Cardinality(streams) + (pending - nextStreamToOpen + 1)
<1>1. /\ nextStreamToOpen \in Int /\ pending \in Int /\ nextStreamToOpen <= pending
      /\ streams \subseteq 1..(nextStreamToOpen - 1)
  BY DEF IInv, TypeOK, CheckStillHolds, OnlyOpened
<1>2. /\ IsFiniteSet(NewStreams)
      /\ Cardinality(NewStreams) = pending - nextStreamToOpen + 1
  BY <1>1, FS_Interval DEF NewStreams
<1>3. streams \cap NewStreams = {}
  BY <1>1 DEF NewStreams
<1>4. Cardinality(streams \cup NewStreams)
        = Cardinality(streams) + Cardinality(NewStreams) - Cardinality(streams \cap NewStreams)
  BY <1>2, FiniteStreams, FS_Union
<1>5. Cardinality(streams \cap NewStreams) = 0
  BY <1>3, FS_EmptySet
<1> QED
  BY <1>1, <1>2, <1>4, <1>5, FiniteStreams

\* A new map.
LEMMA InitIInv == Init => IInv
<1> SUFFICES ASSUME Init PROVE IInv
  OBVIOUS
<1>1. Cardinality({}) = 0
  BY FS_EmptySet
<1>2. newStreamChan \in BOOLEAN /\ closeErr \in BOOLEAN
  BY Zenon DEF Init
<1>3. pc \in [Acceptors -> {"idle", "locking", "toSelect", "parked"}]
  BY DEF Init
<1>4. TypeOK
  BY <1>2, <1>3, IncomingAssumption DEF Init, TypeOK
<1>5. OnlyOpened /\ NoHole /\ KeptUntilAccepted /\ CheckStillHolds
  BY DEF Init, OnlyOpened, NoHole, KeptUntilAccepted, CheckStillHolds
<1>6. AtMostMaxNumStreams /\ LimitExact
  BY <1>1, IncomingAssumption DEF Init, AtMostMaxNumStreams, LimitExact
<1> QED
  BY <1>4, <1>5, <1>6 DEF IInv

\* The new limit after a stream has left the map: one higher, unless capped.
LEMMA LimitStep ==
  ASSUME IInv, NEW num \in streams
  PROVE  /\ NewLimit(Cardinality(streams \ {num})) \in Nat
         /\ maxStream <= NewLimit(Cardinality(streams \ {num}))
         /\ NewLimit(Cardinality(streams \ {num})) =
              LET limit == nextStreamToOpen - 1 + (MaxNumStreams - Cardinality(streams \ {num}))
              IN  IF limit <= MaxStreamCount THEN limit ELSE MaxStreamCount
<1>1. /\ Cardinality(streams) \in Nat
      /\ Cardinality(streams \ {num}) = Cardinality(streams) - 1
      /\ Cardinality(streams) <= MaxNumStreams
  BY FiniteStreams, RemoveStream DEF IInv, AtMostMaxNumStreams
<1>2. nextStreamToOpen \in Nat \ {0} /\ maxStream \in Nat
  BY DEF IInv, TypeOK
<1>3. MaxNumStreams \in Nat /\ MaxStreamCount \in Nat
  BY IncomingAssumption
<1>4. LimitExact
  BY DEF IInv
<1> QED
  BY <1>1, <1>2, <1>3, <1>4 DEF NewLimit, LimitAfter, LimitExact

\* Removing an accepted stream, by DeleteStream or by AcceptStream.
LEMMA RemoveIInv ==
  ASSUME IInv, NEW num \in streams,
         streams' = streams \ {num},
         shouldDelete' = shouldDelete \ {num},
         maxStream' = NewLimit(Cardinality(streams \ {num}))
  PROVE  /\ (UNCHANGED nextStreamToOpen) => AtMostMaxNumStreams' /\ LimitExact'
         /\ streams' \subseteq StreamNums /\ shouldDelete' \subseteq streams'
         /\ maxStream' \in Nat /\ maxStream <= maxStream'
<1>1. /\ maxStream' \in Nat /\ maxStream <= maxStream'
  BY LimitStep
<1>2. AtMostMaxNumStreams'
  BY RemoveStream, FiniteStreams, IncomingAssumption DEF IInv, AtMostMaxNumStreams
<1>3. ASSUME UNCHANGED nextStreamToOpen PROVE LimitExact'
  BY <1>3, LimitStep DEF LimitExact
<1> QED
  BY <1>1, <1>2, <1>3 DEF IInv, TypeOK

\* A stream completes.
LEMMA DeleteStreamIInv ==
  ASSUME IInv, NEW num \in StreamNums, DeleteStream(num)
  PROVE  IInv' /\ maxStream <= maxStream'
<1> USE DEF IInv
<1>1. /\ num \in streams /\ num \notin shouldDelete
      /\ UNCHANGED <<nextStreamToAccept, nextStreamToOpen, newStreamChan, closeErr, pc, loop,
                     pending>>
  BY DEF DeleteStream
<1>2. CASE WasAccepted(num)
  <2>1. /\ streams' = streams \ {num}
        /\ shouldDelete' = shouldDelete \ {num}
        /\ maxStream' = NewLimit(Cardinality(streams \ {num}))
    BY <1>2 DEF DeleteStream, deleteStream
  <2>2. /\ AtMostMaxNumStreams' /\ LimitExact'
        /\ streams' \subseteq StreamNums /\ shouldDelete' \subseteq streams'
        /\ maxStream' \in Nat /\ maxStream <= maxStream'
    BY <1>1, <2>1, RemoveIInv
  <2>3. TypeOK'
    BY <1>1, <2>2 DEF TypeOK
  <2>4. OnlyOpened' /\ NoHole' /\ KeptUntilAccepted'
    BY <1>1, <1>2, <2>1 DEF OnlyOpened, NoHole, KeptUntilAccepted, WasAccepted, TypeOK, StreamNums
  <2>5. CheckStillHolds'
    BY <1>1, <2>2 DEF CheckStillHolds, TypeOK
  <2> QED
    BY <2>2, <2>3, <2>4, <2>5
<1>3. CASE ~WasAccepted(num)
  <2>1. /\ shouldDelete' = shouldDelete \cup {num}
        /\ UNCHANGED <<streams, maxStream>>
    BY <1>3 DEF DeleteStream, deleteStream
  <2>2. TypeOK'
    BY <1>1, <2>1 DEF TypeOK
  <2>3. KeptUntilAccepted'
    BY <1>1, <1>3, <2>1 DEF KeptUntilAccepted, WasAccepted, TypeOK, StreamNums
  <2>4. OnlyOpened' /\ NoHole' /\ CheckStillHolds' /\ AtMostMaxNumStreams' /\ LimitExact'
    BY <1>1, <2>1 DEF OnlyOpened, NoHole, CheckStillHolds, AtMostMaxNumStreams, LimitExact
  <2> QED
    BY <2>1, <2>2, <2>3, <2>4 DEF TypeOK
<1> QED
  BY <1>2, <1>3

\* An acceptor takes the next stream.
LEMMA AcceptNextIInv ==
  ASSUME IInv, NEW a \in Acceptors, AcceptNext(a)
  PROVE  IInv' /\ maxStream <= maxStream'
<1> USE DEF IInv
<1>1. /\ nextStreamToAccept \in streams
      /\ nextStreamToAccept' = nextStreamToAccept + 1
      /\ pc' = [pc EXCEPT ![a] = "idle"]
      /\ UNCHANGED <<nextStreamToOpen, newStreamChan, closeErr, loop, pending>>
  BY DEF AcceptNext
<1>2. nextStreamToAccept' <= nextStreamToOpen'
  BY <1>1 DEF OnlyOpened, TypeOK
<1>3. CASE DeleteOnAccept
  <2>1. /\ streams' = streams \ {nextStreamToAccept}
        /\ shouldDelete' = shouldDelete \ {nextStreamToAccept}
        /\ maxStream' = NewLimit(Cardinality(streams \ {nextStreamToAccept}))
    BY <1>3 DEF AcceptNext, deleteStream
  <2>2. /\ AtMostMaxNumStreams' /\ LimitExact'
        /\ streams' \subseteq StreamNums /\ shouldDelete' \subseteq streams'
        /\ maxStream' \in Nat /\ maxStream <= maxStream'
    BY Zenon, <1>1, <2>1, RemoveIInv
  <2>3. TypeOK'
    BY <1>1, <2>2 DEF TypeOK
  <2>4. OnlyOpened' /\ NoHole' /\ KeptUntilAccepted'
    BY <1>1, <1>2, <2>1 DEF OnlyOpened, NoHole, KeptUntilAccepted, TypeOK, StreamNums
  <2>5. CheckStillHolds'
    BY <1>1, <2>2 DEF CheckStillHolds, TypeOK
  <2> QED
    BY <2>2, <2>3, <2>4, <2>5
<1>4. CASE ~DeleteOnAccept
  <2>1. UNCHANGED <<streams, shouldDelete, maxStream>>
    BY <1>4 DEF AcceptNext
  <2>2. TypeOK'
    BY <1>1, <2>1 DEF TypeOK
  <2>3. NoHole' /\ KeptUntilAccepted' /\ OnlyOpened'
    BY <1>1, <1>2, <1>4, <2>1 DEF OnlyOpened, NoHole, KeptUntilAccepted, DeleteOnAccept, TypeOK,
       StreamNums
  <2>4. CheckStillHolds' /\ AtMostMaxNumStreams' /\ LimitExact'
    BY <1>1, <2>1 DEF CheckStillHolds, AtMostMaxNumStreams, LimitExact
  <2> QED
    BY <2>1, <2>2, <2>3, <2>4 DEF TypeOK
<1> QED
  BY <1>3, <1>4

\* The run loop opens the streams it has checked.
LEMMA OpenIInv ==
  ASSUME IInv, GetOrOpenStreamOpen
  PROVE  IInv' /\ maxStream <= maxStream'
<1> USE DEF IInv
<1>1. /\ loop = "opening" /\ loop' = "ready"
      /\ streams' = streams \cup NewStreams
      /\ nextStreamToOpen' = pending + 1
      /\ UNCHANGED <<shouldDelete, nextStreamToAccept, maxStream, closeErr, pending>>
  BY DEF GetOrOpenStreamOpen
<1>2. /\ newStreamChan' \in BOOLEAN
      /\ pc' \in [Acceptors -> {"idle", "locking", "toSelect", "parked"}]
  BY DEF GetOrOpenStreamOpen, SendNewStream, TypeOK
<1>3. nextStreamToOpen <= pending /\ pending <= maxStream
  BY <1>1 DEF CheckStillHolds
<1>4. /\ nextStreamToOpen \in Nat \ {0} /\ nextStreamToAccept \in Nat \ {0}
      /\ pending \in Nat /\ maxStream \in Nat
  BY DEF TypeOK
<1>5. Cardinality(streams') = Cardinality(streams) + (pending - nextStreamToOpen + 1)
  BY <1>1, AddStreams
<1>6. LimitExact'
  BY <1>1, <1>4, <1>5, FiniteStreams, IncomingAssumption DEF LimitExact
<1>7. AtMostMaxNumStreams'
  BY <1>1, <1>3, <1>4, <1>5, FiniteStreams, IncomingAssumption DEF LimitExact, AtMostMaxNumStreams
<1>8. maxStream <= MaxStreamCount
  BY <1>4, FiniteStreams, IncomingAssumption DEF LimitExact
<1>9. NewStreams \subseteq StreamNums
  BY <1>3, <1>4, <1>8, IncomingAssumption DEF NewStreams, StreamNums
<1>10. TypeOK'
  BY <1>1, <1>2, <1>4, <1>9 DEF TypeOK
<1>11. OnlyOpened' /\ NoHole'
  BY <1>1, <1>3, <1>4 DEF OnlyOpened, NoHole, NewStreams
<1>12. KeptUntilAccepted' /\ CheckStillHolds'
  BY <1>1 DEF KeptUntilAccepted, CheckStillHolds
<1> QED
  BY <1>1, <1>4, <1>6, <1>7, <1>10, <1>11, <1>12

\* The steps that leave the map alone.
LEMMA OtherIInv ==
  ASSUME IInv,
         \/ \E a \in Acceptors :
              \/ AcceptStream(a) \/ AcceptClosed(a) \/ AcceptNothing(a)
              \/ SelectReceive(a) \/ SelectPark(a) \/ SelectCtxDone(a)
         \/ \E num \in StreamNums : GetOrOpenStreamError(num) \/ GetOrOpenStreamCheck(num)
         \/ CloseWithError
         \/ CloseNewStreamChan
         \/ UNCHANGED vars
  PROVE  IInv' /\ UNCHANGED mapVars
<1> USE DEF IInv
<1>1. /\ UNCHANGED mapVars
      /\ newStreamChan' \in BOOLEAN /\ closeErr' \in BOOLEAN
      /\ pc' \in [Acceptors -> {"idle", "locking", "toSelect", "parked"}]
      /\ loop' \in {"ready", "opening", "failed", "closing", "stopped"}
      /\ pending' \in Nat
      /\ loop' = "opening" => \/ loop = "opening" /\ pending' = pending
                              \/ nextStreamToOpen <= pending' /\ pending' <= maxStream
  <2>1. ASSUME NEW a \in Acceptors,
               \/ AcceptStream(a) \/ AcceptClosed(a) \/ AcceptNothing(a)
               \/ SelectReceive(a) \/ SelectPark(a) \/ SelectCtxDone(a)
        PROVE  <1>1!:
    BY Zenon, <2>1 DEF TypeOK, AcceptStream, AcceptClosed, AcceptNothing, SelectReceive, SelectPark,
       SelectCtxDone
  <2>2. ASSUME NEW num \in StreamNums, GetOrOpenStreamError(num) \/ GetOrOpenStreamCheck(num)
        PROVE  <1>1!:
    BY <2>2, IncomingAssumption DEF TypeOK, GetOrOpenStreamError, GetOrOpenStreamCheck,
       LimitExceeded, StreamNums
  <2>3. ASSUME CloseWithError \/ CloseNewStreamChan \/ UNCHANGED vars
        PROVE  <1>1!:
    BY Zenon, <2>3 DEF TypeOK, CloseWithError, CloseNewStreamChan, vars
  <2> QED
    BY <2>1, <2>2, <2>3
<1>2. TypeOK'
  BY <1>1 DEF TypeOK, mapVars
<1>3. OnlyOpened' /\ NoHole' /\ KeptUntilAccepted' /\ AtMostMaxNumStreams' /\ LimitExact'
  BY <1>1 DEF OnlyOpened, NoHole, KeptUntilAccepted, AtMostMaxNumStreams, LimitExact, mapVars
<1>4. CheckStillHolds'
  BY <1>1 DEF CheckStillHolds, mapVars
<1> QED
  BY <1>1, <1>2, <1>3, <1>4

\* Every step preserves the invariant and never lowers the limit.
LEMMA NextIInv ==
  ASSUME IInv, [Next]_vars
  PROVE  IInv' /\ maxStream <= maxStream'
<1>1. CASE \E num \in StreamNums : DeleteStream(num)
  BY <1>1, DeleteStreamIInv
<1>2. CASE \E a \in Acceptors : AcceptNext(a)
  BY <1>2, AcceptNextIInv
<1>3. CASE GetOrOpenStreamOpen
  BY <1>3, OpenIInv
<1>4. CASE \/ \E a \in Acceptors :
                \/ AcceptStream(a) \/ AcceptClosed(a) \/ AcceptNothing(a)
                \/ SelectReceive(a) \/ SelectPark(a) \/ SelectCtxDone(a)
           \/ \E num \in StreamNums : GetOrOpenStreamError(num) \/ GetOrOpenStreamCheck(num)
           \/ CloseWithError
           \/ CloseNewStreamChan
           \/ UNCHANGED vars
  <2>1. IInv' /\ UNCHANGED mapVars
    BY <1>4, OtherIInv
  <2> QED
    BY <2>1 DEF mapVars, IInv, TypeOK
<1> QED
  BY <1>1, <1>2, <1>3, <1>4 DEF Next

\* The invariant holds throughout.
THEOREM Invariance == Spec => []IInv
<1>1. IInv /\ [Next]_vars => IInv'
  BY NextIInv
<1> QED
  BY <1>1, InitIInv, PTL DEF Spec

--------------------------------------------------------------------------------
(* The properties.                                                              *)

\* Every variable of the map keeps its type.
THEOREM TypeCorrect == Spec => []TypeOK
  BY Invariance, PTL DEF IInv

\* The advertised limit leaves room for exactly MaxNumStreams unfinished streams.
THEOREM LimitIsExact == Spec => [](LimitExact /\ AtMostMaxNumStreams)
  BY Invariance, PTL DEF IInv

\* The limit never decreases, as the comment in GetOrOpenStream relies on.
THEOREM LimitIncreases == Spec => MaxStreamIncreases
<1>1. IInv /\ [Next]_vars => [maxStream' >= maxStream]_vars
  <2> SUFFICES ASSUME IInv, [Next]_vars PROVE maxStream' >= maxStream
    OBVIOUS
  <2>1. IInv' /\ maxStream <= maxStream'
    BY NextIInv
  <2> QED
    BY <2>1 DEF IInv, TypeOK
<1> QED
  BY <1>1, Invariance, PTL DEF Spec, MaxStreamIncreases

\* What GetOrOpenStream checked under the read lock still holds under the lock.
THEOREM CheckIsStable == Spec => []CheckStillHolds
  BY Invariance, PTL DEF IInv

\* Every opened stream can be accepted, and completed ones are kept only until then.
THEOREM EveryStreamAcceptable == Spec => [](NoHole /\ KeptUntilAccepted)
  BY Invariance, PTL DEF IInv

\* The map implements the abstract credit scheme.
THEOREM CreditRefinement == Spec => ImplementsCredit
<1>1. Init => Credit!CreditInit
  BY FS_EmptySet, IncomingAssumption DEF Init, Credit!CreditInit
<1>2. ASSUME IInv, IInv', [Next]_vars PROVE [Credit!CreditNext]_(Credit!creditVars)
  <2> DEFINE size == Cardinality(streams)
             opened == nextStreamToOpen - 1
  <2>0. /\ size \in Nat /\ opened \in Nat /\ maxStream \in Nat
        /\ MaxNumStreams \in Nat /\ MaxStreamCount \in Nat
    BY <1>2, FiniteStreams, IncomingAssumption DEF IInv, TypeOK
  <2>1. ASSUME NEW num \in streams, streams' = streams \ {num}, UNCHANGED nextStreamToOpen,
               maxStream' = NewLimit(Cardinality(streams \ {num}))
        PROVE  Credit!Finish
    <3>1. Cardinality(streams') = size - 1 /\ size - 1 \in Nat
      BY <1>2, <2>1, RemoveStream, FiniteStreams, FS_EmptySet
    <3>2. maxStream' = Credit!Smaller(MaxStreamCount, opened - (size - 1) + MaxNumStreams)
      BY <1>2, <2>0, <2>1, <3>1, LimitStep DEF Credit!Smaller
    <3>3. opened' = opened
      BY <2>1
    <3> QED
      BY <2>0, <3>1, <3>2, <3>3 DEF Credit!Finish
  <2>2. CASE \E num \in StreamNums : DeleteStream(num)
    <3>1. PICK num \in StreamNums : DeleteStream(num)
      BY <2>2
    <3>2. CASE WasAccepted(num)
      <4>1. /\ num \in streams /\ streams' = streams \ {num} /\ UNCHANGED nextStreamToOpen
            /\ maxStream' = NewLimit(Cardinality(streams \ {num}))
        BY <3>1, <3>2 DEF DeleteStream, deleteStream
      <4>2. Credit!Finish
        BY <2>1, <4>1
      <4> QED
        BY <4>2 DEF Credit!CreditNext
    <3>3. CASE ~WasAccepted(num)
      <4>1. UNCHANGED <<streams, maxStream, nextStreamToOpen>>
        BY <3>1, <3>3 DEF DeleteStream, deleteStream
      <4> QED
        BY <4>1 DEF Credit!creditVars
    <3> QED
      BY <3>2, <3>3
  <2>3. CASE \E a \in Acceptors : AcceptNext(a)
    <3>1. PICK a \in Acceptors : AcceptNext(a)
      BY <2>3
    <3>2. CASE DeleteOnAccept
      <4>1. /\ nextStreamToAccept \in streams /\ UNCHANGED nextStreamToOpen
            /\ streams' = streams \ {nextStreamToAccept}
            /\ maxStream' = NewLimit(Cardinality(streams \ {nextStreamToAccept}))
        BY <3>1, <3>2 DEF AcceptNext, deleteStream
      <4>2. Credit!Finish
        BY <2>1, <4>1
      <4> QED
        BY <4>2 DEF Credit!CreditNext
    <3>3. CASE ~DeleteOnAccept
      <4>1. UNCHANGED <<streams, maxStream, nextStreamToOpen>>
        BY <3>1, <3>3 DEF AcceptNext
      <4> QED
        BY <4>1 DEF Credit!creditVars
    <3> QED
      BY <3>2, <3>3
  <2>4. CASE GetOrOpenStreamOpen
    <3>1. /\ loop = "opening" /\ streams' = streams \cup NewStreams
          /\ nextStreamToOpen' = pending + 1 /\ maxStream' = maxStream
      BY <2>4 DEF GetOrOpenStreamOpen
    <3>2. Cardinality(streams') = size + (pending - nextStreamToOpen + 1)
      BY <1>2, <3>1, AddStreams
    <3>3. /\ pending \in Nat /\ nextStreamToOpen \in Nat \ {0}
          /\ nextStreamToOpen <= pending /\ pending <= maxStream
      BY <1>2, <3>1 DEF IInv, TypeOK, CheckStillHolds
    <3>4. maxStream <= MaxStreamCount
      BY <1>2, <2>0 DEF IInv, LimitExact
    <3>5. Credit!Open(pending)
      BY <2>0, <3>1, <3>2, <3>3 DEF Credit!Open
    <3>6. pending \in 1..MaxStreamCount
      BY <2>0, <3>3, <3>4
    <3> QED
      BY <3>5, <3>6 DEF Credit!CreditNext
  <2>5. CASE \/ \E a \in Acceptors :
                  \/ AcceptStream(a) \/ AcceptClosed(a) \/ AcceptNothing(a)
                  \/ SelectReceive(a) \/ SelectPark(a) \/ SelectCtxDone(a)
             \/ \E num \in StreamNums : GetOrOpenStreamError(num) \/ GetOrOpenStreamCheck(num)
             \/ CloseWithError
             \/ CloseNewStreamChan
             \/ UNCHANGED vars
    <3>1. UNCHANGED mapVars
      BY <1>2, <2>5, OtherIInv
    <3> QED
      BY <3>1 DEF mapVars, Credit!creditVars
  <2> QED
    BY <1>2, <2>2, <2>3, <2>4, <2>5 DEF Next
<1> QED
  BY <1>1, <1>2, Invariance, PTL DEF Spec, ImplementsCredit, Credit!CreditSpec

--------------------------------------------------------------------------------
(* ECN.  The counts of an ACK frame are compared with those of an older one, so     *)
(* the invariant has to remember which packets the last accepted counts stand for.  *)

States == {"initial", "testing", "unknown", "capable", "failed"}
Tracker ==
  [state : States, sentTesting : Nat, lostTesting : Nat, firstTesting : Int, lastTesting : Int,
   firstCapable : Int, sentECT0 : Nat, ackedECT0 : Nat, ackedCE : Nat]
PacketMarks == {"non", "ect0", "ce"}

Transmitted == 0..(Len(marks) - 1)
WasMarked(n) == marks[n + 1] = "ect0"
SentWithMark == {n \in Transmitted : WasMarked(n)}
Among(P, m) == {n \in P : seen[n] = m}

ECNTypeOK ==
  /\ path \in Paths
  /\ ecn \in Tracker
  /\ marks \in Seq({"ect0", "non"})
  /\ outstanding \subseteq Transmitted
  /\ largestAcked \in Int
  /\ seen \in [DOMAIN seen -> PacketMarks]
  /\ DOMAIN seen \subseteq Transmitted
  /\ congested \in BOOLEAN

\* A packet arrives with a mark that the path can make of the one it was sent with.
MarkedByPath == \A n \in DOMAIN seen : seen[n] \in Marks(path, marks[n + 1])

\* The tracker counts what was sent with a mark.
SendingCounted ==
  /\ ecn.sentECT0 = Cardinality(SentWithMark)
  /\ ecn.sentTesting <= ecn.sentECT0

\* Unless validation failed, ecnMarking is right about every packet it calls marked.
MarkingKnown ==
  ecn.state # "failed" =>
    /\ ecn.state = "initial" => Transmitted = {}
    /\ ecn.state \in {"initial", "testing"} => ecn.lastTesting = -1
    /\ ecn.state = "unknown" => ecn.lastTesting \in Transmitted
    /\ ecn.state # "capable" => ecn.firstCapable = -1
    /\ ecn.lastTesting = -1 => \A n \in Transmitted : WasMarked(n)
    /\ \A n \in Transmitted : n <= ecn.lastTesting => WasMarked(n)
    /\ ecn.firstCapable # -1 => \A n \in Transmitted : n >= ecn.firstCapable => WasMarked(n)

\* The counts of a frame are those of the packets it acknowledges.
FramesRight ==
  \A a \in frames :
    /\ a.packets \subseteq DOMAIN seen /\ a.packets # {}
    /\ a.ect0 = Cardinality(Among(a.packets, "ect0")) /\ a.ce = Cardinality(Among(a.packets, "ce"))

\* So are the counts that the tracker accepted last: they stand for packets that are no
\* longer outstanding, and that every frame acknowledges or is among.
CountsRight(B) ==
  /\ ecn.ackedECT0 = Cardinality(Among(B, "ect0")) /\ ecn.ackedCE = Cardinality(Among(B, "ce"))
  /\ B \cap outstanding = {}
  /\ \A n \in B : n <= largestAcked
  /\ \A a \in frames : B \subseteq a.packets \/ a.packets \subseteq B
FramesNested == \A a, b \in frames : a.packets \subseteq b.packets \/ b.packets \subseteq a.packets
CountsKnown == \E B \in SUBSET DOMAIN seen : CountsRight(B)

ECNInv ==
  /\ ECNTypeOK /\ MarkedByPath /\ SendingCounted /\ MarkingKnown
  /\ FramesRight /\ FramesNested /\ CountsKnown /\ ValidationSound

\* What SentPacket does to the tracker.
LEMMA SentMarkedFields ==
  ASSUME NEW t \in Tracker, NEW n \in Nat
  PROVE  LET u == SentMarked(t, n)
         IN  /\ u \in Tracker
             /\ u.sentECT0 = t.sentECT0 + 1 /\ u.lostTesting = t.lostTesting
             /\ u.ackedECT0 = t.ackedECT0 /\ u.ackedCE = t.ackedCE
             /\ u.firstCapable = IF t.state = "capable" /\ t.firstCapable = -1 THEN n ELSE t.firstCapable
             /\ t.state # "testing" =>
                  u.sentTesting = t.sentTesting /\ u.state = t.state /\ u.lastTesting = t.lastTesting
             /\ t.state = "testing" =>
                  /\ u.sentTesting = t.sentTesting + 1
                  /\ \/ u.state = "testing" /\ u.lastTesting = t.lastTesting
                     \/ u.state = "unknown" /\ u.lastTesting = n
<1> DEFINE u == SentMarked(t, n)
<1>1. PICK c : c = IF t.state = "capable" /\ t.firstCapable = -1 THEN n ELSE t.firstCapable
  OBVIOUS
<1>2. PICK t1 : t1 = [t EXCEPT !.sentECT0 = t.sentECT0 + 1, !.firstCapable = c]
  OBVIOUS
<1>3. /\ t1 \in Tracker /\ t1.sentECT0 = t.sentECT0 + 1 /\ t1.firstCapable = c
      /\ t1.state = t.state /\ t1.sentTesting = t.sentTesting /\ t1.lostTesting = t.lostTesting
      /\ t1.firstTesting = t.firstTesting /\ t1.lastTesting = t.lastTesting
      /\ t1.ackedECT0 = t.ackedECT0 /\ t1.ackedCE = t.ackedCE
  <2>1. c \in Int
    BY <1>1 DEF Tracker
  <2>2. PICK k \in Nat : k = t.sentECT0 + 1
    BY DEF Tracker
  <2>3. t1 = [t EXCEPT !.sentECT0 = k, !.firstCapable = c]
    BY <1>2, <2>2
  <2>4. t1 \in Tracker
    BY Zenon, <2>1, <2>3 DEF Tracker
  <2>5. /\ t1.sentECT0 = k /\ t1.firstCapable = c
        /\ t1.state = t.state /\ t1.sentTesting = t.sentTesting /\ t1.lostTesting = t.lostTesting
        /\ t1.firstTesting = t.firstTesting /\ t1.lastTesting = t.lastTesting
        /\ t1.ackedECT0 = t.ackedECT0 /\ t1.ackedCE = t.ackedCE
    BY <2>1, <2>3 DEF Tracker
  <2> QED  BY <2>2, <2>4, <2>5
<1>4. CASE t.state # "testing"
  <2>1. u = t1
    BY <1>1, <1>2, <1>4 DEF SentMarked
  <2> QED  BY <2>1, <1>1, <1>3, <1>4
<1>5. CASE t.state = "testing"
  <2>1. PICK f : f = IF t1.firstTesting = -1 THEN n ELSE t1.firstTesting
    OBVIOUS
  <2>2. PICK st : st = IF t1.sentECT0 >= NumTesting THEN "unknown" ELSE t1.state
    OBVIOUS
  <2>3. PICK l : l = IF t1.sentECT0 >= NumTesting THEN n ELSE t1.lastTesting
    OBVIOUS
  <2>4. u = [t1 EXCEPT !.sentTesting = t1.sentTesting + 1, !.firstTesting = f, !.state = st, !.lastTesting = l]
    BY <1>1, <1>2, <1>5, <2>1, <2>2, <2>3 DEF SentMarked
  <2>5. f \in Int /\ st \in States /\ l \in Int /\ ((st = "testing" /\ l = t.lastTesting) \/ (st = "unknown" /\ l = n))
    <3>1. f \in Int /\ l \in Int
      BY <2>1, <2>3, <1>3 DEF Tracker
    <3>2. CASE t1.sentECT0 >= NumTesting
      BY <3>1, <3>2, <2>2, <2>3 DEF States
    <3>3. CASE ~(t1.sentECT0 >= NumTesting)
      BY <3>1, <3>3, <2>2, <2>3, <1>3, <1>5 DEF States
    <3> QED  BY <3>2, <3>3
  <2>6. /\ u \in Tracker
        /\ u.sentECT0 = t1.sentECT0 /\ u.lostTesting = t1.lostTesting
        /\ u.ackedECT0 = t1.ackedECT0 /\ u.ackedCE = t1.ackedCE /\ u.firstCapable = t1.firstCapable
        /\ u.sentTesting = t1.sentTesting + 1 /\ u.state = st /\ u.lastTesting = l
    <3>1. PICK k \in Nat : k = t1.sentTesting + 1
      BY <1>3 DEF Tracker
    <3>2. t1 \in Tracker
      BY <1>3
    <3> HIDE DEF u
    <3>3. u = [t1 EXCEPT !.sentTesting = k, !.firstTesting = f, !.state = st, !.lastTesting = l]
      BY <2>4, <3>1
    <3>4. u \in Tracker
      BY Zenon, <2>5, <3>1, <3>2, <3>3 DEF Tracker
    <3>5. /\ u.sentECT0 = t1.sentECT0 /\ u.lostTesting = t1.lostTesting
          /\ u.ackedECT0 = t1.ackedECT0 /\ u.ackedCE = t1.ackedCE /\ u.firstCapable = t1.firstCapable
          /\ u.sentTesting = k /\ u.state = st /\ u.lastTesting = l
      BY <3>2, <3>3 DEF Tracker
    <3> QED  BY <3>1, <3>4, <3>5
  <2> QED  BY <2>5, <2>6, <1>1, <1>3, <1>5
<1> QED  BY <1>4, <1>5

\* What failIfMangled does.
LEMMA FailIfMangledFields ==
  ASSUME NEW t \in Tracker
  PROVE  \/ FailIfMangled(t) = t
         \/ FailIfMangled(t) = [t EXCEPT !.state = "failed"] /\ t.sentECT0 <= t.ackedCE + t.lostTesting
BY DEF FailIfMangled, Tracker

\* A tracker with another state is a tracker.
LEMMA StateChanged ==
  ASSUME NEW t \in Tracker, NEW st \in States
  PROVE  LET u == [t EXCEPT !.state = st]
         IN  /\ u \in Tracker /\ u.state = st
             /\ u.sentTesting = t.sentTesting /\ u.lostTesting = t.lostTesting
             /\ u.firstTesting = t.firstTesting /\ u.lastTesting = t.lastTesting
             /\ u.firstCapable = t.firstCapable /\ u.sentECT0 = t.sentECT0
             /\ u.ackedECT0 = t.ackedECT0 /\ u.ackedCE = t.ackedCE
BY DEF Tracker

\* The fields that only sending changes.
SameSending(u, t) ==
  /\ u.sentTesting = t.sentTesting /\ u.sentECT0 = t.sentECT0
  /\ u.lastTesting = t.lastTesting /\ u.firstCapable = t.firstCapable

\* A lost packet fails validation only when enough testing packets are gone.
LEMMA LostPacketFields ==
  ASSUME NEW t \in Tracker, NEW n \in Int
  PROVE  LET u == LostPacket(t, n)
         IN  /\ u \in Tracker /\ SameSending(u, t)
             /\ u.ackedECT0 = t.ackedECT0 /\ u.ackedCE = t.ackedCE
             /\ \/ u.state = t.state /\ (u.state = "failed" => u.lostTesting = t.lostTesting)
                \/ /\ u.state = "failed"
                   /\ \/ u.lostTesting >= u.sentTesting
                      \/ u.sentECT0 <= u.ackedCE + u.lostTesting
<1> DEFINE u == LostPacket(t, n)
<1>1. PICK t1 : t1 = [t EXCEPT !.lostTesting = t.lostTesting + 1]
  BY Zenon
<1>2. /\ t1 \in Tracker /\ SameSending(t1, t) /\ t1.state = t.state
      /\ t1.ackedECT0 = t.ackedECT0 /\ t1.ackedCE = t.ackedCE
  BY <1>1 DEF Tracker, SameSending
<1>3. PICK t2 : t2 = [t1 EXCEPT !.state = "failed"]
  BY Zenon
<1>4. /\ t2 \in Tracker /\ SameSending(t2, t) /\ t2.state = "failed" /\ t2.lostTesting = t1.lostTesting
      /\ t2.ackedECT0 = t.ackedECT0 /\ t2.ackedCE = t.ackedCE
  BY Zenon, <1>2, <1>3, StateChanged DEF SameSending, States
<1>5. \/ u = t
      \/ u = t1 /\ t.state # "failed"
      \/ u = t2 /\ (t1.lostTesting >= t1.sentTesting \/ t1.sentECT0 <= t1.ackedCE + t1.lostTesting)
  <2>1. FailIfMangled(t1) = t1 \/ (FailIfMangled(t1) = t2 /\ t1.sentECT0 <= t1.ackedCE + t1.lostTesting)
    BY <1>2, <1>3, FailIfMangledFields
  <2>2. CASE t.state \notin {"testing", "unknown"} \/ ~IsTestingPacket(t, n)
    BY <2>2 DEF LostPacket
  <2>3. CASE ~(t.state \notin {"testing", "unknown"} \/ ~IsTestingPacket(t, n)) /\ t.state = "testing"
    BY <2>3, <1>1 DEF LostPacket
  <2>4. CASE ~(t.state \notin {"testing", "unknown"} \/ ~IsTestingPacket(t, n)) /\ t.state # "testing"
    <3>1. CASE t1.lostTesting >= t1.sentTesting
      BY <2>4, <3>1, <1>1, <1>3 DEF LostPacket
    <3>2. CASE ~(t1.lostTesting >= t1.sentTesting)
      <4>1. u = FailIfMangled(t1)
        BY <2>4, <3>2, <1>1 DEF LostPacket
      <4> QED  BY <4>1, <2>1, <2>4
    <3> QED  BY <3>1, <3>2
  <2> QED  BY <2>2, <2>3, <2>4
<1> HIDE DEF u
<1>6. /\ u \in Tracker /\ SameSending(u, t)
      /\ u.ackedECT0 = t.ackedECT0 /\ u.ackedCE = t.ackedCE
      /\ \/ u.state = t.state /\ (u.state = "failed" => u.lostTesting = t.lostTesting)
         \/ /\ u.state = "failed"
            /\ \/ u.lostTesting >= u.sentTesting
               \/ u.sentECT0 <= u.ackedCE + u.lostTesting
  <2>1. CASE u = t
    BY <2>1 DEF SameSending
  <2>2. CASE u = t1 /\ t.state # "failed"
    BY <2>2, <1>2
  <2>3. CASE u = t2 /\ (t1.lostTesting >= t1.sentTesting \/ t1.sentECT0 <= t1.ackedCE + t1.lostTesting)
    <3>1. t1.sentTesting = t2.sentTesting /\ t1.sentECT0 = t2.sentECT0 /\ t1.ackedCE = t2.ackedCE
      BY <1>2, <1>4 DEF SameSending
    <3> QED  BY <2>3, <1>4, <3>1
  <2> QED  BY <1>5, <2>1, <2>2, <2>3
<1> QED  BY <1>6 DEF u

\* The reasons for which HandleNewlyAcked rejects the counts of a frame.
CountsFail(t, packets, a) ==
  LET marked == Cardinality({n \in packets : MarkedECT0(t, n)})
  IN  \/ a.ect0 > t.sentECT0
      \/ marked > 0 /\ a.ect0 = 0 /\ a.ce = 0
      \/ a.ect0 - t.ackedECT0 < 0 \/ a.ce - t.ackedCE < 0
      \/ (a.ect0 - t.ackedECT0) + (a.ce - t.ackedCE) < marked

\* What HandleNewlyAcked does to the tracker.
LEMMA NewlyAckedFields ==
  ASSUME NEW t \in Tracker, NEW packets, NEW a, a.ect0 \in Nat, a.ce \in Nat
  PROVE  LET u == HandleNewlyAcked(t, packets, a)
         IN  /\ u \in Tracker /\ SameSending(u, t) /\ u.lostTesting = t.lostTesting
             /\ \/ u = t /\ t.state = "failed"
                \/ /\ u = [t EXCEPT !.state = "failed"] /\ t.state # "failed" /\ CountsFail(t, packets, a)
                   /\ u.state = "failed" /\ u.ackedECT0 = t.ackedECT0 /\ u.ackedCE = t.ackedCE
                \/ /\ t.state # "failed" /\ ~CountsFail(t, packets, a)
                   /\ u.ackedECT0 = a.ect0 /\ u.ackedCE = a.ce
                   /\ \/ u.state = t.state
                      \/ u.state = "failed" /\ u.sentECT0 <= u.ackedCE + u.lostTesting
                      \/ u.state = "capable" /\ a.ect0 > t.ackedECT0 /\ t.state \in {"testing", "unknown"}
<1> DEFINE u == HandleNewlyAcked(t, packets, a)
           Right ==
             /\ u \in Tracker /\ SameSending(u, t) /\ u.lostTesting = t.lostTesting
             /\ \/ u = t /\ t.state = "failed"
                \/ /\ u = [t EXCEPT !.state = "failed"] /\ t.state # "failed" /\ CountsFail(t, packets, a)
                   /\ u.state = "failed" /\ u.ackedECT0 = t.ackedECT0 /\ u.ackedCE = t.ackedCE
                \/ /\ t.state # "failed" /\ ~CountsFail(t, packets, a)
                   /\ u.ackedECT0 = a.ect0 /\ u.ackedCE = a.ce
                   /\ \/ u.state = t.state
                      \/ u.state = "failed" /\ u.sentECT0 <= u.ackedCE + u.lostTesting
                      \/ u.state = "capable" /\ a.ect0 > t.ackedECT0 /\ t.state \in {"testing", "unknown"}
<1>1. PICK t1 : t1 = [t EXCEPT !.ackedECT0 = a.ect0, !.ackedCE = a.ce]
  OBVIOUS
<1>2. /\ t1 \in Tracker /\ SameSending(t1, t) /\ t1.lostTesting = t.lostTesting /\ t1.state = t.state
      /\ t1.ackedECT0 = a.ect0 /\ t1.ackedCE = a.ce
  BY Zenon, <1>1 DEF Tracker, SameSending
<1>3. PICK t2 : t2 = IF t.state = "unknown" THEN FailIfMangled(t1) ELSE t1
  OBVIOUS
<1>4. /\ t2 \in Tracker /\ SameSending(t2, t) /\ t2.lostTesting = t.lostTesting
      /\ t2.ackedECT0 = a.ect0 /\ t2.ackedCE = a.ce
      /\ \/ t2.state = t.state
         \/ t2.state = "failed" /\ t2.sentECT0 <= t2.ackedCE + t2.lostTesting
  <2>1. CASE t2 = t1
    BY <2>1, <1>2
  <2>2. CASE t2 = [t1 EXCEPT !.state = "failed"] /\ t1.sentECT0 <= t1.ackedCE + t1.lostTesting
    BY Zenon, <2>2, <1>2, StateChanged DEF SameSending, States
  <2> QED  BY <2>1, <2>2, <1>2, <1>3, FailIfMangledFields
<1>5. PICK t3 : t3 = [t2 EXCEPT !.state = "capable"]
  BY Zenon
<1>6. /\ t3 \in Tracker /\ SameSending(t3, t) /\ t3.lostTesting = t.lostTesting /\ t3.state = "capable"
      /\ t3.ackedECT0 = a.ect0 /\ t3.ackedCE = a.ce
  BY Zenon, <1>4, <1>5, StateChanged DEF SameSending, States
<1>7. CASE t.state = "failed"
  <2>1. u = t
    BY <1>7 DEF HandleNewlyAcked
  <2> QED  BY <2>1, <1>7 DEF SameSending
<1>8. CASE t.state # "failed" /\ CountsFail(t, packets, a)
  <2>1. u = [t EXCEPT !.state = "failed"]
    BY <1>8 DEF HandleNewlyAcked, CountsFail
  <2>2. u \in Tracker /\ SameSending(u, t) /\ u.lostTesting = t.lostTesting /\ u.state = "failed"
        /\ u.ackedECT0 = t.ackedECT0 /\ u.ackedCE = t.ackedCE
    <3>1. "failed" \in States
      BY DEF States
    <3> HIDE DEF u
    <3> QED  BY <2>1, <3>1, StateChanged DEF SameSending
  <2>3. Right
    <3> HIDE DEF u
    <3> QED  BY <2>1, <2>2, <1>8
  <2> QED  BY <2>3
<1>9. CASE t.state # "failed" /\ ~CountsFail(t, packets, a)
  <2>1. \/ u = t2
        \/ u = t3 /\ t2.state \in {"testing", "unknown"} /\ a.ect0 - t.ackedECT0 > 0
    BY <1>9, <1>1, <1>3, <1>5 DEF HandleNewlyAcked, CountsFail
  <2>2. Right
    <3> HIDE DEF u
    <3>1. CASE u = t2
      BY <3>1, <1>4, <1>9
    <3>2. CASE u = t3 /\ t2.state \in {"testing", "unknown"} /\ a.ect0 - t.ackedECT0 > 0
      <4>1. t.state \in {"testing", "unknown"}
        BY <3>2, <1>4
      <4>2. a.ect0 > t.ackedECT0
        BY <3>2 DEF Tracker
      <4> QED  BY <3>2, <4>1, <4>2, <1>6, <1>9
    <3> QED  BY <2>1, <3>1, <3>2
  <2> QED  BY <2>2
<1> QED  BY <1>7, <1>8, <1>9

--------------------------------------------------------------------------------
\* Packets and marks are finite in number.
LEMMA MarksFinite ==
  ASSUME ECNTypeOK, NEW P, P \subseteq Transmitted
  PROVE  /\ Len(marks) \in Nat /\ IsFiniteSet(Transmitted) /\ IsFiniteSet(P) /\ IsFiniteSet(SentWithMark)
         /\ \A m : IsFiniteSet(Among(P, m)) /\ Cardinality(Among(P, m)) \in Nat
<1>1. Len(marks) \in Nat
  BY DEF ECNTypeOK
<1>2. IsFiniteSet(Transmitted)
  BY <1>1, FS_Interval DEF Transmitted
<1>3. IsFiniteSet(P) /\ IsFiniteSet(SentWithMark)
  BY <1>2, FS_Subset DEF SentWithMark
<1>4. ASSUME NEW m PROVE IsFiniteSet(Among(P, m)) /\ Cardinality(Among(P, m)) \in Nat
  BY <1>3, FS_Subset, FS_CardinalityType DEF Among
<1> QED  BY <1>1, <1>2, <1>3, <1>4

\* A nonempty finite set of packet numbers has a largest one.
LEMMA LargestExists ==
  ASSUME NEW N \in Nat, NEW P, P \subseteq 0..(N - 1), P # {}
  PROVE  LET l == CHOOSE n \in P : \A m \in P : m <= n
         IN  l \in P /\ \A m \in P : m <= l
<1> DEFINE Gaps == {N - n : n \in P}
<1>1. Gaps \subseteq Nat /\ Gaps # {}
  <2>1. \A n \in P : N - n \in Nat
    OBVIOUS
  <2> QED  BY Zenon, <2>1
<1>2. PICK k \in Gaps : \A j \in Gaps : ~(<<j, k>> \in OpToRel(<, Nat))
  BY Zenon, <1>1, NatLessThanWellFounded, WFMin
<1>3. \A j \in Gaps : ~(j < k)
  <2> TAKE j \in Gaps
  <2>1. j \in Nat /\ k \in Nat /\ ~(<<j, k>> \in OpToRel(<, Nat))
    BY Zenon, <1>1, <1>2
  <2> HIDE DEF Gaps
  <2> QED  BY <2>1 DEF OpToRel
<1>4. PICK n \in P : k = N - n
  OBVIOUS
<1>5. \A m \in P : m <= n
  <2> TAKE m \in P
  <2>1. N - m \in Gaps
    OBVIOUS
  <2>2. ~(N - m < N - n)
    BY Zenon, <2>1, <1>3, <1>4
  <2>3. m \in Int /\ n \in Int
    OBVIOUS
  <2> QED  BY <2>2, <2>3
<1> QED  BY Zenon, <1>5

\* What a mark that arrives says about the path and about the mark that was sent.
LEMMA ArrivedMarks ==
  ASSUME ECNTypeOK, MarkedByPath, NEW n \in DOMAIN seen
  PROVE  /\ seen[n] = "ect0" => WasMarked(n)
         /\ path = "keeps" => seen[n] # "ce" /\ (WasMarked(n) => seen[n] = "ect0")
         /\ path \in {"bleaches", "mangles"} => seen[n] # "ect0"
<1>1. marks[n + 1] \in {"ect0", "non"}
  <2>1. n + 1 \in 1..Len(marks) /\ marks \in Seq({"ect0", "non"})
    BY DEF ECNTypeOK, Transmitted
  <2> QED  BY <2>1
<1>2. seen[n] \in Marks(path, marks[n + 1])
  BY DEF MarkedByPath
<1>3. CASE marks[n + 1] = "non"
  BY <1>2, <1>3 DEF Marks, WasMarked
<1>4. CASE marks[n + 1] = "ect0"
  <2>1. path \in Paths
    BY DEF ECNTypeOK
  <2> QED  BY <1>2, <1>4, <2>1 DEF Marks, WasMarked, Paths
<1> QED  BY <1>1, <1>3, <1>4

LEMMA ECNStarts == ECNInit => ECNInv
<1> SUFFICES ASSUME ECNInit PROVE ECNInv
  OBVIOUS
<1>1. /\ marks = << >> /\ outstanding = {} /\ largestAcked = -1 /\ DOMAIN seen = {} /\ frames = {}
      /\ congested = FALSE /\ path \in Paths
  BY DEF ECNInit
<1>2. /\ ecn \in Tracker /\ ecn.state = "initial" /\ ecn.sentTesting = 0 /\ ecn.lastTesting = -1 /\ ecn.firstCapable = -1
      /\ ecn.sentECT0 = 0 /\ ecn.ackedECT0 = 0 /\ ecn.ackedCE = 0
  BY DEF ECNInit, Tracker, States
<1>3. Transmitted = {}
  BY <1>1 DEF Transmitted
<1>4. seen \in [DOMAIN seen -> PacketMarks]
  BY DEF ECNInit
<1>5. marks \in Seq({"ect0", "non"})
  BY <1>1
<1>6. ECNTypeOK
  <2>1. congested \in BOOLEAN
    BY Zenon DEF ECNInit
  <2>3. largestAcked \in Int
    BY <1>1
  <2>2. outstanding \subseteq Transmitted /\ DOMAIN seen \subseteq Transmitted
    BY <1>1, <1>3
  <2> QED  BY <1>1, <1>2, <1>4, <1>5, <2>1, <2>2, <2>3 DEF ECNTypeOK
<1>7. SentWithMark = {} /\ Among({}, "ect0") = {} /\ Among({}, "ce") = {}
  BY <1>3 DEF SentWithMark, Among
<1>8. SendingCounted /\ CountsRight({})
  <2>1. Cardinality({}) = 0
    BY FS_EmptySet
  <2>2. SendingCounted
    BY <1>2, <1>7, <2>1 DEF SendingCounted
  <2>3. CountsRight({})
    BY Zenon, <1>1, <1>2, <1>7, <2>1 DEF CountsRight
  <2> QED  BY <2>2, <2>3
<1>9. MarkedByPath /\ MarkingKnown /\ FramesRight /\ FramesNested /\ CountsKnown /\ ValidationSound
  BY <1>1, <1>2, <1>3, <1>8 DEF MarkedByPath, MarkingKnown, FramesRight, FramesNested, CountsKnown, ValidationSound
<1> QED  BY <1>6, <1>8, <1>9 DEF ECNInv

\* What Mode and SentPacket make of the tracker when a packet is sent.
LEMMA SendingFields ==
  ASSUME ECNInv, NEW eliciting, Send(eliciting)
  PROVE  /\ Transmitted' = Transmitted \cup {Len(marks)} /\ Len(marks) \notin Transmitted
         /\ \A n \in Transmitted : marks'[n + 1] = marks[n + 1]
         /\ marks' \in Seq({"ect0", "non"})
         /\ ecn' \in Tracker /\ ecn'.state # "initial"
         /\ ecn'.lostTesting = ecn.lostTesting /\ ecn'.ackedECT0 = ecn.ackedECT0 /\ ecn'.ackedCE = ecn.ackedCE
         /\ marks'[Len(marks) + 1] = "ect0" =>
              /\ ecn'.sentECT0 = ecn.sentECT0 + 1 /\ ecn'.sentTesting <= ecn.sentTesting + 1 /\ ecn.state # "failed"
              /\ ecn.state # "unknown"
              /\ \/ /\ ecn.state \in {"initial", "testing"} /\ ecn'.firstCapable = ecn.firstCapable
                    /\ \/ ecn'.state = "testing" /\ ecn'.lastTesting = ecn.lastTesting
                       \/ ecn'.state = "unknown" /\ ecn'.lastTesting = Len(marks)
                 \/ /\ ecn.state = "capable" /\ ecn'.state = "capable" /\ ecn'.lastTesting = ecn.lastTesting
                    /\ ecn'.firstCapable = IF ecn.firstCapable = -1 THEN Len(marks) ELSE ecn.firstCapable
         /\ marks'[Len(marks) + 1] # "ect0" => ecn' = ecn /\ ecn.state \in {"unknown", "failed"}
<1>1. PICK t : t = Started(ecn)
  OBVIOUS
<1>2. ecn \in Tracker /\ Len(marks) \in Nat /\ marks \in Seq({"ect0", "non"})
  BY DEF ECNInv, ECNTypeOK
<1>3. /\ t \in Tracker /\ SameSending(t, ecn) /\ t.lostTesting = ecn.lostTesting
      /\ t.ackedECT0 = ecn.ackedECT0 /\ t.ackedCE = ecn.ackedCE
      /\ \/ t = ecn /\ ecn.state # "initial"
         \/ ecn.state = "initial" /\ t.state = "testing"
  <2>1. CASE ecn.state = "initial"
    <3>1. t = [ecn EXCEPT !.state = "testing"] /\ "testing" \in States
      BY <1>1, <2>1 DEF Started, States
    <3> QED  BY <3>1, <1>2, <2>1, StateChanged DEF SameSending
  <2>2. CASE ecn.state # "initial"
    BY <1>1, <1>2, <2>2 DEF Started, SameSending
  <2> QED  BY <2>1, <2>2
<1>4. marks' = Append(marks, Mode(t)) /\ ecn' = (IF Mode(t) = "ect0" THEN SentMarked(t, Len(marks)) ELSE t)
  BY <1>1 DEF Send
<1>5. Mode(t) \in {"ect0", "non"}
  BY DEF Mode
<1>6. /\ Len(marks') = Len(marks) + 1 /\ marks' \in Seq({"ect0", "non"}) /\ marks'[Len(marks) + 1] = Mode(t)
      /\ \A i \in 1..Len(marks) : marks'[i] = marks[i]
  <2> HIDE DEF Mode
  <2> QED  BY <1>2, <1>4, <1>5
<1>7. /\ Transmitted' = Transmitted \cup {Len(marks)} /\ Len(marks) \notin Transmitted
      /\ \A n \in Transmitted : marks'[n + 1] = marks[n + 1]
  BY <1>2, <1>6 DEF Transmitted
<1>8. marks'[Len(marks) + 1] = "ect0" <=> Mode(t) = "ect0"
  BY <1>6
<1>9. CASE Mode(t) = "ect0"
  <2>1. t.state \in {"testing", "capable"} /\ ecn' = SentMarked(t, Len(marks))
    BY <1>4, <1>9 DEF Mode
  <2> DEFINE u == SentMarked(t, Len(marks))
  <2>2. /\ u \in Tracker
        /\ u.sentECT0 = t.sentECT0 + 1 /\ u.lostTesting = t.lostTesting
        /\ u.ackedECT0 = t.ackedECT0 /\ u.ackedCE = t.ackedCE
        /\ u.firstCapable = IF t.state = "capable" /\ t.firstCapable = -1 THEN Len(marks) ELSE t.firstCapable
        /\ t.state # "testing" =>
             u.sentTesting = t.sentTesting /\ u.state = t.state /\ u.lastTesting = t.lastTesting
        /\ t.state = "testing" =>
             /\ u.sentTesting = t.sentTesting + 1
             /\ \/ u.state = "testing" /\ u.lastTesting = t.lastTesting
                \/ u.state = "unknown" /\ u.lastTesting = Len(marks)
    BY Zenon, <1>2, <1>3, SentMarkedFields
  <2> HIDE DEF u
  <2>3. ecn' = u
    BY <2>1 DEF u
  <2>4. u.sentECT0 = ecn.sentECT0 + 1 /\ u.sentTesting <= ecn.sentTesting + 1
    BY SMTT(30), <2>1, <2>2, <1>2, <1>3 DEF SameSending, Tracker
  <2>5. CASE t.state = "testing"
    <3>1. ecn.state \in {"initial", "testing"}
      BY <1>3, <2>5
    <3> QED  BY <2>2, <2>3, <2>4, <2>5, <3>1, <1>3, <1>6, <1>7, <1>8, <1>9 DEF SameSending
  <2>6. CASE t.state = "capable"
    <3>1. t = ecn
      BY <1>3, <2>6
    <3> QED  BY <2>2, <2>3, <2>4, <2>6, <3>1, <1>6, <1>7, <1>8, <1>9
  <2> QED  BY <2>1, <2>5, <2>6
<1>10. CASE Mode(t) = "non"
  <2>1. ecn' = t /\ t.state \notin {"testing", "capable"}
    BY <1>4, <1>10 DEF Mode
  <2>2. t = ecn /\ ecn.state \in {"unknown", "failed"}
    BY <2>1, <1>2, <1>3 DEF Tracker, States
  <2> QED  BY <2>1, <2>2, <1>2, <1>6, <1>7, <1>8, <1>10
<1> QED  BY <1>5, <1>9, <1>10

\* Sending a packet.
LEMMA ECNSend ==
  ASSUME ECNInv, NEW eliciting \in BOOLEAN, Send(eliciting)
  PROVE  ECNInv'
<1> DEFINE N == Len(marks)
<1>1. PICK last : last = N
  BY Zenon
<1>2. /\ Transmitted' = Transmitted \cup {last} /\ last \notin Transmitted
      /\ \A n \in Transmitted : marks'[n + 1] = marks[n + 1]
      /\ marks' \in Seq({"ect0", "non"})
      /\ ecn' \in Tracker /\ ecn'.state # "initial"
      /\ ecn'.lostTesting = ecn.lostTesting /\ ecn'.ackedECT0 = ecn.ackedECT0 /\ ecn'.ackedCE = ecn.ackedCE
      /\ marks'[last + 1] = "ect0" =>
           /\ ecn'.sentECT0 = ecn.sentECT0 + 1 /\ ecn'.sentTesting <= ecn.sentTesting + 1 /\ ecn.state # "failed"
           /\ ecn.state # "unknown"
           /\ \/ /\ ecn.state \in {"initial", "testing"} /\ ecn'.firstCapable = ecn.firstCapable
                 /\ \/ ecn'.state = "testing" /\ ecn'.lastTesting = ecn.lastTesting
                    \/ ecn'.state = "unknown" /\ ecn'.lastTesting = last
              \/ /\ ecn.state = "capable" /\ ecn'.state = "capable" /\ ecn'.lastTesting = ecn.lastTesting
                 /\ ecn'.firstCapable = IF ecn.firstCapable = -1 THEN last ELSE ecn.firstCapable
      /\ marks'[last + 1] # "ect0" => ecn' = ecn /\ ecn.state \in {"unknown", "failed"}
  BY <1>1, SendingFields
<1>3. /\ path' = path /\ largestAcked' = largestAcked /\ seen' = seen /\ frames' = frames /\ congested' = congested
      /\ outstanding \subseteq outstanding' /\ outstanding' \subseteq outstanding \cup {last}
  BY <1>1 DEF Send
<1>4. ECNTypeOK'
  BY <1>2, <1>3 DEF ECNInv, ECNTypeOK
<1>5. MarkedByPath'
  <2>1. DOMAIN seen \subseteq Transmitted
    BY DEF ECNInv, ECNTypeOK
  <2> QED  BY <2>1, <1>2, <1>3 DEF ECNInv, MarkedByPath
<1>6. \A n \in Transmitted : WasMarked(n)' <=> WasMarked(n)
  BY <1>2 DEF WasMarked
<1>7. last \in Nat /\ \A n \in Transmitted : n \in Nat /\ n < last
  BY <1>1 DEF ECNInv, ECNTypeOK, Transmitted
<1>8. SendingCounted'
  <2>1. IsFiniteSet(SentWithMark) /\ last \notin SentWithMark
    BY <1>2, MarksFinite DEF ECNInv, SentWithMark
  <2>2. ecn.sentTesting \in Nat /\ ecn.sentECT0 \in Nat /\ ecn'.sentTesting \in Nat /\ ecn'.sentECT0 \in Nat
    BY <1>4 DEF ECNInv, ECNTypeOK, Tracker
  <2>3. CASE marks'[last + 1] = "ect0"
    <3>1. SentWithMark' = SentWithMark \cup {last}
      BY <2>3, <1>2, <1>6 DEF SentWithMark, WasMarked
    <3>2. Cardinality(SentWithMark') = Cardinality(SentWithMark) + 1
      BY <2>1, <3>1, FS_AddElement
    <3> QED  BY <2>2, <2>3, <3>2, <1>2 DEF ECNInv, SendingCounted
  <2>4. CASE marks'[last + 1] # "ect0"
    <3>1. SentWithMark' = SentWithMark
      BY <2>4, <1>2, <1>6 DEF SentWithMark, WasMarked
    <3> QED  BY <2>4, <3>1, <1>2 DEF ECNInv, SendingCounted
  <2> QED  BY <2>3, <2>4
<1>9. MarkingKnown'
  <2>1. CASE marks'[last + 1] # "ect0"
    <3>1. CASE ecn.state = "failed"
      BY <2>1, <3>1, <1>2 DEF MarkingKnown
    <3>2. CASE ecn.state = "unknown"
      <4>1. ecn' = ecn
        BY <2>1, <1>2
      <4> QED  BY <4>1, <3>2, <1>2, <1>6, <1>7 DEF ECNInv, MarkingKnown
    <3> QED  BY <2>1, <3>1, <3>2, <1>2
  <2>2. CASE marks'[last + 1] = "ect0"
    <3>1. WasMarked(last)'
      BY <2>2 DEF WasMarked
    <3>2. CASE ecn.state \in {"initial", "testing"}
      <4>1. ecn.lastTesting = -1 /\ ecn.firstCapable = -1 /\ \A n \in Transmitted : WasMarked(n)
        BY <3>2 DEF ECNInv, MarkingKnown
      <4> QED  BY <4>1, <3>1, <3>2, <2>2, <1>2, <1>6 DEF MarkingKnown
    <3>3. CASE ecn.state = "capable"
      BY <3>1, <3>3, <2>2, <1>2, <1>6, <1>7 DEF ECNInv, MarkingKnown
    <3> QED  BY <2>2, <3>2, <3>3, <1>2
  <2> QED  BY <2>1, <2>2
<1>10. FramesRight' /\ FramesNested'
  BY Zenon, <1>3 DEF ECNInv, FramesRight, FramesNested, Among
<1>11. CountsKnown'
  <2>1. PICK B \in SUBSET DOMAIN seen : CountsRight(B)
    BY DEF ECNInv, CountsKnown
  <2>2. last \notin B
    BY <2>1, <1>2 DEF ECNInv, ECNTypeOK
  <2>3. CountsRight(B)'
    BY <2>1, <2>2, <1>2, <1>3 DEF CountsRight, Among
  <2> QED  BY <2>1, <2>3, <1>3 DEF CountsKnown
<1>12. ValidationSound'
  <2>1. ecn'.state = "failed" => ecn' = ecn
    BY <1>2
  <2>2. ecn'.state = "capable" => ecn.state = "capable"
    BY <1>2
  <2> QED  BY <2>1, <2>2, <1>3 DEF ECNInv, ValidationSound
<1> QED  BY <1>4, <1>5, <1>8, <1>9, <1>10, <1>11, <1>12 DEF ECNInv

\* A packet arrives: what arrived earlier keeps its mark.
LEMMA ECNArrive ==
  ASSUME ECNInv, NEW n \in Numbers, NEW m \in PacketMarks, Arrive(n, m)
  PROVE  ECNInv'
<1>1. /\ path' = path /\ ecn' = ecn /\ marks' = marks /\ outstanding' = outstanding
      /\ largestAcked' = largestAcked /\ frames' = frames /\ congested' = congested
  BY DEF Arrive
<1>2. /\ DOMAIN seen' = DOMAIN seen \cup {n} /\ n \notin DOMAIN seen /\ seen'[n] = m
      /\ \A i \in DOMAIN seen : seen'[i] = seen[i]
  BY DEF Arrive
<1>3. n \in Transmitted /\ m \in Marks(path, marks[n + 1])
  BY DEF Arrive, Transmitted, Numbers, ECNInv, ECNTypeOK
<1>4. Transmitted' = Transmitted /\ SentWithMark' = SentWithMark /\ \A i : WasMarked(i)' <=> WasMarked(i)
  BY <1>1 DEF Transmitted, SentWithMark, WasMarked
<1>5. ECNTypeOK'
  <2>1. seen' = [i \in DOMAIN seen \cup {n} |-> IF i = n THEN m ELSE seen[i]]
    BY DEF Arrive
  <2>2. \A i \in DOMAIN seen' : seen'[i] \in PacketMarks
    BY <1>2 DEF ECNInv, ECNTypeOK
  <2>3. seen' \in [DOMAIN seen' -> PacketMarks]
    BY <1>2, <2>1, <2>2
  <2> QED  BY <1>1, <1>2, <1>3, <1>4, <2>3 DEF ECNInv, ECNTypeOK
<1>6. MarkedByPath'
  BY <1>1, <1>2, <1>3 DEF ECNInv, MarkedByPath
<1>7. SendingCounted' /\ MarkingKnown'
  BY <1>1, <1>4 DEF ECNInv, SendingCounted, MarkingKnown
<1>8. ASSUME NEW P, P \subseteq DOMAIN seen, NEW x PROVE Among(P, x)' = Among(P, x)
  BY <1>2, <1>8 DEF Among
<1>9. FramesRight' /\ FramesNested'
  BY <1>1, <1>2, <1>8 DEF ECNInv, FramesRight, FramesNested
<1>10. CountsKnown'
  <2>1. PICK B \in SUBSET DOMAIN seen : CountsRight(B)
    BY DEF ECNInv, CountsKnown
  <2>2. CountsRight(B)'
    BY <2>1, <1>1, <1>8 DEF CountsRight
  <2> QED  BY <2>1, <2>2, <1>2 DEF CountsKnown
<1>11. ValidationSound'
  BY <1>1, <1>2 DEF ECNInv, ValidationSound
<1> QED  BY <1>5, <1>6, <1>7, <1>9, <1>10, <1>11 DEF ECNInv

\* The receiver sends a frame: it acknowledges all that any older one did.
LEMMA ECNSendAck ==
  ASSUME ECNInv, SendAck
  PROVE  ECNInv'
<1>1. /\ path' = path /\ ecn' = ecn /\ marks' = marks /\ outstanding' = outstanding
      /\ largestAcked' = largestAcked /\ seen' = seen /\ congested' = congested
  BY DEF SendAck
<1>2. PICK f : f = [packets |-> DOMAIN seen, ect0 |-> Counted("ect0"), ce |-> Counted("ce")]
  BY Zenon
<1>3. frames' = frames \cup {f} /\ DOMAIN seen # {}
  BY <1>2 DEF SendAck
<1>4. /\ f.packets = DOMAIN seen /\ f.ect0 = Cardinality(Among(DOMAIN seen, "ect0"))
      /\ f.ce = Cardinality(Among(DOMAIN seen, "ce"))
  BY <1>2 DEF Counted, Among
<1>5. ECNTypeOK' /\ MarkedByPath' /\ SendingCounted' /\ MarkingKnown' /\ ValidationSound'
  BY <1>1 DEF ECNInv, ECNTypeOK, MarkedByPath, SendingCounted, MarkingKnown, ValidationSound,
              Transmitted, SentWithMark, WasMarked
<1>6. \A P, x : Among(P, x)' = Among(P, x)
  BY Zenon, <1>1 DEF Among
<1>7. FramesRight'
  BY <1>1, <1>3, <1>4, <1>6 DEF ECNInv, FramesRight
<1>8. FramesNested'
  BY <1>3, <1>4 DEF ECNInv, FramesRight, FramesNested
<1>9. CountsKnown'
  <2>1. PICK B \in SUBSET DOMAIN seen : CountsRight(B)
    BY DEF ECNInv, CountsKnown
  <2>2. CountsRight(B)'
    BY <2>1, <1>1, <1>3, <1>4, <1>6 DEF CountsRight
  <2> QED  BY <2>1, <2>2, <1>1 DEF CountsKnown
<1> QED  BY <1>5, <1>7, <1>8, <1>9 DEF ECNInv

\* What is left to show when a step only settles packets: nothing is sent or arrives.
LEMMA Settling ==
  ASSUME ECNInv, UNCHANGED <<path, marks, seen, frames>>, outstanding' \subseteq outstanding,
         largestAcked' \in Int, congested' \in BOOLEAN, ecn' \in Tracker, SameSending(ecn', ecn),
         \/ ecn'.state = ecn.state \/ ecn'.state = "failed"
         \/ ecn'.state = "capable" /\ ecn.state \in {"testing", "unknown"}
  PROVE  /\ ECNTypeOK' /\ MarkedByPath' /\ SendingCounted' /\ MarkingKnown' /\ FramesRight' /\ FramesNested'
         /\ \A P, x : Among(P, x)' = Among(P, x)
<1>1. Transmitted' = Transmitted /\ SentWithMark' = SentWithMark /\ \A i : WasMarked(i)' <=> WasMarked(i)
  BY DEF Transmitted, SentWithMark, WasMarked
<1>2. ECNTypeOK'
  BY <1>1 DEF ECNInv, ECNTypeOK
<1>3. MarkedByPath'
  BY DEF ECNInv, MarkedByPath
<1>4. SendingCounted'
  BY <1>1 DEF ECNInv, SendingCounted, SameSending
<1>5. MarkingKnown'
  BY <1>1 DEF ECNInv, MarkingKnown, SameSending
<1>6. \A P, x : Among(P, x)' = Among(P, x)
  BY DEF Among
<1>7. FramesRight' /\ FramesNested'
  BY <1>6 DEF ECNInv, FramesRight, FramesNested
<1> QED  BY <1>2, <1>3, <1>4, <1>5, <1>6, <1>7

\* A packet is declared lost.
LEMMA ECNLose ==
  ASSUME ECNInv, NEW n \in Numbers, Lose(n)
  PROVE  ECNInv'
<1>1. /\ UNCHANGED <<path, marks, seen, frames>> /\ outstanding' \subseteq outstanding
      /\ largestAcked' = largestAcked /\ congested' = congested /\ ecn' = LostPacket(ecn, n)
  BY DEF Lose
<1>2. ecn \in Tracker /\ largestAcked \in Int /\ congested \in BOOLEAN /\ n \in Int
  BY DEF ECNInv, ECNTypeOK, Numbers
<1>3. /\ ecn' \in Tracker /\ SameSending(ecn', ecn)
      /\ ecn'.ackedECT0 = ecn.ackedECT0 /\ ecn'.ackedCE = ecn.ackedCE
      /\ \/ ecn'.state = ecn.state /\ (ecn'.state = "failed" => ecn'.lostTesting = ecn.lostTesting)
         \/ /\ ecn'.state = "failed"
            /\ \/ ecn'.lostTesting >= ecn'.sentTesting
               \/ ecn'.sentECT0 <= ecn'.ackedCE + ecn'.lostTesting
  BY <1>1, <1>2, LostPacketFields
<1>4. /\ ECNTypeOK' /\ MarkedByPath' /\ SendingCounted' /\ MarkingKnown' /\ FramesRight' /\ FramesNested'
      /\ \A P, x : Among(P, x)' = Among(P, x)
  BY <1>1, <1>2, <1>3, Settling
<1>5. PICK B \in SUBSET DOMAIN seen : CountsRight(B)
  BY DEF ECNInv, CountsKnown
<1>6. CountsKnown'
  <2>1. CountsRight(B)'
    BY <1>1, <1>3, <1>4, <1>5 DEF CountsRight
  <2> QED  BY Zenon, <2>1, <1>1, <1>5 DEF CountsKnown
<1>7. path = "keeps" => ecn.ackedCE = 0
  <2> SUFFICES ASSUME path = "keeps" PROVE ecn.ackedCE = 0
    OBVIOUS
  <2>1. Among(B, "ce") = {}
    BY <1>5, ArrivedMarks DEF Among, ECNInv
  <2> QED  BY <2>1, <1>5, FS_EmptySet DEF CountsRight
<1>8. path = "keeps" /\ ecn'.state = "failed" => ecn'.lostTesting >= ecn'.sentTesting
  <2> SUFFICES ASSUME path = "keeps", ecn'.state = "failed" PROVE ecn'.lostTesting >= ecn'.sentTesting
    OBVIOUS
  <2>1. ecn'.sentTesting <= ecn'.sentECT0
    BY <1>4 DEF SendingCounted
  <2>2. ecn'.lostTesting \in Nat /\ ecn'.sentTesting \in Nat /\ ecn'.sentECT0 \in Nat
    BY <1>3 DEF Tracker
  <2>3. ecn.state = "failed" => ecn.lostTesting >= ecn.sentTesting
    BY DEF ECNInv, ValidationSound
  <2> QED  BY <2>1, <2>2, <2>3, <1>3, <1>7 DEF SameSending
<1>9. ValidationSound'
  BY <1>1, <1>3, <1>8 DEF ECNInv, ValidationSound
<1> QED  BY <1>4, <1>6, <1>9 DEF ECNInv

\* On a path that leaves the marks alone a frame that raises the largest acknowledged
\* packet number has counts that HandleNewlyAcked accepts.
LEMMA CountsAccepted ==
  ASSUME ECNInv, NEW a \in frames, ecn.state # "failed", path = "keeps",
         NEW B, B \subseteq a.packets, CountsRight(B)
  PROVE  ~CountsFail(ecn, a.packets \cap outstanding, a)
<1> DEFINE P == a.packets
           G == {n \in P \cap outstanding : MarkedECT0(ecn, n)}
<1>1. /\ P \subseteq DOMAIN seen /\ P \subseteq Transmitted /\ B \subseteq Transmitted
      /\ a.ect0 = Cardinality(Among(P, "ect0")) /\ a.ce = Cardinality(Among(P, "ce"))
      /\ ecn.ackedECT0 = Cardinality(Among(B, "ect0")) /\ ecn.ackedCE = Cardinality(Among(B, "ce"))
  BY DEF ECNInv, ECNTypeOK, FramesRight, CountsRight
<1>2. \A n \in P : (seen[n] = "ect0" <=> WasMarked(n)) /\ seen[n] # "ce"
  BY <1>1, ArrivedMarks DEF ECNInv
<1>3. G \subseteq Among(P, "ect0")
  <2> SUFFICES ASSUME NEW n \in G PROVE WasMarked(n)
    BY <1>2 DEF Among
  <2>1. n \in Transmitted /\ MarkedECT0(ecn, n) /\ n \in Int
    BY <1>1 DEF Transmitted
  <2>2. ecn.lastTesting \in Int /\ ecn.firstCapable \in Int
    BY DEF ECNInv, ECNTypeOK, Tracker
  <2>3. CASE ecn.lastTesting = -1
    BY <2>1, <2>3 DEF ECNInv, MarkingKnown
  <2>4. CASE n < ecn.lastTesting
    BY <2>1, <2>2, <2>4 DEF ECNInv, MarkingKnown
  <2>5. CASE ecn.firstCapable # -1 /\ n >= ecn.firstCapable
    BY <2>1, <2>5 DEF ECNInv, MarkingKnown
  <2> QED  BY <2>1, <2>3, <2>4, <2>5 DEF MarkedECT0
<1>4. /\ IsFiniteSet(Among(P, "ect0")) /\ IsFiniteSet(Among(P, "ce")) /\ IsFiniteSet(Among(B, "ect0"))
      /\ IsFiniteSet(Among(B, "ce")) /\ IsFiniteSet(SentWithMark)
      /\ a.ect0 \in Nat /\ a.ce \in Nat /\ ecn.ackedECT0 \in Nat /\ ecn.ackedCE \in Nat
  BY Zenon, <1>1, MarksFinite DEF ECNInv
<1>5. a.ect0 <= ecn.sentECT0
  <2>1. Among(P, "ect0") \subseteq SentWithMark
    BY Zenon, <1>1, <1>2 DEF Among, SentWithMark
  <2> QED  BY <2>1, <1>1, <1>4, FS_Subset DEF ECNInv, SendingCounted
<1>6. ecn.ackedCE <= a.ce
  <2>1. Among(B, "ce") \subseteq Among(P, "ce")
    BY Zenon DEF Among
  <2> QED  BY <2>1, <1>1, <1>4, FS_Subset
<1>7. IsFiniteSet(G) /\ Cardinality(G) \in Nat
  BY Zenon, <1>3, <1>4, FS_Subset, FS_CardinalityType
<1>8. Cardinality(G) + ecn.ackedECT0 <= a.ect0
  <2>1. G \cap Among(B, "ect0") = {}
    BY DEF CountsRight, Among
  <2>2. G \cup Among(B, "ect0") \subseteq Among(P, "ect0")
    BY <1>3 DEF Among
  <2> HIDE DEF G, P
  <2>3. Cardinality(G \cup Among(B, "ect0")) = Cardinality(G) + Cardinality(Among(B, "ect0")) - Cardinality({})
    BY <2>1, <1>4, <1>7, FS_Union
  <2>4. Cardinality({}) = 0
    BY FS_EmptySet
  <2>5. Cardinality(G \cup Among(B, "ect0")) <= Cardinality(Among(P, "ect0"))
    BY <2>2, <1>4, FS_Subset
  <2> QED  BY <2>3, <2>4, <2>5, <1>1, <1>4, <1>7
<1>9. ecn.sentECT0 \in Nat
  BY DEF ECNInv, ECNTypeOK, Tracker
<1>10. /\ ~(a.ect0 > ecn.sentECT0)
       /\ ~(Cardinality(G) > 0 /\ a.ect0 = 0 /\ a.ce = 0)
       /\ ~(a.ect0 - ecn.ackedECT0 < 0 \/ a.ce - ecn.ackedCE < 0)
       /\ ~((a.ect0 - ecn.ackedECT0) + (a.ce - ecn.ackedCE) < Cardinality(G))
  <2> HIDE DEF G, P
  <2> QED  BY <1>4, <1>5, <1>6, <1>7, <1>8, <1>9
<1> QED  BY <1>10 DEF CountsFail

\* An acknowledgement arrives.
LEMMA ECNReceivedAck ==
  ASSUME ECNInv, NEW a \in frames, ReceivedAck(a)
  PROVE  ECNInv'
<1> DEFINE newly == a.packets \cap outstanding
<1>1. PICK l : l = CHOOSE n \in a.packets : \A m \in a.packets : m <= n
  BY Zenon
<1>2. /\ UNCHANGED <<path, marks, seen, frames>> /\ outstanding' = outstanding \ newly
      /\ largestAcked' = (IF l > largestAcked THEN l ELSE largestAcked)
      /\ ecn' = IF l > largestAcked THEN HandleNewlyAcked(ecn, newly, a) ELSE ecn
      /\ congested' = (congested \/ (l > largestAcked /\ ecn'.state = "capable" /\ a.ce > ecn.ackedCE))
  BY <1>1 DEF ReceivedAck
<1>3. a.packets \subseteq DOMAIN seen /\ a.packets \subseteq Transmitted /\ a.packets # {} /\ Len(marks) \in Nat
  BY DEF ECNInv, ECNTypeOK, FramesRight
<1>4. l \in a.packets /\ \A m \in a.packets : m <= l
  BY Zenon, <1>1, <1>3, LargestExists DEF Transmitted
<1>5. l \in Int /\ largestAcked \in Int /\ ecn \in Tracker /\ congested \in BOOLEAN
  BY <1>3, <1>4 DEF Transmitted, ECNInv, ECNTypeOK
<1>6. congested' \in BOOLEAN
  BY <1>2, <1>5
<1>7. largestAcked' \in Int /\ largestAcked' >= largestAcked /\ (l > largestAcked => largestAcked' = l)
  BY <1>2, <1>5
<1>8. outstanding' \subseteq outstanding
  BY <1>2
<1>9. PICK B \in SUBSET DOMAIN seen : CountsRight(B)
  BY DEF ECNInv, CountsKnown
<1>10. /\ a.ect0 = Cardinality(Among(a.packets, "ect0")) /\ a.ce = Cardinality(Among(a.packets, "ce"))
       /\ a.ect0 \in Nat /\ a.ce \in Nat
  BY <1>3, MarksFinite DEF ECNInv, FramesRight
<1>11. CASE ~(l > largestAcked)
  <2>1. ecn' = ecn
    BY <1>2, <1>11
  <2>2. congested' <=> congested
    BY Zenon, <1>2, <1>11
  <2>3. /\ ECNTypeOK' /\ MarkedByPath' /\ SendingCounted' /\ MarkingKnown' /\ FramesRight' /\ FramesNested'
        /\ \A P, x : Among(P, x)' = Among(P, x)
    BY Zenon, <1>2, <1>5, <1>6, <1>7, <1>8, <2>1, Settling DEF SameSending
  <2>4. CountsRight(B)'
    BY Zenon, <1>2, <1>5, <1>7, <1>8, <1>9, <1>11, <2>1, <2>3 DEF CountsRight
  <2>5. CountsKnown'
    BY <2>4, <1>2, <1>9 DEF CountsKnown
  <2>6. ValidationSound'
    BY <1>2, <2>1, <2>2 DEF ECNInv, ValidationSound
  <2> QED  BY <2>3, <2>5, <2>6 DEF ECNInv
<1>12. CASE l > largestAcked
  <2>1. B \subseteq a.packets
    BY <1>4, <1>5, <1>9, <1>12 DEF CountsRight
  <2>2. PICK u : u = HandleNewlyAcked(ecn, newly, a)
    OBVIOUS
  <2>3. ecn' = u
    BY <1>2, <1>12, <2>2
  <2>4. /\ u \in Tracker /\ SameSending(u, ecn) /\ u.lostTesting = ecn.lostTesting
        /\ \/ u = ecn /\ ecn.state = "failed"
           \/ /\ u = [ecn EXCEPT !.state = "failed"] /\ ecn.state # "failed" /\ CountsFail(ecn, newly, a)
              /\ u.state = "failed" /\ u.ackedECT0 = ecn.ackedECT0 /\ u.ackedCE = ecn.ackedCE
           \/ /\ ecn.state # "failed" /\ ~CountsFail(ecn, newly, a)
              /\ u.ackedECT0 = a.ect0 /\ u.ackedCE = a.ce
              /\ \/ u.state = ecn.state
                 \/ u.state = "failed" /\ u.sentECT0 <= u.ackedCE + u.lostTesting
                 \/ u.state = "capable" /\ a.ect0 > ecn.ackedECT0 /\ ecn.state \in {"testing", "unknown"}
    BY <1>5, <1>10, <2>2, NewlyAckedFields
  <2>5. \/ u.state = ecn.state \/ u.state = "failed"
        \/ u.state = "capable" /\ ecn.state \in {"testing", "unknown"}
    BY <2>4
  <2>6. /\ ECNTypeOK' /\ MarkedByPath' /\ SendingCounted' /\ MarkingKnown' /\ FramesRight' /\ FramesNested'
        /\ \A P, x : Among(P, x)' = Among(P, x)
    BY <1>2, <1>6, <1>7, <1>8, <2>3, <2>4, <2>5, Settling
  <2>7. CountsKnown'
    <3>1. CASE u.ackedECT0 = ecn.ackedECT0 /\ u.ackedCE = ecn.ackedCE
      <4>1. \A n \in B : n <= largestAcked'
        BY Zenon, <1>3, <1>4, <1>7, <1>12, <2>1
      <4>2. CountsRight(B)'
        BY Zenon, <1>2, <1>8, <1>9, <2>3, <2>6, <3>1, <4>1 DEF CountsRight
      <4> QED  BY <4>2, <1>2, <1>9 DEF CountsKnown
    <3>2. CASE u.ackedECT0 = a.ect0 /\ u.ackedCE = a.ce
      <4>1. PICK P : P = a.packets
        BY Zenon
      <4>2. P \cap outstanding' = {} /\ \A n \in P : n <= largestAcked'
        BY <1>2, <1>4, <1>7, <1>12, <4>1
      <4>3. \A b \in frames' : P \subseteq b.packets \/ b.packets \subseteq P
        BY <1>2, <4>1 DEF ECNInv, FramesNested
      <4>4. CountsRight(P)'
        BY <1>10, <2>3, <2>6, <3>2, <4>1, <4>2, <4>3 DEF CountsRight
      <4> QED  BY <4>1, <4>4, <1>2, <1>3 DEF CountsKnown
    <3> QED  BY <2>4, <3>1, <3>2
  <2>8. path = "keeps" => a.ce = 0
    <3> SUFFICES ASSUME path = "keeps" PROVE a.ce = 0
      OBVIOUS
    <3>1. Among(a.packets, "ce") = {}
      BY <1>3, ArrivedMarks DEF Among, ECNInv
    <3> QED  BY <3>1, <1>10, FS_EmptySet
  <2>9. path = "keeps" /\ u.state = "failed" => u.lostTesting >= u.sentTesting
    <3> SUFFICES ASSUME path = "keeps", u.state = "failed" PROVE u.lostTesting >= u.sentTesting
      OBVIOUS
    <3>1. CASE ecn.state = "failed"
      BY <2>4, <3>1 DEF ECNInv, ValidationSound
    <3>2. CASE ecn.state # "failed"
      <4>1. ~CountsFail(ecn, newly, a)
        BY <1>9, <2>1, <3>2, CountsAccepted
      <4>2. u.ackedCE = 0 /\ u.sentECT0 <= u.ackedCE + u.lostTesting
        BY <2>4, <2>8, <3>2, <4>1
      <4>3. u.sentTesting <= u.sentECT0 /\ u.sentTesting \in Nat /\ u.sentECT0 \in Nat /\ u.lostTesting \in Nat
        BY <2>3, <2>4, <2>6 DEF SendingCounted, Tracker
      <4> QED  BY <4>2, <4>3
    <3> QED  BY <3>1, <3>2
  <2>10. path \in {"bleaches", "mangles"} => u.state # "capable"
    <3> SUFFICES ASSUME path \in {"bleaches", "mangles"}, u.state = "capable" PROVE FALSE
      OBVIOUS
    <3>1. ecn.state # "capable"
      BY DEF ECNInv, ValidationSound
    <3>2. a.ect0 > ecn.ackedECT0
      BY <2>4, <3>1
    <3>3. Among(a.packets, "ect0") = {}
      BY <1>3, ArrivedMarks DEF Among, ECNInv
    <3>4. a.ect0 = 0
      BY <3>3, <1>10, FS_EmptySet
    <3> QED  BY <3>2, <3>4, <1>5 DEF Tracker
  <2>11. congested' => path = "congested" /\ \E n \in DOMAIN seen : seen[n] = "ce"
    <3>1. CASE congested
      BY <3>1 DEF ECNInv, ValidationSound
    <3>2. CASE u.state = "capable" /\ a.ce > ecn.ackedCE
      <4>1. a.ce # 0
        BY <3>2, <1>5, <1>10 DEF Tracker
      <4>2. Among(a.packets, "ce") # {}
        BY <4>1, <1>10, FS_EmptySet
      <4>3. path \in Paths
        BY Zenon DEF ECNInv, ECNTypeOK
      <4> QED  BY <3>2, <4>1, <4>2, <4>3, <2>8, <2>10, <1>3 DEF Among, Paths
    <3> QED  BY Zenon, <3>1, <3>2, <2>3, <1>2
  <2>12. ValidationSound'
    BY <1>2, <2>3, <2>9, <2>10, <2>11 DEF ValidationSound
  <2> QED  BY <2>6, <2>7, <2>12 DEF ECNInv
<1> QED  BY <1>11, <1>12

LEMMA ECNStutters ==
  ASSUME ECNInv, UNCHANGED ecnVars
  PROVE  ECNInv'
<1>1. /\ UNCHANGED <<path, marks, seen, frames>> /\ ecn' = ecn /\ outstanding' = outstanding
      /\ largestAcked' = largestAcked /\ congested' = congested
  BY DEF ecnVars
<1>2. ecn \in Tracker /\ largestAcked \in Int /\ congested \in BOOLEAN
  BY DEF ECNInv, ECNTypeOK
<1>3. /\ ECNTypeOK' /\ MarkedByPath' /\ SendingCounted' /\ MarkingKnown' /\ FramesRight' /\ FramesNested'
      /\ \A P, x : Among(P, x)' = Among(P, x)
  BY <1>1, <1>2, Settling DEF SameSending
<1>4. PICK B \in SUBSET DOMAIN seen : CountsRight(B)
  BY DEF ECNInv, CountsKnown
<1>5. CountsRight(B)'
  BY <1>1, <1>3, <1>4 DEF CountsRight
<1>6. CountsKnown' /\ ValidationSound'
  BY <1>1, <1>4, <1>5 DEF ECNInv, CountsKnown, ValidationSound
<1> QED  BY <1>3, <1>6 DEF ECNInv

\* The verdict on a path is right, however many packets are sent and tested, and however
\* they and the ACK frames are lost, delayed and reordered: a path that leaves the marks
\* alone fails only when all testing packets were declared lost, one that clears or
\* rewrites all of them never counts as capable, and congestion is only reported where a
\* packet arrived with a CE mark (ecnTracker).
THEOREM ECNVerdictSound == ECNSpec => []ValidationSound
<1>1. ECNInv /\ [ECNNext]_ecnVars => ECNInv'
  <2> SUFFICES ASSUME ECNInv, [ECNNext]_ecnVars PROVE ECNInv'
    OBVIOUS
  <2>1. ASSUME NEW eliciting \in BOOLEAN, Send(eliciting) PROVE ECNInv'
    BY <2>1, ECNSend
  <2>2. CASE SendAck
    BY <2>2, ECNSendAck
  <2>3. ASSUME NEW n \in Numbers, NEW m \in {"non", "ect0", "ce"}, Arrive(n, m) PROVE ECNInv'
    BY <2>3, ECNArrive DEF PacketMarks
  <2>4. ASSUME NEW a \in frames, ReceivedAck(a) PROVE ECNInv'
    BY <2>4, ECNReceivedAck
  <2>5. ASSUME NEW n \in Numbers, Lose(n) PROVE ECNInv'
    BY <2>5, ECNLose
  <2>6. CASE UNCHANGED ecnVars
    BY <2>6, ECNStutters
  <2> QED  BY <2>1, <2>2, <2>3, <2>4, <2>5, <2>6 DEF ECNNext
<1>2. ECNInv => ValidationSound
  BY DEF ECNInv
<1> QED  BY <1>1, <1>2, ECNStarts, PTL DEF ECNSpec

================================================================================
