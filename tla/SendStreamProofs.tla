--------------------------- MODULE SendStreamProofs ---------------------------
(* Proofs about the sending side of a stream (send_stream.go), for any amount of    *)
(* data, any sizes of buffers, frames and windows, and any number of losses.        *)
EXTENDS SendStream, FiniteSetTheorems, TLAPS

\* The FIN counts like one more byte of the frame that carries it.
Units(f) == Bytes(f) \cup (IF f.fin THEN {-1} ELSE {})

FrameType == [off : Nat, len : Nat, fin : BOOLEAN]

\* The frames in the set I and in the sequence q, and what is acknowledged, A, are apart
\* and make up what was sent, U.
Parted(I, q, A, U) ==
  /\ \A f, g \in I : f # g => Units(f) \cap Units(g) = {}
  /\ \A i, j \in DOMAIN q : i # j => Units(q[i]) \cap Units(q[j]) = {}
  /\ \A f \in I, i \in DOMAIN q : Units(f) \cap Units(q[i]) = {}
  /\ \A f \in I : Units(f) \cap A = {}
  /\ \A i \in DOMAIN q : Units(q[i]) \cap A = {}
  /\ \A u \in U : u \in A \/ (\E f \in I : u \in Units(f)) \/ \E i \in DOMAIN q : u \in Units(q[i])

\* Every frame carries something, and only what was sent.
Carries(I, q, A, U) ==
  /\ \A f \in I : Units(f) # {} /\ Units(f) \subseteq U
  /\ \A i \in DOMAIN q : Units(q[i]) # {} /\ Units(q[i]) \subseteq U
  /\ A \subseteq U

\* A frame with new data.
LEMMA PartedNew ==
  ASSUME NEW I, NEW q, NEW A, NEW U, Parted(I, q, A, U), Carries(I, q, A, U),
         NEW f, Units(f) # {}, Units(f) \cap U = {}
  PROVE  /\ f \notin I
         /\ Parted(I \cup {f}, q, A, U \cup Units(f)) /\ Carries(I \cup {f}, q, A, U \cup Units(f))
<1>1. f \notin I
  BY DEF Carries
<1>2. Carries(I \cup {f}, q, A, U \cup Units(f))
  BY DEF Carries
<1>3. \A g \in I : Units(f) \cap Units(g) = {}
  BY DEF Carries
<1>4. \A i \in DOMAIN q : Units(f) \cap Units(q[i]) = {}
  BY DEF Carries
<1>5. Units(f) \cap A = {}
  BY DEF Carries
<1>6. Parted(I \cup {f}, q, A, U \cup Units(f))
  BY <1>3, <1>4, <1>5 DEF Parted
<1> QED
  BY <1>1, <1>2, <1>6

\* A frame is acknowledged.
LEMMA PartedAcked ==
  ASSUME NEW I, NEW q, NEW A, NEW U, Parted(I, q, A, U), Carries(I, q, A, U), NEW f \in I
  PROVE  Parted(I \ {f}, q, A \cup Units(f), U) /\ Carries(I \ {f}, q, A \cup Units(f), U)
BY DEF Parted, Carries

\* A frame is lost.
LEMMA PartedLost ==
  ASSUME NEW I, NEW T, NEW q \in Seq(T), NEW A, NEW U, Parted(I, q, A, U), Carries(I, q, A, U),
         NEW f \in I, f \in T
  PROVE  Parted(I \ {f}, Append(q, f), A, U) /\ Carries(I \ {f}, Append(q, f), A, U)
<1> DEFINE n == Len(q) + 1
           r == Append(q, f)
<1>1. DOMAIN r = DOMAIN q \cup {n} /\ n \notin DOMAIN q /\ r[n] = f /\ \A i \in DOMAIN q : r[i] = q[i]
  OBVIOUS
<1> HIDE DEF n, r
<1>2. Carries(I \ {f}, r, A, U)
  BY <1>1 DEF Carries
<1>3. \A i, j \in DOMAIN r : i # j => Units(r[i]) \cap Units(r[j]) = {}
  BY <1>1 DEF Parted
<1>4. \A g \in I \ {f}, i \in DOMAIN r : Units(g) \cap Units(r[i]) = {}
  BY <1>1 DEF Parted
<1>5. \A i \in DOMAIN r : Units(r[i]) \cap A = {}
  BY <1>1 DEF Parted
<1>6. \A u \in U : u \in A \/ (\E g \in I \ {f} : u \in Units(g)) \/ \E i \in DOMAIN r : u \in Units(r[i])
  BY <1>1 DEF Parted
<1>7. Parted(I \ {f}, r, A, U)
  BY <1>3, <1>4, <1>5, <1>6 DEF Parted
<1> QED
  BY <1>2, <1>7 DEF r

\* The frame at the front is sent again.
LEMMA PartedSentAgain ==
  ASSUME NEW I, NEW T, NEW q \in Seq(T), NEW A, NEW U, Parted(I, q, A, U), Carries(I, q, A, U), q # <<>>
  PROVE  /\ Head(q) \notin I
         /\ Parted(I \cup {Head(q)}, Tail(q), A, U) /\ Carries(I \cup {Head(q)}, Tail(q), A, U)
<1> DEFINE f == Head(q)
           r == Tail(q)
<1>1. /\ 1 \in DOMAIN q /\ f = q[1]
      /\ \A i \in DOMAIN r : i + 1 \in DOMAIN q /\ i + 1 # 1 /\ r[i] = q[i + 1]
      /\ \A i \in DOMAIN q \ {1} : i - 1 \in DOMAIN r /\ r[i - 1] = q[i]
      /\ \A i, j \in DOMAIN r : i # j => i + 1 # j + 1
  OBVIOUS
<1> HIDE DEF f, r
<1>2. f \notin I /\ Carries(I \cup {f}, r, A, U)
  BY <1>1 DEF Parted, Carries
<1>3. \A i, j \in DOMAIN r : i # j => Units(r[i]) \cap Units(r[j]) = {}
  BY <1>1 DEF Parted
<1>4. \A g \in I \cup {f}, i \in DOMAIN r : Units(g) \cap Units(r[i]) = {}
  BY <1>1 DEF Parted
<1>5. \A g, h \in I \cup {f} : g # h => Units(g) \cap Units(h) = {}
  BY <1>1 DEF Parted
<1>6. \A u \in U : u \in A \/ (\E g \in I \cup {f} : u \in Units(g)) \/ \E i \in DOMAIN r : u \in Units(r[i])
  BY <1>1 DEF Parted
<1>7. Parted(I \cup {f}, r, A, U)
  BY <1>1, <1>3, <1>4, <1>5, <1>6 DEF Parted
<1> QED
  BY <1>2, <1>7 DEF f, r

\* A part of the frame at the front is sent again, the rest stays there.
LEMMA PartedSplit ==
  ASSUME NEW I, NEW T, NEW q \in Seq(T), NEW A, NEW U, Parted(I, q, A, U), Carries(I, q, A, U), q # <<>>,
         NEW g, NEW h \in T, Units(g) # {}, Units(h) # {}, Units(g) \cap Units(h) = {},
         Units(g) \cup Units(h) = Units(Head(q))
  PROVE  LET r == <<h>> \o Tail(q)
         IN  g \notin I /\ Parted(I \cup {g}, r, A, U) /\ Carries(I \cup {g}, r, A, U)
<1> DEFINE r == <<h>> \o Tail(q)
<1>1. /\ 1 \in DOMAIN q /\ Head(q) = q[1] /\ DOMAIN r = DOMAIN q /\ r[1] = h
      /\ \A i \in DOMAIN q \ {1} : r[i] = q[i]
  OBVIOUS
<1>2. Units(g) \cup Units(h) = Units(q[1])
  BY <1>1
<1> HIDE DEF r
<1>3. g \notin I /\ Carries(I \cup {g}, r, A, U)
  BY <1>1, <1>2 DEF Parted, Carries
<1>4. \A i, j \in DOMAIN r : i # j => Units(r[i]) \cap Units(r[j]) = {}
  BY <1>1, <1>2 DEF Parted
<1>5. \A e \in I \cup {g}, i \in DOMAIN r : Units(e) \cap Units(r[i]) = {}
  BY <1>1, <1>2 DEF Parted
<1>6. \A e, f \in I \cup {g} : e # f => Units(e) \cap Units(f) = {}
  BY <1>1, <1>2 DEF Parted
<1>7. /\ \A i \in DOMAIN r : Units(r[i]) \cap A = {}
      /\ Units(g) \cap A = {}
  BY <1>1, <1>2 DEF Parted
<1>8. \A u \in U : u \in A \/ (\E e \in I \cup {g} : u \in Units(e)) \/ \E i \in DOMAIN r : u \in Units(r[i])
  BY <1>1, <1>2 DEF Parted
<1>9. Parted(I \cup {g}, r, A, U)
  BY <1>4, <1>5, <1>6, <1>7, <1>8 DEF Parted
<1> QED
  BY <1>3, <1>9 DEF r

--------------------------------------------------------------------------------
(* The inductive invariant, part by part.                                            *)

AckedUnits == ackedBytes \cup (IF finAcked THEN {-1} ELSE {})
SentUnits == (0..(writeOffset - 1)) \cup (IF finSent THEN {-1} ELSE {})

Fits(f) == f.off + f.len <= writeOffset /\ (f.fin => f.off + f.len = writeOffset)

Types ==
  /\ writeOffset \in Nat /\ data \in Nat /\ nextFrame \in Nat
  /\ inFlight \subseteq FrameType /\ IsFiniteSet(inFlight)
  /\ retransmissionQueue \in Seq(FrameType)
  /\ ackedBytes \subseteq Nat
  /\ finSent \in BOOLEAN /\ finAcked \in BOOLEAN /\ finishedWriting \in BOOLEAN /\ cancelled \in BOOLEAN
  /\ queuedReset \in BOOLEAN /\ resetInFlight \in BOOLEAN /\ resetAcked \in BOOLEAN

\* Until the stream is cancelled, what was sent is acknowledged, in flight or queued, once.
DInv ==
  /\ Carries(inFlight, retransmissionQueue, AckedUnits, SentUnits)
  /\ ~cancelled => Parted(inFlight, retransmissionQueue, AckedUnits, SentUnits)
  /\ \A f \in inFlight : Fits(f)
  /\ \A i \in DOMAIN retransmissionQueue : Fits(retransmissionQueue[i])

\* A cancelled stream has a RESET_STREAM frame queued, in flight or acknowledged, and only it.
RInv ==
  /\ OutstandingExact
  /\ cancelled => /\ finalError = "cancel" /\ resetSize = writeOffset /\ retransmissionQueue = <<>>
                  /\ queuedReset \/ resetInFlight \/ resetAcked
  /\ ~cancelled => ~queuedReset /\ ~resetInFlight /\ ~resetAcked
  /\ ~(queuedReset /\ resetInFlight)

\* Nothing comes after the FIN, and a caller that has left the loop of Write has left no data.
WInv ==
  /\ finSent => finishedWriting /\ data = 0 /\ nextFrame = 0
  /\ writer \in {"idle", "closing", "copied"} /\ data > 0 => finalError # "none"

Core == Types /\ DInv /\ RInv /\ WInv

LEMMA CoreInit == SendInit => Core
<1> SUFFICES ASSUME SendInit PROVE Core
  OBVIOUS
<1>1. Types
  <2>1. retransmissionQueue \in Seq(FrameType) /\ IsFiniteSet(inFlight)
    BY FS_EmptySet DEF SendInit
  <2> QED
    BY ZenonT(30), <2>1 DEF SendInit, Types
<1>2. DInv
  <2>1. AckedUnits = {} /\ SentUnits = {} /\ inFlight = {} /\ DOMAIN retransmissionQueue = {}
    BY DEF SendInit, AckedUnits, SentUnits
  <2> QED
    BY <2>1 DEF DInv, Carries, Parted
<1>3. RInv
  BY FS_EmptySet DEF SendInit, RInv, OutstandingExact
<1>4. WInv
  BY DEF SendInit, WInv
<1> QED
  BY <1>1, <1>2, <1>3, <1>4 DEF Core

\* Steps that touch neither frames nor offsets leave the partition alone.
LEMMA DInvKept ==
  DInv /\ UNCHANGED <<inFlight, retransmissionQueue, ackedBytes, finAcked, writeOffset, finSent, cancelled>> => DInv'
<1> SUFFICES ASSUME DInv, UNCHANGED <<inFlight, retransmissionQueue, ackedBytes, finAcked, writeOffset, finSent, cancelled>> PROVE DInv'
  OBVIOUS
<1>1. AckedUnits' = AckedUnits /\ SentUnits' = SentUnits
  BY DEF AckedUnits, SentUnits
<1> QED
  BY <1>1 DEF DInv, Fits

LEMMA RInvKept ==
  RInv /\ UNCHANGED <<inFlight, retransmissionQueue, writeOffset, cancelled, numOutstandingFrames, resetInFlight, queuedReset, resetAcked, resetSize>>
    /\ (finalError # "none" => finalError' = finalError) => RInv'
BY DEF RInv, OutstandingExact

\* One round of the loop in Write.
LEMMA WriteLoopKeeps ==
  ASSUME WInv, Types, NEW d \in Nat, NEW copied, NEW waiting, WriteLoop(d, copied, waiting),
         finSent => d = 0, waiting \notin {"idle", "closing", "copied"}, UNCHANGED <<finSent, finishedWriting, finalError>>
  PROVE  WInv' /\ data' \in Nat /\ nextFrame' \in Nat
BY DEF WriteLoop, ReturnFinalError, DropData, WInv, Types

\* The steps of the application that start no cancellation.
LEMMA QuietCore ==
  ASSUME Core,
         \/ \E n \in 1..MaxData : Write(n)
         \/ WriteFails \/ NotifySender \/ Wake
         \/ \E d \in {"none", "future"} : SetWriteDeadline(d)
         \/ DeadlinePasses \/ Close \/ CloseNotifies \/ CancelSignals \/ CancelWriteAgain \/ PopNothing
         \/ \E limit \in 1..MaxData : ReceiveMaxStreamData(limit)
         \/ CloseForShutdown
  PROVE  Core'
<1> USE DEF appVars, windowVars, resetVars, cancelVars, deadlineVars, netVars
<1>1. UNCHANGED <<inFlight, retransmissionQueue, ackedBytes, finAcked, writeOffset, finSent, cancelled, numOutstandingFrames,
                  resetInFlight, queuedReset, resetAcked, resetSize>>
  BY ZenonT(30) DEF Write, WriteFails, NotifySender, Wake, SetWriteDeadline, DeadlinePasses, Close, CloseNotifies, CancelSignals,
         CancelWriteAgain, PopNothing, ReceiveMaxStreamData, CloseForShutdown
<1>2. finalError # "none" => finalError' = finalError
  BY Zenon DEF Write, WriteFails, NotifySender, Wake, SetWriteDeadline, DeadlinePasses, Close, CloseNotifies, CancelSignals,
         CancelWriteAgain, PopNothing, ReceiveMaxStreamData, CloseForShutdown
<1>3. WInv' /\ data' \in Nat /\ nextFrame' \in Nat /\ finishedWriting' \in BOOLEAN
  <2>1. ASSUME NEW n \in 1..MaxData, Write(n) PROVE WInv' /\ data' \in Nat /\ nextFrame' \in Nat /\ finishedWriting' \in BOOLEAN
    <3>1. finishedWriting = FALSE /\ ~finSent /\ n \in Nat
      BY <2>1 DEF Write, Core, WInv, Types
    <3>2. WriteLoop(n, "copied", "notify") /\ UNCHANGED <<finSent, finishedWriting, finalError>>
      BY <2>1 DEF Write
    <3> QED
      BY Zenon, <3>1, <3>2, WriteLoopKeeps DEF Core
  <2>2. CASE Wake
    <3>1. data \in Nat /\ (finSent => data = 0) /\ finishedWriting \in BOOLEAN
      BY DEF Core, WInv, Types
    <3>2. WriteLoop(data, "idle", "wait") /\ UNCHANGED <<finSent, finishedWriting, finalError>>
      BY <2>2 DEF Wake
    <3> QED
      BY <3>1, <3>2, WriteLoopKeeps DEF Core
  <2>3. CASE WriteFails \/ NotifySender \/ Close \/ CloseNotifies
    <3>1. UNCHANGED <<data, nextFrame, finSent, finalError>> /\ finishedWriting' \in BOOLEAN /\ (finishedWriting => finishedWriting')
      BY Zenon, <2>3 DEF WriteFails, NotifySender, Close, CloseNotifies, ReturnFinalError, Core, Types
    <3>2. writer' \in {"idle", "closing", "copied"} => writer \in {"idle", "closing", "copied"}
      BY <2>3 DEF WriteFails, NotifySender, Close, CloseNotifies, ReturnFinalError
    <3> QED
      BY <3>1, <3>2 DEF Core, WInv, Types
  <2>4. CASE \/ \E d \in {"none", "future"} : SetWriteDeadline(d)
             \/ DeadlinePasses \/ CancelSignals \/ CancelWriteAgain \/ PopNothing
             \/ \E limit \in 1..MaxData : ReceiveMaxStreamData(limit)
             \/ CloseForShutdown
    <3>1. UNCHANGED <<data, nextFrame, writer, finSent, finishedWriting>>
      BY Zenon, <2>4 DEF SetWriteDeadline, DeadlinePasses, CancelSignals, CancelWriteAgain, PopNothing, ReceiveMaxStreamData, CloseForShutdown
    <3> QED
      BY <1>2, <3>1 DEF Core, WInv, Types
  <2> QED
    BY <2>1, <2>2, <2>3, <2>4
<1>4. Types'
  BY <1>1, <1>3 DEF Core, Types
<1> QED
  BY <1>1, <1>2, <1>3, <1>4, DInvKept, RInvKept DEF Core

\* Cancelling drops what is queued and queues RESET_STREAM instead.
LEMMA CancelCore ==
  ASSUME Core, CancelWrite \/ ReceiveStopSending
  PROVE  Core'
<1> USE DEF appVars, windowVars, resetVars, cancelVars, deadlineVars, netVars
<1>1. /\ ~cancelled /\ cancelled' = TRUE /\ finalError' = "cancel" /\ numOutstandingFrames' = 0 /\ retransmissionQueue' = <<>>
      /\ queuedReset' = TRUE /\ resetSize' = writeOffset
      /\ UNCHANGED <<data, nextFrame, writeOffset, finishedWriting, finSent, writer, inFlight, resetInFlight, ackedBytes, finAcked, resetAcked>>
  BY DEF CancelWrite, ReceiveStopSending, DoCancel, ResetFinalSize
<1>2. Types'
  BY <1>1 DEF Core, Types
<1>3. DInv'
  <2>1. AckedUnits' = AckedUnits /\ SentUnits' = SentUnits
    BY <1>1 DEF AckedUnits, SentUnits
  <2>2. Carries(inFlight, <<>>, AckedUnits, SentUnits)
    BY DEF Core, DInv, Carries
  <2> QED
    BY <1>1, <2>1, <2>2 DEF Core, DInv, Fits
<1>4. RInv'
  BY <1>1 DEF Core, RInv, OutstandingExact
<1>5. WInv'
  BY <1>1 DEF Core, WInv
<1> QED
  BY <1>2, <1>3, <1>4, <1>5 DEF Core

LEMMA ResetCore ==
  ASSUME Core, PopReset \/ AckReset \/ LoseReset
  PROVE  Core'
<1> USE DEF appVars, windowVars, resetVars, cancelVars, deadlineVars, netVars
<1>1. UNCHANGED <<inFlight, retransmissionQueue, ackedBytes, finAcked, writeOffset, finSent, cancelled, data, nextFrame,
                  finishedWriting, writer, finalError, resetSize>>
  BY DEF PopReset, AckReset, LoseReset
<1>2. queuedReset' \in BOOLEAN /\ resetInFlight' \in BOOLEAN /\ resetAcked' \in BOOLEAN
  BY Zenon DEF Core, Types, PopReset, AckReset, LoseReset
<1>3. Types'
  BY <1>1, <1>2 DEF Core, Types
<1>4. RInv'
  <2>1. Cardinality(inFlight) \in Nat
    BY FS_CardinalityType DEF Core, Types
  <2> QED
    BY SMTT(30), <1>1, <2>1 DEF Core, RInv, OutstandingExact, PopReset, AckReset, LoseReset
<1>5. WInv'
  BY <1>1 DEF Core, WInv
<1> QED
  BY <1>1, <1>3, <1>4, <1>5, DInvKept DEF Core

\* A STREAM frame is sent: it counts as outstanding.
LEMMA SentCounts ==
  ASSUME Core, ~cancelled, NEW f, f \notin inFlight, Sent(f),
         UNCHANGED <<cancelled, resetInFlight, queuedReset, resetAcked>>
  PROVE  RInv' /\ IsFiniteSet(inFlight')
<1>1. IsFiniteSet(inFlight') /\ Cardinality(inFlight') = Cardinality(inFlight) + 1
  BY FS_AddElement DEF Core, Types, Sent
<1>2. Cardinality(inFlight) \in Nat
  BY FS_CardinalityType DEF Core, Types
<1> QED
  BY <1>1, <1>2 DEF Core, RInv, OutstandingExact, Sent

\* A STREAM frame is acknowledged or lost: it does not count any more.
LEMMA GoneCounts ==
  ASSUME Core, NEW f \in inFlight, inFlight' = inFlight \ {f},
         numOutstandingFrames' = (IF cancelled THEN numOutstandingFrames ELSE numOutstandingFrames - 1),
         cancelled => UNCHANGED retransmissionQueue,
         UNCHANGED <<cancelled, resetInFlight, queuedReset, resetAcked, finalError, resetSize, writeOffset>>
  PROVE  RInv' /\ IsFiniteSet(inFlight')
<1>1. IsFiniteSet(inFlight') /\ Cardinality(inFlight') = Cardinality(inFlight) - 1
  BY FS_RemoveElement DEF Core, Types
<1>2. Cardinality(inFlight) \in Nat
  BY FS_CardinalityType DEF Core, Types
<1>3. OutstandingExact'
  BY <1>1, <1>2 DEF Core, RInv, OutstandingExact
<1> QED
  BY <1>1, <1>3 DEF Core, RInv

\* While the run loop pops STREAM frames, the stream is not cancelled.
LEMMA RunLoopNotCancelled ==
  ASSUME Core, RunLoop
  PROVE  ~cancelled /\ Parted(inFlight, retransmissionQueue, AckedUnits, SentUnits)
                    /\ Carries(inFlight, retransmissionQueue, AckedUnits, SentUnits)
BY DEF Core, RunLoop, RInv, DInv

\* MaybeSplitOffFrame cuts a frame into two that carry the same.
LEMMA SplitUnits ==
  ASSUME NEW f \in FrameType, NEW n \in Nat, n > 0, f.len > n, writeOffset \in Nat
  PROVE  /\ SplitOff(f, n) \in FrameType /\ RestOf(f, n) \in FrameType
         /\ Units(SplitOff(f, n)) # {} /\ Units(RestOf(f, n)) # {}
         /\ Units(SplitOff(f, n)) \cap Units(RestOf(f, n)) = {}
         /\ Units(SplitOff(f, n)) \cup Units(RestOf(f, n)) = Units(f)
         /\ Fits(f) => Fits(SplitOff(f, n)) /\ Fits(RestOf(f, n))
<1> DEFINE g == SplitOff(f, n)
           h == RestOf(f, n)
<1>1. /\ g \in FrameType /\ g.off = f.off /\ g.len = n /\ g.fin = FALSE
      /\ h \in FrameType /\ h.off = f.off + n /\ h.len = f.len - n /\ h.fin = f.fin
  <2>1. f.off \in Nat /\ f.len \in Nat /\ f.fin \in BOOLEAN /\ f.off + n \in Nat /\ f.len - n \in Nat
    BY DEF FrameType
  <2>2. g \in FrameType /\ g.off = f.off /\ g.len = n /\ g.fin = FALSE
    BY Zenon, <2>1 DEF FrameType, SplitOff
  <2>3. h \in FrameType /\ h.off = f.off + n /\ h.len = f.len - n /\ h.fin = f.fin
    BY Zenon, <2>1 DEF FrameType, RestOf
  <2> QED
    BY <2>2, <2>3
<1>2. f.off \in Nat /\ f.len \in Nat /\ f.fin \in BOOLEAN
  BY DEF FrameType
<1> HIDE DEF g, h
<1>3. Fits(f) => Fits(g) /\ Fits(h)
  <2> SUFFICES ASSUME Fits(f) PROVE Fits(g) /\ Fits(h)
    OBVIOUS
  <2>1. g.off + g.len < f.off + f.len /\ h.off + h.len = f.off + f.len
    BY <1>1, <1>2
  <2> QED
    BY <1>1, <1>2, <2>1 DEF Fits
<1>4. Units(g) = f.off .. (f.off + n - 1)
  BY <1>1 DEF Units, Bytes
<1>5. Units(h) = ((f.off + n) .. (f.off + f.len - 1)) \cup (IF f.fin THEN {-1} ELSE {})
  BY <1>1, <1>2 DEF Units, Bytes
<1>6. Units(f) = (f.off .. (f.off + f.len - 1)) \cup (IF f.fin THEN {-1} ELSE {})
  BY DEF Units, Bytes
<1>7. f.off \in Units(g) /\ f.off + n \in Units(h)
  BY <1>2, <1>4, <1>5
<1>8. Units(g) \cap Units(h) = {}
  BY <1>2, <1>4, <1>5
<1>9. (f.off .. (f.off + n - 1)) \cup ((f.off + n) .. (f.off + f.len - 1)) = f.off .. (f.off + f.len - 1)
  BY <1>2
<1>10. Units(g) \cup Units(h) = Units(f)
  BY <1>4, <1>5, <1>6, <1>9
<1> QED
  BY <1>1, <1>3, <1>7, <1>8, <1>10 DEF g, h

LEMMA PopRetransmissionCore ==
  ASSUME Core, NEW n \in 1..MaxFrame, PopRetransmission(n)
  PROVE  Core'
<1> USE DEF appVars, windowVars, resetVars, cancelVars, deadlineVars, netVars
<1> DEFINE q == retransmissionQueue
           f == Head(q)
<1>1. RunLoop /\ q # <<>>
  BY DEF PopRetransmission
<1>2. UNCHANGED <<ackedBytes, finAcked, writeOffset, finSent, cancelled, resetInFlight, queuedReset, resetAcked,
                  data, nextFrame, writer, finalError, finishedWriting>>
  BY DEF PopRetransmission
<1>3. AckedUnits' = AckedUnits /\ SentUnits' = SentUnits
  BY <1>2 DEF AckedUnits, SentUnits
<1>4. q \in Seq(FrameType) /\ f \in FrameType /\ Tail(q) \in Seq(FrameType) /\ inFlight \subseteq FrameType
      /\ n \in Nat /\ n > 0 /\ f.len \in Nat /\ writeOffset \in Nat
  <2>1. q \in Seq(FrameType) /\ inFlight \subseteq FrameType
    BY DEF Core, Types
  <2>2. f \in FrameType /\ Tail(q) \in Seq(FrameType)
    BY <1>1, <2>1
  <2>3. f.len \in Nat /\ writeOffset \in Nat
    BY <2>2 DEF FrameType, Core, Types
  <2> QED
    BY <2>1, <2>2, <2>3
<1>5. 1 \in DOMAIN q /\ f = q[1] /\ \A i \in DOMAIN Tail(q) : i + 1 \in DOMAIN q /\ Tail(q)[i] = q[i + 1]
  BY <1>1, <1>4
<1>6. Fits(f) /\ \A i \in DOMAIN Tail(q) : Fits(Tail(q)[i])
  BY <1>5 DEF Core, DInv
<1>7. \E g \in FrameType :
         /\ g \notin inFlight /\ Sent(g) /\ Fits(g)
         /\ q' \in Seq(FrameType) /\ \A i \in DOMAIN q' : Fits(q'[i])
         /\ Parted(inFlight \cup {g}, q', AckedUnits, SentUnits) /\ Carries(inFlight \cup {g}, q', AckedUnits, SentUnits)
  <2>1. CASE f.len > n
    <3> DEFINE g == SplitOff(f, n)
               h == RestOf(f, n)
               r == <<h>> \o Tail(q)
    <3>1. g \in FrameType /\ h \in FrameType /\ Units(g) # {} /\ Units(h) # {} /\ Units(g) \cap Units(h) = {}
          /\ Units(g) \cup Units(h) = Units(f) /\ Fits(g) /\ Fits(h)
      BY <1>4, <1>6, <2>1, SplitUnits
    <3>2. Sent(g) /\ q' = r
      BY <2>1 DEF PopRetransmission
    <3> HIDE DEF g, h
    <3>3. g \notin inFlight /\ Parted(inFlight \cup {g}, r, AckedUnits, SentUnits) /\ Carries(inFlight \cup {g}, r, AckedUnits, SentUnits)
      BY Zenon, <1>1, <1>4, <3>1, RunLoopNotCancelled, PartedSplit
    <3>4. r \in Seq(FrameType) /\ r[1] = h /\ \A i \in DOMAIN r : i # 1 => i - 1 \in DOMAIN Tail(q) /\ r[i] = Tail(q)[i - 1]
      BY <1>4, <3>1
    <3>5. \A i \in DOMAIN r : Fits(r[i])
      BY <1>6, <3>1, <3>4
    <3> QED
      BY Zenon, <3>1, <3>2, <3>3, <3>4, <3>5
  <2>2. CASE ~(f.len > n)
    <3>1. Sent(f) /\ q' = Tail(q)
      BY <2>2 DEF PopRetransmission
    <3>2. f \notin inFlight /\ Parted(inFlight \cup {f}, Tail(q), AckedUnits, SentUnits) /\ Carries(inFlight \cup {f}, Tail(q), AckedUnits, SentUnits)
      BY Zenon, <1>1, <1>4, RunLoopNotCancelled, PartedSentAgain
    <3> QED
      BY Zenon, <1>4, <1>6, <3>1, <3>2
  <2> QED
    BY Zenon, <2>1, <2>2
<1>8. PICK g \in FrameType :
         /\ g \notin inFlight /\ Sent(g) /\ Fits(g)
         /\ q' \in Seq(FrameType) /\ \A i \in DOMAIN q' : Fits(q'[i])
         /\ Parted(inFlight \cup {g}, q', AckedUnits, SentUnits) /\ Carries(inFlight \cup {g}, q', AckedUnits, SentUnits)
  BY ZenonT(30), <1>7
<1>9. RInv' /\ IsFiniteSet(inFlight')
  BY <1>1, <1>2, <1>8, RunLoopNotCancelled, SentCounts
<1>10. inFlight' = inFlight \cup {g}
  BY <1>8 DEF Sent
<1>11. Types'
  BY <1>2, <1>4, <1>8, <1>9, <1>10 DEF Core, Types
<1>12. DInv'
  <2>1. \A e \in inFlight' : Fits(e)'
    BY <1>2, <1>8, <1>10 DEF Core, DInv, Fits
  <2>2. \A i \in DOMAIN q' : Fits(q[i])'
    BY <1>2, <1>8 DEF Fits
  <2> QED
    BY <1>3, <1>8, <1>10, <2>1, <2>2 DEF DInv
<1>13. WInv'
  BY <1>2 DEF Core, WInv
<1> QED
  BY <1>9, <1>11, <1>12, <1>13 DEF Core

\* Before the FIN is sent, no frame carries it.
LEMMA NoFinYet ==
  ASSUME Core, ~finSent
  PROVE  \A f \in inFlight : ~f.fin
<1>1. -1 \notin SentUnits
  BY DEF SentUnits, Core, Types
<1> QED
  BY <1>1 DEF Core, DInv, Carries, Units

\* A frame with what comes next, n bytes or the FIN or both, is sent.
LEMMA NewFrameCore ==
  ASSUME Core, ~cancelled, ~finSent, NEW n \in Nat, NEW fin \in BOOLEAN, n > 0 \/ fin,
         retransmissionQueue = <<>>, writeOffset' = writeOffset + n, finSent' = fin,
         Sent([off |-> writeOffset, len |-> n, fin |-> fin]),
         UNCHANGED <<retransmissionQueue, ackedBytes, finAcked, cancelled, resetInFlight, queuedReset, resetAcked>>
  PROVE  /\ DInv' /\ RInv' /\ IsFiniteSet(inFlight') /\ inFlight' \subseteq FrameType
         /\ writeOffset' \in Nat
<1>0. PICK f : f = [off |-> writeOffset, len |-> n, fin |-> fin]
  OBVIOUS
<1>1. writeOffset \in Nat /\ inFlight \subseteq FrameType
  BY DEF Core, Types
<1>2. f \in FrameType /\ f.off = writeOffset /\ f.len = n /\ f.fin = fin
  BY <1>0, <1>1 DEF FrameType
<1>3. Sent(f)
  BY <1>0
<1>4. Units(f) = (writeOffset .. (writeOffset + n - 1)) \cup (IF fin THEN {-1} ELSE {})
  BY <1>2 DEF Units, Bytes
<1>5. SentUnits = 0..(writeOffset - 1)
  BY DEF SentUnits
<1>6. Units(f) # {}
  <2>1. CASE n > 0
    <3>1. writeOffset \in Units(f)
      BY <1>1, <1>4, <2>1
    <3> QED
      BY <3>1
  <2>2. CASE fin
    BY <1>4, <2>2
  <2> QED
    BY <2>1, <2>2
<1>7. Units(f) \cap SentUnits = {}
  BY <1>1, <1>4, <1>5
<1>8. SentUnits' = SentUnits \cup Units(f)
  <2>1. SentUnits' = (0..(writeOffset + n - 1)) \cup (IF fin THEN {-1} ELSE {})
    <3>1. SentUnits' = (0..(writeOffset' - 1)) \cup (IF finSent' THEN {-1} ELSE {})
      BY DEF SentUnits
    <3>2. writeOffset' - 1 = writeOffset + n - 1
      BY <1>1
    <3> QED
      BY <3>1, <3>2
  <2>2. 0..(writeOffset + n - 1) = (0..(writeOffset - 1)) \cup (writeOffset .. (writeOffset + n - 1))
    BY <1>1
  <2> QED
    BY <1>4, <1>5, <2>1, <2>2
<1>9. AckedUnits' = AckedUnits
  BY DEF AckedUnits
<1>10. /\ f \notin inFlight
       /\ Parted(inFlight \cup {f}, retransmissionQueue, AckedUnits, SentUnits')
       /\ Carries(inFlight \cup {f}, retransmissionQueue, AckedUnits, SentUnits')
  <2>1. Parted(inFlight, retransmissionQueue, AckedUnits, SentUnits) /\ Carries(inFlight, retransmissionQueue, AckedUnits, SentUnits)
    BY DEF Core, DInv
  <2> QED
    BY Zenon, <1>6, <1>7, <1>8, <2>1, PartedNew
<1>11. inFlight' = inFlight \cup {f}
  BY <1>3 DEF Sent
<1>12. \A e \in inFlight' : Fits(e)'
  <2>1. Fits(f)'
    BY <1>1, <1>2 DEF Fits
  <2>2. ASSUME NEW e \in inFlight PROVE Fits(e)'
    <3>1. ~e.fin /\ e.off + e.len <= writeOffset /\ e.off \in Nat /\ e.len \in Nat
      BY <1>1, NoFinYet DEF Core, DInv, Fits, FrameType
    <3>2. e.off + e.len <= writeOffset'
      BY <1>1, <3>1
    <3> QED
      BY <3>1, <3>2 DEF Fits
  <2> QED
    BY <1>11, <2>1, <2>2
<1>13. DInv'
  <2>1. \A i \in DOMAIN retransmissionQueue' : Fits(retransmissionQueue[i])'
    OBVIOUS
  <2> QED
    BY <1>9, <1>10, <1>11, <1>12, <2>1 DEF DInv
<1>14. RInv' /\ IsFiniteSet(inFlight')
  BY <1>3, <1>10, SentCounts
<1> QED
  BY <1>1, <1>2, <1>11, <1>13, <1>14

LEMMA PopNewCore ==
  ASSUME Core, (\E n \in 1..MaxFrame : PopData(n)) \/ PopFin
  PROVE  Core'
<1> USE DEF appVars, windowVars, resetVars, cancelVars, deadlineVars, netVars
<1>1. RunLoop /\ retransmissionQueue = <<>>
      /\ UNCHANGED <<retransmissionQueue, ackedBytes, finAcked, cancelled, resetInFlight, queuedReset, resetAcked,
                     writer, finalError, finishedWriting>>
  BY Zenon DEF PopData, PopFin, NothingToSend
<1>2. data \in Nat /\ nextFrame \in Nat /\ writeOffset \in Nat /\ finishedWriting \in BOOLEAN
  BY DEF Core, Types
<1>3. \E n \in Nat, fin \in BOOLEAN :
         /\ n > 0 \/ fin
         /\ ~finSent /\ writeOffset' = writeOffset + n /\ finSent' = fin
         /\ Sent([off |-> writeOffset, len |-> n, fin |-> fin])
         /\ data' \in Nat /\ nextFrame' \in Nat /\ data' <= data
         /\ fin => finishedWriting /\ data' = 0 /\ nextFrame' = 0
  <2>1. ASSUME NEW n \in 1..MaxFrame, PopData(n) PROVE <1>3!:
    <3>1. n \in Nat /\ n > 0
      OBVIOUS
    <3>2. (n <= nextFrame \/ n <= data) /\ data' \in Nat /\ nextFrame' \in Nat /\ data' <= data
      BY SMTT(30), <1>2, <2>1, <3>1 DEF PopData
    <3>3. ~finSent
      BY <1>2, <3>1, <3>2 DEF Core, WInv
    <3>4. /\ writeOffset' = writeOffset + n /\ finSent' = (finishedWriting /\ data' = 0 /\ nextFrame' = 0)
          /\ Sent([off |-> writeOffset, len |-> n, fin |-> finSent'])
      BY <2>1 DEF PopData
    <3>5. finSent' \in BOOLEAN /\ (finSent' => finishedWriting /\ data' = 0 /\ nextFrame' = 0)
      BY Zenon, <3>4
    <3> QED
      BY ZenonT(30), <3>1, <3>2, <3>3, <3>4, <3>5
  <2>2. ASSUME PopFin PROVE <1>3!:
    <3>1. ~finSent /\ writeOffset' = writeOffset + 0 /\ finSent' = TRUE /\ finishedWriting /\ data' = 0 /\ nextFrame' = 0 /\ data' = data
      BY <1>2, <2>2 DEF PopFin, NothingToSend
    <3>2. Sent([off |-> writeOffset, len |-> 0, fin |-> TRUE])
      BY <2>2 DEF PopFin
    <3>3. 0 \in Nat /\ TRUE \in BOOLEAN /\ data' \in Nat /\ nextFrame' \in Nat /\ data' <= data
      BY <3>1
    <3> QED
      BY Zenon, <3>1, <3>2, <3>3
  <2> QED
    BY Zenon, <2>1, <2>2
<1>4. PICK n \in Nat, fin \in BOOLEAN : <1>3!(n, fin)
  BY <1>3
<1>5. ~cancelled
  BY <1>1, RunLoopNotCancelled
<1>6. DInv' /\ RInv' /\ IsFiniteSet(inFlight') /\ inFlight' \subseteq FrameType /\ writeOffset' \in Nat
  BY <1>1, <1>4, <1>5, NewFrameCore
<1>7. Types'
  BY <1>1, <1>4, <1>6 DEF Core, Types
<1>8. WInv'
  BY <1>1, <1>2, <1>4 DEF Core, WInv
<1> QED
  BY <1>6, <1>7, <1>8 DEF Core

LEMMA AckFrameCore ==
  ASSUME Core, NEW f \in inFlight, AckFrame(f)
  PROVE  Core'
<1> USE DEF appVars, windowVars, resetVars, cancelVars, deadlineVars, netVars
<1>1. /\ inFlight' = inFlight \ {f} /\ ackedBytes' = ackedBytes \cup Bytes(f) /\ finAcked' = (finAcked \/ f.fin)
      /\ numOutstandingFrames' = (IF cancelled THEN numOutstandingFrames ELSE numOutstandingFrames - 1)
      /\ UNCHANGED <<retransmissionQueue, writeOffset, finSent, cancelled, resetInFlight, queuedReset, resetAcked, resetSize,
                     data, nextFrame, writer, finalError, finishedWriting>>
  BY DEF AckFrame, Counts
<1>2. f \in FrameType /\ f.off \in Nat /\ f.len \in Nat /\ f.fin \in BOOLEAN
  BY DEF Core, Types, FrameType
<1>3. AckedUnits' = AckedUnits \cup Units(f)
  <2>1. (IF finAcked' THEN {-1} ELSE {}) = (IF finAcked THEN {-1} ELSE {}) \cup (IF f.fin THEN {-1} ELSE {})
    BY Zenon, <1>1, <1>2
  <2> QED
    BY <1>1, <2>1 DEF AckedUnits, Units
<1>4. SentUnits' = SentUnits
  BY <1>1 DEF SentUnits
<1>5. RInv' /\ IsFiniteSet(inFlight')
  BY <1>1, GoneCounts
<1>6. Types'
  <2>1. Bytes(f) \subseteq Nat /\ finAcked' \in BOOLEAN
    BY <1>1, <1>2 DEF Bytes
  <2> QED
    BY Zenon, <1>1, <1>5, <2>1 DEF Core, Types
<1>7. DInv'
  <2>1. Carries(inFlight \ {f}, retransmissionQueue, AckedUnits \cup Units(f), SentUnits)
    BY DEF Core, DInv, Carries
  <2>2. ~cancelled => Parted(inFlight \ {f}, retransmissionQueue, AckedUnits \cup Units(f), SentUnits)
    BY PartedAcked DEF Core, DInv
  <2>3. (\A e \in inFlight' : Fits(e)') /\ \A i \in DOMAIN retransmissionQueue' : Fits(retransmissionQueue[i])'
    BY Zenon, <1>1 DEF Core, DInv, Fits
  <2> QED
    BY <1>1, <1>3, <1>4, <2>1, <2>2, <2>3 DEF DInv
<1>8. WInv'
  BY <1>1 DEF Core, WInv
<1> QED
  BY <1>5, <1>6, <1>7, <1>8 DEF Core

LEMMA LoseFrameCore ==
  ASSUME Core, NEW f \in inFlight, LoseFrame(f)
  PROVE  Core'
<1> USE DEF appVars, windowVars, resetVars, cancelVars, deadlineVars, netVars
<1>1. /\ inFlight' = inFlight \ {f}
      /\ numOutstandingFrames' = (IF cancelled THEN numOutstandingFrames ELSE numOutstandingFrames - 1)
      /\ retransmissionQueue' = (IF cancelled THEN retransmissionQueue ELSE Append(retransmissionQueue, f))
      /\ UNCHANGED <<ackedBytes, finAcked, writeOffset, finSent, cancelled, resetInFlight, queuedReset, resetAcked, resetSize,
                     data, nextFrame, writer, finalError, finishedWriting>>
  BY DEF LoseFrame, Counts
<1>2. f \in FrameType /\ retransmissionQueue \in Seq(FrameType)
  BY DEF Core, Types
<1>3. AckedUnits' = AckedUnits /\ SentUnits' = SentUnits
  BY <1>1 DEF AckedUnits, SentUnits
<1>4. RInv' /\ IsFiniteSet(inFlight')
  BY <1>1, GoneCounts
<1>5. Types'
  <2>1. retransmissionQueue' \in Seq(FrameType)
    BY <1>1, <1>2
  <2> QED
    BY <1>1, <1>4, <2>1 DEF Core, Types
<1>6. DInv'
  <2>1. \A e \in inFlight' : Fits(e)'
    BY <1>1 DEF Core, DInv, Fits
  <2>2. CASE cancelled
    <3>1. Carries(inFlight \ {f}, retransmissionQueue, AckedUnits, SentUnits)
      BY DEF Core, DInv, Carries
    <3>2. \A i \in DOMAIN retransmissionQueue' : Fits(retransmissionQueue[i])'
      BY Zenon, <1>1, <2>2 DEF Core, DInv, Fits
    <3> QED
      BY <1>1, <1>3, <2>1, <2>2, <3>1, <3>2 DEF DInv
  <2>3. CASE ~cancelled
    <3> DEFINE r == Append(retransmissionQueue, f)
    <3>1. Parted(inFlight \ {f}, r, AckedUnits, SentUnits) /\ Carries(inFlight \ {f}, r, AckedUnits, SentUnits)
      BY <1>2, <2>3, PartedLost DEF Core, DInv
    <3>2. \A i \in DOMAIN r : r[i] = f \/ (i \in DOMAIN retransmissionQueue /\ r[i] = retransmissionQueue[i])
      BY <1>2
    <3>3. retransmissionQueue' = r
      BY <1>1, <2>3
    <3> HIDE DEF r
    <3>4. \A i \in DOMAIN r : Fits(r[i])
      BY <3>2 DEF Core, DInv
    <3>5. \A i \in DOMAIN retransmissionQueue' : Fits(retransmissionQueue[i])'
      BY <1>1, <3>3, <3>4 DEF Fits
    <3> QED
      BY Zenon, <1>1, <1>3, <2>1, <3>1, <3>3, <3>5 DEF DInv
  <2> QED
    BY Zenon, <2>2, <2>3
<1>7. WInv'
  BY <1>1 DEF Core, WInv
<1> QED
  BY <1>4, <1>5, <1>6, <1>7 DEF Core

LEMMA CoreStep == Core /\ [SendNext]_sendVars => Core'
<1> SUFFICES ASSUME Core, [SendNext]_sendVars PROVE Core'
  OBVIOUS
<1>1. CASE UNCHANGED sendVars
  <2>1. UNCHANGED <<inFlight, retransmissionQueue, ackedBytes, finAcked, writeOffset, finSent, cancelled, numOutstandingFrames,
                    resetInFlight, queuedReset, resetAcked, resetSize, finalError, data, nextFrame, writer, finishedWriting>>
    BY <1>1 DEF sendVars, appVars, windowVars, resetVars, cancelVars, deadlineVars, netVars
  <2>2. Types' /\ WInv'
    BY <2>1 DEF Core, Types, WInv
  <2> QED
    BY <2>1, <2>2, DInvKept, RInvKept DEF Core
<1>2. CASE SendNext
  BY <1>2, QuietCore, CancelCore, ResetCore, PopRetransmissionCore, PopNewCore, AckFrameCore, LoseFrameCore
     DEF SendNext, AppStep, RunLoopStep
<1> QED
  BY <1>1, <1>2

--------------------------------------------------------------------------------
(* Completion.                                                                       *)

Delivered == resetAcked \/ (finAcked /\ ackedBytes = 0..(writeOffset - 1) /\ NothingToSend)

\* While the FIN is acknowledged, it has been sent; acknowledged bytes were sent.
LEMMA AckedWasSent ==
  ASSUME Core
  PROVE  ackedBytes \subseteq 0..(writeOffset - 1) /\ (finAcked => finSent)
<1>1. AckedUnits \subseteq SentUnits /\ ackedBytes \subseteq Nat /\ writeOffset \in Nat
  BY DEF Core, DInv, Carries, Types
<1>2. \A b \in ackedBytes : b \in SentUnits /\ b # -1
  BY <1>1 DEF AckedUnits
<1>3. ackedBytes \subseteq 0..(writeOffset - 1)
  BY <1>2 DEF SentUnits
<1>4. finAcked => -1 \in SentUnits
  BY <1>1 DEF AckedUnits
<1>5. -1 \notin 0..(writeOffset - 1)
  BY <1>1
<1> QED
  BY <1>3, <1>4, <1>5 DEF SentUnits

\* isNewlyCompleted says so only when the peer has everything.
LEMMA DoneIsDelivered ==
  ASSUME Core, numOutstandingFrames = 0, retransmissionQueue = <<>>, ~queuedReset, finSent \/ cancelled
  PROVE  Delivered
<1>1. CASE cancelled
  BY <1>1 DEF Core, RInv, OutstandingExact, Delivered
<1>2. CASE ~cancelled
  <2>1. inFlight = {}
    <3>1. Cardinality(inFlight) = 0
      <4>1. Cardinality(inFlight) \in Nat
        BY FS_CardinalityType DEF Core, Types
      <4> QED
        BY <1>2, <4>1 DEF Core, RInv, OutstandingExact
    <3> QED
      BY <3>1, FS_EmptySet DEF Core, Types
  <2>2. SentUnits \subseteq AckedUnits
    BY <1>2, <2>1 DEF Core, DInv, Parted
  <2>3. finSent /\ data = 0 /\ nextFrame = 0
    BY <1>2 DEF Core, WInv
  <2>4. finAcked
    <3>1. -1 \in AckedUnits /\ -1 \notin ackedBytes
      BY <2>2, <2>3 DEF SentUnits, Core, Types
    <3> QED
      BY <3>1 DEF AckedUnits
  <2>5. 0..(writeOffset - 1) \subseteq ackedBytes
    <3>1. \A b \in 0..(writeOffset - 1) : b \in AckedUnits /\ b # -1
      BY <2>2 DEF SentUnits
    <3> QED
      BY <3>1 DEF AckedUnits
  <2>6. ackedBytes = 0..(writeOffset - 1)
    BY Zenon, <2>5, AckedWasSent
  <2> QED
    BY <2>3, <2>4, <2>6 DEF Delivered, NothingToSend
<1> QED
  BY <1>1, <1>2

\* Once everything is delivered, nothing of it is in flight, unless the stream was cancelled.
LEMMA DeliveredLeavesNothing ==
  ASSUME Core, finAcked, ackedBytes = 0..(writeOffset - 1), ~cancelled
  PROVE  inFlight = {}
<1>1. finSent
  BY AckedWasSent
<1>2. SentUnits = AckedUnits
  BY <1>1 DEF SentUnits, AckedUnits
<1>3. \A f \in inFlight : Units(f) # {} /\ Units(f) \subseteq SentUnits /\ Units(f) \cap AckedUnits = {}
  BY DEF Core, DInv, Parted, Carries
<1> QED
  BY <1>2, <1>3

\* What is delivered stays delivered.
LEMMA DeliveredStays ==
  ASSUME Core, Core', Delivered, [SendNext]_sendVars
  PROVE  Delivered'
<1> USE DEF appVars, windowVars, resetVars, cancelVars, deadlineVars, netVars
<1>1. resetAcked => resetAcked'
  BY Zenon DEF sendVars, SendNext, AppStep, RunLoopStep, Write, WriteFails, NotifySender, Wake, SetWriteDeadline, DeadlinePasses, Close,
         CloseNotifies, CancelSignals, CancelWriteAgain, PopNothing, ReceiveMaxStreamData, CloseForShutdown, CancelWrite,
         ReceiveStopSending, DoCancel, PopReset, AckReset, LoseReset, PopRetransmission, PopData, PopFin, AckFrame, LoseFrame
<1> SUFFICES ASSUME finAcked, ackedBytes = 0..(writeOffset - 1), NothingToSend
             PROVE  finAcked' /\ ackedBytes' = 0..(writeOffset' - 1) /\ NothingToSend'
  BY <1>1 DEF Delivered
<1>2. finSent /\ finishedWriting /\ data = 0 /\ nextFrame = 0 /\ retransmissionQueue = <<>>
  BY AckedWasSent DEF Core, WInv, NothingToSend
<1>3. CASE UNCHANGED <<finAcked, ackedBytes, writeOffset, data, nextFrame>> /\ retransmissionQueue' = <<>>
  BY <1>2, <1>3 DEF NothingToSend
<1>4. CASE \/ WriteFails \/ NotifySender \/ DeadlinePasses \/ Close \/ CloseNotifies \/ CancelSignals \/ CancelWriteAgain \/ PopNothing
           \/ (\E d \in {"none", "future"} : SetWriteDeadline(d))
           \/ (\E limit \in 1..MaxData : ReceiveMaxStreamData(limit))
           \/ CloseForShutdown \/ PopReset \/ AckReset \/ LoseReset
           \/ UNCHANGED sendVars
  <2>1. UNCHANGED <<finAcked, ackedBytes, writeOffset, data, nextFrame, retransmissionQueue>>
    BY Zenon, <1>4 DEF sendVars, WriteFails, NotifySender, SetWriteDeadline, DeadlinePasses, Close, CloseNotifies, CancelSignals,
                CancelWriteAgain, PopNothing, ReceiveMaxStreamData, CloseForShutdown, PopReset, AckReset, LoseReset
  <2> QED
    BY <1>2, <1>3, <2>1
<1>5. CASE CancelWrite \/ ReceiveStopSending
  <2>1. UNCHANGED <<finAcked, ackedBytes, writeOffset, data, nextFrame>> /\ retransmissionQueue' = <<>>
    BY Zenon, <1>5 DEF CancelWrite, ReceiveStopSending, DoCancel
  <2> QED
    BY <1>3, <2>1
<1>6. CASE Wake
  <2>1. WriteLoop(0, "idle", "wait") /\ UNCHANGED <<finAcked, ackedBytes, writeOffset, retransmissionQueue>>
    BY <1>2, <1>6 DEF Wake
  <2>2. data' = 0 /\ nextFrame' = nextFrame
    BY <2>1 DEF WriteLoop, DropData
  <2> QED
    BY <1>2, <1>3, <2>1, <2>2
<1>7. ~PopFin /\ \A n \in 1..MaxData : ~Write(n)
  BY <1>2 DEF PopFin, Write
<1>8. \A n \in 1..MaxFrame : ~PopRetransmission(n) /\ ~PopData(n)
  <2>1. \A n \in 1..MaxFrame : ~PopRetransmission(n)
    BY <1>2 DEF PopRetransmission
  <2>2. ASSUME NEW n \in 1..MaxFrame, PopData(n) PROVE FALSE
    <3>1. (nextFrame > 0 /\ n <= nextFrame) \/ n <= data
      BY <2>2 DEF PopData
    <3> QED
      BY <1>2, <3>1
  <2> QED
    BY <2>1, <2>2
<1>9. ASSUME NEW f \in inFlight, AckFrame(f) PROVE finAcked' /\ ackedBytes' = 0..(writeOffset' - 1) /\ NothingToSend'
  <2>1. ackedBytes \subseteq ackedBytes' /\ finAcked' /\ UNCHANGED <<writeOffset, data, nextFrame, retransmissionQueue>>
    BY Zenon, <1>9 DEF AckFrame
  <2>2. ackedBytes' \subseteq 0..(writeOffset' - 1)
    <3>1. (Core => ackedBytes \subseteq 0..(writeOffset - 1))'
      BY AckedWasSent, PTL
    <3> QED
      BY <3>1
  <2> QED
    BY Zenon, <1>2, <2>1, <2>2 DEF NothingToSend
<1>10. ASSUME NEW f \in inFlight, LoseFrame(f) PROVE finAcked' /\ ackedBytes' = 0..(writeOffset' - 1) /\ NothingToSend'
  <2>1. cancelled
    BY DeliveredLeavesNothing
  <2>2. UNCHANGED <<finAcked, ackedBytes, writeOffset, data, nextFrame, retransmissionQueue>>
    BY <1>10, <2>1 DEF LoseFrame, Counts
  <2> QED
    BY <1>2, <1>3, <2>2
<1> QED
  BY <1>4, <1>5, <1>6, <1>7, <1>8, <1>9, <1>10 DEF SendNext, AppStep, RunLoopStep

LEMMA CompletedStep ==
  ASSUME Core, Core', CompletedIsDelivered, [SendNext]_sendVars
  PROVE  CompletedIsDelivered'
<1> USE DEF appVars, windowVars, resetVars, cancelVars, deadlineVars, netVars
<1>1. completed => Delivered'
  BY DeliveredStays DEF CompletedIsDelivered, Delivered
<1>2. completed' => completed \/ AllDone
  <2>1. completed' = completed \/ CheckCompleted
    BY Zenon DEF sendVars, SendNext, AppStep, RunLoopStep, Write, WriteFails, NotifySender, Wake, WriteLoop, ReturnFinalError, SetWriteDeadline,
           DeadlinePasses, Close, CloseNotifies, CancelSignals, CancelWriteAgain, PopNothing, ReceiveMaxStreamData, CloseForShutdown,
           CancelWrite, ReceiveStopSending, DoCancel, PopReset, AckReset, LoseReset, PopRetransmission, PopData, PopFin, AckFrame, LoseFrame
  <2> QED
    BY Zenon, <2>1 DEF CheckCompleted
<1>3. AllDone => Delivered'
  <2>1. (Core /\ numOutstandingFrames = 0 /\ retransmissionQueue = <<>> /\ ~queuedReset /\ (finSent \/ cancelled) => Delivered)'
    BY DoneIsDelivered, PTL
  <2> QED
    BY <2>1 DEF AllDone
<1> QED
  BY <1>1, <1>2, <1>3 DEF CompletedIsDelivered, Delivered, NothingToSend

--------------------------------------------------------------------------------
(* The theorem.                                                                      *)

\* What is parted is counted once.
LEMMA PartedIsCounted ==
  ASSUME Core
  PROVE  EveryByteAccountedFor
<1> SUFFICES ASSUME ~cancelled
             PROVE  /\ \A b \in 0..(writeOffset - 1) :
                         Cardinality({f \in inFlight : b \in Bytes(f)})
                           + Cardinality({i \in DOMAIN retransmissionQueue : b \in Bytes(retransmissionQueue[i])})
                           + (IF b \in ackedBytes THEN 1 ELSE 0) = 1
                    /\ finSent <=> finAcked \/ \E f \in inFlight \cup Queued : f.fin
  BY DEF EveryByteAccountedFor
<1> DEFINE q == retransmissionQueue
<1>1. Parted(inFlight, q, AckedUnits, SentUnits) /\ Carries(inFlight, q, AckedUnits, SentUnits)
  BY DEF Core, DInv
<1>2. \A f \in inFlight : f.fin \in BOOLEAN
  BY DEF Core, Types, FrameType
<1>3. \A i \in DOMAIN q : q[i] \in FrameType
  BY DEF Core, Types
<1>4. \A i \in DOMAIN q : q[i].fin \in BOOLEAN
  BY <1>3 DEF FrameType
<1>5. ASSUME NEW b \in 0..(writeOffset - 1)
      PROVE  Cardinality({f \in inFlight : b \in Bytes(f)}) + Cardinality({i \in DOMAIN q : b \in Bytes(q[i])})
               + (IF b \in ackedBytes THEN 1 ELSE 0) = 1
  <2> DEFINE F == {f \in inFlight : b \in Bytes(f)}
             Q == {i \in DOMAIN q : b \in Bytes(q[i])}
  <2>1. b # -1 /\ b \in SentUnits
    BY DEF SentUnits
  <2>2. /\ b \in AckedUnits <=> b \in ackedBytes
        /\ \A f \in inFlight : b \in Units(f) <=> b \in Bytes(f)
        /\ \A i \in DOMAIN q : b \in Units(q[i]) <=> b \in Bytes(q[i])
    BY Zenon, <2>1 DEF AckedUnits, Units
  <2>3. /\ \A f, g \in F : f = g
        /\ \A i, j \in Q : i = j
        /\ F = {} \/ Q = {}
        /\ b \in ackedBytes => F = {} /\ Q = {}
        /\ b \in ackedBytes \/ F # {} \/ Q # {}
    BY <1>1, <2>1, <2>2 DEF Parted
  <2> HIDE DEF F, Q
  <2>4. F # {} => Cardinality(F) = 1
    <3>1. ASSUME F # {} PROVE \E f : F = {f}
      BY <2>3, <3>1
    <3> QED
      BY <3>1, FS_Singleton
  <2>5. Q # {} => Cardinality(Q) = 1
    <3>1. ASSUME Q # {} PROVE \E i : Q = {i}
      <4>1. PICK i : i \in Q
        BY <3>1
      <4>2. Q = {i}
        BY <2>3, <4>1
      <4> QED
        BY <4>2
    <3> QED
      BY <3>1, FS_Singleton
  <2>6. Cardinality({}) = 0
    BY FS_EmptySet
  <2>7. Cardinality(F) + Cardinality(Q) + (IF b \in ackedBytes THEN 1 ELSE 0) = 1
    BY <2>3, <2>4, <2>5, <2>6
  <2> QED
    BY <2>7 DEF F, Q
<1>6. finSent <=> finAcked \/ \E f \in inFlight \cup Queued : f.fin
  <2>1. finSent => finAcked \/ \E f \in inFlight \cup Queued : f.fin
    <3> SUFFICES ASSUME finSent PROVE finAcked \/ \E f \in inFlight \cup Queued : f.fin
      OBVIOUS
    <3>1. -1 \in SentUnits /\ -1 \notin ackedBytes
      BY DEF SentUnits, Core, Types
    <3>2. \A f \in FrameType : -1 \notin Bytes(f)
      BY DEF FrameType, Bytes
    <3>3. -1 \in AckedUnits \/ (\E f \in inFlight : -1 \in Units(f)) \/ \E i \in DOMAIN q : -1 \in Units(q[i])
      BY <1>1, <3>1 DEF Parted
    <3>4. inFlight \subseteq FrameType
      BY DEF Core, Types
    <3> QED
      BY <1>3, <3>1, <3>2, <3>3, <3>4 DEF AckedUnits, Units, Queued, Elements
  <2>2. ASSUME NEW f \in inFlight \cup Queued, f.fin PROVE finSent
    <3>1. -1 \in Units(f) /\ Units(f) \subseteq SentUnits
      BY <1>1, <2>2 DEF Carries, Units, Queued, Elements
    <3>2. -1 \notin 0..(writeOffset - 1)
      OBVIOUS
    <3> QED
      BY <3>1, <3>2 DEF SentUnits
  <2> QED
    BY <2>1, <2>2, AckedWasSent
<1> QED
  BY <1>5, <1>6

\* For any amount of data, any frame and buffer sizes, window and number of losses, and
\* whatever the order of Write, Close, CancelWrite, STOP_SENDING, acknowledgements and losses
\* (send_stream.go): every byte and the FIN is acknowledged, in flight or queued, and only
\* one of these, the count of outstanding frames is exact, the stream is forgotten only when
\* the peer has all of it or its RESET_STREAM, all frames agree on its final size, and no
\* frame is filled from the caller's slice after Write has returned.
THEOREM SendStaysExact == SendSpec => []SendExact
<1>1. SendInit => Core /\ CompletedIsDelivered
  BY CoreInit DEF SendInit, CompletedIsDelivered
<1>2. Core /\ CompletedIsDelivered /\ [SendNext]_sendVars => (Core /\ CompletedIsDelivered)'
  BY CoreStep, CompletedStep
<1>3. Core /\ CompletedIsDelivered => SendExact
  <2> SUFFICES ASSUME Core, CompletedIsDelivered PROVE SendExact
    OBVIOUS
  <2>1. OutstandingExact /\ BufferNotUsedAfterWrite
    BY DEF Core, RInv, WInv, BufferNotUsedAfterWrite
  <2>2. FinalSizeConsistent
    BY DEF Core, DInv, RInv, WInv, Fits, Queued, Elements, FinalSizeConsistent
  <2> QED
    BY <2>1, <2>2, PartedIsCounted DEF SendExact
<1> QED
  BY <1>1, <1>2, <1>3, PTL DEF SendSpec
===============================================================================
