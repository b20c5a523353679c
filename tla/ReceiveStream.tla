----------------------------- MODULE ReceiveStream -----------------------------
(* receive_stream.go and frame_sorter.go: one application goroutine reads, another    *)
(* may call CancelRead, the run loop delivers STREAM and RESET_STREAM frames.  The    *)
(* mutex is held while reader = "locked"; one Step copies from one frame.  The flow   *)
(* controller of the stream is in FlowControl: frames here are the ones that it       *)
(* accepts, those of a peer that sends each byte of the stream any number of times,   *)
(* in any split.                                                                      *)
EXTENDS Integers, Sequences, FiniteSets, SequencesExt

CONSTANTS
  Size,          \* the bytes of the whole stream
  MaxFrames,     \* STREAM frames received: a bound
  ReadSizes,     \* the lengths of the buffers passed to Read
  MaxByteCount,  \* stands for infinity
  MaxGaps,       \* MaxStreamFrameSorterGaps
  MinBuffer      \* MinStreamFrameBufferSize

--------------------------------------------------------------------------------
(* The frame sorter reassembles data that arrives in overlapping pieces, for streams  *)
(* and for crypto streams.  A sorter is a record                                      *)
(*   queue    the entries [lo, hi, id]: under the key lo, the bytes lo..hi-1 of the   *)
(*            stream, in the buffer id (NoBuffer: a copy)                             *)
(*   readPos                                                                          *)
(*   gaps     the sequence of the missing intervals, start included, end excluded     *)
(* A push also returns the buffers whose callback it calls.                           *)

NoBuffer == 0

NewFrameSorter ==
  [queue |-> {}, readPos |-> 0, gaps |-> <<[s |-> 0, e |-> MaxByteCount]>>]

At(queue, pos) == {x \in queue : x.lo = pos}
EntryLen(x) == x.hi - x.lo
Buffers(entries) == {x.id : x \in entries} \ {NoBuffer}

\* The index of the gap where data that starts at offset is put, or of the next one.
FindStartGap(gaps, offset) == SelectInSeq(gaps, LAMBDA g : offset <= g.e)

StartsInGap(gaps, i, offset) == offset >= gaps[i].s

\* The index of the gap where data that ends at offset ends, or of the last one before.
FindEndGap(gaps, offset) == SelectLastInSeq(gaps, LAMBDA g : offset >= g.s)

EndsInGap(gaps, j, offset) == offset < gaps[j].e

\* deleteConsecutive: the entries that follow each other from pos on.
RECURSIVE Consecutive(_, _)
Consecutive(queue, pos) ==
  IF At(queue, pos) = {} THEN {}
  ELSE LET x == CHOOSE x \in At(queue, pos) : TRUE
       IN  {x} \cup Consecutive(queue, pos + EntryLen(x))

\* Whether an entry of oldLen bytes gives way to a frame with len bytes left.
Replaces(len, oldLen, replaced) == len > oldLen \/ (replaced /\ len = oldLen)

\* The loop of push over the entries that start where the frame does: what it replaces,
\* and where it stops (stuck: at an entry that it does not replace).
RECURSIVE Replace(_, _, _, _)
Replace(queue, pos, end, old) ==
  IF At(queue, pos) = {} THEN [pos |-> pos, stuck |-> FALSE, old |-> old]
  ELSE LET x == CHOOSE x \in At(queue, pos) : TRUE
       IN  IF Replaces(end - pos, EntryLen(x), old # {})
           THEN Replace(queue \ {x}, pos + EntryLen(x), end, old \cup {x})
           ELSE [pos |-> pos, stuck |-> TRUE, old |-> old]

Duplicate(sorter, id) == [sorter |-> sorter, done |-> {id}, error |-> FALSE]

\* The buffer that an entry holds: none when its data was copied.
EntryBuffer(copied, id) == IF copied THEN NoBuffer ELSE id

\* Mutant: a gap that the data fills exactly is not removed.
ReachesBeyond(gap, end) == end > gap.e

\* Whether data that ends at end fills the gap up to its end.
ReachesEnd(gap, end) == end >= gap.e

\* The rest of push, for a frame that is no duplicate.
Insert(sorter, offset, len, id, i, j, r) ==
  LET gaps       == sorter.gaps
      replaced   == r.old # {}
      cutByOld   == r.stuck
      end1       == IF cutByOld THEN r.pos ELSE offset + len
      cutFront   == ~StartsInGap(gaps, i, offset) /\ ~replaced
      start      == IF cutFront THEN gaps[i].s ELSE offset
      \* the start gap
      covers     == start <= gaps[i].s
      removed    == covers /\ ReachesEnd(gaps[i], end1)
      adjusted   == ~covers /\ ~replaced
      startGap   == IF covers THEN [gaps[i] EXCEPT !.s = end1]
                    ELSE IF adjusted THEN [gaps[i] EXCEPT !.e = start]
                    ELSE gaps[i]
      \* the entries between the gaps
      swallowed  == IF i = j THEN {}
                    ELSE UNION {Consecutive(sorter.queue \ r.old, gaps[k].e) : k \in i..(j - 1)}
      \* the end gap
      cutBack    == ~EndsInGap(gaps, j, offset + len) /\ start # gaps[j].e /\ end1 > gaps[j].e
      end        == IF cutBack THEN gaps[j].e ELSE end1
      newGaps    == SubSeq(gaps, 1, i - 1)
                    \o (IF removed THEN <<>> ELSE <<startGap>>)
                    \o (IF i = j /\ adjusted /\ end # gaps[j].e THEN <<[s |-> end, e |-> gaps[i].e]>> ELSE <<>>)
                    \o (IF i # j /\ end # gaps[j].e THEN <<[gaps[j] EXCEPT !.s = end]>> ELSE <<>>)
                    \o SubSeq(gaps, j + 1, Len(gaps))
      copied     == (cutByOld \/ cutFront \/ cutBack) /\ end - start < MinBuffer
      entry      == [lo |-> start, hi |-> end, id |-> EntryBuffer(copied, id)]
      error      == Len(newGaps) > MaxGaps
      rest       == sorter.queue \ (r.old \cup swallowed)
  IN  [sorter |-> [sorter EXCEPT !.queue = IF error THEN rest
                                           ELSE (rest \ At(rest, start)) \cup {entry},
                                 !.gaps = newGaps],
       done   |-> Buffers(r.old \cup swallowed) \cup (IF copied THEN {id} ELSE {}),
       error  |-> error]

\* Push of the frame with len bytes at offset in buffer id.
Push(sorter, offset, len, id) ==
  LET gaps == sorter.gaps
      end  == offset + len
  IN  IF len = 0 \/ end <= Head(gaps).s THEN Duplicate(sorter, id)
      ELSE LET i == FindStartGap(gaps, offset)
               j == FindEndGap(gaps, end)
               r == Replace(sorter.queue, offset, end, {})
           IN  IF end <= gaps[i].s \/ (r.stuck /\ r.old = {})
               THEN Duplicate(sorter, id)
               ELSE Insert(sorter, offset, len, id, i, j, r)

\* The entry that Pop returns, if there is one.
Poppable(sorter) == At(sorter.queue, sorter.readPos)

Pop(sorter) ==
  IF Poppable(sorter) = {} THEN sorter
  ELSE LET x == CHOOSE x \in Poppable(sorter) : TRUE
       IN  [sorter EXCEPT !.queue = @ \ {x}, !.readPos = @ + EntryLen(x)]

--------------------------------------------------------------------------------
(* The stream.                                                                        *)

VARIABLES
  sorter,         \* frameQueue
  finalOffset,    \* MaxByteCount when it is not known
  current,        \* currentFrame: [lo, hi], the bytes not read yet; NoFrame for nil
  currentIsLast,  \* currentFrameIsLast
  currentDone,    \* the buffer currentFrameDone releases
  flags,          \* the Boolean fields that are set, "shutdown" and the gap-limit error included
  readChan,       \* whether the channel holds its element
  reader,         \* "idle", "locked" or "waiting"
  want,           \* the room left in the buffer of the call
  got,            \* bytesRead of the call
  \* history
  frames,         \* the STREAM frames received so far
  received,       \* the bytes pushed to the sorter
  delivered,      \* the bytes returned to the application
  released,       \* the buffers put back
  releases        \* how many times a buffer was put back

stream == <<sorter, finalOffset, current, currentIsLast, currentDone, flags>>
history == <<frames, received, delivered, released, releases>>
vars == <<stream, readChan, reader, want, got, history>>

NoFrame == [lo |-> 0, hi |-> 0]
IsNil(f) == f = NoFrame
Set(flag) == flag \in flags
Cancelled == Set("cancelledLocally") \/ Set("cancelledRemotely")
Bytes(lo, hi) == lo..(hi - 1)

Init ==
  /\ sorter = NewFrameSorter
  /\ finalOffset = MaxByteCount
  /\ current = NoFrame
  /\ currentIsLast = FALSE
  /\ currentDone = NoBuffer
  /\ flags = {}
  /\ readChan = FALSE
  /\ reader = "idle"
  /\ want = 0
  /\ got = 0
  /\ frames = 0
  /\ received = {}
  /\ delivered = 0
  /\ released = {}
  /\ releases = 0

\* isNewlyCompleted, at the end of every method.
WithCompleted(flgs, final) ==
  IF final # MaxByteCount /\ {"cancelledLocally", "errorRead"} \cap flgs # {}
  THEN flgs \cup {"completed"} ELSE flgs

Release(buffers) ==
  /\ released' = released \cup buffers
  /\ releases' = releases + Cardinality(buffers)

\* dequeueNextFrame: what Pop returns, and the buffer of the frame before.
NextFrame == IF Poppable(sorter) = {} THEN [lo |-> 0, hi |-> 0, id |-> NoBuffer]
         ELSE CHOOSE x \in Poppable(sorter) : TRUE

\* currentFrameIsLast, for a frame that ends at end.
IsLast(end) == end >= finalOffset
--------------------------------------------------------------------------------
\* The application reads.

ReturnWith(flgs) ==
  /\ reader' = "idle"
  /\ flags' = WithCompleted(flgs, finalOffset)
  /\ want' = 0
  /\ got' = 0

\* A call of Read with a buffer of n bytes, up to the loop.
Read(n) ==
  /\ reader = "idle"
  /\ IF currentIsLast /\ IsNil(current) THEN ReturnWith(flags \cup {"errorRead", "eof"})
     ELSE IF Cancelled THEN ReturnWith(flags \cup {"errorRead"})
     ELSE IF Set("shutdown") THEN ReturnWith(flags)
     ELSE /\ reader' = "locked"
          /\ want' = n
          /\ got' = 0
          /\ UNCHANGED flags
  /\ UNCHANGED <<sorter, finalOffset, current, currentIsLast, currentDone, readChan, history>>

\* The rest of an iteration, after the frame f with the callback of buffer id was taken,
\* where last says if it is the last one and freed which buffer was released before.
CopyFrom(f, id, last, freed, fired) ==
  LET m    == IF want < f.hi - f.lo THEN want ELSE f.hi - f.lo
      rest == [lo |-> f.lo + m, hi |-> f.hi]
      keep == /\ current' = f
              /\ currentIsLast' = last
              /\ currentDone' = id
              /\ Release(freed)
              /\ UNCHANGED delivered
  IN  IF IsNil(f) /\ got > 0 THEN keep /\ ReturnWith(flags)
      ELSE IF Set("shutdown") THEN keep /\ ReturnWith(flags)
      ELSE IF Cancelled THEN keep /\ ReturnWith(flags \cup {"errorRead"})
      ELSE IF fired THEN keep /\ ReturnWith(flags)
      ELSE IF IsNil(f) /\ ~last
      THEN /\ keep
           /\ reader' = "waiting"
           /\ UNCHANGED <<flags, want, got>>
      ELSE /\ currentIsLast' = last
           /\ currentDone' = id
           /\ delivered' = delivered + m
           /\ IF rest.lo >= rest.hi /\ last
              THEN /\ current' = NoFrame
                   /\ Release(freed \cup ({id} \ {NoBuffer}))
                   /\ ReturnWith(flags \cup {"errorRead", "eof"})
              ELSE /\ current' = rest
                   /\ Release(freed)
                   /\ IF want = m THEN ReturnWith(flags)
                      ELSE /\ want' = want - m
                           /\ got' = got + m
                           /\ reader' = "locked"
                           /\ UNCHANGED flags

Dequeue(fired) ==
  /\ sorter' = Pop(sorter)
  /\ LET x == NextFrame
         f == IF x.hi = 0 THEN NoFrame ELSE [lo |-> x.lo, hi |-> x.hi]
     IN  CopyFrom(f, x.id, IsLast(sorter'.readPos), {currentDone} \ {NoBuffer}, fired)

\* An iteration of the loop over the frames.
ReadFrame ==
  /\ reader = "locked"
  /\ want > 0
  /\ IF current.lo >= current.hi THEN Dequeue(FALSE)
     ELSE CopyFrom(current, currentDone, currentIsLast, {}, FALSE) /\ UNCHANGED sorter
  /\ UNCHANGED <<finalOffset, readChan, frames, received>>

\* A Read with an empty buffer.
ReadNothing ==
  /\ reader = "locked"
  /\ want = 0
  /\ ReturnWith(flags)
  /\ UNCHANGED <<sorter, finalOffset, current, currentIsLast, currentDone, readChan, history>>

\* Read wakes up and takes the mutex.
ReadWakes ==
  /\ reader = "waiting"
  /\ readChan
  /\ readChan' = FALSE
  /\ Dequeue(FALSE)
  /\ UNCHANGED <<finalOffset, frames, received>>

\* The deadline of the waiting Read passes.
ReadDeadline ==
  /\ reader = "waiting"
  /\ Dequeue(TRUE)
  /\ UNCHANGED <<finalOffset, readChan, frames, received>>

\* signalRead, after a STREAM frame.
SignalRead == readChan' = TRUE

\* SetReadDeadline, which also signals.
SetReadDeadline ==
  /\ ~readChan
  /\ readChan' = TRUE
  /\ UNCHANGED <<stream, reader, want, got, history>>

CancelRead ==
  /\ reader # "locked"
  /\ ~Set("cancelledLocally")
  /\ ~Set("shutdown")
  /\ IF Set("errorRead") \/ Set("cancelledRemotely")
     THEN /\ flags' = WithCompleted(flags \cup {"cancelledLocally"}, finalOffset)
          /\ UNCHANGED readChan
     ELSE /\ flags' = WithCompleted(flags \cup {"cancelledLocally", "stopSending"}, finalOffset)
          /\ readChan' = TRUE
  /\ UNCHANGED <<sorter, finalOffset, current, currentIsLast, currentDone, reader, want, got, history>>
--------------------------------------------------------------------------------
\* The run loop.  It no longer knows a completed stream.

RunLoopRuns ==
  /\ reader # "locked"
  /\ {"completed", "shutdown", "tooManyGaps"} \cap flags = {}

\* A STREAM frame of a peer that keeps to the final offset it told.
HandleStreamFrame(offset, len, fin) ==
  LET end   == offset + len
      final == IF fin THEN end ELSE finalOffset
      id    == frames + 1
      p     == Push(sorter, offset, len, id)
  IN  /\ RunLoopRuns
      /\ frames < MaxFrames
      /\ fin => end = Size /\ finalOffset \in {MaxByteCount, Size}
      /\ end <= finalOffset
      /\ frames' = id
      /\ finalOffset' = final
      /\ IF Set("cancelledLocally")
         THEN UNCHANGED <<sorter, readChan, received, released, releases>>
              /\ flags' = WithCompleted(flags, final)
         ELSE /\ sorter' = p.sorter
              /\ Release(p.done)
              /\ IF p.error
                 THEN /\ flags' = WithCompleted(flags \cup {"tooManyGaps"}, final)
                      /\ UNCHANGED <<readChan, received>>
                 ELSE /\ SignalRead
                      /\ received' = received \cup Bytes(offset, end)
                      /\ flags' = WithCompleted(flags, final)
      /\ UNCHANGED <<current, currentIsLast, currentDone, reader, want, got, delivered>>

\* A RESET_STREAM frame: its final size covers what was received.
HandleResetStreamFrame(final) ==
  /\ RunLoopRuns
  /\ finalOffset \in {MaxByteCount, final}
  /\ \A b \in received : b < final
  /\ finalOffset' = final
  /\ IF Set("cancelledRemotely") \/ Set("cancelledLocally")
     THEN /\ flags' = WithCompleted(flags, final)
          /\ UNCHANGED readChan
     ELSE /\ flags' = WithCompleted(flags \cup {"cancelledRemotely"}, final)
          /\ readChan' = TRUE
  /\ UNCHANGED <<sorter, current, currentIsLast, currentDone, reader, want, got, history>>

\* getControlFrame: STOP_SENDING.
GetControlFrame ==
  /\ reader # "locked"
  /\ Set("stopSending")
  /\ flags' = flags \ {"stopSending"}
  /\ UNCHANGED <<sorter, finalOffset, current, currentIsLast, currentDone, readChan, reader, want, got, history>>

CloseForShutdown ==
  /\ reader # "locked"
  /\ ~Set("shutdown")
  /\ ~Set("completed")
  /\ flags' = flags \cup {"shutdown"}
  /\ readChan' = TRUE
  /\ UNCHANGED <<sorter, finalOffset, current, currentIsLast, currentDone, reader, want, got, history>>

Application ==
  \/ \E n \in ReadSizes : Read(n)
  \/ ReadFrame
  \/ ReadNothing
  \/ ReadWakes
  \/ ReadDeadline
  \/ SetReadDeadline
  \/ CancelRead

RunLoop ==
  \/ \E offset \in 0..Size : \E len \in 0..(Size - offset), fin \in BOOLEAN :
       HandleStreamFrame(offset, len, fin)
  \/ \E final \in 0..Size : HandleResetStreamFrame(final)
  \/ GetControlFrame
  \/ CloseForShutdown

Next == Application \/ RunLoop

Spec == Init /\ [][Next]_vars
--------------------------------------------------------------------------------
\* The buffers that the stream still reads from.
InUse == Buffers(sorter.queue) \cup (IF current.lo < current.hi THEN {currentDone} \ {NoBuffer} ELSE {})

\* frameSorter: whatever the overlaps, the gaps are not empty, not adjacent and exactly
\* the bytes that are missing, the entries of the queue are disjoint and hold exactly the
\* received bytes that were not popped, and no gap starts before the read position (Pop
\* would panic).
SorterExact ==
  ~Set("tooManyGaps") =>
    /\ \A b \in 0..(MaxByteCount - 1) :
         /\ (b \notin received) <=> (\E i \in DOMAIN sorter.gaps : b \in Bytes(sorter.gaps[i].s, sorter.gaps[i].e))
         /\ Cardinality({x \in sorter.queue : b \in Bytes(x.lo, x.hi)})
              = IF b \in received /\ b >= sorter.readPos THEN 1 ELSE 0
    /\ \A i \in DOMAIN sorter.gaps :
         /\ sorter.gaps[i].s < sorter.gaps[i].e
         /\ i > 1 => sorter.gaps[i - 1].e < sorter.gaps[i].s
    /\ Head(sorter.gaps).s >= sorter.readPos

\* The buffer of a frame goes back to the pool at most once, and never while the queue
\* or the current frame of Read still refers to it (DoneCb is StreamFrame.PutBack).
BufferOwnership ==
  /\ releases = Cardinality(released)
  /\ InUse \cap released = {}

\* Read returns the bytes of the stream in order, each once, and io.EOF only after the
\* last one.
ReadsInOrder ==
  /\ delivered = IF current.lo < current.hi THEN current.lo ELSE sorter.readPos
  /\ Set("eof") => delivered = finalOffset

\* isNewlyCompleted is evaluated at every place that can complete the stream: once the
\* final offset is known and the stream was cancelled or the error was read, the stream
\* is completed; and never before (the flow controller needs the final offset).
CompletedExactly ==
  reader # "locked" =>
    (Set("completed") <=> /\ finalOffset # MaxByteCount
                          /\ Set("cancelledLocally") \/ Set("errorRead"))

\* A Read that waits finds readChan filled when there is something for it: data, the FIN,
\* a reset, a cancellation or the end of the connection; its one element is enough.
ReaderWoken ==
  reader = "waiting" /\ (Poppable(sorter) # {} \/ IsLast(sorter.readPos) \/ Cancelled \/ Set("shutdown")) => readChan
================================================================================
