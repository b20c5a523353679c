--------------------------- MODULE ConnectionProofs ----------------------------
(* What runs one connection: the run loop with the send queue and the routes that a *)
(* closed connection leaves, for every capacity of the queue and every          *)
(* interleaving; one HTTP/3 request and the streams of an HTTP/3 connection, for *)
(* any number of streams, datagrams and informational responses.  The state of  *)
(* each part is one record: for every action, which of its fields change and how is *)
(* shown first, then what follows for the invariant of the part.                *)
EXTENDS ConnectionLoop, H3Request, H3Conn, TLAPS

--------------------------------------------------------------------------------
(* The run loop. *)

LoopFields == {"pc", "received", "notify", "data", "scheduled", "q", "available", "sqa", "sender", "closeCalled",
               "pacing", "budget", "inflight", "probe", "ack", "timer", "last", "expired", "confirmed", "sentFirst",
               "closeErr", "closeChan", "closer", "streams", "route", "closeSent", "late", "answers", "panic"}
LoopShaped(t) == DOMAIN t = LoopFields

Resting == {"top", "packets", "wait"}
Ending == {"stop", "drain", "done"}

LoopTypes(t) ==
    /\ t.pc \in Resting \cup Ending \cup {"timers", "send", "sent"}
    /\ t.received \in Nat /\ t.data \in Nat /\ t.inflight \in Nat /\ t.late \in Nat /\ t.answers \in Nat
    /\ t.q \in 0..Capacity
    /\ DOMAIN t.closer = Closers

\* There is room when the loop sends; a loop that waits for room will be told.
Roomy(t) ==
    /\ ~t.panic
    /\ t.pc = "send" => t.q < Capacity
    /\ t.pc \in Resting /\ t.sqa => t.q > 0 \/ t.available \/ t.sender # "idle"

\* Why data that is left may wait.
MayWait(t) == t.scheduled \/ t.inflight > 0 \/ t.pacing \in {"later", "now"}

Announced(t) ==
    /\ t.pc \notin Ending /\ t.received > 0 => t.notify
    /\ t.pc \in Resting /\ t.data > 0 => MayWait(t) \/ t.sqa
    /\ t.pc = "sent" /\ t.data > 0 => MayWait(t)
    /\ t.pc \in Resting /\ t.pacing = "now" => ~t.sqa
    /\ t.pc = "wait" => t.pacing # "now"

\* The timer that the loop waits with is the one of the deadlines.
TimerSet(t) ==
    /\ t.pc \in {"packets", "wait"} /\ t.pacing # "now" =>
         /\ "idle" \in t.timer
         /\ t.inflight > 0 => "loss" \in t.timer
         /\ t.pacing = "later" => "pacing" \in t.timer
         /\ t.ack = "alarm" => "ack" \in t.timer \/ t.sqa
    /\ t.pc \notin Ending /\ t.ack = "alarm" => "ack" \notin t.last \/ (t.pc = "timers" /\ "ack" \in t.expired)

Signals(t) == t.closeChan \/ \E x \in Closers : t.closer[x] = "signal"

ClosingRight(t) ==
    /\ Signals(t) \/ t.pc \in Ending => t.closeErr # "none"
    /\ t.pc \notin Ending /\ t.closeErr # "none" => Signals(t)
    /\ t.closeCalled => t.pc \in {"drain", "done"}
    /\ t.sender = "stopped" => t.closeCalled /\ t.q = 0

Answers(late) == IF late >= 8 THEN 4 ELSE IF late >= 4 THEN 3 ELSE IF late >= 2 THEN 2 ELSE IF late >= 1 THEN 1 ELSE 0

ClosedRight(t) ==
    /\ t.answers <= Answers(t.late)
    /\ t.pc = "done" =>
         /\ t.streams = "closed" /\ t.route # "connection"
         /\ t.closeSent => t.closeErr \notin Immediate \cup {"remote"} /\ (Client => t.sentFirst)

LInv(t) ==
    /\ LoopShaped(t) /\ LoopTypes(t) /\ Roomy(t) /\ Announced(t) /\ TimerSet(t)
    /\ ClosingRight(t) /\ ClosedRight(t)

\* Two states of the loop that differ in the fields S only.
LoopSame(u, t, S) == LoopShaped(u) /\ \A f \in LoopFields \ S : u[f] = t[f]

-------------------------------------------------------------------------------
(* The end of the loop *)

LEMMA SetCloseErrorIs ==
  ASSUME NEW t, LoopShaped(t), NEW e, e # "none", NEW u, u = SetCloseError(t, e)
  PROVE  LoopSame(u, t, {"closeErr", "closeChan"}) /\ u.closeErr # "none" /\ u.closeChan = TRUE
BY Zenon DEF SetCloseError, LoopSame, LoopShaped, LoopFields

\* The loop may end with an error wherever it is.
LEMMA ExitKeeps ==
  ASSUME NEW t, LInv(t), t.pc \notin Ending, NEW x,
         LoopSame(x, t, {"closeChan", "closeErr", "received", "notify", "expired", "probe", "data", "ack"}),
         x.closeErr # "none", x.received \in Nat, x.data \in Nat
  PROVE  LInv(Exit(x))
<1> DEFINE u == Exit(x)
<1>1. LoopSame(u, x, {"pc", "pacing", "sqa", "timer", "last", "expired", "notify", "scheduled", "available", "ack",
                      "budget", "inflight", "probe", "confirmed"})
      /\ u.pc = "stop" /\ u.inflight = 0
  BY Zenon DEF Exit, LoopSame, LoopShaped, LoopFields
<1> HIDE DEF u
<1>2. /\ u.received = x.received /\ u.data = x.data /\ u.q = t.q /\ u.late = t.late /\ u.answers = t.answers
      /\ u.closer = t.closer /\ u.panic = t.panic /\ u.sender = t.sender /\ u.closeErr = x.closeErr
      /\ u.closeCalled = t.closeCalled
  BY <1>1 DEF LoopSame, LoopFields
<1>3. LoopShaped(u)
  BY <1>1 DEF LoopSame
<1>4. LoopTypes(u)
  BY <1>1, <1>2 DEF LInv, LoopTypes, Ending
<1>5. Roomy(u)
  BY <1>1, <1>2 DEF LInv, Roomy, Resting
<1>6. Announced(u)
  BY <1>1, <1>2 DEF Announced, Resting, Ending
<1>7. TimerSet(u)
  BY <1>1, <1>2 DEF TimerSet, Ending
<1>8. ClosingRight(u)
  BY <1>1, <1>2 DEF LInv, ClosingRight, Ending
<1>9. ClosedRight(u)
  BY <1>1, <1>2 DEF LInv, ClosedRight
<1> QED
  BY <1>3, <1>4, <1>5, <1>6, <1>7, <1>8, <1>9 DEF LInv, u

LEMMA ExitWithKeeps ==
  ASSUME NEW t, LInv(t), t.pc \notin Ending, NEW x, NEW e, e # "none",
         LoopSame(x, t, {"closeChan", "closeErr", "received", "notify", "expired", "probe", "data", "ack"}),
         x.received \in Nat, x.data \in Nat
  PROVE  LInv(ExitWith(x, e))
<1> DEFINE y == SetCloseError(x, e)
<1>1. LoopShaped(x)
  BY DEF LoopSame
<1>2. LoopSame(y, x, {"closeErr", "closeChan"}) /\ y.closeErr # "none"
  BY Zenon, <1>1, SetCloseErrorIs
<1> HIDE DEF y
<1>3. LoopSame(y, t, {"closeChan", "closeErr", "received", "notify", "expired", "probe", "data", "ack"})
      /\ y.received = x.received /\ y.data = x.data
  BY <1>2 DEF LoopSame, LoopFields
<1>4. LInv(Exit(y))
  BY <1>2, <1>3, ExitKeeps
<1> QED
  BY <1>4 DEF ExitWith, y

-------------------------------------------------------------------------------
(* The other goroutines *)

\* What others do to the channels, the queue and the sender leaves the loop where it is.
LEMMA OthersKeep ==
  ASSUME NEW t, LInv(t), NEW u,
         LoopSame(u, t, {"received", "notify", "data", "scheduled", "q", "available", "sender",
                         "closeErr", "closeChan", "closer"}),
         u.received \in Nat, u.data \in Nat, u.q \in 0..t.q, DOMAIN u.closer = Closers,
         t.scheduled => u.scheduled, u.data > 0 => t.data > 0 \/ u.scheduled,
         t.pc \notin Ending /\ u.received > 0 => u.notify,
         t.q > 0 \/ t.available \/ t.sender # "idle" => u.q > 0 \/ u.available \/ u.sender # "idle",
         Signals(u) \/ t.closeErr # "none" => u.closeErr # "none",
         t.closeErr # "none" => u.closeErr = t.closeErr,
         t.pc \notin Ending /\ u.closeErr # "none" => Signals(u),
         u.sender = "stopped" => t.closeCalled /\ u.q = 0
  PROVE  LInv(u)
<1>1. /\ u.pc = t.pc /\ u.sqa = t.sqa /\ u.closeCalled = t.closeCalled /\ u.pacing = t.pacing
      /\ u.inflight = t.inflight /\ u.ack = t.ack /\ u.timer = t.timer /\ u.last = t.last /\ u.expired = t.expired
      /\ u.sentFirst = t.sentFirst /\ u.streams = t.streams /\ u.route = t.route /\ u.closeSent = t.closeSent
      /\ u.late = t.late /\ u.answers = t.answers /\ u.panic = t.panic
  BY DEF LoopSame, LoopFields
<1>2. LoopShaped(u)
  BY DEF LoopSame
<1>3. t.q \in 0..Capacity /\ LoopTypes(u)
  BY SMTT(30), <1>1, LoopConstants DEF LInv, LoopTypes
<1>4. Roomy(u)
  BY <1>1, <1>3, LoopConstants DEF LInv, Roomy
<1>5. Announced(u)
  BY <1>1 DEF LInv, Announced, MayWait
<1>6. TimerSet(u)
  BY <1>1 DEF LInv, TimerSet
<1>7. ClosingRight(u)
  BY <1>1 DEF LInv, ClosingRight
<1>8. ClosedRight(u)
  BY <1>1 DEF LInv, ClosedRight, ClosingRight, Ending
<1> QED
  BY <1>2, <1>3, <1>4, <1>5, <1>6, <1>7, <1>8 DEF LInv

LEMMA SenderKeeps ==
  ASSUME LInv(s), Sender
  PROVE  LInv(s')
<1>0. LoopShaped(s) /\ LoopTypes(s) /\ Announced(s) /\ ClosingRight(s) /\ s.q \in Nat
  BY LoopConstants DEF LInv, LoopTypes
<1>1. CASE Dequeue
  <2>1. LoopSame(s', s, {"q", "sender"}) /\ s'.q = s.q - 1 /\ s'.sender = "writing" /\ s.q > 0
    BY Zenon, <1>0, <1>1 DEF Dequeue, Step, LoopSame, LoopShaped, LoopFields
  <2> QED
    BY SMTT(30), <1>0, <2>1, OthersKeep DEF LoopSame, LoopFields, LoopTypes, Announced, ClosingRight, Signals
<1>2. CASE Written
  <2>1. LoopSame(s', s, {"available", "sender"}) /\ s'.available = TRUE /\ s'.sender = "idle"
    BY Zenon, <1>0, <1>2 DEF Written, Step, LoopSame, LoopShaped, LoopFields
  <2> QED
    BY SMTT(30), <1>0, <2>1, OthersKeep DEF LoopSame, LoopFields, LoopTypes, Announced, ClosingRight, Signals
<1>3. CASE WriteError
  <2>1. LoopSame(s', s, {"sender"}) /\ s'.sender = "failed"
    BY <1>0, <1>3 DEF WriteError, Step, LoopSame, LoopShaped, LoopFields
  <2> QED
    BY SMTT(30), <1>0, <2>1, OthersKeep DEF LoopSame, LoopFields, LoopTypes, Announced, ClosingRight, Signals
<1>4. CASE DestroyImpl
  <2>1. /\ LoopSame(s', s, {"sender", "closeErr", "closeChan"}) /\ s'.sender = "crashed" /\ s'.closeChan = TRUE
        /\ s'.closeErr = IF s.closeErr = "none" THEN "writeError" ELSE s.closeErr
    BY Zenon, <1>0, <1>4 DEF DestroyImpl, SetCloseError, Step, LoopSame, LoopShaped, LoopFields
  <2> QED
    BY SMTT(30), <1>0, <2>1, OthersKeep DEF LoopSame, LoopFields, LoopTypes, Announced, ClosingRight, Signals
<1>5. CASE RunReturns
  <2>1. LoopSame(s', s, {"sender"}) /\ s'.sender = "stopped" /\ s.closeCalled /\ s.q = 0
    BY <1>0, <1>5 DEF RunReturns, Step, LoopSame, LoopShaped, LoopFields
  <2> QED
    BY SMTT(30), <1>0, <2>1, OthersKeep DEF LoopSame, LoopFields, LoopTypes, Announced, ClosingRight, Signals
<1> QED
  BY <1>1, <1>2, <1>3, <1>4, <1>5 DEF Sender

LEMMA ArrivalsKeep ==
  ASSUME LInv(s), HandlePacket \/ WriteData
  PROVE  LInv(s')
<1>0. LoopShaped(s) /\ LoopTypes(s) /\ Announced(s) /\ ClosingRight(s) /\ s.q \in Nat
  BY LoopConstants DEF LInv, LoopTypes
<1>1. CASE HandlePacket
  <2>1. LoopSame(s', s, {"received", "notify"}) /\ s'.received = s.received + 1 /\ s'.notify = TRUE
    BY Zenon, <1>0, <1>1 DEF HandlePacket, Step, LoopSame, LoopShaped, LoopFields
  <2> QED
    BY SMTT(30), <1>0, <2>1, OthersKeep DEF LoopSame, LoopFields, LoopTypes, Announced, ClosingRight, Signals
<1>2. CASE WriteData
  <2>1. LoopSame(s', s, {"data", "scheduled"}) /\ s'.data = s.data + 1 /\ s'.scheduled = TRUE
    BY Zenon, <1>0, <1>2 DEF WriteData, Step, LoopSame, LoopShaped, LoopFields
  <2> QED
    BY SMTT(30), <1>0, <2>1, OthersKeep DEF LoopSame, LoopFields, LoopTypes, Announced, ClosingRight, Signals
<1> QED
  BY <1>1, <1>2

LEMMA ClosersKeep ==
  ASSUME LInv(s), NEW x \in Closers,
         (\E e \in {"local", "destroy"} : SetError(x, e)) \/ SignalClose(x) \/ CloserReturns(x)
  PROVE  LInv(s')
<1>0. LoopShaped(s) /\ LoopTypes(s) /\ Announced(s) /\ ClosingRight(s) /\ s.q \in Nat
  BY LoopConstants DEF LInv, LoopTypes
<1>1. CASE \E e \in {"local", "destroy"} : SetError(x, e)
  <2>1. PICK e \in {"local", "destroy"} : SetError(x, e)
    BY <1>1
  <2>2. /\ LoopSame(s', s, {"closeErr", "closer"}) /\ s'.closer = [s.closer EXCEPT ![x] = "signal"]
        /\ s'.closeErr = IF s.closeErr = "none" THEN e ELSE s.closeErr
    BY Zenon, <1>0, <2>1 DEF SetError, Step, LoopSame, LoopShaped, LoopFields
  <2>3. s'.closeErr # "none" /\ DOMAIN s'.closer = Closers /\ s'.closer[x] = "signal"
    BY <1>0, <2>2 DEF LoopTypes
  <2>4. Signals(s')
    BY <2>3 DEF Signals
  <2> QED
    BY SMTT(30), <1>0, <2>2, <2>3, <2>4, OthersKeep DEF LoopSame, LoopFields, LoopTypes, Announced, ClosingRight
<1>2. CASE SignalClose(x)
  <2>1. /\ LoopSame(s', s, {"closeChan", "closer"}) /\ s'.closer = [s.closer EXCEPT ![x] = "wait"]
        /\ s'.closeChan = TRUE /\ s.closer[x] = "signal"
    BY Zenon, <1>0, <1>2 DEF SignalClose, Step, LoopSame, LoopShaped, LoopFields
  <2>2. Signals(s') /\ Signals(s) /\ DOMAIN s'.closer = Closers
    BY <1>0, <2>1 DEF Signals, LoopTypes
  <2> QED
    BY SMTT(30), <1>0, <2>1, <2>2, OthersKeep DEF LoopSame, LoopFields, LoopTypes, Announced, ClosingRight
<1>3. CASE CloserReturns(x)
  <2>1. /\ LoopSame(s', s, {"closer"}) /\ s'.closer = [s.closer EXCEPT ![x] = "returned"] /\ s.pc = "done"
    BY <1>0, <1>3 DEF CloserReturns, Step, LoopSame, LoopShaped, LoopFields
  <2>2. DOMAIN s'.closer = Closers /\ s.closeErr # "none"
    BY <1>0, <2>1 DEF ClosingRight, Ending, LoopTypes
  <2> QED
    BY SMTT(30), <1>0, <2>1, <2>2, OthersKeep DEF LoopSame, LoopFields, LoopTypes, Announced, ClosingRight, Ending
<1> QED
  BY <1>1, <1>2, <1>3

-------------------------------------------------------------------------------
(* Closing *)

LEMMA CloseSendQueueKeeps ==
  ASSUME LInv(s), CloseSendQueue
  PROVE  LInv(s')
<1>0. LoopShaped(s) /\ s.pc = "stop"
  BY DEF LInv, CloseSendQueue
<1>1. LoopSame(s', s, {"pc", "closeCalled"}) /\ s'.pc = "drain" /\ s'.closeCalled = TRUE
  BY Zenon, <1>0 DEF CloseSendQueue, Step, LoopSame, LoopShaped, LoopFields
<1>2. /\ s'.received = s.received /\ s'.data = s.data /\ s'.inflight = s.inflight /\ s'.late = s.late
      /\ s'.answers = s.answers /\ s'.q = s.q /\ s'.closer = s.closer /\ s'.panic = s.panic
      /\ s'.closeErr = s.closeErr /\ s'.sender = s.sender /\ s'.closeChan = s.closeChan
  BY <1>1 DEF LoopSame, LoopFields
<1>3. LoopShaped(s') /\ LoopTypes(s')
  BY <1>1, <1>2 DEF LInv, LoopTypes, Ending, LoopSame
<1>4. Roomy(s') /\ Announced(s') /\ TimerSet(s') /\ ClosedRight(s')
  BY Zenon, <1>1, <1>2 DEF LInv, Roomy, Announced, TimerSet, ClosedRight, Resting, Ending
<1>5. ClosingRight(s')
  BY <1>0, <1>1, <1>2 DEF LInv, ClosingRight, Ending
<1> QED
  BY <1>3, <1>4, <1>5 DEF LInv

LEMMA HandleCloseErrorKeeps ==
  ASSUME LInv(s), HandleCloseError
  PROVE  LInv(s')
<1>0. LoopShaped(s) /\ s.pc = "drain" /\ RunStopped(s)
  BY DEF LInv, HandleCloseError
<1> DEFINE r == RouteAfter(s.closeErr)
<1>1. /\ LoopSame(s', s, {"pc", "received", "streams", "data", "route", "closeSent"})
      /\ s'.pc = "done" /\ s'.received = 0 /\ s'.streams = "closed" /\ s'.data = 0
      /\ s'.route = r /\ s'.closeSent = (r = "closedLocal")
  BY Zenon, <1>0 DEF HandleCloseError, Step, LoopSame, LoopShaped, LoopFields
<1>2. r # "connection" /\ (r = "closedLocal" => s.closeErr \notin Immediate \cup {"remote"} /\ (Client => s.sentFirst))
  BY DEF RouteAfter
<1> HIDE DEF r
<1>3. /\ s'.inflight = s.inflight /\ s'.late = s.late
      /\ s'.answers = s.answers /\ s'.q = s.q /\ s'.closer = s.closer /\ s'.panic = s.panic
      /\ s'.closeErr = s.closeErr /\ s'.sender = s.sender /\ s'.closeChan = s.closeChan
      /\ s'.closeCalled = s.closeCalled /\ s'.sentFirst = s.sentFirst
  BY <1>1 DEF LoopSame, LoopFields
<1>4. LoopShaped(s') /\ LoopTypes(s')
  BY <1>1, <1>3 DEF LInv, LoopTypes, Ending, LoopSame
<1>5. Roomy(s') /\ Announced(s') /\ TimerSet(s')
  BY Zenon, <1>1, <1>3 DEF LInv, Roomy, Announced, TimerSet, Resting, Ending
<1>6. ClosingRight(s')
  BY <1>0, <1>1, <1>3 DEF LInv, ClosingRight, Ending
<1>7. ClosedRight(s')
  BY Zenon, <1>1, <1>2, <1>3 DEF LInv, ClosedRight
<1> QED
  BY <1>4, <1>5, <1>6, <1>7 DEF LInv

LEMMA AfterCloseKeeps ==
  ASSUME LInv(s), PacketAfterClose \/ DeleteRetired
  PROVE  LInv(s')
<1>0. LoopShaped(s) /\ s.pc = "done" /\ s.late \in Nat /\ s.answers \in Nat
  BY DEF LInv, LoopTypes, PacketAfterClose, DeleteRetired
<1>1. /\ LoopSame(s', s, {"late", "answers", "route"}) /\ s'.late \in Nat /\ s'.answers \in Nat
      /\ s'.route \in {s.route, "none"}
      /\ \/ s'.late = s.late /\ s'.answers = s.answers
         \/ s'.late = s.late + 1 /\ s'.answers = IF PowerOfTwo(s.late + 1) THEN s.answers + 1 ELSE s.answers
  <2>1. CASE PacketAfterClose
    <3>1. /\ LoopSame(s', s, {"late", "answers"}) /\ s'.late = s.late + 1
          /\ s'.answers = IF PowerOfTwo(s.late + 1) THEN s.answers + 1 ELSE s.answers
      BY Zenon, <1>0, <2>1 DEF PacketAfterClose, Step, LoopSame, LoopShaped, LoopFields
    <3> QED
      BY <1>0, <3>1 DEF LoopSame, LoopFields
  <2>2. CASE DeleteRetired
    <3>1. LoopSame(s', s, {"route"}) /\ s'.route = "none"
      BY <1>0, <2>2 DEF DeleteRetired, Step, LoopSame, LoopShaped, LoopFields
    <3> QED
      BY <1>0, <3>1 DEF LoopSame, LoopFields
  <2> QED
    BY <2>1, <2>2
<1>2. /\ s'.pc = s.pc /\ s'.received = s.received /\ s'.data = s.data /\ s'.inflight = s.inflight
      /\ s'.q = s.q /\ s'.closer = s.closer /\ s'.panic = s.panic
      /\ s'.closeErr = s.closeErr /\ s'.sender = s.sender /\ s'.closeChan = s.closeChan
      /\ s'.closeCalled = s.closeCalled /\ s'.sentFirst = s.sentFirst /\ s'.streams = s.streams
      /\ s'.closeSent = s.closeSent
  BY <1>1 DEF LoopSame, LoopFields
<1>3. LoopShaped(s') /\ LoopTypes(s')
  BY <1>1, <1>2 DEF LInv, LoopTypes, LoopSame
<1>4. Roomy(s') /\ Announced(s') /\ TimerSet(s')
  BY <1>0, <1>2 DEF LInv, Roomy, Announced, TimerSet, Resting, Ending
<1>5. ClosingRight(s')
  BY <1>2 DEF LInv, ClosingRight, Signals
<1>6. s'.answers <= Answers(s'.late)
  BY <1>0, <1>1 DEF LInv, ClosedRight, Answers, PowerOfTwo
<1>7. ClosedRight(s')
  BY <1>0, <1>1, <1>2, <1>6 DEF LInv, ClosedRight
<1> QED
  BY <1>3, <1>4, <1>5, <1>7 DEF LInv

-------------------------------------------------------------------------------
(* The run loop receives, and waits *)

\* A step of the loop that is not its end: what the closing code relies on stays.
LEMMA LoopMoves ==
  ASSUME NEW t, LInv(t), t.pc \notin Ending, NEW u,
         LoopSame(u, t, {"pc", "received", "notify", "data", "scheduled", "q", "available", "sqa", "pacing",
                         "budget", "inflight", "probe", "ack", "timer", "last", "expired", "confirmed", "sentFirst"}),
         u.pc \in Resting \cup {"timers", "send", "sent"},
         u.received \in Nat, u.data \in Nat, u.inflight \in Nat, u.q \in 0..Capacity
  PROVE  /\ LoopShaped(u) /\ LoopTypes(u) /\ ClosingRight(u) /\ ClosedRight(u) /\ ~u.panic
         /\ u.sender = t.sender
<1>1. /\ u.late = t.late /\ u.answers = t.answers /\ u.closer = t.closer /\ u.panic = t.panic
      /\ u.closeErr = t.closeErr /\ u.sender = t.sender /\ u.closeChan = t.closeChan
      /\ u.closeCalled = t.closeCalled
  BY DEF LoopSame, LoopFields
<1>2. LoopShaped(u) /\ LoopTypes(u)
  BY <1>1 DEF LInv, LoopTypes, LoopSame
<1>3. ClosingRight(u)
  BY <1>1 DEF LInv, ClosingRight, Signals, Resting, Ending
<1>4. ClosedRight(u)
  BY <1>1 DEF LInv, ClosedRight, Resting
<1>5. ~u.panic
  BY <1>1 DEF LInv, Roomy
<1> QED
  BY <1>1, <1>2, <1>3, <1>4, <1>5

\* What the loop has read of the packets, the acknowledgements and the close channel
\* keeps what it waits for.  It goes on to the timers, or rests.
LEMMA ReceivingKeeps ==
  ASSUME NEW t, LInv(t), t.pc \in Resting, NEW u,
         LoopSame(u, t, {"pc", "received", "notify", "scheduled", "available", "inflight", "ack", "timer", "last", "confirmed"}),
         u.pc \in Resting \cup {"timers"},
         u.received \in Nat, u.inflight \in {0, t.inflight},
         u.received > 0 => u.notify,
         u.ack = "alarm" => "ack" \notin u.last,
         u.pc # "timers" =>
           /\ u.scheduled = t.scheduled /\ u.available = t.available
           /\ u.inflight = t.inflight \/ t.sqa,
         u.pc = "wait" => t.pacing # "now",
         u.pc \in {"packets", "wait"} /\ t.pacing # "now" =>
           /\ "idle" \in u.timer
           /\ u.inflight > 0 => "loss" \in u.timer
           /\ t.pacing = "later" => "pacing" \in u.timer
           /\ u.ack = "alarm" => "ack" \in u.timer \/ t.sqa
  PROVE  LInv(u)
<1>1. /\ u.data = t.data /\ u.q = t.q /\ u.sqa = t.sqa /\ u.pacing = t.pacing /\ u.expired = t.expired
  BY DEF LoopSame, LoopFields
<1>2. t.pc \notin Ending /\ u.pc \notin Ending /\ u.inflight \in Nat /\ u.data \in Nat /\ u.q \in 0..Capacity
  BY SMTT(30), <1>1 DEF LInv, LoopTypes, Resting, Ending
<1>3. LoopSame(u, t, {"pc", "received", "notify", "data", "scheduled", "q", "available", "sqa", "pacing",
                      "budget", "inflight", "probe", "ack", "timer", "last", "expired", "confirmed", "sentFirst"})
  BY DEF LoopSame
<1>4. LoopShaped(u) /\ LoopTypes(u) /\ ClosingRight(u) /\ ClosedRight(u) /\ ~u.panic /\ u.sender = t.sender
  BY <1>2, <1>3, LoopMoves
<1>5. Roomy(u)
  BY <1>1, <1>4 DEF LInv, Roomy, Resting
<1>6. Announced(u)
  BY <1>1 DEF LInv, Announced, MayWait, Resting
<1>7. TimerSet(u)
  BY <1>1 DEF LInv, TimerSet
<1> QED
  BY <1>4, <1>5, <1>6, <1>7 DEF LInv

LEMMA TopKeeps ==
  ASSUME LInv(s), Top
  PROVE  LInv(s')
<1>0. LoopShaped(s) /\ s.pc = "top" /\ s.pc \notin Ending /\ s.received \in Nat /\ s.data \in Nat /\ s.inflight \in Nat
  BY DEF LInv, LoopTypes, Top, Ending
<1>1. CASE s' = ExitWith(s, "internal")
  <2>1. LoopSame(s, s, {"closeChan", "closeErr", "received", "notify", "expired", "probe", "data", "ack"})
    BY <1>0 DEF LoopSame
  <2> QED
    BY <1>0, <1>1, <2>1, ExitWithKeeps
<1>2. CASE s.closeChan /\ s' = Exit([s EXCEPT !.closeChan = FALSE])
  <2> DEFINE x == [s EXCEPT !.closeChan = FALSE]
  <2>1. LoopSame(x, s, {"closeChan"})
    BY <1>0 DEF LoopSame, LoopShaped, LoopFields
  <2> HIDE DEF x
  <2>2. /\ LoopSame(x, s, {"closeChan", "closeErr", "received", "notify", "expired", "probe", "data", "ack"})
        /\ x.closeErr = s.closeErr /\ x.received = s.received /\ x.data = s.data
    BY <2>1 DEF LoopSame, LoopFields
  <2>3. s.closeErr # "none"
    BY <1>2 DEF LInv, ClosingRight, Signals
  <2>4. LInv(Exit(x))
    BY <1>0, <2>2, <2>3, ExitKeeps
  <2> QED
    BY <1>2, <2>4 DEF x
<1>3. CASE s' = [s EXCEPT !.pc = "packets", !.timer = IF s.pacing = "now" THEN @ ELSE Deadlines(s)]
  <2>1. /\ LoopSame(s', s, {"pc", "timer"}) /\ s'.pc = "packets"
        /\ s.pacing # "now" => s'.timer = Deadlines(s)
    BY Zenon, <1>0, <1>3 DEF LoopSame, LoopShaped, LoopFields
  <2>2. /\ LoopSame(s', s, {"pc", "received", "notify", "scheduled", "available", "inflight", "ack", "timer", "last", "confirmed"})
        /\ s'.received = s.received /\ s'.inflight = s.inflight /\ s'.notify = s.notify /\ s'.ack = s.ack
        /\ s'.last = s.last /\ s'.scheduled = s.scheduled /\ s'.available = s.available
    BY <2>1 DEF LoopSame, LoopFields
  <2>3. (s.received > 0 => s.notify) /\ (s.ack = "alarm" => "ack" \notin s.last)
    BY <1>0 DEF LInv, Announced, TimerSet
  <2>4. s'.pc \in {"packets", "wait"} /\ s.pacing # "now" =>
          /\ "idle" \in s'.timer
          /\ s'.inflight > 0 => "loss" \in s'.timer
          /\ s.pacing = "later" => "pacing" \in s'.timer
          /\ s'.ack = "alarm" => "ack" \in s'.timer \/ s.sqa
    BY <2>1, <2>2, <2>3 DEF Deadlines
  <2> QED
    BY <1>0, <2>1, <2>2, <2>3, <2>4, ReceivingKeeps DEF Resting
<1> QED
  BY <1>1, <1>2, <1>3 DEF Top, Step

LEMMA EffectsAre ==
  ASSUME NEW t, NEW x \in Effects(t)
  PROVE  \E i \in {0, t.inflight}, a \in AckAfter(t), b \in ConfirmedAfter(t) : x = Processed(t, i, a, b)
BY SMT DEF Effects

\* What handlePackets leaves.
LEMMA HandledIs ==
  ASSUME NEW t, LoopShaped(t), t.received \in Nat, t.received > 0, t.ack = "alarm" => "ack" \notin t.last,
         NEW h \in Handled(t)
  PROVE  /\ LoopSame(h.state, t, {"received", "notify", "inflight", "ack", "confirmed", "last"})
         /\ h.state.received \in Nat /\ (h.state.received > 0 => h.state.notify)
         /\ h.state.inflight \in {0, t.inflight}
         /\ h.state.ack = "alarm" => "ack" \notin h.state.last
         /\ ~h.processed => h.state.inflight = t.inflight /\ h.state.ack = t.ack
<1> DEFINE taken == IF t.confirmed THEN t.received ELSE 1
           y == [t EXCEPT !.received = @ - taken, !.notify = @ \/ t.received > taken]
<1>1. taken \in Nat /\ taken <= t.received
  OBVIOUS
<1> HIDE DEF taken
<1>2. /\ LoopSame(y, t, {"received", "notify"}) /\ y.received = t.received - taken /\ (t.received > taken => y.notify)
  BY Zenon DEF LoopSame, LoopShaped, LoopFields
<1>3. \/ h = [state |-> y, processed |-> FALSE]
      \/ \E x \in Effects(y) : h = [state |-> x, processed |-> TRUE]
  BY Zenon DEF Handled, taken
<1> HIDE DEF y
<1>4. /\ y.received \in Nat /\ (y.received > 0 => y.notify) /\ y.inflight = t.inflight /\ y.ack = t.ack /\ y.last = t.last
  BY <1>1, <1>2 DEF LoopSame, LoopFields
<1>5. CASE h = [state |-> y, processed |-> FALSE]
  <2>1. LoopSame(y, t, {"received", "notify", "inflight", "ack", "confirmed", "last"})
    BY <1>2 DEF LoopSame
  <2> QED
    BY <1>4, <1>5, <2>1
<1>6. CASE \E x \in Effects(y) : h = [state |-> x, processed |-> TRUE]
  <2>1. PICK x \in Effects(y) : h = [state |-> x, processed |-> TRUE]
    BY Zenon, <1>6
  <2>2. PICK i \in {0, y.inflight}, a \in AckAfter(y), b \in ConfirmedAfter(y) : x = Processed(y, i, a, b)
    BY <2>1, EffectsAre
  <2>3. /\ LoopSame(x, y, {"inflight", "ack", "confirmed", "last"}) /\ x.inflight = i /\ x.ack = a
        /\ a = "alarm" => "ack" \notin x.last
    BY Zenon, <1>2, <2>2 DEF Processed, LoopSame, LoopShaped, LoopFields
  <2>4. /\ LoopSame(x, t, {"received", "notify", "inflight", "ack", "confirmed", "last"})
        /\ x.received = y.received /\ x.notify = y.notify
    BY <1>2, <2>3 DEF LoopSame, LoopFields
  <2> QED
    BY <1>4, <2>1, <2>2, <2>3, <2>4
<1> QED
  BY <1>3, <1>5, <1>6

LEMMA PacketsKeep ==
  ASSUME LInv(s), Packets
  PROVE  LInv(s')
<1>0. /\ LoopShaped(s) /\ s.pc = "packets" /\ s.pc \in Resting /\ s.pc \notin Ending /\ s.received \in Nat /\ s.data \in Nat
      /\ (s.ack = "alarm" => "ack" \notin s.last) /\ (s.received > 0 => s.notify)
      /\ (s.pacing = "now" => ~s.sqa)
  BY DEF LInv, LoopTypes, Packets, Resting, Ending, Announced, TimerSet
<1>1. /\ s.pacing # "now" =>
           /\ "idle" \in s.timer
           /\ s.inflight > 0 => "loss" \in s.timer
           /\ s.pacing = "later" => "pacing" \in s.timer
           /\ s.ack = "alarm" => "ack" \in s.timer \/ s.sqa
  BY <1>0 DEF LInv, TimerSet
<1>2. ASSUME NEW x, NEW processed, s' = Proceed(x, processed),
             LoopSame(x, s, {"received", "notify", "inflight", "ack", "confirmed", "last"}),
             x.received \in Nat, x.received > 0 => x.notify, x.inflight \in {0, s.inflight},
             x.ack = "alarm" => "ack" \notin x.last,
             ~processed => x.inflight = s.inflight /\ x.ack = s.ack
      PROVE  LInv(s')
  <2>1. /\ LoopSame(s', x, {"pc", "timer"})
        /\ \/ s'.pc = "timers"
           \/ s'.pc = "wait" /\ s'.timer = x.timer /\ (x.sqa \/ (~processed /\ x.pacing # "now"))
    <3>1. CASE ~x.sqa /\ (processed \/ x.pacing = "now")
      <4>1. s' = [x EXCEPT !.pc = "timers", !.timer = {}]
        BY <1>2, <3>1 DEF Proceed, Leave
      <4> QED
        BY Zenon, <1>2, <4>1 DEF LoopSame, LoopShaped, LoopFields
    <3>2. CASE ~(~x.sqa /\ (processed \/ x.pacing = "now"))
      <4>1. s' = [x EXCEPT !.pc = "wait"]
        BY <1>2, <3>2 DEF Proceed
      <4>2. LoopSame(s', x, {"pc", "timer"}) /\ s'.pc = "wait" /\ s'.timer = x.timer
        BY <1>2, <4>1 DEF LoopSame, LoopShaped, LoopFields
      <4> QED
        BY <3>2, <4>2
    <3> QED
      BY <3>1, <3>2
  <2>2. /\ LoopSame(s', s, {"pc", "received", "notify", "scheduled", "available", "inflight", "ack", "timer", "last", "confirmed"})
        /\ s'.received = x.received /\ s'.inflight = x.inflight /\ s'.notify = x.notify /\ s'.ack = x.ack
        /\ s'.last = x.last /\ s'.scheduled = s.scheduled /\ s'.available = s.available
        /\ x.sqa = s.sqa /\ x.pacing = s.pacing /\ x.timer = s.timer
    BY <1>2, <2>1 DEF LoopSame, LoopFields
  <2>3. s'.pc = "wait" => s.pacing # "now" /\ (s'.inflight = s.inflight \/ s.sqa)
    BY <1>0, <1>2, <2>1, <2>2
  <2>4. s'.pc \in {"packets", "wait"} /\ s.pacing # "now" =>
          /\ "idle" \in s'.timer
          /\ s'.inflight > 0 => "loss" \in s'.timer
          /\ s.pacing = "later" => "pacing" \in s'.timer
          /\ s'.ack = "alarm" => "ack" \in s'.timer \/ s.sqa
    BY SMTT(30), <1>1, <1>2, <2>1, <2>2
  <2> QED
    BY <1>0, <1>2, <2>1, <2>2, <2>3, <2>4, ReceivingKeeps DEF Resting
<1>3. CASE s.received = 0 /\ s' = Proceed(s, FALSE)
  <2>1. LoopSame(s, s, {"received", "notify", "inflight", "ack", "confirmed", "last"})
    BY <1>0 DEF LoopSame
  <2> QED
    BY Zenon, <1>0, <1>2, <1>3, <2>1
<1>4. CASE s.received > 0 /\ \E h \in Handled(s) : s' = Proceed(h.state, h.processed)
  <2>1. PICK h \in Handled(s) : s' = Proceed(h.state, h.processed)
    BY <1>4
  <2> QED
    BY <1>0, <1>2, <1>4, <2>1, HandledIs
<1>5. CASE s.received > 0 /\ s' = ExitWith([s EXCEPT !.received = @ - 1], "remote")
  <2> DEFINE x == [s EXCEPT !.received = @ - 1]
  <2>1. LoopSame(x, s, {"received"}) /\ x.received = s.received - 1
    BY <1>0 DEF LoopSame, LoopShaped, LoopFields
  <2> HIDE DEF x
  <2>2. /\ LoopSame(x, s, {"closeChan", "closeErr", "received", "notify", "expired", "probe", "data", "ack"})
        /\ x.received \in Nat /\ x.data = s.data
    BY <1>0, <1>5, <2>1 DEF LoopSame, LoopFields
  <2>3. LInv(ExitWith(x, "remote"))
    BY <1>0, <2>2, ExitWithKeeps
  <2> QED
    BY <1>5, <2>3 DEF x
<1> QED
  BY Zenon, <1>3, <1>4, <1>5 DEF Packets, Step

LEMMA WaitNotifyKeeps ==
  ASSUME LInv(s), WaitNotify
  PROVE  LInv(s')
<1>0. /\ LoopShaped(s) /\ s.pc = "wait" /\ s.pc \in Resting /\ s.pc \notin Ending /\ s.received \in Nat /\ s.data \in Nat
      /\ (s.ack = "alarm" => "ack" \notin s.last)
  BY DEF LInv, LoopTypes, WaitNotify, Resting, Ending, TimerSet
<1>1. PICK t : t = [s EXCEPT !.notify = FALSE]
  BY Zenon
<1>2. LoopSame(t, s, {"notify"})
  BY <1>0, <1>1 DEF LoopSame, LoopShaped, LoopFields
<1>3. LoopShaped(t) /\ t.received = s.received /\ t.ack = s.ack /\ t.last = s.last /\ t.inflight = s.inflight
  BY <1>2 DEF LoopSame, LoopFields
<1>4. ASSUME NEW x, NEW processed, s' = Leave(x, IF processed THEN "timers" ELSE "top"),
             LoopSame(x, t, {"received", "notify", "inflight", "ack", "confirmed", "last"}),
             x.received \in Nat, x.received > 0 => x.notify, x.inflight \in {0, t.inflight},
             x.ack = "alarm" => "ack" \notin x.last,
             ~processed => x.inflight = t.inflight /\ x.ack = t.ack
      PROVE  LInv(s')
  <2>1. LoopSame(s', x, {"pc", "timer"}) /\ s'.pc = IF processed THEN "timers" ELSE "top"
    BY Zenon, <1>4 DEF Leave, LoopSame, LoopShaped, LoopFields
  <2>2. /\ LoopSame(s', s, {"pc", "received", "notify", "scheduled", "available", "inflight", "ack", "timer", "last", "confirmed"})
        /\ s'.received = x.received /\ s'.inflight = x.inflight /\ s'.notify = x.notify /\ s'.ack = x.ack
        /\ s'.last = x.last /\ s'.scheduled = s.scheduled /\ s'.available = s.available
    BY SMTT(30), <1>2, <1>4, <2>1 DEF LoopSame, LoopFields
  <2>3. s'.pc \in {"top", "timers"} /\ (s'.pc # "timers" => s'.inflight = s.inflight)
    BY <1>3, <1>4, <2>1, <2>2
  <2> QED
    BY ZenonT(30), <1>0, <1>3, <1>4, <2>2, <2>3, ReceivingKeeps DEF Resting
<1>5. CASE s.received = 0 /\ s' = Leave(t, "top")
  <2>1. LoopSame(t, t, {"received", "notify", "inflight", "ack", "confirmed", "last"})
    BY <1>3 DEF LoopSame
  <2>2. s' = Leave(t, IF FALSE THEN "timers" ELSE "top")
    BY <1>5
  <2> QED
    BY SMTT(30), <1>0, <1>3, <1>4, <1>5, <2>1, <2>2
<1>6. CASE s.received > 0 /\ \E h \in Handled(t) : s' = Leave(h.state, IF h.processed THEN "timers" ELSE "top")
  <2>1. PICK h \in Handled(t) : s' = Leave(h.state, IF h.processed THEN "timers" ELSE "top")
    BY <1>6
  <2> QED
    BY <1>0, <1>3, <1>4, <1>6, <2>1, HandledIs
<1>7. CASE s.received > 0 /\ s' = ExitWith([t EXCEPT !.received = @ - 1], "remote")
  <2> DEFINE x == [t EXCEPT !.received = @ - 1]
  <2>1. LoopSame(x, t, {"received"}) /\ x.received = t.received - 1
    BY <1>3 DEF LoopSame, LoopShaped, LoopFields
  <2> HIDE DEF x
  <2>2. /\ LoopSame(x, s, {"closeChan", "closeErr", "received", "notify", "expired", "probe", "data", "ack"})
        /\ x.received \in Nat /\ x.data = s.data
    BY <1>0, <1>2, <1>3, <1>7, <2>1 DEF LoopSame, LoopFields
  <2>3. LInv(ExitWith(x, "remote"))
    BY <1>0, <2>2, ExitWithKeeps
  <2> QED
    BY <1>7, <2>3 DEF x
<1> QED
  BY Zenon, <1>1, <1>5, <1>6, <1>7 DEF WaitNotify, Step

\* The other channels of the select statement.
LEMMA WaitKeeps ==
  ASSUME LInv(s), WaitClose \/ WaitScheduled \/ WaitAvailable
  PROVE  LInv(s')
<1>0. /\ LoopShaped(s) /\ s.pc = "wait" /\ s.pc \in Resting /\ s.pc \notin Ending /\ s.received \in Nat /\ s.data \in Nat
      /\ (s.received > 0 => s.notify) /\ (s.ack = "alarm" => "ack" \notin s.last)
  BY DEF LInv, LoopTypes, WaitClose, WaitScheduled, WaitAvailable, Resting, Ending, Announced, TimerSet
<1>1. CASE WaitClose
  <2> DEFINE x == [s EXCEPT !.closeChan = FALSE]
  <2>1. LoopSame(x, s, {"closeChan"})
    BY <1>0 DEF LoopSame, LoopShaped, LoopFields
  <2> HIDE DEF x
  <2>2. /\ LoopSame(x, s, {"closeChan", "closeErr", "received", "notify", "expired", "probe", "data", "ack"})
        /\ x.closeErr = s.closeErr /\ x.received = s.received /\ x.data = s.data
    BY <2>1 DEF LoopSame, LoopFields
  <2>3. s.closeErr # "none"
    BY <1>1 DEF WaitClose, LInv, ClosingRight, Signals
  <2>4. LInv(Exit(x))
    BY <1>0, <2>2, <2>3, ExitKeeps
  <2> QED
    BY <1>1, <2>4 DEF WaitClose, Step, x
<1>2. CASE WaitScheduled \/ WaitAvailable
  <2>1. LoopSame(s', s, {"pc", "timer", "scheduled", "available"}) /\ s'.pc = "timers"
    BY Zenon, <1>0, <1>2 DEF WaitScheduled, WaitAvailable, Leave, Step, LoopSame, LoopShaped, LoopFields
  <2>2. /\ LoopSame(s', s, {"pc", "received", "notify", "scheduled", "available", "inflight", "ack", "timer", "last", "confirmed"})
        /\ s'.received = s.received /\ s'.inflight = s.inflight /\ s'.notify = s.notify /\ s'.ack = s.ack
        /\ s'.last = s.last
    BY <2>1 DEF LoopSame, LoopFields
  <2> QED
    BY <1>0, <2>1, <2>2, ReceivingKeeps
<1> QED
  BY <1>1, <1>2

-------------------------------------------------------------------------------
(* The timers *)

LEMMA WaitTimerKeeps ==
  ASSUME LInv(s), NEW k, WaitTimer(k)
  PROVE  LInv(s')
<1>0. LoopShaped(s) /\ s.pc = "wait" /\ s.pc \notin Ending
  BY DEF LInv, WaitTimer, Ending
<1>1. /\ LoopSame(s', s, {"pc", "timer", "expired", "last", "budget"}) /\ s'.pc = "timers" /\ s'.expired = {k}
      /\ s'.last = IF k = "ack" THEN s.last \cup {k} ELSE s.last
  BY Zenon, <1>0 DEF WaitTimer, Step, LoopSame, LoopShaped, LoopFields
<1>2. /\ s'.received = s.received /\ s'.data = s.data /\ s'.inflight = s.inflight /\ s'.q = s.q
      /\ s'.notify = s.notify /\ s'.ack = s.ack
      /\ LoopSame(s', s, {"pc", "received", "notify", "data", "scheduled", "q", "available", "sqa", "pacing",
                          "budget", "inflight", "probe", "ack", "timer", "last", "expired", "confirmed", "sentFirst"})
  BY <1>1 DEF LoopSame, LoopFields
<1>3. s.received \in Nat /\ s.data \in Nat /\ s.inflight \in Nat /\ s.q \in 0..Capacity
  BY DEF LInv, LoopTypes
<1>4. LoopShaped(s') /\ LoopTypes(s') /\ ClosingRight(s') /\ ClosedRight(s') /\ ~s'.panic
  BY <1>0, <1>1, <1>2, <1>3, LoopMoves
<1>5. Roomy(s') /\ Announced(s')
  BY <1>0, <1>1, <1>2, <1>4 DEF LInv, Roomy, Announced, Resting
<1>6. TimerSet(s')
  BY Zenon, <1>0, <1>1, <1>2 DEF LInv, TimerSet
<1> QED
  BY <1>4, <1>5, <1>6 DEF LInv

LEMMA TimersKeep ==
  ASSUME LInv(s), NEW keepAlive, Timers(keepAlive)
  PROVE  LInv(s')
<1>0. /\ LoopShaped(s) /\ s.pc = "timers" /\ s.pc \notin Ending
      /\ s.received \in Nat /\ s.data \in Nat /\ s.inflight \in Nat /\ s.q \in 0..Capacity
  BY DEF LInv, LoopTypes, Timers, Ending
<1>1. PICK t : t = [s EXCEPT !.expired = {}, !.probe = @ \/ "loss" \in s.expired,
                             !.data = IF keepAlive /\ @ < MaxData THEN @ + 1 ELSE @,
                             !.ack = IF "ack" \in s.expired THEN "queued" ELSE @]
  OBVIOUS
<1>2. /\ LoopSame(t, s, {"expired", "probe", "data", "ack"}) /\ t.data \in Nat
      /\ t.ack = IF "ack" \in s.expired THEN "queued" ELSE s.ack
  <2>1. PICK p, d, a : /\ p = (s.probe \/ "loss" \in s.expired)
                       /\ d = IF keepAlive /\ s.data < MaxData THEN s.data + 1 ELSE s.data
                       /\ a = IF "ack" \in s.expired THEN "queued" ELSE s.ack
    OBVIOUS
  <2>2. t = [s EXCEPT !.expired = {}, !.probe = p, !.data = d, !.ack = a]
    BY <1>1, <2>1
  <2>3. d \in Nat
    BY <1>0, <2>1
  <2>4. LoopSame(t, s, {"expired", "probe", "data", "ack"}) /\ t.data = d /\ t.ack = a
    BY Zenon, <1>0, <2>2 DEF LoopSame, LoopShaped, LoopFields
  <2> QED
    BY <2>1, <2>3, <2>4
<1>3. /\ LoopSame(t, s, {"closeChan", "closeErr", "received", "notify", "expired", "probe", "data", "ack"})
      /\ t.received = s.received /\ t.closeErr = s.closeErr
  BY <1>2 DEF LoopSame, LoopFields
<1>4. CASE s' = ExitWith(t, "idleTimeout")
  BY <1>0, <1>2, <1>3, <1>4, ExitWithKeeps
<1>5. CASE s.closeErr # "none" /\ s' = Exit(t)
  BY <1>0, <1>2, <1>3, <1>5, ExitKeeps
<1>6. CASE \/ Full /\ s' = [t EXCEPT !.pc = "top", !.sqa = TRUE, !.pacing = "none"]
           \/ ~Full /\ s' = [t EXCEPT !.pc = "send", !.pacing = "none"]
  <2>1. /\ LoopSame(s', t, {"pc", "sqa", "pacing"}) /\ s'.pacing = "none"
        /\ \/ Full /\ s'.pc = "top" /\ s'.sqa = TRUE
           \/ ~Full /\ s'.pc = "send"
    BY ZenonT(30), <1>2, <1>6 DEF LoopSame, LoopShaped, LoopFields
  <2>2. /\ s'.received = s.received /\ s'.data = t.data /\ s'.inflight = s.inflight /\ s'.q = s.q
        /\ s'.notify = s.notify /\ s'.ack = t.ack /\ s'.last = s.last
        /\ LoopSame(s', s, {"pc", "received", "notify", "data", "scheduled", "q", "available", "sqa", "pacing",
                            "budget", "inflight", "probe", "ack", "timer", "last", "expired", "confirmed", "sentFirst"})
    BY <1>2, <2>1 DEF LoopSame, LoopFields
  <2>3. LoopShaped(s') /\ LoopTypes(s') /\ ClosingRight(s') /\ ClosedRight(s') /\ ~s'.panic
    BY <1>0, <1>2, <2>1, <2>2, LoopMoves DEF Resting
  <2>4. Roomy(s')
    BY <1>0, <2>1, <2>2, <2>3, LoopConstants DEF Roomy, Full, Resting
  <2>5. Announced(s')
    BY <1>0, <2>1, <2>2 DEF LInv, Announced, Resting
  <2>6. TimerSet(s')
    BY <1>0, <1>2, <2>1, <2>2 DEF LInv, TimerSet
  <2> QED
    BY <2>3, <2>4, <2>5, <2>6 DEF LInv
<1> QED
  BY Zenon, <1>1, <1>4, <1>5, <1>6 DEF Timers, Step

-------------------------------------------------------------------------------
(* Sending *)

\* Where there is room, Send queues the packet.
LEMMA SendIs ==
  ASSUME NEW t, LoopShaped(t), t.q \in Nat, t.q < Capacity, NEW u, u = Send(t)
  PROVE  LoopSame(u, t, {"q", "sentFirst", "available"}) /\ u.q = t.q + 1
<1>1. PICK b : b = IF t.q + 1 = Capacity THEN FALSE ELSE t.available
  BY Zenon
<1>2. u = [t EXCEPT !.q = t.q + 1, !.sentFirst = TRUE, !.available = b]
  BY <1>1 DEF Send
<1> QED
  BY Zenon, <1>2 DEF LoopSame, LoopShaped, LoopFields

\* A packet that is sent is in flight, and carries the ACK that is owed.
LEMMA SentPacketIs ==
  ASSUME NEW t, LoopShaped(t), t.q \in Nat, t.q < Capacity, t.inflight \in Nat, NEW u, u = SentPacket(t)
  PROVE  /\ LoopSame(u, t, {"q", "sentFirst", "available", "inflight", "ack", "budget"})
         /\ u.q = t.q + 1 /\ u.inflight \in Nat /\ u.inflight > 0 /\ u.ack = "none"
<1>1. PICK v : v = Send(t)
  OBVIOUS
<1>2. LoopSame(v, t, {"q", "sentFirst", "available"}) /\ v.q = t.q + 1
  BY <1>1, SendIs
<1>3. v.inflight = t.inflight
  BY <1>2 DEF LoopSame, LoopFields
<1>4. /\ LoopSame(u, v, {"inflight", "ack", "budget"}) /\ u.ack = "none"
      /\ u.inflight = IF v.inflight < Window THEN v.inflight + 1 ELSE v.inflight
  BY Zenon, <1>1, <1>2 DEF SentPacket, LoopSame, LoopShaped, LoopFields
<1>5. LoopSame(u, t, {"q", "sentFirst", "available", "inflight", "ack", "budget"}) /\ u.q = v.q
  BY <1>2, <1>4 DEF LoopSame, LoopFields
<1>6. u.inflight \in Nat /\ u.inflight > 0
  BY <1>3, <1>4, LoopConstants
<1> QED
  BY <1>2, <1>4, <1>5, <1>6

\* A round of sending goes on while there is room, and what is left has a reason to wait.
LEMMA SendingKeeps ==
  ASSUME LInv(s), s.pc = "send", NEW u,
         LoopSame(u, s, {"pc", "data", "scheduled", "q", "available", "pacing", "budget", "inflight", "probe", "ack", "sentFirst"}),
         u.pc \in {"send", "sent"}, u.data \in Nat, u.inflight \in Nat, u.q \in 0..Capacity,
         u.ack \in {s.ack, "none"},
         u.pc = "send" => u.q < Capacity,
         u.pc = "sent" /\ u.data > 0 => MayWait(u)
  PROVE  LInv(u)
<1>1. /\ u.received = s.received /\ u.notify = s.notify /\ u.last = s.last
      /\ LoopSame(u, s, {"pc", "received", "notify", "data", "scheduled", "q", "available", "sqa", "pacing",
                         "budget", "inflight", "probe", "ack", "timer", "last", "expired", "confirmed", "sentFirst"})
  BY DEF LoopSame, LoopFields
<1>2. s.pc \notin Ending /\ s.received \in Nat
  BY DEF LInv, LoopTypes, Ending
<1>3. LoopShaped(u) /\ LoopTypes(u) /\ ClosingRight(u) /\ ClosedRight(u) /\ ~u.panic
  BY <1>1, <1>2, LoopMoves
<1>4. Roomy(u) /\ Announced(u)
  BY <1>1, <1>2, <1>3 DEF LInv, Roomy, Announced, Resting
<1>5. TimerSet(u)
  BY <1>1, <1>2 DEF LInv, TimerSet
<1> QED
  BY <1>3, <1>4, <1>5 DEF LInv

LEMMA TriggerSendingKeeps ==
  ASSUME LInv(s), TriggerSending
  PROVE  LInv(s')
<1>0. /\ LoopShaped(s) /\ s.pc = "send" /\ s.pc \notin Ending /\ s.received \in Nat /\ s.data \in Nat
      /\ s.inflight \in Nat /\ s.q \in Nat /\ s.q < Capacity /\ Capacity \in Nat
  BY LoopConstants DEF LInv, LoopTypes, Roomy, TriggerSending, Ending
<1>1. PICK v : v = SentPacket(s)
  OBVIOUS
<1>2. /\ LoopSame(v, s, {"q", "sentFirst", "available", "inflight", "ack", "budget"})
      /\ v.q = s.q + 1 /\ v.inflight \in Nat /\ v.inflight > 0 /\ v.ack = "none"
  BY <1>0, <1>1, SentPacketIs
<1>3. v.pc = "send" /\ v.q \in 0..Capacity /\ v.data = s.data
  BY <1>0, <1>2 DEF LoopSame, LoopFields
\* A packet was sent, and something decided that does not matter here.
<1>4. ASSUME NEW u, LoopSame(u, v, {"pc", "data", "scheduled", "pacing", "probe"}),
             u.pc \in {"send", "sent"}, u.data \in Nat, u.pc = "send" => v.q < Capacity
      PROVE  LInv(u)
  <2>1. /\ LoopSame(u, s, {"pc", "data", "scheduled", "q", "available", "pacing", "budget", "inflight", "probe", "ack", "sentFirst"})
        /\ u.inflight = v.inflight /\ u.q = v.q /\ u.ack = v.ack
    BY <1>2, <1>4 DEF LoopSame, LoopFields
  <2> QED
    BY <1>0, <1>2, <1>3, <1>4, <2>1, SendingKeeps DEF MayWait
<1>5. CASE s' = SendProbe(s)
  <2>1. PICK p : p = [v EXCEPT !.probe = FALSE]
    BY Zenon
  <2>2. LoopSame(p, v, {"probe"})
    BY <1>2, <2>1 DEF LoopSame, LoopShaped, LoopFields
  <2>3. p.q = v.q /\ p.pc = "send" /\ p.data = v.data
    BY <1>3, <2>2 DEF LoopSame, LoopFields
  <2>4. s' = IF p.q = Capacity THEN Return([p EXCEPT !.scheduled = TRUE]) ELSE p
    BY <1>1, <1>5, <2>1 DEF SendProbe
  <2>5. CASE p.q = Capacity
    <3>1. s' = [[p EXCEPT !.scheduled = TRUE] EXCEPT !.pc = "sent"]
      BY <2>4, <2>5 DEF Return
    <3>2. LoopSame(s', p, {"scheduled", "pc"}) /\ s'.pc = "sent"
      BY Zenon, <2>2, <3>1 DEF LoopSame, LoopShaped, LoopFields
    <3>3. LoopSame(s', v, {"pc", "data", "scheduled", "pacing", "probe"}) /\ s'.data = v.data
      BY <2>2, <3>2 DEF LoopSame, LoopFields
    <3> QED
      BY <1>0, <1>3, <1>4, <3>2, <3>3
  <2>6. CASE p.q # Capacity
    <3>1. LoopSame(p, v, {"pc", "data", "scheduled", "pacing", "probe"})
      BY <2>2 DEF LoopSame
    <3>2. v.q < Capacity
      BY <1>0, <1>3, <2>3, <2>6
    <3> QED
      BY <1>0, <1>3, <1>4, <2>3, <2>4, <2>6, <3>1, <3>2
  <2> QED
    BY <2>5, <2>6
\* Nothing but an ACK may be sent now: the window is full, or the pacer says later.
<1>6. ASSUME NEW t, LoopSame(t, s, {"pacing"}), s.inflight > 0 \/ t.pacing = "later", s' = MaybeSendAckOnly(t)
      PROVE  LInv(s')
  <2>1. t.q = s.q /\ t.inflight = s.inflight /\ t.data = s.data /\ t.ack = s.ack /\ LoopShaped(t)
    BY <1>6 DEF LoopSame, LoopFields
  <2>2. PICK w : w = IF t.ack # "queued" THEN t ELSE [Send(t) EXCEPT !.ack = "none"]
    BY Zenon
  <2>3. LoopSame(w, t, {"q", "sentFirst", "available", "ack"}) /\ w.q \in 0..Capacity /\ w.ack \in {s.ack, "none"}
    <3>1. CASE t.ack # "queued"
      BY <1>0, <2>1, <2>2, <3>1 DEF LoopSame
    <3>2. CASE t.ack = "queued"
      <4>1. PICK x : x = Send(t)
        OBVIOUS
      <4>2. LoopSame(x, t, {"q", "sentFirst", "available"}) /\ x.q = t.q + 1
        BY <1>0, <2>1, <4>1, SendIs
      <4>3. w = [x EXCEPT !.ack = "none"]
        BY <2>2, <3>2, <4>1
      <4>4. LoopSame(w, x, {"ack"}) /\ w.ack = "none"
        BY <4>2, <4>3 DEF LoopSame, LoopShaped, LoopFields
      <4>5. LoopSame(w, t, {"q", "sentFirst", "available", "ack"}) /\ w.q = x.q
        BY <4>2, <4>4 DEF LoopSame, LoopFields
      <4> QED
        BY <1>0, <2>1, <4>2, <4>4, <4>5
    <3> QED
      BY <3>1, <3>2
  <2>4. s' = [w EXCEPT !.pc = "sent"]
    BY <1>6, <2>2 DEF MaybeSendAckOnly, Return
  <2>5. LoopSame(s', w, {"pc"}) /\ s'.pc = "sent"
    BY <2>3, <2>4 DEF LoopSame, LoopShaped, LoopFields
  <2>6. /\ LoopSame(s', s, {"pc", "data", "scheduled", "q", "available", "pacing", "budget", "inflight", "probe", "ack", "sentFirst"})
        /\ s'.data = s.data /\ s'.inflight = s.inflight /\ s'.q = w.q /\ s'.ack = w.ack /\ s'.pacing = t.pacing
    BY <1>6, <2>3, <2>5 DEF LoopSame, LoopFields
  <2> QED
    BY <1>0, <1>6, <2>3, <2>5, <2>6, SendingKeeps DEF MayWait
<1>7. CASE SendMode(s) = "ack" /\ s' = MaybeSendAckOnly(s)
  <2>1. s.inflight > 0
    BY <1>0, <1>7, LoopConstants DEF SendMode
  <2>2. LoopSame(s, s, {"pacing"})
    BY <1>0 DEF LoopSame
  <2> QED
    BY <1>6, <1>7, <2>1, <2>2
<1>8. CASE s' = MaybeSendAckOnly([s EXCEPT !.pacing = "later"])
  <2>1. PICK t : t = [s EXCEPT !.pacing = "later"]
    BY Zenon
  <2>2. LoopSame(t, s, {"pacing"}) /\ t.pacing = "later"
    BY <1>0, <2>1 DEF LoopSame, LoopShaped, LoopFields
  <2> QED
    BY Zenon, <1>6, <1>8, <2>1, <2>2
<1>9. CASE SendPackets(s)
  <2>1. CASE s' = Return([SentPacket(s) EXCEPT !.scheduled = TRUE])
    <3>1. s' = [[v EXCEPT !.scheduled = TRUE] EXCEPT !.pc = "sent"]
      BY <1>1, <2>1 DEF Return
    <3>2. LoopSame(s', v, {"scheduled", "pc"}) /\ s'.pc = "sent"
      BY Zenon, <1>2, <3>1 DEF LoopSame, LoopShaped, LoopFields
    <3>3. LoopSame(s', v, {"pc", "data", "scheduled", "pacing", "probe"}) /\ s'.data = v.data
      BY <3>2 DEF LoopSame, LoopFields
    <3> QED
      BY <1>0, <1>3, <1>4, <3>2, <3>3
  <2>2. CASE s.data = 0 /\ s' = Return(s)
    <3>1. s' = [s EXCEPT !.pc = "sent"]
      BY <2>2 DEF Return
    <3>2. LoopSame(s', s, {"pc"}) /\ s'.pc = "sent"
      BY <1>0, <3>1 DEF LoopSame, LoopShaped, LoopFields
    <3>3. /\ LoopSame(s', s, {"pc", "data", "scheduled", "q", "available", "pacing", "budget", "inflight", "probe", "ack", "sentFirst"})
          /\ s'.data = s.data /\ s'.inflight = s.inflight /\ s'.q = s.q /\ s'.ack = s.ack
      BY <3>2 DEF LoopSame, LoopFields
    <3> QED
      BY <1>0, <2>2, <3>2, <3>3, SendingKeeps
  <2>3. ASSUME NEW num \in {1, 2}, s' = SendShortHeader(s, num)
        PROVE  LInv(s')
    <3>1. PICK d \in Nat : d = IF v.data > num THEN v.data - num ELSE 0
      BY <1>0, <1>3, <2>3
    <3>2. PICK p : p = [v EXCEPT !.data = d]
      BY Zenon
    <3>3. LoopSame(p, v, {"data"}) /\ p.data = d
      BY <1>2, <3>2 DEF LoopSame, LoopShaped, LoopFields
    <3>4. p.q = v.q /\ p.pc = "send"
      BY <1>3, <3>3 DEF LoopSame, LoopFields
    <3>5. [SentPacket(s) EXCEPT !.data = IF @ > num THEN @ - num ELSE 0] = p
      BY <1>1, <3>1, <3>2
    <3>6. (s' = p /\ p.q # Capacity) \/ (\E c : s' = Return([p EXCEPT !.pacing = c])) \/ s' = Return(p)
      BY Zenon, <2>3, <3>5 DEF SendShortHeader
    <3>7. CASE s' = p /\ p.q # Capacity
      <4>1. LoopSame(p, v, {"pc", "data", "scheduled", "pacing", "probe"})
        BY <3>3 DEF LoopSame
      <4>2. v.q < Capacity
        BY <1>0, <1>3, <3>4, <3>7
      <4> QED
        BY <1>4, <3>3, <3>4, <3>7, <4>1, <4>2
    <3>8. ASSUME NEW x, LoopSame(x, p, {"pacing"}), s' = Return(x)
          PROVE  LInv(s')
      <4>1. LoopSame(s', x, {"pc"}) /\ s'.pc = "sent"
        BY <3>8 DEF Return, LoopSame, LoopShaped, LoopFields
      <4>2. LoopSame(s', v, {"pc", "data", "scheduled", "pacing", "probe"}) /\ s'.data = p.data
        BY <3>3, <3>8, <4>1 DEF LoopSame, LoopFields
      <4> QED
        BY <1>4, <3>3, <4>1, <4>2
    <3>9. \A c : LoopSame([p EXCEPT !.pacing = c], p, {"pacing"}) /\ LoopSame(p, p, {"pacing"})
      BY <3>3 DEF LoopSame, LoopShaped, LoopFields
    <3> QED
      BY Zenon, <3>6, <3>7, <3>8, <3>9
  <2>4. CASE s' = SendCoalesced(s)
    <3>1. PICK d \in Nat : d = IF v.data > 0 THEN v.data - 1 ELSE 0
      BY <1>0, <1>3
    <3>2. PICK p : p = [v EXCEPT !.data = d]
      BY Zenon
    <3>3. LoopSame(p, v, {"data"}) /\ p.data = d
      BY <1>2, <3>2 DEF LoopSame, LoopShaped, LoopFields
    <3>4. [SentPacket(s) EXCEPT !.data = IF @ > 0 THEN @ - 1 ELSE 0] = p
      BY <1>1, <3>1, <3>2
    <3>5. \E c : s' = Return([p EXCEPT !.pacing = c])
      BY Zenon, <2>4, <3>4 DEF SendCoalesced
    <3>6. PICK c : s' = [[p EXCEPT !.pacing = c] EXCEPT !.pc = "sent"]
      BY Zenon, <3>5 DEF Return
    <3>7. LoopSame(s', p, {"pacing", "pc"}) /\ s'.pc = "sent"
      BY Zenon, <3>3, <3>6 DEF LoopSame, LoopShaped, LoopFields
    <3>8. LoopSame(s', v, {"pc", "data", "scheduled", "pacing", "probe"}) /\ s'.data = p.data
      BY <3>3, <3>7 DEF LoopSame, LoopFields
    <3> QED
      BY <1>4, <3>3, <3>7, <3>8
  <2> QED
    BY <1>9, <2>1, <2>2, <2>3, <2>4 DEF SendPackets, Step
<1>10. CASE s' = ExitWith(s, "internal")
  <2>1. LoopSame(s, s, {"closeChan", "closeErr", "received", "notify", "expired", "probe", "data", "ack"})
    BY <1>0 DEF LoopSame
  <2> QED
    BY <1>0, <1>10, <2>1, ExitWithKeeps
<1> QED
  BY <1>5, <1>7, <1>8, <1>9, <1>10 DEF TriggerSending, Step

LEMMA EndOfRoundKeeps ==
  ASSUME LInv(s), EndOfRound
  PROVE  LInv(s')
<1>0. /\ LoopShaped(s) /\ s.pc = "sent" /\ s.pc \notin Ending /\ s.received \in Nat /\ s.data \in Nat
      /\ s.inflight \in Nat /\ s.q \in 0..Capacity
  BY DEF LInv, LoopTypes, EndOfRound, Ending
<1>1. /\ LoopSame(s', s, {"pc", "sqa", "pacing"}) /\ s'.pc = "top"
      /\ Full => s'.sqa /\ s'.pacing = "none"
      /\ ~Full => ~s'.sqa /\ s'.pacing = s.pacing
  <2>1. CASE Full
    <3>1. s' = [s EXCEPT !.pc = "top", !.sqa = TRUE, !.pacing = "none"]
      BY <2>1 DEF EndOfRound, Step
    <3> QED
      BY Zenon, <1>0, <2>1, <3>1 DEF LoopSame, LoopShaped, LoopFields
  <2>2. CASE ~Full
    <3>1. PICK full : full = Full
      OBVIOUS
    <3>2. s' = [s EXCEPT !.pc = "top", !.sqa = full, !.pacing = s.pacing]
      BY <2>2, <3>1 DEF EndOfRound, Step
    <3>3. LoopSame(s', s, {"pc", "sqa", "pacing"}) /\ s'.pc = "top" /\ s'.sqa = full /\ s'.pacing = s.pacing
      BY Zenon, <1>0, <3>2 DEF LoopSame, LoopShaped, LoopFields
    <3> QED
      BY <2>2, <3>1, <3>3
  <2> QED
    BY <2>1, <2>2
<1>2. /\ s'.received = s.received /\ s'.data = s.data /\ s'.inflight = s.inflight /\ s'.q = s.q
      /\ s'.notify = s.notify /\ s'.ack = s.ack /\ s'.last = s.last /\ s'.scheduled = s.scheduled
      /\ LoopSame(s', s, {"pc", "received", "notify", "data", "scheduled", "q", "available", "sqa", "pacing",
                          "budget", "inflight", "probe", "ack", "timer", "last", "expired", "confirmed", "sentFirst"})
  BY <1>1 DEF LoopSame, LoopFields
<1>3. LoopShaped(s') /\ LoopTypes(s') /\ ClosingRight(s') /\ ClosedRight(s') /\ ~s'.panic
  BY <1>0, <1>1, <1>2, LoopMoves DEF Resting
<1>4. Roomy(s')
  BY <1>0, <1>1, <1>2, <1>3, LoopConstants DEF Roomy, Full
<1>5. Announced(s')
  BY <1>0, <1>1, <1>2 DEF LInv, Announced, MayWait, Resting
<1>6. TimerSet(s')
  BY <1>0, <1>1, <1>2 DEF LInv, TimerSet
<1> QED
  BY <1>3, <1>4, <1>5, <1>6 DEF LInv

-------------------------------------------------------------------------------
(* The theorems *)

LEMMA LoopStarts ==
  ASSUME LoopInit
  PROVE  LInv(s)
<1>1. LoopShaped(s)
  BY DEF LoopInit, LoopShaped, LoopFields
<1>2. LoopTypes(s) /\ Roomy(s) /\ TimerSet(s)
  BY SMTT(30), LoopConstants DEF LoopInit, LoopTypes, Roomy, TimerSet, Resting, Ending
<1>3. Announced(s)
  BY SMTT(30), LoopConstants DEF LoopInit, Announced, MayWait, Resting, Ending
<1>4. ClosingRight(s) /\ ClosedRight(s)
  BY SMTT(30) DEF LoopInit, ClosingRight, ClosedRight, Signals, Answers, Resting, Ending
<1> QED
  BY <1>1, <1>2, <1>3, <1>4 DEF LInv

\* The invariant of the run loop: every step of the loop, of the sender, of the goroutines
\* that deliver, write and close keeps it.
THEOREM LoopInvariant == LoopSpec => []LInv(s)
<1>1. LoopInit => LInv(s)
  BY LoopStarts
<1>2. LInv(s) /\ [LoopNext]_loopVars => LInv(s)'
  <2> SUFFICES ASSUME LInv(s), [LoopNext]_loopVars PROVE LInv(s')
    OBVIOUS
  <2>1. CASE Loop
    BY <2>1, TopKeeps, PacketsKeep, WaitKeeps, WaitNotifyKeeps, WaitTimerKeeps, TimersKeep, TriggerSendingKeeps,
       EndOfRoundKeeps, CloseSendQueueKeeps, HandleCloseErrorKeeps DEF Loop
  <2>2. CASE Sender
    BY <2>2, SenderKeeps
  <2>3. CASE HandlePacket \/ WriteData
    BY <2>3, ArrivalsKeep
  <2>4. CASE \E x \in Closers : (\E e \in {"local", "destroy"} : SetError(x, e)) \/ SignalClose(x) \/ CloserReturns(x)
    BY <2>4, ClosersKeep
  <2>5. CASE PacketAfterClose \/ DeleteRetired
    BY <2>5, AfterCloseKeeps
  <2>6. CASE UNCHANGED loopVars
    BY <2>6 DEF loopVars
  <2> QED
    BY <2>1, <2>2, <2>3, <2>4, <2>5, <2>6 DEF LoopNext
<1> QED
  BY <1>1, <1>2, PTL DEF LoopSpec

\* Whenever the run loop sleeps, everything it should react to will wake it, and it never
\* overfills the send queue, for every capacity and window, and however its goroutines and
\* those of the application and the network interleave.
THEOREM LoopAlwaysWakes == LoopSpec => []NoLostWakeUp
<1>1. LInv(s) => NoLostWakeUp
  <2> SUFFICES ASSUME LInv(s) PROVE NoLostWakeUp
    OBVIOUS
  <2>1. ~s.panic
    BY DEF LInv, Roomy
  <2>2. ASSUME s.pc = "wait"
        PROVE  /\ s.received > 0 => s.notify
               /\ s.data > 0 => s.scheduled \/ "pacing" \in s.timer \/ "loss" \in s.timer \/ s.sqa
               /\ s.ack = "alarm" => "ack" \in s.timer \/ s.sqa
               /\ "idle" \in s.timer
    BY Zenon, <2>2 DEF LInv, Announced, TimerSet, MayWait, Resting, Ending
  <2>3. s.pc = "wait" /\ s.sqa => s.q > 0 \/ s.available \/ s.sender # "idle"
    BY DEF LInv, Roomy, Resting
  <2>4. s.pc = "wait" /\ s.closeErr # "none" => s.closeChan \/ \E x \in Closers : s.closer[x] = "signal"
    BY DEF LInv, ClosingRight, Signals, Ending
  <2>5. WakesUp
    BY <2>2, <2>3, <2>4 DEF WakesUp
  <2> QED
    BY <2>1, <2>5 DEF NoLostWakeUp, SendNeverPanics
<1> QED
  BY <1>1, LoopInvariant, PTL

\* A closed connection leaves nothing behind: its streams are closed, its connection IDs
\* lead elsewhere, and the CONNECTION_CLOSE follows every packet that was queued.
THEOREM LoopClosesCleanly == LoopSpec => []ClosedCleanly
<1>1. LInv(s) => ClosedCleanly
  <2> SUFFICES ASSUME LInv(s), s.pc = "done" PROVE ClosedCleanly
    BY DEF ClosedCleanly
  <2>1. s.closeErr # "none" /\ (s.sender = "stopped" => s.q = 0)
    BY DEF LInv, ClosingRight, Ending
  <2>2. s.answers <= 1 + (IF s.late >= 8 THEN 3 ELSE IF s.late >= 4 THEN 2 ELSE IF s.late >= 2 THEN 1 ELSE 0)
    BY DEF LInv, LoopTypes, ClosedRight, Answers
  <2> QED
    BY <2>1, <2>2 DEF LInv, ClosedRight, ClosedCleanly
<1> QED
  BY <1>1, LoopInvariant, PTL

-----------------------------------------------------------------------------
(* One request (H3Request): reqDone is closed once, nothing is left open.  *)

RequestFields == {"zeroRTT", "extended", "hasBody", "complete", "settings", "conn", "ctxDone", "main", "watcher", "sender",
                  "body", "closes", "num1xx", "cause", "str", "peer", "server"}

RequestShape(t) ==
    /\ DOMAIN t = RequestFields
    /\ t.closes \in Nat
    /\ DOMAIN t.str = {"send", "recv"} /\ DOMAIN t.peer = {"send", "recv"}

\* All fields but those in S are the same in u and t.
RequestKept(u, t, S) == \A f \in RequestFields \ S : u[f] = t[f]

\* Where roundTrip is says whether the channel was closed and whether there is a body.
MainAndBody(t) ==
    /\ t.main \in {"handshake", "settings", "open", "header", "read", "error", "joining", "failed", "returned"}
    /\ t.main \in {"handshake", "settings", "open", "header", "read", "error"} => t.closes = 0
    /\ t.main \in {"joining", "failed"} => t.closes <= 1
    /\ t.main = "returned" => t.body \in {"open", "done", "closed"} /\ t.closes = IF t.body = "open" THEN 0 ELSE 1
    /\ t.main # "returned" => t.body = "none"
    /\ t.main \in {"handshake", "settings", "open"} => t.watcher = "none"
    /\ t.main = "failed" => t.watcher # "run"

\* From the request header on the write side is closed, or the goroutine of the body will do it.
SendSideCared(t) ==
    /\ t.main \in {"handshake", "settings", "open", "header"} => t.sender = "none"
    /\ t.main \in {"handshake", "settings", "open", "header", "read", "returned"} => t.cause = "none"
    /\ t.main \in {"read", "returned"} \/ t.cause = "response" => t.sender # "none" \/ t.str.send # "open"
    /\ t.sender \in {"none", "run", "done"}
    /\ t.sender = "done" => t.str.send # "open"

\* What ends the reading cancels the read side or closes the connection.
ReceiveSideCared(t) ==
    /\ t.body = "closed" => t.str.recv # "open"
    /\ t.cause = "response" => t.str.recv # "open" \/ t.conn # "open"
    /\ t.server = "done" => t.conn # "open" \/ (t.peer.send # "open" /\ t.peer.recv # "open")

RequestInv(t) == RequestShape(t) /\ MainAndBody(t) /\ SendSideCared(t) /\ ReceiveSideCared(t)

LEMMA RequestInitInv == RequestInit => RequestInv(q)
  BY DEF RequestInit, Idle, RequestInv, RequestShape, RequestFields, MainAndBody, SendSideCared, ReceiveSideCared

\* A cancelled side is not open, and nothing else changes.
LEMMA CancelBothFields ==
  ASSUME NEW t, RequestShape(t)
  PROVE  LET u == CancelBoth(t)
         IN  /\ RequestShape(u) /\ u.str.send # "open" /\ u.str.recv # "open"
             /\ RequestKept(u, t, {"str"})
  BY DEF CancelBoth, CancelRead, CancelWrite, RequestShape, RequestKept, RequestFields

LEMMA CancelReadFields ==
  ASSUME NEW t, RequestShape(t)
  PROVE  LET u == CancelRead(t)
         IN  /\ RequestShape(u) /\ u.str.send = t.str.send /\ u.str.recv # "open"
             /\ RequestKept(u, t, {"str"})
  BY DEF CancelRead, RequestShape, RequestKept, RequestFields

LEMMA CancelWriteFields ==
  ASSUME NEW t, RequestShape(t)
  PROVE  LET u == CancelWrite(t)
         IN  RequestShape(u) /\ u.str.recv = t.str.recv /\ u.str.send # "open" /\ RequestKept(u, t, {"str"})
  BY DEF CancelWrite, RequestShape, RequestKept, RequestFields

LEMMA CloseSendFields ==
  ASSUME NEW t, RequestShape(t)
  PROVE  LET u == CloseSend(t)
         IN  RequestShape(u) /\ u.str.recv = t.str.recv /\ u.str.send # "open" /\ RequestKept(u, t, {"str"})
  BY DEF CloseSend, RequestShape, RequestKept, RequestFields

LEMMA PeerCancelFields ==
  ASSUME NEW t, RequestShape(t)
  PROVE  LET u == PeerCancelBoth(t)
         IN  RequestShape(u) /\ u.peer.recv # "open" /\ u.peer.send # "open" /\ RequestKept(u, t, {"peer"})
  BY DEF PeerCancelBoth, RequestShape, RequestKept, RequestFields

LEMMA RequestDoneFields ==
  ASSUME NEW t, RequestShape(t)
  PROVE  LET u == RequestDone(t)
         IN  /\ RequestShape(u) /\ RequestKept(u, t, {"body", "closes"})
             /\ u.body = IF t.body = "open" THEN "done" ELSE t.body
             /\ u.closes = IF t.body = "open" THEN t.closes + 1 ELSE t.closes
<1> DEFINE u == RequestDone(t)
<1> USE DEF RequestDone, RequestShape, RequestKept, RequestFields
<1>1. RequestShape(u) /\ RequestKept(u, t, {"body", "closes"})
  <2>1. CASE t.body = "open"
    <3>1. RequestShape(u)
      BY <2>1
    <3>2. RequestKept(u, t, {"body", "closes"})
      BY Zenon, <2>1
    <3> QED
      BY <3>1, <3>2
  <2>2. CASE t.body # "open"
    BY <2>2
  <2> QED
    BY <2>1, <2>2
<1>2. /\ u.body = IF t.body = "open" THEN "done" ELSE t.body
      /\ u.closes = IF t.body = "open" THEN t.closes + 1 ELSE t.closes
  OBVIOUS
<1> QED
  BY <1>1, <1>2

LEMMA ReadResponseInv == RequestInv(q) /\ ReadResponse => RequestInv(q)'
<1> SUFFICES ASSUME RequestInv(q), ReadResponse PROVE RequestInv(q)'
  OBVIOUS
<1> DEFINE e == [q EXCEPT !.main = "error", !.cause = "response"]
<1>0. RequestShape(q) /\ q.main = "read"
  BY DEF RequestInv, ReadResponse
<1>1. RequestShape(e) /\ RequestKept(e, q, {"main", "cause"}) /\ e.main = "error" /\ e.cause = "response"
  BY Zenon, <1>0 DEF RequestShape, RequestKept, RequestFields
<1>2. \/ q' = CancelBoth(e) \/ q' = CloseConn(e)
      \/ q' = [q EXCEPT !.main = "error", !.cause = "limit", !.num1xx = @ + 1]
      \/ q' = [q EXCEPT !.num1xx = @ + 1]
      \/ q' = [q EXCEPT !.main = "returned", !.body = "open"]
  BY DEF ReadResponse
<1> HIDE DEF e
<1>3. RequestShape(q)' /\ RequestKept(q', q, {"main", "cause", "str", "body", "num1xx", "conn"})
  <2>1. CASE q' = CancelBoth(e)
    BY <1>1, <2>1, CancelBothFields DEF RequestKept, RequestFields
  <2>2. CASE q' = CloseConn(e)
    BY <1>1, <2>2 DEF CloseConn, RequestShape, RequestKept, RequestFields
  <2>3. CASE q' # CancelBoth(e) /\ q' # CloseConn(e)
    BY Zenon, <1>0, <1>2, <2>3 DEF RequestShape, RequestKept, RequestFields
  <2> QED
    BY <2>1, <2>2, <2>3
<1>4. \/ /\ q'.main = "error" /\ q'.body = q.body /\ q'.cause = "response" /\ q'.str.send # "open" /\ q'.str.recv # "open"
         /\ q'.conn = q.conn
      \/ /\ q'.main = "error" /\ q'.body = q.body /\ q'.cause = "response" /\ q'.str = q.str /\ q'.conn = "closed"
      \/ /\ q'.main = "error" /\ q'.body = q.body /\ q'.cause = "limit" /\ q'.str = q.str /\ q'.conn = q.conn
      \/ /\ q'.main = q.main /\ q'.body = q.body /\ q'.cause = q.cause /\ q'.str = q.str /\ q'.conn = q.conn
      \/ /\ q'.main = "returned" /\ q'.body = "open" /\ q'.cause = q.cause /\ q'.str = q.str /\ q'.conn = q.conn
  <2>1. CASE q' = CancelBoth(e)
    BY <1>1, <2>1, CancelBothFields DEF RequestKept, RequestFields
  <2>2. CASE q' = CloseConn(e)
    BY <1>1, <2>2 DEF CloseConn, RequestShape, RequestKept, RequestFields
  <2>3. CASE q' # CancelBoth(e) /\ q' # CloseConn(e)
    BY Zenon, <1>0, <1>2, <2>3 DEF RequestShape, RequestFields
  <2> QED
    BY <2>1, <2>2, <2>3
<1>5. MainAndBody(q)'
  BY <1>0, <1>3, <1>4 DEF RequestInv, MainAndBody, RequestKept, RequestFields
<1>6. SendSideCared(q)'
  BY <1>0, <1>3, <1>4 DEF RequestInv, SendSideCared, RequestKept, RequestFields
<1>7. ReceiveSideCared(q)'
  BY <1>0, <1>3, <1>4 DEF RequestInv, ReceiveSideCared, SendSideCared, RequestKept, RequestFields
<1> QED
  BY <1>3, <1>5, <1>6, <1>7 DEF RequestInv

LEMMA UseBodyInv == RequestInv(q) /\ UseBody => RequestInv(q)'
<1> SUFFICES ASSUME RequestInv(q), UseBody PROVE RequestInv(q)'
  OBVIOUS
<1> DEFINE f == [q EXCEPT !.str.recv = "fin"]
<1>0. RequestShape(q) /\ q.body \in {"open", "done"}
  BY DEF RequestInv, UseBody
<1>1. RequestShape(f) /\ RequestKept(f, q, {"str"}) /\ f.str.send = q.str.send /\ f.str.recv = "fin"
  BY <1>0 DEF RequestShape, RequestKept, RequestFields
<1> HIDE DEF f
<1>2. PICK t : /\ RequestShape(t) /\ RequestKept(t, q, {"str"})
               /\ t.str.send = q.str.send \/ t.str.send # "open"
               /\ t.str.recv = q.str.recv \/ t.str.recv # "open"
               /\ \/ q' = RequestDone(t)
                  \/ t = q /\ q' = [CancelRead(RequestDone(q)) EXCEPT !.body = "closed"]
  <2>1. RequestShape(q) /\ RequestKept(q, q, {"str"})
    BY <1>0 DEF RequestKept
  <2>2. LET u == CancelBoth(q)
        IN  RequestShape(u) /\ RequestKept(u, q, {"str"}) /\ u.str.send # "open" /\ u.str.recv # "open"
    BY <1>0, CancelBothFields DEF RequestKept
  <2>3. \/ q' = RequestDone(f) \/ q' = RequestDone(CancelBoth(q)) \/ q' = RequestDone(q)
        \/ q' = [CancelRead(RequestDone(q)) EXCEPT !.body = "closed"]
    BY DEF UseBody, f
  <2> QED
    BY <1>1, <2>1, <2>2, <2>3
<1> DEFINE d == RequestDone(t)
           r == CancelRead(d)
<1>3. /\ RequestShape(d) /\ RequestKept(d, t, {"body", "closes"})
      /\ d.body = IF t.body = "open" THEN "done" ELSE t.body
      /\ d.closes = IF t.body = "open" THEN t.closes + 1 ELSE t.closes
  BY <1>2, RequestDoneFields
<1> HIDE DEF d
<1>4. RequestShape(r) /\ RequestKept(r, d, {"str"}) /\ r.str.send = d.str.send /\ r.str.recv # "open"
  BY <1>3, CancelReadFields
<1> HIDE DEF r
<1>5. q' = d \/ q' = [r EXCEPT !.body = "closed"]
  BY <1>2 DEF d, r
<1>6. /\ RequestShape(q)' /\ RequestKept(q', q, {"str", "body", "closes"})
      /\ q'.closes = IF q.body = "open" THEN q.closes + 1 ELSE q.closes
      /\ q'.str.send = q.str.send \/ q'.str.send # "open"
      /\ q'.str.recv = q.str.recv \/ q'.str.recv # "open"
      /\ q'.body = "done" \/ (q'.body = "closed" /\ q'.str.recv # "open")
  <2>1. CASE q' = d
    BY <1>0, <1>2, <1>3, <2>1 DEF RequestKept, RequestFields
  <2>2. CASE q' = [r EXCEPT !.body = "closed"]
    BY <1>0, <1>2, <1>3, <1>4, <2>2 DEF RequestShape, RequestKept, RequestFields
  <2> QED
    BY <1>5, <2>1, <2>2
<1>7. q.main = "returned"
  BY <1>0 DEF RequestInv, MainAndBody
<1>8. MainAndBody(q)'
  BY <1>0, <1>6, <1>7 DEF RequestInv, MainAndBody, RequestKept, RequestFields
<1>9. SendSideCared(q)'
  BY <1>6 DEF RequestInv, SendSideCared, RequestKept, RequestFields
<1>10. ReceiveSideCared(q)'
  BY <1>6 DEF RequestInv, ReceiveSideCared, RequestKept, RequestFields
<1> QED
  BY <1>6, <1>8, <1>9, <1>10 DEF RequestInv

LEMMA SendRequestHeaderInv == RequestInv(q) /\ SendRequestHeader => RequestInv(q)'
<1> SUFFICES ASSUME RequestInv(q), SendRequestHeader PROVE RequestInv(q)'
  OBVIOUS
<1> DEFINE h == [q EXCEPT !.main = "read", !.server = "headers"]
           b == [q EXCEPT !.main = "read", !.sender = "run", !.server = "headers"]
           e == [q EXCEPT !.main = "error", !.cause = "request"]
<1>0. RequestShape(q) /\ q.main = "header"
  BY DEF RequestInv, SendRequestHeader
<1>1. RequestShape(h) /\ RequestKept(h, q, {"main", "server"}) /\ h.main = "read" /\ h.server = "headers"
  BY Zenon, <1>0 DEF RequestShape, RequestKept, RequestFields
<1>2. RequestShape(b) /\ RequestKept(b, q, {"main", "sender", "server"}) /\ b.main = "read" /\ b.sender = "run" /\ b.server = "headers"
  BY Zenon, <1>0 DEF RequestShape, RequestKept, RequestFields
<1>3. RequestShape(e) /\ RequestKept(e, q, {"main", "cause"}) /\ e.main = "error" /\ e.cause = "request"
  BY Zenon, <1>0 DEF RequestShape, RequestKept, RequestFields
<1>4. q' = e \/ q' = b \/ q' = CloseSend(h)
  BY DEF SendRequestHeader
<1> HIDE DEF h, b, e
<1>5. LET u == CloseSend(h)
      IN  RequestShape(u) /\ u.str.recv = h.str.recv /\ u.str.send # "open" /\ RequestKept(u, h, {"str"})
  BY <1>1, CloseSendFields
<1>6. /\ RequestShape(q)' /\ RequestKept(q', q, {"main", "cause", "sender", "server", "str"})
      /\ q'.str.recv = q.str.recv
      /\ \/ q'.main = "error" /\ q'.cause = "request" /\ q'.sender = q.sender /\ q'.server = q.server
         \/ /\ q'.main = "read" /\ q'.cause = q.cause /\ q'.server = "headers"
            /\ q'.sender = "run" \/ (q'.sender = q.sender /\ q'.str.send # "open")
  BY <1>1, <1>2, <1>3, <1>4, <1>5 DEF RequestKept, RequestFields
<1>7. MainAndBody(q)'
  BY <1>0, <1>6 DEF RequestInv, MainAndBody, RequestKept, RequestFields
<1>8. SendSideCared(q)'
  BY <1>0, <1>6 DEF RequestInv, SendSideCared, RequestKept, RequestFields
<1>9. ReceiveSideCared(q)'
  BY <1>0, <1>6 DEF RequestInv, ReceiveSideCared, SendSideCared, RequestKept, RequestFields
<1> QED
  BY <1>6, <1>7, <1>8, <1>9 DEF RequestInv

LEMMA SendRequestBodyInv == RequestInv(q) /\ SendRequestBody => RequestInv(q)'
<1> SUFFICES ASSUME RequestInv(q), SendRequestBody PROVE RequestInv(q)'
  OBVIOUS
<1> DEFINE d == [q EXCEPT !.sender = "done"]
           w == CancelWrite(d)
<1>1. q.sender = "run" /\ (q' = CloseSend(d) \/ q' = CloseSend(w))
  BY DEF SendRequestBody
<1>2. RequestShape(d) /\ RequestKept(d, q, {"sender"}) /\ d.sender = "done"
  BY DEF RequestInv, RequestShape, RequestKept, RequestFields
<1> HIDE DEF d
<1>3. RequestShape(w) /\ w.str.recv = d.str.recv /\ RequestKept(w, d, {"str"})
  BY <1>2, CancelWriteFields
<1> HIDE DEF w
<1>4. /\ RequestShape(q)' /\ RequestKept(q', q, {"sender", "str"})
      /\ q'.sender = "done" /\ q'.str.send # "open" /\ q'.str.recv = q.str.recv
  BY <1>1, <1>2, <1>3, CloseSendFields DEF RequestKept, RequestFields
<1>5. MainAndBody(q)'
  BY <1>4 DEF RequestInv, MainAndBody, RequestKept, RequestFields
<1>6. SendSideCared(q)'
  BY <1>1, <1>4 DEF RequestInv, SendSideCared, RequestKept, RequestFields
<1>7. ReceiveSideCared(q)'
  BY <1>4 DEF RequestInv, ReceiveSideCared, RequestKept, RequestFields
<1> QED
  BY <1>4, <1>5, <1>6, <1>7 DEF RequestInv

LEMMA WatchInv == RequestInv(q) /\ Watch => RequestInv(q)'
<1> SUFFICES ASSUME RequestInv(q), Watch PROVE RequestInv(q)'
  OBVIOUS
<1> DEFINE d == [q EXCEPT !.watcher = "done"]
<1>1. q.watcher = "run" /\ (q' = CancelBoth(d) \/ q' = d)
  BY DEF Watch
<1>2. RequestShape(d) /\ RequestKept(d, q, {"watcher"}) /\ d.watcher = "done"
  BY DEF RequestInv, RequestShape, RequestKept, RequestFields
<1> HIDE DEF d
<1>3. /\ RequestShape(q)' /\ RequestKept(q', q, {"watcher", "str"}) /\ q'.watcher = "done"
      /\ q'.str = q.str \/ (q'.str.send # "open" /\ q'.str.recv # "open")
  BY <1>1, <1>2, CancelBothFields DEF RequestKept, RequestFields
<1>4. MainAndBody(q)'
  BY <1>1, <1>3 DEF RequestInv, MainAndBody, RequestKept, RequestFields
<1>5. SendSideCared(q)'
  BY <1>3 DEF RequestInv, SendSideCared, RequestKept, RequestFields
<1>6. ReceiveSideCared(q)'
  BY <1>3 DEF RequestInv, ReceiveSideCared, RequestKept, RequestFields
<1> QED
  BY <1>3, <1>4, <1>5, <1>6 DEF RequestInv

LEMMA RoundTripFailsInv == RequestInv(q) /\ RoundTripFails => RequestInv(q)'
<1> SUFFICES ASSUME RequestInv(q), RoundTripFails PROVE RequestInv(q)'
  OBVIOUS
<1>0. RequestShape(q)
  BY DEF RequestInv
<1>1. /\ RequestShape(q)' /\ RequestKept(q', q, {"main", "closes"})
      /\ \/ q.main = "error" /\ q'.main = "joining" /\ q'.closes = q.closes + 1
         \/ q.main = "joining" /\ q.watcher = "done" /\ q'.main = "failed" /\ q'.closes = q.closes
  <2>1. CASE q.main = "error" /\ q' = [q EXCEPT !.main = "joining", !.closes = @ + 1]
    <3>1. q'.main = "joining" /\ q'.closes = q.closes + 1 /\ RequestShape(q)'
      BY <1>0, <2>1 DEF RequestShape, RequestFields
    <3>2. RequestKept(q', q, {"main", "closes"})
      BY Zenon, <1>0, <2>1 DEF RequestShape, RequestKept, RequestFields
    <3> QED
      BY <2>1, <3>1, <3>2
  <2>2. CASE q.main = "joining" /\ q.watcher = "done" /\ q' = [q EXCEPT !.main = "failed"]
    BY <1>0, <2>2 DEF RequestShape, RequestKept, RequestFields
  <2> QED
    BY <2>1, <2>2 DEF RoundTripFails
<1>2. MainAndBody(q)'
  BY <1>0, <1>1 DEF RequestInv, MainAndBody, RequestShape, RequestKept, RequestFields
<1>3. SendSideCared(q)'
  BY <1>1 DEF RequestInv, SendSideCared, RequestKept, RequestFields
<1>4. ReceiveSideCared(q)'
  BY <1>1 DEF RequestInv, ReceiveSideCared, RequestKept, RequestFields
<1> QED
  BY <1>1, <1>2, <1>3, <1>4 DEF RequestInv

LEMMA HandleRequestInv == RequestInv(q) /\ HandleRequest => RequestInv(q)'
<1> SUFFICES ASSUME RequestInv(q), HandleRequest PROVE RequestInv(q)'
  OBVIOUS
<1> DEFINE d == [q EXCEPT !.server = "done"]
<1>0. RequestShape(q)
  BY DEF RequestInv
<1>1. RequestShape(d) /\ RequestKept(d, q, {"server"}) /\ d.server = "done"
  BY <1>0 DEF RequestShape, RequestKept, RequestFields
<1>2. /\ RequestShape(q)' /\ RequestKept(q', q, {"server", "peer", "conn"})
      /\ q'.conn = q.conn \/ q'.conn = "closed"
      /\ q'.server = "done" => q'.conn = "closed" \/ (q'.peer.send # "open" /\ q'.peer.recv # "open")
  <2>1. CASE q' = PeerCancelBoth(d)
    <3> HIDE DEF d
    <3> QED
      BY <1>1, <2>1, PeerCancelFields DEF RequestKept, RequestFields
  <2>2. CASE q' = CloseConn(d)
    <3> HIDE DEF d
    <3> QED
      BY <1>1, <2>2 DEF CloseConn, RequestShape, RequestKept, RequestFields
  <2>3. CASE q' = [q EXCEPT !.server = "hijacked"] \/ q' = [q EXCEPT !.server = "answered"]
    BY <1>0, <2>3 DEF RequestShape, RequestKept, RequestFields
  <2>4. CASE \E eof \in BOOLEAN : q' = [q EXCEPT !.server = "answered", !.peer = [send |-> "fin", recv |-> IF eof THEN "fin" ELSE "reset"]]
    BY Zenon, <1>0, <2>4 DEF RequestShape, RequestKept, RequestFields
  <2> QED
    BY Zenon, <2>1, <2>2, <2>3, <2>4 DEF HandleRequest
<1>3. MainAndBody(q)'
  BY <1>2 DEF RequestInv, MainAndBody, RequestKept, RequestFields
<1>4. SendSideCared(q)'
  BY <1>2 DEF RequestInv, SendSideCared, RequestKept, RequestFields
<1>5. ReceiveSideCared(q)'
  BY <1>2 DEF RequestInv, ReceiveSideCared, RequestKept, RequestFields
<1> QED
  BY <1>2, <1>3, <1>4, <1>5 DEF RequestInv

LEMMA RequestStepInv == RequestInv(q) /\ RequestNext => RequestInv(q)'
<1> SUFFICES ASSUME RequestInv(q), RequestNext PROVE RequestInv(q)'
  OBVIOUS
<1>1. CASE AwaitHandshake
  <2>1. RequestShape(q)' /\ RequestKept(q', q, {"main"})
    BY <1>1 DEF AwaitHandshake, RequestInv, RequestShape, RequestKept, RequestFields
  <2>2. q.main = "handshake" /\ q'.main \in {"settings", "open", "failed"}
    BY <1>1 DEF AwaitHandshake, RequestInv, RequestShape, RequestFields
  <2>3. MainAndBody(q)'
    BY <2>1, <2>2 DEF RequestInv, MainAndBody, RequestShape, RequestKept, RequestFields
  <2>4. SendSideCared(q)'
    BY <2>1, <2>2 DEF RequestInv, SendSideCared, RequestKept, RequestFields
  <2>5. ReceiveSideCared(q)'
    BY <2>1, <2>2 DEF RequestInv, ReceiveSideCared, SendSideCared, RequestKept, RequestFields
  <2> QED
    BY <2>1, <2>3, <2>4, <2>5 DEF RequestInv
<1>2. CASE AwaitSettings
  <2>1. RequestShape(q)' /\ RequestKept(q', q, {"main"})
    BY <1>2 DEF AwaitSettings, RequestInv, RequestShape, RequestKept, RequestFields
  <2>2. q.main = "settings" /\ q'.main \in {"open", "failed"}
    BY <1>2 DEF AwaitSettings, RequestInv, RequestShape, RequestFields
  <2>3. MainAndBody(q)'
    BY <2>1, <2>2 DEF RequestInv, MainAndBody, RequestShape, RequestKept, RequestFields
  <2>4. SendSideCared(q)'
    BY <2>1, <2>2 DEF RequestInv, SendSideCared, RequestKept, RequestFields
  <2>5. ReceiveSideCared(q)'
    BY <2>1, <2>2 DEF RequestInv, ReceiveSideCared, SendSideCared, RequestKept, RequestFields
  <2> QED
    BY <2>1, <2>3, <2>4, <2>5 DEF RequestInv
<1>3. CASE OpenRequestStream
  <2>1. RequestShape(q)' /\ RequestKept(q', q, {"main", "watcher"})
    BY Zenon, <1>3 DEF OpenRequestStream, RequestInv, RequestShape, RequestKept, RequestFields
  <2>2. q.main = "open" /\ ((q'.main = "failed" /\ q'.watcher = q.watcher) \/ q'.main = "header")
    BY Zenon, <1>3 DEF OpenRequestStream, RequestInv, RequestShape, RequestFields
  <2>3. MainAndBody(q)'
    BY <2>1, <2>2 DEF RequestInv, MainAndBody, RequestShape, RequestKept, RequestFields
  <2>4. SendSideCared(q)'
    BY <2>1, <2>2 DEF RequestInv, SendSideCared, RequestKept, RequestFields
  <2>5. ReceiveSideCared(q)'
    BY <2>1, <2>2 DEF RequestInv, ReceiveSideCared, SendSideCared, RequestKept, RequestFields
  <2> QED
    BY <2>1, <2>3, <2>4, <2>5 DEF RequestInv
<1>4. CASE ContextDone \/ ConnCloses \/ HandshakeCompletes \/ SettingsArrive
  <2>1. RequestShape(q)' /\ RequestKept(q', q, {"ctxDone", "complete", "settings", "conn"})
    BY <1>4 DEF ContextDone, ConnCloses, HandshakeCompletes, SettingsArrive, CloseConn, RequestInv, RequestShape, RequestKept, RequestFields
  <2>2. q'.conn = q.conn \/ q'.conn = "closed"
    BY <1>4 DEF ContextDone, ConnCloses, HandshakeCompletes, SettingsArrive, CloseConn, RequestInv, RequestShape, RequestFields
  <2>3. MainAndBody(q)'
    BY <2>1, <2>2 DEF RequestInv, MainAndBody, RequestShape, RequestKept, RequestFields
  <2>4. SendSideCared(q)'
    BY <2>1, <2>2 DEF RequestInv, SendSideCared, RequestKept, RequestFields
  <2>5. ReceiveSideCared(q)'
    BY <2>1, <2>2 DEF RequestInv, ReceiveSideCared, SendSideCared, RequestKept, RequestFields
  <2> QED
    BY <2>1, <2>3, <2>4, <2>5 DEF RequestInv
<1> QED
  BY <1>1, <1>2, <1>3, <1>4, SendRequestHeaderInv, SendRequestBodyInv, WatchInv, ReadResponseInv, RoundTripFailsInv, UseBodyInv,
     HandleRequestInv DEF RequestNext

LEMMA RequestInvSuffices == RequestInv(q) => RequestEnds
<1> SUFFICES ASSUME RequestInv(q) PROVE RequestEnds
  OBVIOUS
<1>1. ReqDoneOnce
  BY DEF RequestInv, MainAndBody, RequestShape, ReqDoneOnce
<1>2. NothingLeftOpen
  BY DEF RequestInv, MainAndBody, SendSideCared, ReceiveSideCared, NothingLeftOpen
<1> QED
  BY <1>1, <1>2 DEF RequestEnds

\* However the goroutines of a request interleave, and whatever number of informational
\* responses comes first: reqDone is closed at most once, no watcher is left behind, and a
\* finished request leaves no side of its stream open (client.go, roundTrip and doRequest;
\* body.go, hijackableBody; server.go, handleRequest).
THEOREM RequestsEnd == RequestSpec => []RequestEnds
<1>1. RequestInit => RequestInv(q)
  BY RequestInitInv
<1>2. RequestInv(q) /\ [RequestNext]_q => RequestInv(q)'
  BY RequestStepInv DEF RequestInv, RequestShape, RequestFields, MainAndBody, SendSideCared, ReceiveSideCared
<1>3. RequestInv(q) => RequestEnds
  BY RequestInvSuffices
<1> QED
  BY <1>1, <1>2, <1>3, PTL DEF RequestSpec

-----------------------------------------------------------------------------
(* The streams of a connection (H3Conn): the map and the idle timer agree, *)
(* and a receiver of datagrams is woken.                                   *)

ConnFields == {"enable", "supported", "closed", "timer", "streams", "registered", "send", "recv", "rcvd", "uni", "settings",
               "parsing", "loop", "dgram", "arrived", "queue", "hasData", "receiver"}

ConnShape(t) ==
    /\ DOMAIN t = ConnFields
    /\ t.registered \subseteq RequestStreams
    /\ t.queue \in [RequestStreams -> Nat] /\ DOMAIN t.hasData = RequestStreams /\ DOMAIN t.receiver = RequestStreams

ConnKept(u, t, S) == \A f \in ConnFields \ S : u[f] = t[f]

\* The sides that ended are those of streams that were accepted, the map has the others, and
\* the timer runs, was stopped or has fired.
MapAndTimer(t) ==
    /\ t.send \subseteq t.registered /\ t.recv \subseteq t.registered
    /\ t.streams = t.registered \ (t.send \cap t.recv)
    /\ t.timer \in {"running", "stopped", "fired"}
    /\ t.timer = "running" => t.streams = {}
    /\ t.timer = "stopped" => t.streams # {} \/ t.closed

\* The stream that a datagram was looked up for exists.
Woken(t) ==
    /\ t.loop = "enqueue" => t.dgram \in t.registered
    /\ \A r \in RequestStreams : t.receiver[r] = "waiting" /\ (t.queue[r] > 0 \/ r \in t.recv) => t.hasData[r]

ConnInv(t) == ConnShape(t) /\ MapAndTimer(t) /\ Woken(t)

LEMMA ConnInitInv == ConnInit => ConnInv(n)
  BY DEF ConnInit, ConnInv, ConnShape, ConnFields, MapAndTimer, Woken

\* Only what the map and the timer depend on matters for them.
LEMMA MapAndTimerKept ==
  ASSUME NEW u, NEW t, MapAndTimer(t),
         u.send = t.send, u.recv = t.recv, u.registered = t.registered, u.streams = t.streams,
         \/ u.timer = t.timer /\ (t.closed => u.closed)
         \/ u.timer = "stopped" /\ u.closed
         \/ u.timer = "fired"
  PROVE  MapAndTimer(u)
  BY Zenon DEF MapAndTimer

\* A side of a stream ends: the stream leaves the map when the other side has ended, and
\* the last one starts the timer (state_tracking_stream.go, conn.go).
LEMMA SideEnds ==
  ASSUME NEW u, NEW t, NEW r, MapAndTimer(t), r \in t.registered, u.registered = t.registered, u.closed = t.closed,
         \/ r \notin t.send /\ u.send = t.send \cup {r} /\ u.recv = t.recv /\ (u.streams = t.streams \/ r \in t.recv) /\ (r \in t.recv => u.streams = t.streams \ {r})
         \/ r \notin t.recv /\ u.recv = t.recv \cup {r} /\ u.send = t.send /\ (u.streams = t.streams \/ r \in t.send) /\ (r \in t.send => u.streams = t.streams \ {r}),
         u.streams = t.streams => u.timer = t.timer,
         u.streams # t.streams => u.timer = IF t.streams \subseteq {r} /\ t.timer # "fired" THEN "running" ELSE t.timer
  PROVE  MapAndTimer(u)
<1>1. u.send \subseteq u.registered /\ u.recv \subseteq u.registered
  BY DEF MapAndTimer
<1>2. u.streams = u.registered \ (u.send \cap u.recv)
  BY DEF MapAndTimer
<1>3. u.timer \in {"running", "stopped", "fired"}
  BY DEF MapAndTimer
<1>4. u.timer = "running" => u.streams = {}
  BY DEF MapAndTimer
<1>5. u.timer = "stopped" => u.streams # {} \/ u.closed
  BY DEF MapAndTimer
<1> QED
  BY <1>1, <1>2, <1>3, <1>4, <1>5 DEF MapAndTimer

\* What a stream that is cleared leaves alone.
LEMMA ClearStreamFields ==
  ASSUME NEW t, ConnShape(t), NEW r
  PROVE  LET u == ClearStream(t, r)
         IN  /\ ConnShape(u) /\ ConnKept(u, t, {"streams", "timer"})
             /\ u.streams = t.streams \ {r}
             /\ u.timer = IF t.streams \subseteq {r} /\ t.timer # "fired" THEN "running" ELSE t.timer
  BY Zenon DEF ClearStream, ConnShape, ConnKept, ConnFields

LEMMA CloseSendSideInv ==
  ASSUME ConnInv(n), NEW r \in RequestStreams, CloseSendSide(r)
  PROVE  ConnInv(n)'
<1> DEFINE t == IF r \in n.recv THEN ClearStream(n, r) ELSE n
<1>1. ConnShape(t) /\ ConnKept(t, n, {"streams", "timer"})
  BY ClearStreamFields DEF ConnInv, ConnShape, ConnKept, ConnFields
<1>2. r \in n.recv => t.streams = n.streams \ {r} /\ t.timer = IF n.streams \subseteq {r} /\ n.timer # "fired" THEN "running" ELSE n.timer
  BY ClearStreamFields DEF ConnInv
<1>3. r \notin n.recv => t.streams = n.streams /\ t.timer = n.timer
  OBVIOUS
<1>4. r \in n.registered /\ r \notin n.send /\ n' = [t EXCEPT !.send = @ \cup {r}]
  BY DEF CloseSendSide
<1> HIDE DEF t
<1>5. ConnShape(n)' /\ ConnKept(n', n, {"streams", "timer", "send"}) /\ n'.send = n.send \cup {r} /\ n'.streams = t.streams /\ n'.timer = t.timer
  BY <1>1, <1>4 DEF ConnShape, ConnKept, ConnFields
<1>6. n'.registered = n.registered /\ n'.closed = n.closed /\ n'.recv = n.recv
  BY <1>5 DEF ConnKept, ConnFields
<1>7. r \in n.recv => n'.streams # n.streams
  BY <1>2, <1>4, <1>5 DEF ConnInv, MapAndTimer
<1>8. MapAndTimer(n)'
  BY Zenon, <1>2, <1>3, <1>4, <1>5, <1>6, <1>7, SideEnds DEF ConnInv
<1>9. Woken(n)'
  BY <1>5, <1>6 DEF ConnInv, Woken, ConnKept, ConnFields
<1> QED
  BY <1>5, <1>8, <1>9 DEF ConnInv

LEMMA CloseReceiveSideInv ==
  ASSUME ConnInv(n), NEW r \in RequestStreams, CloseReceiveSide(r)
  PROVE  ConnInv(n)'
<1> DEFINE t == IF r \in n.send THEN ClearStream(n, r) ELSE n
<1>1. ConnShape(t) /\ ConnKept(t, n, {"streams", "timer"})
  BY ClearStreamFields DEF ConnInv, ConnShape, ConnKept, ConnFields
<1>2. r \in n.send => t.streams = n.streams \ {r} /\ t.timer = IF n.streams \subseteq {r} /\ n.timer # "fired" THEN "running" ELSE n.timer
  BY ClearStreamFields DEF ConnInv
<1>3. r \notin n.send => t.streams = n.streams /\ t.timer = n.timer
  OBVIOUS
<1>4. r \in n.registered /\ r \notin n.recv /\ n' = SignalHasData([t EXCEPT !.recv = @ \cup {r}], r)
  BY DEF CloseReceiveSide
<1> HIDE DEF t
<1>5. /\ ConnShape(n)' /\ ConnKept(n', n, {"streams", "timer", "recv", "hasData"}) /\ n'.recv = n.recv \cup {r}
      /\ n'.streams = t.streams /\ n'.timer = t.timer /\ n'.hasData = [n.hasData EXCEPT ![r] = TRUE]
  BY Zenon, <1>1, <1>4 DEF ConnShape, ConnKept, ConnFields, SignalHasData
<1>6. n'.registered = n.registered /\ n'.closed = n.closed /\ n'.send = n.send
  BY <1>5 DEF ConnKept, ConnFields
<1>7. r \in n.send => n'.streams # n.streams
  BY <1>2, <1>4, <1>5 DEF ConnInv, MapAndTimer
<1>8. MapAndTimer(n)'
  BY Zenon, <1>2, <1>3, <1>4, <1>5, <1>6, <1>7, SideEnds DEF ConnInv
<1>9. Woken(n)'
  BY <1>5, <1>6 DEF ConnInv, Woken, ConnShape, ConnKept, ConnFields
<1> QED
  BY <1>5, <1>8, <1>9 DEF ConnInv

LEMMA AcceptStreamInv ==
  ASSUME ConnInv(n), NEW r \in RequestStreams, AcceptStream(r)
  PROVE  ConnInv(n)'
<1>1. /\ ~n.closed /\ r \notin n.registered
      /\ ConnShape(n)' /\ ConnKept(n', n, {"streams", "registered", "timer"})
      /\ n'.streams = n.streams \cup {r} /\ n'.registered = n.registered \cup {r}
      /\ n'.timer = IF n.timer = "running" /\ n.streams = {} THEN "stopped" ELSE n.timer
  BY Zenon DEF ConnInv, AcceptStream, ConnShape, ConnKept, ConnFields
<1>2. MapAndTimer(n)'
  BY <1>1 DEF ConnInv, MapAndTimer, ConnKept, ConnFields
<1>3. Woken(n)'
  BY <1>1 DEF ConnInv, Woken, ConnKept, ConnFields
<1> QED
  BY <1>1, <1>2, <1>3 DEF ConnInv

LEMMA ReceiveInv ==
  ASSUME ConnInv(n), NEW r \in RequestStreams, Receive(r)
  PROVE  ConnInv(n)'
<1>0. DOMAIN n' = ConnFields /\ ConnKept(n', n, {"queue", "receiver", "hasData"})
  BY Zenon DEF ConnInv, Receive, ConnShape, ConnKept, ConnFields
<1>2. \/ /\ n'.queue = [n.queue EXCEPT ![r] = @ - 1] /\ n'.receiver = n.receiver /\ n'.hasData = n.hasData
         /\ n.receiver[r] = "idle" /\ n.queue[r] > 0
      \/ n'.queue = n.queue /\ n'.receiver = [n.receiver EXCEPT ![r] = "returned"] /\ n'.hasData = n.hasData
      \/ /\ n'.queue = n.queue /\ n'.receiver = [n.receiver EXCEPT ![r] = "waiting"] /\ n'.hasData = n.hasData
         /\ n.queue[r] = 0 /\ r \notin n.recv
      \/ n'.queue = n.queue /\ n'.receiver = [n.receiver EXCEPT ![r] = "idle"] /\ n'.hasData = [n.hasData EXCEPT ![r] = FALSE]
  BY Zenon DEF ConnInv, Receive, ConnShape, ConnFields
<1>1. ConnShape(n)' /\ ConnKept(n', n, {"queue", "receiver", "hasData"})
  <2>1. n'.registered \subseteq RequestStreams
    BY <1>0 DEF ConnInv, ConnShape, ConnKept, ConnFields
  <2>2. n'.queue \in [RequestStreams -> Nat] /\ DOMAIN n'.hasData = RequestStreams /\ DOMAIN n'.receiver = RequestStreams
    BY <1>2 DEF ConnInv, ConnShape
  <2> QED
    BY <1>0, <2>1, <2>2 DEF ConnShape
<1>3. MapAndTimer(n)'
  BY <1>1, MapAndTimerKept DEF ConnInv, ConnKept, ConnFields
<1>4. Woken(n)'
  BY <1>1, <1>2 DEF ConnInv, Woken, ConnShape, ConnKept, ConnFields
<1> QED
  BY <1>1, <1>3, <1>4 DEF ConnInv

LEMMA EnqueueInv ==
  ASSUME ConnInv(n), Enqueue
  PROVE  ConnInv(n)'
<1> DEFINE r == n.dgram
<1>1. r \in RequestStreams
  BY DEF ConnInv, Woken, ConnShape, Enqueue
<1>0. DOMAIN n' = ConnFields /\ ConnKept(n', n, {"queue", "hasData", "loop", "dgram"}) /\ n'.loop = "run"
  BY Zenon, <1>1 DEF ConnInv, Enqueue, SignalHasData, ConnShape, ConnKept, ConnFields
<1>3. \/ n'.queue = n.queue /\ n'.hasData = n.hasData
      \/ n'.queue = [n.queue EXCEPT ![r] = @ + 1] /\ n'.hasData = [n.hasData EXCEPT ![r] = TRUE]
  BY <1>1 DEF ConnInv, Enqueue, SignalHasData, ConnShape, ConnFields
<1>2. ConnShape(n)' /\ ConnKept(n', n, {"queue", "hasData", "loop", "dgram"}) /\ n'.loop = "run"
  <2>1. n'.registered \subseteq RequestStreams /\ n'.receiver = n.receiver
    BY <1>0 DEF ConnInv, ConnShape, ConnKept, ConnFields
  <2>2. n'.queue \in [RequestStreams -> Nat] /\ DOMAIN n'.hasData = RequestStreams
    BY <1>3 DEF ConnInv, ConnShape
  <2> QED
    BY <1>0, <2>1, <2>2 DEF ConnInv, ConnShape
<1>4. MapAndTimer(n)'
  BY <1>2, MapAndTimerKept DEF ConnInv, ConnKept, ConnFields
<1>5. Woken(n)'
  <2>1. n'.recv = n.recv /\ n'.receiver = n.receiver
    BY <1>2 DEF ConnKept, ConnFields
  <2> QED
    BY <1>1, <1>2, <1>3, <2>1 DEF ConnInv, Woken, ConnShape
<1> QED
  BY <1>2, <1>4, <1>5 DEF ConnInv

\* The rest of the connection only closes it, starts and stops its loops and lets the timer fire.
LEMMA ConnRestInv ==
  ASSUME ConnInv(n),
         \/ IdleTimer \/ PeerCloses \/ ControlFrame \/ ReceiveDatagrams
         \/ \E type \in {"control", "encoder", "decoder", "push", "unknown"} : UniStream(type)
  PROVE  ConnInv(n)'
<1>1. ConnShape(n)' /\ ConnKept(n', n, {"closed", "timer", "uni", "rcvd", "parsing", "settings", "loop", "dgram", "arrived"})
  BY ZenonT(30) DEF ConnInv, IdleTimer, PeerCloses, ControlFrame, ReceiveDatagrams, UniStream, CloseQUIC, CloseWithError, ConnShape, ConnKept, ConnFields
<1>2. \/ n'.timer = n.timer /\ (n.closed => n'.closed)
      \/ n'.timer = "stopped" /\ n'.closed
      \/ n'.timer = "fired"
  BY ZenonT(30) DEF ConnInv, IdleTimer, PeerCloses, ControlFrame, ReceiveDatagrams, UniStream, CloseQUIC, CloseWithError, ConnShape, ConnFields
<1>3. n'.loop = "enqueue" => n'.dgram \in n.streams \/ (n.loop = "enqueue" /\ n'.dgram = n.dgram)
  BY Zenon DEF ConnInv, IdleTimer, PeerCloses, ControlFrame, ReceiveDatagrams, UniStream, CloseQUIC, CloseWithError, ConnShape, ConnFields
<1>4. MapAndTimer(n)'
  BY <1>1, <1>2, MapAndTimerKept DEF ConnInv, ConnKept, ConnFields
<1>5. Woken(n)'
  BY <1>1, <1>3 DEF ConnInv, Woken, MapAndTimer, ConnKept, ConnFields
<1> QED
  BY <1>1, <1>4, <1>5 DEF ConnInv

\* On every connection, with any number of streams and datagrams: a stream is in the map
\* while a side of it is unfinished and no longer, the idle timer never runs beside a stream
\* and runs or has closed the connection without one, and no receiver of datagrams sleeps
\* beside a datagram or an error (conn.go, state_tracking_stream.go, datagram.go).
THEOREM StreamsStayTracked == ConnSpec => []ConnTracked
<1>1. ConnInit => ConnInv(n)
  BY ConnInitInv
<1>2. ConnInv(n) /\ [ConnNext]_n => ConnInv(n)'
  <2> SUFFICES ASSUME ConnInv(n), [ConnNext]_n PROVE ConnInv(n)'
    OBVIOUS
  <2>1. CASE UNCHANGED n
    BY <2>1 DEF ConnInv, ConnShape, MapAndTimer, Woken
  <2>2. CASE ConnNext
    BY <2>2, AcceptStreamInv, CloseSendSideInv, CloseReceiveSideInv, ReceiveInv, EnqueueInv, ConnRestInv DEF ConnNext
  <2> QED
    BY <2>1, <2>2
<1>3. ConnInv(n) => ConnTracked
  BY DEF ConnInv, MapAndTimer, Woken, ConnTracked, StreamsTracked, DatagramReceiverWoken
<1> QED
  BY <1>1, <1>2, <1>3, PTL DEF ConnSpec

================================================================================
