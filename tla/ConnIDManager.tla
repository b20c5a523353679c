----------------------------- MODULE ConnIDManager -----------------------------
(* The connection IDs that the peer gave us (conn_id_manager.go).  All calls     *)
(* come from the run loop.  A connection ID is identified with its sequence      *)
(* number; the queue is kept sorted by it, so it is a set here.  NEW_CONNECTION_ID *)
(* frames arrive in any order; a frame that was declared lost and sent again     *)
(* arrives twice.  Connection IDs of length zero are not modelled: every         *)
(* operation returns at once then.                                               *)
EXTENDS Integers, FiniteSets

CONSTANTS
  Client,      \* perspective of this endpoint
  Paths,       \* the path IDs that the path manager may probe (server only)
  MaxSeq,      \* bound: the highest sequence number the peer issues
  MaxActive,   \* protocol.MaxActiveConnectionIDs
  ConnIDLimit, \* MaxActive, or what the parroted transport parameters say
  Duplicates   \* whether frames may arrive more than once

VARIABLES
  rpt,               \* Retire Prior To of the frame for each sequence number; fixed
  queue,
  active,            \* activeSequenceNumber
  pathProbing,       \* function from the paths being probed to sequence numbers
  highestProbingID,
  highestRetired,
  handshakeComplete,
  resetTokens,       \* sequence numbers whose reset token is registered
  activeHasToken,    \* activeStatelessResetToken # nil
  retired,           \* RETIRE_CONNECTION_ID frames queued
  failed,            \* Add returned an error: the connection is being closed
  closed,
  received,          \* history: sequence numbers that arrived
  priorTo            \* history: the largest Retire Prior To that arrived

managerVars == <<queue, active, pathProbing, highestProbingID, highestRetired,
                 handshakeComplete, resetTokens, activeHasToken, retired, failed, closed, received, priorTo>>
vars == <<rpt, managerVars>>

SeqNums == 0..MaxSeq

Probing == {pathProbing[p] : p \in DOMAIN pathProbing}

TypeOK ==
  /\ queue \subseteq SeqNums
  /\ active \in SeqNums
  /\ DOMAIN pathProbing \subseteq Paths
  /\ Probing \subseteq SeqNums
  /\ highestProbingID \in SeqNums
  /\ highestRetired \in SeqNums
  /\ handshakeComplete \in BOOLEAN
  /\ resetTokens \subseteq SeqNums
  /\ activeHasToken \in BOOLEAN
  /\ retired \subseteq SeqNums
  /\ failed \in BOOLEAN
  /\ closed \in BOOLEAN
  /\ received \subseteq SeqNums
  /\ priorTo \in SeqNums

Front(q) == CHOOSE s \in q : \A t \in q : s <= t

\* The peer's Retire Prior To never exceeds the sequence number (checked when the
\* frame is parsed) and does not go back.
ValidRPT ==
  {r \in [1..MaxSeq -> SeqNums] :
     \A s \in 1..MaxSeq : r[s] <= s /\ \A t \in 1..s : r[t] <= r[s]}

\* The part of the initial state that newConnIDManager sets.
InitManager ==
  /\ queue = {}
  /\ active = 0
  /\ pathProbing = << >>
  /\ highestProbingID = 0
  /\ highestRetired = 0
  /\ handshakeComplete = FALSE
  /\ resetTokens = {}
  /\ activeHasToken = FALSE
  /\ retired = {}
  /\ failed = FALSE
  /\ closed = FALSE
  /\ received = {0}
  /\ priorTo = 0

Init == rpt \in ValidRPT /\ InitManager

--------------------------------------------------------------------------------
Larger(a, b) == IF a >= b THEN a ELSE b

TokensAfterUpdate(next) == (IF activeHasToken THEN resetTokens \ {active} ELSE resetTokens) \cup {next}

RetiredByUpdate == {active}

QueueWithoutFront(q) == q \ {Front(q)}

\* updateConnectionID, with the queue, the retired frames and highestRetired as
\* they are when it is called.
updateConnectionID(q, ret, high) ==
  LET next == Front(q)
  IN  /\ active' = next
      /\ queue' = QueueWithoutFront(q)
      /\ retired' = ret \cup RetiredByUpdate
      /\ highestRetired' = Larger(high, active)
      /\ resetTokens' = TokensAfterUpdate(next)
      /\ activeHasToken' = TRUE

\* Mutant: every frame is stored, also one that comes late.
NeverAtOnce(seq) == FALSE

RetireAtOnce(seq) == seq < Larger(active, highestProbingID) \/ seq < highestRetired

\* The elements of the queue that stay under Retire Prior To.
QueueAfter(prior) ==
  IF prior > highestRetired THEN {s \in queue : s >= prior} ELSE queue

PathsAfter(prior) ==
  [p \in {p \in DOMAIN pathProbing : pathProbing[p] >= prior} |-> pathProbing[p]]

QueueTooLong(q) == Cardinality(q) >= ConnIDLimit

\* A NEW_CONNECTION_ID frame.  conflict: it carries another connection ID or reset
\* token than the frame received before for this sequence number.  A client has the
\* keys for the packets that carry the frame once the handshake is complete.
Add(seq, conflict) ==
  LET prior  == rpt[seq]
      kept   == QueueAfter(prior)
      paths  == PathsAfter(prior)
      ret    == retired \cup (queue \ kept) \cup {pathProbing[p] : p \in DOMAIN pathProbing \ DOMAIN paths}
      high   == Larger(highestRetired, prior)
      longer == kept \cup {seq}
  IN
  /\ ~failed /\ ~closed
  /\ Client => handshakeComplete
  /\ Duplicates \/ seq \notin received
  /\ received' = received \cup {seq}
  /\ priorTo' = Larger(priorTo, prior)
  /\ \/ /\ RetireAtOnce(seq)
        /\ retired' = retired \cup {seq}
        /\ failed' = QueueTooLong(queue)
        /\ UNCHANGED <<queue, active, pathProbing, highestProbingID, highestRetired,
                       resetTokens, activeHasToken>>
     \/ /\ ~RetireAtOnce(seq)
        /\ pathProbing' = paths
        /\ UNCHANGED highestProbingID
        /\ \/ /\ seq = active
              /\ queue' = kept /\ retired' = ret /\ highestRetired' = high
              /\ failed' = QueueTooLong(kept)
              /\ UNCHANGED <<active, resetTokens, activeHasToken>>
           \/ /\ seq # active
              /\ conflict /\ seq \in kept
              /\ queue' = kept /\ retired' = ret /\ highestRetired' = high
              /\ failed' = TRUE
              /\ UNCHANGED <<active, resetTokens, activeHasToken>>
           \/ /\ seq # active
              /\ ~(conflict /\ seq \in kept)
              /\ IF active < prior
                 THEN updateConnectionID(longer, ret, high)
                 ELSE /\ queue' = longer /\ retired' = ret /\ highestRetired' = high
                      /\ UNCHANGED <<active, resetTokens, activeHasToken>>
              /\ failed' = QueueTooLong(queue')
  /\ UNCHANGED <<rpt, handshakeComplete, closed>>

--------------------------------------------------------------------------------
\* The first change happens as soon as the handshake is complete, later ones when
\* the queue is half full and enough packets were sent.
shouldUpdateConnID(enoughPackets) ==
  /\ handshakeComplete
  /\ \/ queue # {} /\ active = 0
     \/ 2 * Cardinality(queue) >= MaxActive /\ enoughPackets

\* Get, called for every packet packed; the case in which it changes state.
Get(enoughPackets) ==
  /\ ~failed /\ ~closed
  /\ shouldUpdateConnID(enoughPackets)
  /\ updateConnectionID(queue, retired, highestRetired)
  /\ UNCHANGED <<rpt, pathProbing, highestProbingID, handshakeComplete, failed, closed, received, priorTo>>

\* handleHandshakeComplete.  The client then applies the server's transport
\* parameters: the reset token of the first connection ID, and the connection ID of
\* the preferred address, which has sequence number 1.
SetHandshakeComplete(token, preferredAddress) ==
  /\ ~handshakeComplete /\ ~failed /\ ~closed
  /\ (token \/ preferredAddress) => Client
  /\ preferredAddress => MaxSeq >= 1
  /\ handshakeComplete' = TRUE
  /\ activeHasToken' = (activeHasToken \/ token)
  /\ resetTokens' = IF token THEN resetTokens \cup {active} ELSE resetTokens
  /\ queue' = IF preferredAddress THEN queue \cup {1} ELSE queue
  /\ received' = IF preferredAddress THEN received \cup {1} ELSE received
  /\ UNCHANGED <<rpt, active, pathProbing, highestProbingID, highestRetired, retired,
                 failed, closed, priorTo>>

ConnIDForPath(p) == Front(queue)

\* Called for a path that has no connection ID yet, when a packet of the established
\* connection comes from a new address.
GetConnIDForPath(p) ==
  /\ ~failed /\ ~closed /\ handshakeComplete
  /\ p \notin DOMAIN pathProbing
  /\ queue # {}
  /\ pathProbing' = [q \in DOMAIN pathProbing \cup {p} |->
                       IF q = p THEN ConnIDForPath(p) ELSE pathProbing[q]]
  /\ queue' = QueueWithoutFront(queue)
  /\ highestProbingID' = Front(queue)
  /\ UNCHANGED <<rpt, active, highestRetired, handshakeComplete, resetTokens, activeHasToken,
                 retired, failed, closed, received, priorTo>>

\* Mutant: the connection ID of an abandoned path is retired and also used again.
QueueWithPath(p) == queue \cup {pathProbing[p]}

QueueAfterPath(p) == queue

RetireConnIDForPath(p) ==
  /\ ~failed /\ ~closed
  /\ p \in DOMAIN pathProbing
  /\ retired' = retired \cup {pathProbing[p]}
  /\ queue' = QueueAfterPath(p)
  /\ pathProbing' = [q \in DOMAIN pathProbing \ {p} |-> pathProbing[q]]
  /\ UNCHANGED <<rpt, active, highestProbingID, highestRetired, handshakeComplete,
                 resetTokens, activeHasToken, failed, closed, received, priorTo>>

TokensAfterClose == IF activeHasToken THEN resetTokens \ {active} ELSE resetTokens

Close ==
  /\ ~closed
  /\ closed' = TRUE
  /\ resetTokens' = TokensAfterClose
  /\ UNCHANGED <<rpt, queue, active, pathProbing, highestProbingID, highestRetired,
                 handshakeComplete, activeHasToken, retired, failed, received, priorTo>>

ManagerStep ==
  \/ \E enough \in BOOLEAN : Get(enough)
  \/ \E token, preferredAddress \in BOOLEAN : SetHandshakeComplete(token, preferredAddress)
  \/ \E p \in Paths : GetConnIDForPath(p)
  \/ \E p \in Paths : RetireConnIDForPath(p)
  \/ Close

Next ==
  \/ \E seq \in 1..MaxSeq, conflict \in BOOLEAN : Add(seq, conflict)
  \/ ManagerStep

Spec == Init /\ [][Next]_vars

--------------------------------------------------------------------------------
InUse == {active} \cup queue \cup Probing

\* A connection ID for which RETIRE_CONNECTION_ID was queued is never used again:
\* not for the connection, not for a probed path, and it does not wait in the queue
\* to be used.  The peer drops the connection ID, and treats a packet that retires
\* its own destination connection ID as a protocol violation.
NoUseAfterRetire == InUse \cap retired = {}

\* "Once a connection ID is allocated for a path, it cannot be used for a different
\* path": the active connection ID, the queued ones and the ones of the probed
\* paths are all different.
OnePathPerConnID ==
  /\ active \notin queue \cup Probing
  /\ queue \cap Probing = {}
  /\ \A p, q \in DOMAIN pathProbing : p # q => pathProbing[p] # pathProbing[q]

\* Every connection ID that the peer ever issued to us is either kept for use or
\* given back with a RETIRE_CONNECTION_ID frame.  One that is forgotten would count
\* against the peer's limit for the rest of the connection.
EveryConnIDAccountedFor == failed \/ received \subseteq InUse \cup retired

\* After a frame with Retire Prior To n was handled, no connection ID below n is in
\* use anywhere, in whatever order the frames came.
RetirePriorToHonoured ==
  failed \/ \A u \in InUse : u >= priorTo

\* The packet handler map recognises the stateless reset of the active connection ID
\* and of no other: a token left behind would let a reset for a retired connection
\* ID, or after the connection was closed, reach this connection.
ResetTokenOfActive ==
  resetTokens = IF activeHasToken /\ ~closed THEN {active} ELSE {}

\* A connection ID has one use at a time and is retired exactly when it must be, in
\* whatever order frames arrive and paths are probed; the registered reset token is
\* that of the connection ID in use.
ConnIDsSound ==
  /\ TypeOK /\ NoUseAfterRetire /\ OnePathPerConnID
  /\ EveryConnIDAccountedFor /\ RetirePriorToHonoured /\ ResetTokenOfActive

================================================================================
