-------------------------------- MODULE ECN --------------------------------
(***************************************************************************)
(* The validation of ECN on a path: ecnTracker (internal/ackhandler/ecn.go)*)
(* as the sent packet handler drives it, against a receiver that counts    *)
(* the marks it sees (receivedPacketTracker) and a path that keeps,        *)
(* bleaches or rewrites them.  Only ECT(0) is ever sent.                   *)
(***************************************************************************)
EXTENDS Integers, FiniteSets, Sequences

CONSTANTS
    MaxMarked,     \* bound on the packets sent
    NumTesting     \* numECNTestingPackets

\* What the path does to an ECT(0) mark: keep it, sometimes mark congestion, clear it, or
\* rewrite every mark to CE.
Paths == {"keeps", "congested", "bleaches", "mangles"}
Marks(path, mark) ==
    IF mark = "non" THEN {"non"}
    ELSE CASE path = "keeps"     -> {"ect0"}
           [] path = "congested" -> {"ect0", "ce"}
           [] path = "bleaches"  -> {"non"}
           [] path = "mangles"   -> {"ce"}

VARIABLES
    path,
    ecn,           \* the ecnTracker
    marks,         \* the marks of the packets sent; packet n is marks[n + 1]
    outstanding,   \* the ack-eliciting packets neither acknowledged nor lost
    largestAcked,
    seen,          \* the packets that arrived, and the mark each arrived with
    frames,        \* the ACK frames sent: packets and counts
    congested      \* history: a congestion event was reported

ecnVars == <<path, ecn, marks, outstanding, largestAcked, seen, frames, congested>>

Numbers == 0..(MaxMarked - 1)

-----------------------------------------------------------------------------
(* ecnTracker *)

\* SentPacket, for a packet marked ECT(0).
SentMarked(t, n) ==
    LET t1 == [t EXCEPT !.sentECT0 = @ + 1,
                        !.firstCapable = IF t.state = "capable" /\ @ = -1 THEN n ELSE @]
        last == t1.sentECT0 >= NumTesting
    IN  IF t.state # "testing" THEN t1
        ELSE [t1 EXCEPT !.sentTesting = @ + 1,
                        !.firstTesting = IF @ = -1 THEN n ELSE @,
                        !.state = IF last THEN "unknown" ELSE @,
                        !.lastTesting = IF last THEN n ELSE @]

\* Mode: the first call starts testing.
Started(t) == IF t.state = "initial" THEN [t EXCEPT !.state = "testing"] ELSE t
Mode(t) == IF t.state \in {"testing", "capable"} THEN "ect0" ELSE "non"

IsTestingPacket(t, n) ==
    t.firstTesting # -1 /\ n >= t.firstTesting /\ (n <= t.lastTesting \/ t.lastTesting = -1)

\* Mutant: packets sent between testing and capability count as marked.
MarkedSinceTesting(t, n) == t.firstTesting # -1 /\ n >= t.firstTesting

\* ecnMarking: what packet n was sent with.  The last testing packet counts as unmarked.
MarkedECT0(t, n) ==
    /\ t.firstTesting # -1 /\ n >= t.firstTesting
    /\ \/ t.lastTesting = -1 \/ n < t.lastTesting
       \/ t.firstCapable # -1 /\ n >= t.firstCapable

\* failIfMangled: all packets sent with a mark were lost while testing or arrived as CE.
FailIfMangled(t) ==
    IF t.sentECT0 > t.ackedCE + t.lostTesting THEN t ELSE [t EXCEPT !.state = "failed"]

LostPacket(t, n) ==
    LET t1 == [t EXCEPT !.lostTesting = @ + 1]
    IN  IF t.state \notin {"testing", "unknown"} \/ ~IsTestingPacket(t, n) THEN t
        ELSE IF t.state = "testing" THEN t1
        ELSE IF t1.lostTesting >= t1.sentTesting THEN [t1 EXCEPT !.state = "failed"]
        ELSE FailIfMangled(t1)

\* HandleNewlyAcked: the tracker after an ACK frame a that raises the largest acknowledged
\* packet number and newly acknowledges the packets.
HandleNewlyAcked(t, packets, a) ==
    LET marked == Cardinality({n \in packets : MarkedECT0(t, n)})
        newECT0 == a.ect0 - t.ackedECT0
        newCE == a.ce - t.ackedCE
        t1 == [t EXCEPT !.ackedECT0 = a.ect0, !.ackedCE = a.ce]
        t2 == IF t.state = "unknown" THEN FailIfMangled(t1) ELSE t1
        fails == \/ a.ect0 > t.sentECT0
                 \/ marked > 0 /\ a.ect0 = 0 /\ a.ce = 0
                 \/ newECT0 < 0 \/ newCE < 0
                 \/ newECT0 + newCE < marked
    IN  IF t.state = "failed" THEN t
        ELSE IF fails THEN [t EXCEPT !.state = "failed"]
        ELSE IF /\ t2.state \in {"testing", "unknown"} /\ newECT0 > 0
                /\ \E n \in packets : IsTestingPacket(t2, n)
             THEN [t2 EXCEPT !.state = "capable"] ELSE t2

-----------------------------------------------------------------------------
(* The sender, the path and the receiver *)

ECNInit ==
    /\ path \in Paths
    /\ ecn = [state |-> "initial", sentTesting |-> 0, lostTesting |-> 0, firstTesting |-> -1,
            lastTesting |-> -1, firstCapable |-> -1, sentECT0 |-> 0, ackedECT0 |-> 0, ackedCE |-> 0]
    /\ marks = << >> /\ outstanding = {} /\ largestAcked = -1
    /\ seen = [n \in {} |-> "non"] /\ frames = {} /\ congested = FALSE

\* A 1-RTT packet is sent with the mark that ECNMode asks for.  Only ack-eliciting packets
\* are tracked until they are acknowledged or lost.
Send(eliciting) ==
    /\ Len(marks) < MaxMarked
    /\ LET t == Started(ecn)
           n == Len(marks)
       IN  /\ ecn' = IF Mode(t) = "ect0" THEN SentMarked(t, n) ELSE t
           /\ marks' = Append(marks, Mode(t))
           /\ outstanding' = IF eliciting THEN outstanding \cup {n} ELSE outstanding
    /\ UNCHANGED <<path, largestAcked, seen, frames, congested>>

\* A packet arrives and is counted with the mark the path left on it.
Arrive(n, m) ==
    /\ n < Len(marks) /\ m \in Marks(path, marks[n + 1])
    /\ n \notin DOMAIN seen
    /\ seen' = [i \in DOMAIN seen \cup {n} |-> IF i = n THEN m ELSE seen[i]]
    /\ UNCHANGED <<path, ecn, marks, outstanding, largestAcked, frames, congested>>

Counted(m) == Cardinality({n \in DOMAIN seen : seen[n] = m})

\* The receiver sends an ACK frame with its counts.
SendAck ==
    /\ DOMAIN seen # {}
    /\ frames' = frames \cup {[packets |-> DOMAIN seen, ect0 |-> Counted("ect0"), ce |-> Counted("ce")]}
    /\ frames' # frames
    /\ UNCHANGED <<path, ecn, marks, outstanding, largestAcked, seen, congested>>

\* The ECN part of ReceivedAck.  A congestion event follows a rise of the CE count on a
\* path known to be capable.
ReceivedAck(a) ==
    LET newly == a.packets \cap outstanding
        largest == CHOOSE n \in a.packets : \A m \in a.packets : m <= n
        t == IF largest > largestAcked THEN HandleNewlyAcked(ecn, newly, a) ELSE ecn
    IN  /\ a \in frames /\ newly # {}
        /\ ecn' = t
        /\ congested' = (congested \/ /\ largest > largestAcked /\ t.state = "capable"
                                      /\ a.ce > ecn.ackedCE)
        /\ outstanding' = outstanding \ newly
        /\ largestAcked' = IF largest > largestAcked THEN largest ELSE largestAcked
        /\ UNCHANGED <<path, marks, seen, frames>>

\* A packet is declared lost; it may still arrive.
Lose(n) ==
    /\ n \in outstanding /\ n < largestAcked
    /\ ecn' = LostPacket(ecn, n)
    /\ outstanding' = outstanding \ {n}
    /\ UNCHANGED <<path, marks, largestAcked, seen, frames, congested>>

ECNNext ==
    \/ \E eliciting \in BOOLEAN : Send(eliciting)
    \/ SendAck
    \/ \E n \in Numbers, m \in {"non", "ect0", "ce"} : Arrive(n, m)
    \/ \E a \in frames : ReceivedAck(a)
    \/ \E n \in Numbers : Lose(n)

ECNSpec == ECNInit /\ [][ECNNext]_ecnVars

-----------------------------------------------------------------------------
(* Properties *)

\* On a path that leaves the marks alone validation only fails when all testing packets
\* were declared lost: no reordering, loss or late ACK makes the counts inconsistent.
\* ECN is never used on a path that clears or rewrites every mark, and congestion is only
\* reported when a packet did arrive with a CE mark (ecn.go).
ValidationSound ==
    /\ path = "keeps" /\ ecn.state = "failed" => ecn.lostTesting >= ecn.sentTesting
    /\ path \in {"bleaches", "mangles"} => ecn.state # "capable"
    /\ congested => path = "congested" /\ \E n \in DOMAIN seen : seen[n] = "ce"

=============================================================================
