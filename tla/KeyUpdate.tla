----------------------------- MODULE KeyUpdate -----------------------------
(***************************************************************************)
(* Key updates between two endpoints: updatableAEAD                        *)
(* (internal/handshake/updatable_aead.go) over a network that delays,      *)
(* reorders, duplicates and loses 1-RTT packets.  The receiver sees one    *)
(* bit of the phase and the packet number; opening succeeds with the key   *)
(* of the phase the packet was sealed in and with no other.                *)
(***************************************************************************)
EXTENDS Integers, Sequences

CONSTANTS
    MaxSealed,            \* bound on the packets both endpoints send
    KeyUpdateInterval     \* KeyUpdateInterval and FirstKeyUpdateInterval

Ends == {"client", "server"}
Other(e) == IF e = "client" THEN "server" ELSE "client"
Invalid == -1

VARIABLES
    aead,      \* the updatableAEAD of each endpoint
    sealed,    \* the packets of each endpoint: phase and largest packet number acknowledged;
               \* packet n is sealed[e][n + 1]
    largestRcvd

keyVars == <<aead, sealed, largestRcvd>>

NewAEAD ==
    [keyPhase |-> 0, largestAcked |-> Invalid, confirmed |-> FALSE,
     prev |-> FALSE, expiry |-> FALSE, firstRcvd |-> Invalid, firstSent |-> Invalid,
     numRcvd |-> 0, numSent |-> 0, error |-> FALSE]

Bit(phase) == phase % 2
Count(n) == IF n < KeyUpdateInterval THEN n + 1 ELSE n

\* rollKeys; a previous key that was kept until now is replaced.
RollKeys(a) ==
    [a EXCEPT !.keyPhase = @ + 1, !.firstRcvd = Invalid, !.firstSent = Invalid,
              !.numRcvd = 0, !.numSent = 0, !.prev = TRUE, !.expiry = FALSE]

\* startKeyDropTimer: from now on the previous key may expire.
StartKeyDropTimer(a) == [a EXCEPT !.expiry = TRUE]

-----------------------------------------------------------------------------
(* Open *)

\* Mutant: the packet number is not compared with the first one of the current key.
PrevUntilFirstReceived(a, pn) == a.keyPhase > 0 /\ a.firstRcvd = Invalid

\* A packet with the other bit is of the previous phase: the peer has not updated yet, or
\* the packet was sent before the first one of the current phase.
OfPreviousPhase(a, pn) == (a.keyPhase > 0 /\ a.firstRcvd = Invalid) \/ pn < a.firstRcvd

\* The phase whose key is tried.
TriedPhase(a, pn, bit) ==
    IF bit = Bit(a.keyPhase) THEN a.keyPhase
    ELSE IF OfPreviousPhase(a, pn) THEN a.keyPhase - 1 ELSE a.keyPhase + 1

Decrypts(a, pn, phase) ==
    LET k == TriedPhase(a, pn, Bit(phase))
    IN  k = phase /\ (k = a.keyPhase - 1 => a.prev)

\* The packet opens with the next key: the peer has updated.
OpenNext(a, pn) ==
    IF a.keyPhase > 0 /\ a.firstSent = Invalid
    THEN [a EXCEPT !.error = TRUE]
    ELSE [StartKeyDropTimer(RollKeys(a)) EXCEPT !.firstRcvd = pn]

\* The packet opens with the current key.
OpenCurrent(a, pn) ==
    LET n == [a EXCEPT !.numRcvd = Count(@)]
    IN  IF a.firstRcvd # Invalid THEN n
        ELSE [(IF a.keyPhase > 0 THEN StartKeyDropTimer(n) ELSE n) EXCEPT !.firstRcvd = pn]

Opened(a, pn, phase) ==
    IF phase = a.keyPhase THEN OpenCurrent(a, pn)
    ELSE IF phase > a.keyPhase THEN OpenNext(a, pn) ELSE a

\* SetLargestAcked.  An ACK of a packet of this phase must come in this phase.
SetLargestAcked(a, pn) ==
    IF pn = Invalid THEN a
    ELSE IF a.firstSent # Invalid /\ pn >= a.firstSent /\ a.numRcvd = 0
         THEN [a EXCEPT !.error = TRUE] ELSE [a EXCEPT !.largestAcked = pn]

\* The previous key is dropped by the Open that follows its expiry.
Open(e, n, expired) ==
    LET p == sealed[Other(e)][n]
        pn == n - 1
        a == IF expired THEN [aead[e] EXCEPT !.prev = FALSE, !.expiry = FALSE] ELSE aead[e]
    IN  /\ expired => aead[e].prev /\ aead[e].expiry
        /\ IF Decrypts(a, pn, p.phase)
           THEN \E b \in {Opened(a, pn, p.phase)} :
                  /\ aead' = [aead EXCEPT ![e] = IF b.error THEN b ELSE SetLargestAcked(b, p.acks)]
                  /\ largestRcvd' = [largestRcvd EXCEPT ![e] = IF pn > @ THEN pn ELSE @]
           ELSE aead' = [aead EXCEPT ![e] = a] /\ UNCHANGED largestRcvd
        /\ UNCHANGED sealed

-----------------------------------------------------------------------------
(* Seal *)

UpdateAllowed(a) ==
    /\ a.confirmed
    /\ \/ a.keyPhase = 0
       \/ a.firstSent # Invalid /\ a.largestAcked # Invalid /\ a.largestAcked >= a.firstSent

ShouldInitiateKeyUpdate(a) ==
    UpdateAllowed(a) /\ (a.numRcvd >= KeyUpdateInterval \/ a.numSent >= KeyUpdateInterval)

\* KeyPhase, which may initiate an update, and Seal.
Seal(e) ==
    /\ Len(sealed["client"]) + Len(sealed["server"]) < MaxSealed
    /\ LET a == IF ShouldInitiateKeyUpdate(aead[e]) THEN RollKeys(aead[e]) ELSE aead[e]
       IN  /\ aead' = [aead EXCEPT ![e] = [a EXCEPT !.numSent = Count(@),
                                           !.firstSent = IF @ = Invalid THEN Len(sealed[e]) ELSE @]]
           /\ sealed' = [sealed EXCEPT ![e] = Append(@, [phase |-> a.keyPhase, acks |-> largestRcvd[e]])]
    /\ UNCHANGED largestRcvd

SetHandshakeConfirmed(e) ==
    /\ ~aead[e].confirmed
    /\ aead' = [aead EXCEPT ![e].confirmed = TRUE]
    /\ UNCHANGED <<sealed, largestRcvd>>

KeyInit ==
    /\ aead = [e \in Ends |-> NewAEAD]
    /\ sealed = [e \in Ends |-> << >>]
    /\ largestRcvd = [e \in Ends |-> Invalid]

KeyNext == \E e \in Ends :
    \/ Seal(e)
    \/ SetHandshakeConfirmed(e)
    \/ \E n \in 1..Len(sealed[Other(e)]), expired \in BOOLEAN : Open(e, n, expired)

KeySpec == KeyInit /\ [][KeyNext]_keyVars

-----------------------------------------------------------------------------
(* Properties *)

\* Two endpoints that follow the protocol never see each other update too quickly or
\* acknowledge a phase without using it (updatable_aead.go:217, 258).
NoKeyUpdateError == \A e \in Ends : ~aead[e].error

\* The bit and the packet number identify the key: every packet under way of the current,
\* the previous or the next phase is tried with its own key, however late it comes.
RightKeyTried ==
    \A e \in Ends : \A n \in DOMAIN sealed[e] :
        LET a == aead[Other(e)]  p == sealed[e][n]
        IN  /\ p.phase <= a.keyPhase + 1
            /\ p.phase >= a.keyPhase - 1 => TriedPhase(a, n - 1, Bit(p.phase)) = p.phase

\* Two endpoints that run this code never report a key update error, and try every packet
\* with the key it was sealed with.
KeysInStep == NoKeyUpdateError /\ RightKeyTried

=============================================================================
