---------------------------- MODULE KeyUpdateProofs ----------------------------
(* Key updates stay in step for every number of packets and every update interval, *)
(* over a network that loses, delays, reorders and duplicates.                  *)
EXTENDS KeyUpdate, TLAPS

--------------------------------------------------------------------------------
AEAD ==
  [keyPhase : Nat, largestAcked : Int, confirmed : BOOLEAN, prev : BOOLEAN, expiry : BOOLEAN,
   firstRcvd : Int, firstSent : Int, numRcvd : Nat, numSent : Nat, error : BOOLEAN]

Packet == [phase : Nat, acks : Int]

KeyTypeOK ==
  /\ aead \in [Ends -> AEAD]
  /\ sealed \in [Ends -> Seq(Packet)]
  /\ largestRcvd \in [Ends -> Int]

--------------------------------------------------------------------------------
(* The inductive invariant, part by part.  The conditions under which the code     *)
(* reports an error relate an endpoint to packets that the other one sent long      *)
(* ago, so the invariant has to say what those packets prove about their sender.    *)

\* The fields and packets of e that it is about; the definitions stay folded in most
\* of the steps below.
KeyPhase(e) == aead[e].keyPhase
FirstSent(e) == aead[e].firstSent
FirstRcvd(e) == aead[e].firstRcvd
LargestAcked(e) == aead[e].largestAcked
Rcvd(e) == largestRcvd[e]
NumSealed(e) == Len(sealed[e])
PhaseOf(e, n) == sealed[e][n].phase
AcksOf(e, n) == sealed[e][n].acks
Failed(e) == aead[e].error

\* All of these are integers.
InRange(e) ==
  /\ KeyPhase(e) \in Nat /\ FirstSent(e) \in Int /\ FirstRcvd(e) \in Int /\ LargestAcked(e) \in Int
  /\ Rcvd(e) \in Int /\ NumSealed(e) \in Nat
  /\ \A n \in 1..NumSealed(e) : PhaseOf(e, n) \in Nat /\ AcksOf(e, n) \in Int

\* Phases grow with the packet numbers, and firstSent separates the current phase.
SentInOrder(e) ==
  /\ \A m, n \in 1..NumSealed(e) : m <= n => PhaseOf(e, m) <= PhaseOf(e, n)
  /\ \A n \in 1..NumSealed(e) : PhaseOf(e, n) <= KeyPhase(e)
  /\ FirstSent(e) # Invalid => FirstSent(e) \in 0..(NumSealed(e) - 1)
  /\ \A n \in 1..NumSealed(e) : PhaseOf(e, n) = KeyPhase(e) <=> (FirstSent(e) # Invalid /\ n - 1 >= FirstSent(e))

\* firstRcvd is a packet of the current phase.
ReceivedInPhase(e) ==
  FirstRcvd(e) # Invalid =>
    /\ FirstRcvd(e) \in 0..(NumSealed(Other(e)) - 1)
    /\ PhaseOf(Other(e), FirstRcvd(e) + 1) = KeyPhase(e)

\* Whoever received a packet is in its phase or a later one, and if it is in the same
\* phase it knows a packet of it.
LargestInPhase(e) ==
  /\ Rcvd(e) \in -1..(NumSealed(Other(e)) - 1)
  /\ Rcvd(e) # Invalid =>
       /\ PhaseOf(Other(e), Rcvd(e) + 1) <= KeyPhase(e)
       /\ PhaseOf(Other(e), Rcvd(e) + 1) = KeyPhase(e) => FirstRcvd(e) # Invalid

\* A packet acknowledges only packets of its own phase or earlier ones.
AcksInPhase(e) ==
  \A n \in 1..NumSealed(e) :
    /\ AcksOf(e, n) \in -1..Rcvd(e)
    /\ AcksOf(e, n) # Invalid => PhaseOf(Other(e), AcksOf(e, n) + 1) <= PhaseOf(e, n)

\* An acknowledgment that arrived was in a packet of the other endpoint.
AckedInPhase(e) ==
  LargestAcked(e) # Invalid =>
    /\ LargestAcked(e) \in 0..Rcvd(Other(e))
    /\ \E n \in 1..NumSealed(Other(e)) : PhaseOf(Other(e), n) >= PhaseOf(e, LargestAcked(e) + 1)

\* Nobody is two phases ahead; and the one behind has sent and received in its phase.
OneAhead(e) ==
  /\ KeyPhase(Other(e)) <= KeyPhase(e) + 1
  /\ KeyPhase(Other(e)) = KeyPhase(e) + 1 =>
       KeyPhase(e) = 0 \/ (FirstRcvd(e) # Invalid /\ FirstSent(e) # Invalid)

InStep(e) ==
  /\ SentInOrder(e) /\ ReceivedInPhase(e) /\ LargestInPhase(e) /\ AcksInPhase(e)
  /\ AckedInPhase(e) /\ OneAhead(e) /\ ~Failed(e)

KInv == KeyTypeOK /\ \A e \in Ends : InStep(e)

--------------------------------------------------------------------------------
(* What the operators on an updatableAEAD do, field by field.                      *)

LEMMA TwoEnds ==
  ASSUME NEW e \in Ends
  PROVE  /\ Other(e) \in Ends /\ Other(e) # e /\ Other(Other(e)) = e
         /\ \A x \in Ends : x = e \/ x = Other(e)
  BY DEF Ends, Other

LEMMA RollKeysFields ==
  ASSUME NEW a \in AEAD
  PROVE  LET r == RollKeys(a)
         IN  /\ r \in AEAD
             /\ r.keyPhase = a.keyPhase + 1 /\ r.firstRcvd = Invalid /\ r.firstSent = Invalid
             /\ r.largestAcked = a.largestAcked /\ r.error = a.error
<1>1. RollKeys(a) \in AEAD
  <2>1. DOMAIN RollKeys(a) = DOMAIN a
    BY DEF RollKeys
  <2>2. /\ RollKeys(a).keyPhase \in Nat /\ RollKeys(a).largestAcked \in Int /\ RollKeys(a).firstRcvd \in Int
        /\ RollKeys(a).firstSent \in Int /\ RollKeys(a).numRcvd \in Nat /\ RollKeys(a).numSent \in Nat
        /\ RollKeys(a).error \in BOOLEAN /\ RollKeys(a).confirmed \in BOOLEAN
        /\ RollKeys(a).prev \in BOOLEAN /\ RollKeys(a).expiry \in BOOLEAN
    BY DEF RollKeys, AEAD, Invalid
  <2> QED
    BY Zenon, <2>1, <2>2 DEF AEAD, RollKeys
<1> QED
  BY <1>1 DEF AEAD, RollKeys, Invalid

LEMMA OpenCurrentFields ==
  ASSUME NEW a \in AEAD, NEW pn \in Int, KeyUpdateInterval \in Nat \ {0}
  PROVE  LET r == OpenCurrent(a, pn)
         IN  /\ r \in AEAD
             /\ r.keyPhase = a.keyPhase /\ r.firstSent = a.firstSent
             /\ r.firstRcvd = IF a.firstRcvd # Invalid THEN a.firstRcvd ELSE pn
             /\ r.largestAcked = a.largestAcked /\ r.error = a.error /\ r.numRcvd > 0
<1> DEFINE n == [a EXCEPT !.numRcvd = Count(@)]
           t == IF a.keyPhase > 0 THEN StartKeyDropTimer(n) ELSE n
<1>1. /\ n \in AEAD /\ n.numRcvd > 0 /\ n.keyPhase = a.keyPhase /\ n.firstSent = a.firstSent
      /\ n.firstRcvd = a.firstRcvd /\ n.largestAcked = a.largestAcked /\ n.error = a.error
  BY DEF AEAD, Count
<1>2. /\ t \in AEAD /\ t.numRcvd > 0 /\ t.keyPhase = a.keyPhase /\ t.firstSent = a.firstSent
      /\ t.firstRcvd = a.firstRcvd /\ t.largestAcked = a.largestAcked /\ t.error = a.error
  <2> HIDE DEF n
  <2> QED
    BY Zenon, <1>1 DEF AEAD, StartKeyDropTimer
<1>3. OpenCurrent(a, pn) = IF a.firstRcvd # Invalid THEN n ELSE [t EXCEPT !.firstRcvd = pn]
  BY DEF OpenCurrent
<1> HIDE DEF n, t
<1> QED
  BY <1>1, <1>2, <1>3 DEF AEAD

LEMMA OpenNextFields ==
  ASSUME NEW a \in AEAD, NEW pn \in Int, a.keyPhase = 0 \/ a.firstSent # Invalid
  PROVE  LET r == OpenNext(a, pn)
         IN  /\ r \in AEAD
             /\ r.keyPhase = a.keyPhase + 1 /\ r.firstRcvd = pn /\ r.firstSent = Invalid
             /\ r.largestAcked = a.largestAcked /\ r.error = a.error
<1> DEFINE r == RollKeys(a)
           t == StartKeyDropTimer(r)
<1>1. /\ r \in AEAD /\ r.keyPhase = a.keyPhase + 1 /\ r.firstSent = Invalid
      /\ r.largestAcked = a.largestAcked /\ r.error = a.error
  BY RollKeysFields
<1>2. /\ t \in AEAD /\ t.keyPhase = a.keyPhase + 1 /\ t.firstSent = Invalid
      /\ t.largestAcked = a.largestAcked /\ t.error = a.error
  <2> HIDE DEF r
  <2> QED
    BY Zenon, <1>1 DEF AEAD, StartKeyDropTimer
<1>3. OpenNext(a, pn) = [t EXCEPT !.firstRcvd = pn]
  BY DEF OpenNext, AEAD
<1> HIDE DEF t
<1> QED
  BY <1>2, <1>3 DEF AEAD

LEMMA SetLargestAckedFields ==
  ASSUME NEW a \in AEAD, NEW pn \in Int,
         pn # Invalid /\ a.firstSent # Invalid /\ pn >= a.firstSent => a.numRcvd > 0
  PROVE  LET r == SetLargestAcked(a, pn)
         IN  /\ r \in AEAD
             /\ r.keyPhase = a.keyPhase /\ r.firstSent = a.firstSent /\ r.firstRcvd = a.firstRcvd
             /\ r.largestAcked = IF pn = Invalid THEN a.largestAcked ELSE pn
             /\ r.error = a.error
<1>1. SetLargestAcked(a, pn) = IF pn = Invalid THEN a ELSE [a EXCEPT !.largestAcked = pn]
  BY DEF AEAD, SetLargestAcked
<1> QED
  BY <1>1 DEF AEAD

--------------------------------------------------------------------------------
\* The values that the arithmetic below is about are integers.
LEMMA Ranges ==
  ASSUME KeyTypeOK, NEW e \in Ends
  PROVE  InRange(e)
<1>1. aead[e] \in AEAD /\ sealed[e] \in Seq(Packet) /\ largestRcvd[e] \in Int
  BY DEF KeyTypeOK
<1>2. ASSUME NEW n \in 1..NumSealed(e)
      PROVE  PhaseOf(e, n) \in Nat /\ AcksOf(e, n) \in Int
  <2>1. sealed[e][n] \in Packet
    BY <1>1, <1>2 DEF NumSealed
  <2> QED
    BY <2>1 DEF Packet, PhaseOf, AcksOf
<1>3. /\ KeyPhase(e) \in Nat /\ FirstSent(e) \in Int /\ FirstRcvd(e) \in Int /\ LargestAcked(e) \in Int
      /\ Rcvd(e) \in Int /\ NumSealed(e) \in Nat
  BY <1>1 DEF AEAD, KeyPhase, FirstSent, FirstRcvd, LargestAcked, Rcvd, NumSealed
<1> QED
  BY <1>2, <1>3 DEF InRange

LEMMA InitKInv == KeyInit => KInv
<1> SUFFICES ASSUME KeyInit PROVE KInv
  OBVIOUS
<1> USE DEF KeyInit
<1>1. NewAEAD \in AEAD
  BY DEF NewAEAD, AEAD, Invalid
<1>2. KeyTypeOK
  <2>1. << >> \in Seq(Packet)
    OBVIOUS
  <2> QED
    BY <1>1, <2>1 DEF KeyTypeOK, Invalid
<1>3. ASSUME NEW e \in Ends
      PROVE  /\ KeyPhase(e) = 0 /\ FirstSent(e) = -1 /\ FirstRcvd(e) = -1 /\ LargestAcked(e) = -1
             /\ Rcvd(e) = -1 /\ NumSealed(e) = 0 /\ ~Failed(e)
  BY <1>3 DEF NewAEAD, Invalid, KeyPhase, FirstSent, FirstRcvd, LargestAcked, Rcvd, NumSealed, Failed
<1>4. ASSUME NEW e \in Ends PROVE InStep(e)
  <2>1. Other(e) \in Ends
    BY TwoEnds
  <2>2. KeyPhase(Other(e)) = 0 /\ NumSealed(Other(e)) = 0
    BY <1>3, <2>1
  <2> QED
    BY <1>3, <2>2 DEF InStep, SentInOrder, ReceivedInPhase, LargestInPhase, AcksInPhase, AckedInPhase,
                OneAhead, Invalid
<1> QED
  BY <1>2, <1>4 DEF KInv

--------------------------------------------------------------------------------
(* Seal: an endpoint appends a packet, after an update if one is due.              *)

LEMMA SealEffect ==
  ASSUME KInv, NEW e \in Ends, Seal(e)
  PROVE  /\ KeyTypeOK'
         /\ aead'[Other(e)] = aead[Other(e)] /\ sealed'[Other(e)] = sealed[Other(e)] /\ largestRcvd' = largestRcvd
         /\ Len(sealed'[e]) = Len(sealed[e]) + 1
         /\ \A n \in 1..Len(sealed[e]) : sealed'[e][n] = sealed[e][n]
         /\ sealed'[e][Len(sealed[e]) + 1] = [phase |-> aead'[e].keyPhase, acks |-> largestRcvd[e]]
         /\ aead'[e].largestAcked = aead[e].largestAcked /\ aead'[e].error = aead[e].error
         /\ \/ /\ UpdateAllowed(aead[e])
               /\ aead'[e].keyPhase = aead[e].keyPhase + 1
               /\ aead'[e].firstRcvd = Invalid /\ aead'[e].firstSent = Len(sealed[e])
            \/ /\ aead'[e].keyPhase = aead[e].keyPhase /\ aead'[e].firstRcvd = aead[e].firstRcvd
               /\ aead'[e].firstSent = IF aead[e].firstSent = Invalid THEN Len(sealed[e]) ELSE aead[e].firstSent
<1> DEFINE due == ShouldInitiateKeyUpdate(aead[e])
           a == IF due THEN RollKeys(aead[e]) ELSE aead[e]
           b == [a EXCEPT !.numSent = Count(@), !.firstSent = IF @ = Invalid THEN Len(sealed[e]) ELSE @]
           p == [phase |-> a.keyPhase, acks |-> largestRcvd[e]]
<1>0. /\ aead \in [Ends -> AEAD] /\ sealed \in [Ends -> Seq(Packet)] /\ largestRcvd \in [Ends -> Int]
      /\ Other(e) \in Ends /\ Other(e) # e
  BY TwoEnds DEF KInv, KeyTypeOK
<1>1. a \in AEAD /\ RollKeys(aead[e]) \in AEAD
  BY <1>0, RollKeysFields
<1>2. /\ aead' = [aead EXCEPT ![e] = b] /\ sealed' = [sealed EXCEPT ![e] = Append(@, p)]
      /\ largestRcvd' = largestRcvd
  BY DEF Seal
<1>3. Len(sealed[e]) \in Nat /\ sealed[e] \in Seq(Packet)
  BY <1>0
<1>4. /\ b \in AEAD /\ b.keyPhase = a.keyPhase /\ b.firstRcvd = a.firstRcvd /\ b.largestAcked = a.largestAcked
      /\ b.error = a.error /\ b.firstSent = IF a.firstSent = Invalid THEN Len(sealed[e]) ELSE a.firstSent
  <2> HIDE DEF a
  <2>1. /\ b.keyPhase = a.keyPhase /\ b.firstRcvd = a.firstRcvd /\ b.largestAcked = a.largestAcked
        /\ b.error = a.error /\ b.firstSent = IF a.firstSent = Invalid THEN Len(sealed[e]) ELSE a.firstSent
        /\ b.numRcvd = a.numRcvd /\ b.confirmed = a.confirmed /\ b.prev = a.prev /\ b.expiry = a.expiry
    BY <1>1 DEF AEAD
  <2>2. b.numSent \in Nat
    BY <1>1 DEF AEAD, Count
  <2>3. DOMAIN b = DOMAIN a
    OBVIOUS
  <2>4. b \in AEAD
    <3>1. /\ b.keyPhase \in Nat /\ b.largestAcked \in Int /\ b.firstRcvd \in Int /\ b.firstSent \in Int
          /\ b.numRcvd \in Nat /\ b.numSent \in Nat /\ b.error \in BOOLEAN /\ b.confirmed \in BOOLEAN
          /\ b.prev \in BOOLEAN /\ b.expiry \in BOOLEAN
      BY <1>1, <1>3, <2>1, <2>2 DEF AEAD
    <3> QED
      BY Zenon, <1>1, <2>3, <3>1 DEF AEAD
  <2> QED
    BY <2>1, <2>4
<1>5. p \in Packet
  <2> HIDE DEF a
  <2> QED
    BY <1>0, <1>1 DEF Packet, AEAD
<1>6. aead'[e] = b /\ sealed'[e] = Append(sealed[e], p)
  <2> HIDE DEF b, p
  <2> QED
    BY <1>0, <1>2
<1>7. KeyTypeOK'
  <2> HIDE DEF b, p
  <2> QED
    BY <1>0, <1>2, <1>3, <1>4, <1>5 DEF KeyTypeOK
<1>8. aead'[Other(e)] = aead[Other(e)] /\ sealed'[Other(e)] = sealed[Other(e)]
  <2> HIDE DEF b, p
  <2> QED
    BY <1>0, <1>2
<1>9. /\ Len(sealed'[e]) = Len(sealed[e]) + 1
      /\ \A n \in 1..Len(sealed[e]) : sealed'[e][n] = sealed[e][n]
      /\ sealed'[e][Len(sealed[e]) + 1] = p
  <2> HIDE DEF p
  <2> QED
    BY <1>3, <1>5, <1>6
<1>10. CASE due
  <2>1. a = RollKeys(aead[e]) /\ UpdateAllowed(aead[e])
    BY <1>10 DEF ShouldInitiateKeyUpdate
  <2>2. /\ a.keyPhase = aead[e].keyPhase + 1 /\ a.firstRcvd = Invalid /\ a.firstSent = Invalid
        /\ a.largestAcked = aead[e].largestAcked /\ a.error = aead[e].error
    BY <1>0, <2>1, RollKeysFields
  <2> HIDE DEF a, b
  <2> QED
    BY <1>2, <1>4, <1>6, <1>7, <1>8, <1>9, <2>1, <2>2
<1>11. CASE ~due
  <2>1. a = aead[e]
    BY <1>11
  <2> HIDE DEF a, b
  <2> QED
    BY <1>2, <1>4, <1>6, <1>7, <1>8, <1>9, <2>1
<1> QED
  BY <1>10, <1>11

LEMMA SealChanges ==
  ASSUME KInv, NEW e \in Ends, Seal(e)
  PROVE  /\ KeyPhase(Other(e))' = KeyPhase(Other(e)) /\ FirstSent(Other(e))' = FirstSent(Other(e))
         /\ FirstRcvd(Other(e))' = FirstRcvd(Other(e)) /\ LargestAcked(Other(e))' = LargestAcked(Other(e))
         /\ NumSealed(Other(e))' = NumSealed(Other(e)) /\ Rcvd(Other(e))' = Rcvd(Other(e))
         /\ \A n : PhaseOf(Other(e), n)' = PhaseOf(Other(e), n) /\ AcksOf(Other(e), n)' = AcksOf(Other(e), n)
         /\ Failed(Other(e))' = Failed(Other(e))
         /\ NumSealed(e)' = NumSealed(e) + 1 /\ Rcvd(e)' = Rcvd(e)
         /\ \A n \in 1..NumSealed(e) : PhaseOf(e, n)' = PhaseOf(e, n) /\ AcksOf(e, n)' = AcksOf(e, n)
         /\ \A n : n = NumSealed(e) + 1 => PhaseOf(e, n)' = KeyPhase(e)' /\ AcksOf(e, n)' = Rcvd(e)
         /\ LargestAcked(e)' = LargestAcked(e) /\ Failed(e)' = Failed(e)
         /\ \/ /\ UpdateAllowed(aead[e])
               /\ KeyPhase(e)' = KeyPhase(e) + 1 /\ FirstRcvd(e)' = Invalid /\ FirstSent(e)' = NumSealed(e)
            \/ /\ KeyPhase(e)' = KeyPhase(e) /\ FirstRcvd(e)' = FirstRcvd(e)
               /\ FirstSent(e)' = IF FirstSent(e) = Invalid THEN NumSealed(e) ELSE FirstSent(e)
<1>1. \A n : n = Len(sealed[e]) + 1 =>
        sealed'[e][n].phase = aead'[e].keyPhase /\ sealed'[e][n].acks = largestRcvd[e]
  <2>1. sealed'[e][Len(sealed[e]) + 1] = [phase |-> aead'[e].keyPhase, acks |-> largestRcvd[e]]
    BY SealEffect
  <2> QED
    BY <2>1
<1>2. \A n \in 1..Len(sealed[e]) : sealed'[e][n] = sealed[e][n]
  BY Zenon, SealEffect
<1>3. /\ aead'[Other(e)] = aead[Other(e)] /\ sealed'[Other(e)] = sealed[Other(e)]
      /\ largestRcvd' = largestRcvd /\ Len(sealed'[e]) = Len(sealed[e]) + 1
      /\ aead'[e].largestAcked = aead[e].largestAcked /\ aead'[e].error = aead[e].error
  BY Zenon, SealEffect
<1>4. \/ /\ UpdateAllowed(aead[e])
         /\ aead'[e].keyPhase = aead[e].keyPhase + 1
         /\ aead'[e].firstRcvd = Invalid /\ aead'[e].firstSent = Len(sealed[e])
      \/ /\ aead'[e].keyPhase = aead[e].keyPhase /\ aead'[e].firstRcvd = aead[e].firstRcvd
         /\ aead'[e].firstSent = IF aead[e].firstSent = Invalid THEN Len(sealed[e]) ELSE aead[e].firstSent
  BY Zenon, SealEffect
<1> QED
  BY <1>1, <1>2, <1>3, <1>4 DEF KeyPhase, FirstSent, FirstRcvd, LargestAcked, Rcvd, NumSealed, PhaseOf, AcksOf, Failed

LEMMA SealKInv ==
  ASSUME KInv, NEW e \in Ends, Seal(e)
  PROVE  KInv'
<1> DEFINE o == Other(e)
<1>0. o \in Ends /\ o # e /\ Other(o) = e /\ \A x \in Ends : x = e \/ x = o
  BY TwoEnds
<1>1. /\ KeyPhase(o)' = KeyPhase(o) /\ FirstSent(o)' = FirstSent(o) /\ FirstRcvd(o)' = FirstRcvd(o)
      /\ LargestAcked(o)' = LargestAcked(o) /\ NumSealed(o)' = NumSealed(o) /\ Rcvd(o)' = Rcvd(o)
      /\ \A n : PhaseOf(o, n)' = PhaseOf(o, n) /\ AcksOf(o, n)' = AcksOf(o, n)
      /\ Failed(o)' = Failed(o)
  BY SealChanges
<1>2. /\ NumSealed(e)' = NumSealed(e) + 1 /\ Rcvd(e)' = Rcvd(e)
      /\ \A n \in 1..NumSealed(e) : PhaseOf(e, n)' = PhaseOf(e, n) /\ AcksOf(e, n)' = AcksOf(e, n)
      /\ \A n : n = NumSealed(e) + 1 => PhaseOf(e, n)' = KeyPhase(e)' /\ AcksOf(e, n)' = Rcvd(e)
      /\ LargestAcked(e)' = LargestAcked(e) /\ Failed(e)' = Failed(e)
  BY SealChanges
<1>3. \/ /\ UpdateAllowed(aead[e])
         /\ KeyPhase(e)' = KeyPhase(e) + 1 /\ FirstRcvd(e)' = Invalid /\ FirstSent(e)' = NumSealed(e)
      \/ /\ KeyPhase(e)' = KeyPhase(e) /\ FirstRcvd(e)' = FirstRcvd(e)
         /\ FirstSent(e)' = IF FirstSent(e) = Invalid THEN NumSealed(e) ELSE FirstSent(e)
  BY SealChanges
<1>4. KeyTypeOK'
  BY ZenonT(30), SealEffect
<1>5. InRange(e) /\ InRange(o) /\ InStep(e) /\ InStep(o)
  BY <1>0, Ranges DEF KInv
<1> HIDE DEF o
<1> USE DEF Invalid, InRange, InStep
<1>6. SentInOrder(e)'
  BY <1>2, <1>3, <1>5 DEF SentInOrder
<1>7. SentInOrder(o)'
  BY <1>1, <1>5 DEF SentInOrder
<1>8. ReceivedInPhase(e)' /\ ReceivedInPhase(o)'
  BY <1>0, <1>1, <1>2, <1>3, <1>5 DEF ReceivedInPhase, o
<1>9. LargestInPhase(e)' /\ LargestInPhase(o)'
  BY <1>0, <1>1, <1>2, <1>3, <1>5 DEF LargestInPhase, o
<1>10. AcksInPhase(e)'
  BY <1>0, <1>1, <1>2, <1>3, <1>5 DEF AcksInPhase, LargestInPhase, o
<1>11. AcksInPhase(o)'
  BY <1>0, <1>1, <1>2, <1>3, <1>5 DEF AcksInPhase, LargestInPhase, o
<1>12. AckedInPhase(e)'
  BY <1>0, <1>1, <1>2, <1>3, <1>5 DEF AckedInPhase, LargestInPhase, o
<1>13. AckedInPhase(o)'
  BY <1>0, <1>1, <1>2, <1>3, <1>5 DEF AckedInPhase, LargestInPhase, o
<1>14. OneAhead(e)'
  BY <1>1, <1>2, <1>3, <1>5 DEF OneAhead, o
<1>15. OneAhead(o)'
  <2>1. CASE KeyPhase(e)' = KeyPhase(e)
    BY <1>0, <1>1, <1>5, <2>1 DEF OneAhead
  <2>2. CASE KeyPhase(e)' = KeyPhase(e) + 1 /\ UpdateAllowed(aead[e])
    <3>1. CASE KeyPhase(e) = 0
      BY <1>0, <1>1, <1>5, <2>2, <3>1 DEF OneAhead
    <3>2. CASE KeyPhase(e) # 0
      <4>1. FirstSent(e) # Invalid /\ LargestAcked(e) # Invalid /\ LargestAcked(e) >= FirstSent(e)
        BY <2>2, <3>2 DEF UpdateAllowed, KeyPhase, FirstSent, LargestAcked
      <4>2. LargestAcked(e) \in 0..Rcvd(o) /\ Rcvd(o) \in -1..(NumSealed(e) - 1)
        BY <1>0, <1>5, <4>1 DEF AckedInPhase, LargestInPhase, o
      <4>3. PhaseOf(e, LargestAcked(e) + 1) = KeyPhase(e)
        BY <1>5, <4>1, <4>2 DEF SentInOrder
      <4>4. PhaseOf(e, Rcvd(o) + 1) = KeyPhase(e)
        BY <1>5, <4>1, <4>2 DEF SentInOrder
      <4>5. KeyPhase(o) >= KeyPhase(e) /\ (KeyPhase(o) = KeyPhase(e) => FirstRcvd(o) # Invalid)
        BY <1>0, <1>5, <4>2, <4>4 DEF LargestInPhase
      <4>6. PICK n \in 1..NumSealed(o) : PhaseOf(o, n) >= KeyPhase(e)
        BY <1>5, <4>1, <4>3 DEF AckedInPhase, o
      <4>7. KeyPhase(o) = KeyPhase(e) => FirstSent(o) # Invalid
        BY <1>5, <4>6 DEF SentInOrder
      <4> QED
        BY <1>0, <1>1, <1>5, <2>2, <4>5, <4>7 DEF OneAhead
    <3> QED
      BY <3>1, <3>2
  <2> QED
    BY <1>3, <2>1, <2>2
<1>16. InStep(e)' /\ InStep(o)'
  BY <1>1, <1>2, <1>5, <1>6, <1>7, <1>8, <1>9, <1>10, <1>11, <1>12, <1>13, <1>14, <1>15
<1> QED
  BY <1>0, <1>4, <1>16 DEF KInv

--------------------------------------------------------------------------------
(* Open: an endpoint opens a packet of the other one, in whatever order they come. *)

\* The previous key goes, if its time has come, before anything is tried.
KeysAt(e, expired) == IF expired THEN [aead[e] EXCEPT !.prev = FALSE, !.expiry = FALSE] ELSE aead[e]

LEMMA KeysAtFields ==
  ASSUME KeyTypeOK, NEW e \in Ends, NEW expired \in BOOLEAN
  PROVE  LET a == KeysAt(e, expired)
         IN  /\ a \in AEAD
             /\ a.keyPhase = KeyPhase(e) /\ a.firstSent = FirstSent(e) /\ a.firstRcvd = FirstRcvd(e)
             /\ a.largestAcked = LargestAcked(e) /\ a.error = Failed(e)
<1> DEFINE b == [aead[e] EXCEPT !.prev = FALSE]
<1>1. aead[e] \in AEAD
  BY DEF KeyTypeOK
<1>2. b \in AEAD /\ [b EXCEPT !.expiry = FALSE] \in AEAD
  <2>1. b \in AEAD
    BY Zenon, <1>1 DEF AEAD
  <2> HIDE DEF b
  <2> QED
    BY Zenon, <2>1 DEF AEAD
<1>3. [aead[e] EXCEPT !.prev = FALSE, !.expiry = FALSE] = [b EXCEPT !.expiry = FALSE]
  BY Zenon
<1>4. KeysAt(e, expired) \in AEAD
  <2> HIDE DEF b
  <2> QED
    BY <1>1, <1>2, <1>3 DEF KeysAt
<1> QED
  BY <1>1, <1>4 DEF KeysAt, AEAD, KeyPhase, FirstSent, FirstRcvd, LargestAcked, Failed

\* What the receiver makes of a packet that it can open: nothing in it is an error.
LEMMA OpenedFields ==
  ASSUME KeyUpdateInterval \in Nat \ {0}, KInv, NEW e \in Ends, NEW n \in 1..NumSealed(Other(e)),
         NEW a \in AEAD, Decrypts(a, n - 1, PhaseOf(Other(e), n)),
         a.keyPhase = KeyPhase(e), a.firstSent = FirstSent(e), a.firstRcvd = FirstRcvd(e),
         a.largestAcked = LargestAcked(e), ~a.error
  PROVE  LET ph == PhaseOf(Other(e), n)
             c == Opened(a, n - 1, ph)
             r == SetLargestAcked(c, AcksOf(Other(e), n))
         IN  /\ ~c.error /\ r \in AEAD /\ ~r.error
             /\ r.largestAcked = IF AcksOf(Other(e), n) = Invalid THEN LargestAcked(e) ELSE AcksOf(Other(e), n)
             /\ \/ /\ ph = KeyPhase(e) - 1 /\ r.keyPhase = KeyPhase(e)
                   /\ r.firstSent = FirstSent(e) /\ r.firstRcvd = FirstRcvd(e)
                \/ /\ ph = KeyPhase(e) /\ r.keyPhase = KeyPhase(e) /\ r.firstSent = FirstSent(e)
                   /\ r.firstRcvd = IF FirstRcvd(e) # Invalid THEN FirstRcvd(e) ELSE n - 1
                \/ /\ ph = KeyPhase(e) + 1 /\ r.keyPhase = KeyPhase(e) + 1
                   /\ r.firstSent = Invalid /\ r.firstRcvd = n - 1
<1> DEFINE o == Other(e)
           ph == PhaseOf(o, n)
           acks == AcksOf(o, n)
           c == Opened(a, n - 1, ph)
<1>0. o \in Ends /\ Other(o) = e
  BY TwoEnds
<1>1. InRange(e) /\ InRange(o) /\ InStep(e) /\ InStep(o)
  BY <1>0, Ranges DEF KInv
<1>2. n - 1 \in Int /\ ph \in Nat /\ acks \in Int /\ n \in 1..NumSealed(o)
  BY <1>1 DEF InRange
<1>3. ph = KeyPhase(e) - 1 \/ ph = KeyPhase(e) \/ ph = KeyPhase(e) + 1
  BY DEF Decrypts, TriedPhase
<1> HIDE DEF o
<1>4. CASE ph = KeyPhase(e)
  <2>1. c = OpenCurrent(a, n - 1)
    BY <1>4 DEF Opened
  <2>2. /\ c \in AEAD /\ c.keyPhase = KeyPhase(e) /\ c.firstSent = FirstSent(e)
        /\ c.firstRcvd = IF FirstRcvd(e) # Invalid THEN FirstRcvd(e) ELSE n - 1
        /\ c.largestAcked = LargestAcked(e) /\ ~c.error /\ c.numRcvd > 0
    <3> HIDE DEF c
    <3> QED
      BY Zenon, <1>2, <2>1, OpenCurrentFields
  <2> HIDE DEF c
  <2>3. LET r == SetLargestAcked(c, acks)
        IN  /\ r \in AEAD /\ r.keyPhase = c.keyPhase /\ r.firstSent = c.firstSent /\ r.firstRcvd = c.firstRcvd
            /\ r.largestAcked = IF acks = Invalid THEN c.largestAcked ELSE acks
            /\ r.error = c.error
    <3> HIDE DEF acks
    <3> QED
      BY <1>2, <2>2, SetLargestAckedFields
  <2> QED
    BY Zenon, <1>4, <2>2, <2>3 DEF o, c
<1>5. CASE ph = KeyPhase(e) + 1
  <2>1. KeyPhase(e) = 0 \/ FirstSent(e) # Invalid
    <3>1. KeyPhase(o) >= ph
      BY <1>1, <1>2 DEF InStep, SentInOrder, InRange
    <3> QED
      BY <1>0, <1>1, <1>5, <3>1 DEF InStep, OneAhead, InRange, o
  <2>2. c = OpenNext(a, n - 1)
    BY <1>1, <1>5 DEF Opened, InRange
  <2>3. /\ c \in AEAD /\ c.keyPhase = KeyPhase(e) + 1 /\ c.firstSent = Invalid /\ c.firstRcvd = n - 1
        /\ c.largestAcked = LargestAcked(e) /\ ~c.error
    <3> HIDE DEF c
    <3> QED
      BY <1>2, <2>1, <2>2, OpenNextFields
  <2> HIDE DEF c
  <2>4. LET r == SetLargestAcked(c, acks)
        IN  /\ r \in AEAD /\ r.keyPhase = c.keyPhase /\ r.firstSent = c.firstSent /\ r.firstRcvd = c.firstRcvd
            /\ r.largestAcked = IF acks = Invalid THEN c.largestAcked ELSE acks
            /\ r.error = c.error
    <3> HIDE DEF acks
    <3> QED
      BY <1>2, <2>3, SetLargestAckedFields
  <2> QED
    BY Zenon, <1>5, <2>3, <2>4 DEF o, c
<1>6. CASE ph = KeyPhase(e) - 1
  <2>1. c = a
    BY <1>1, <1>6 DEF Opened, InRange
  <2>2. ~(acks # Invalid /\ FirstSent(e) # Invalid /\ acks >= FirstSent(e))
    <3> SUFFICES ASSUME acks # Invalid, FirstSent(e) # Invalid, acks >= FirstSent(e)
                 PROVE  FALSE
      OBVIOUS
    <3>1. acks \in 0..(NumSealed(e) - 1) /\ PhaseOf(e, acks + 1) <= ph
      BY <1>0, <1>1, <1>2 DEF InStep, AcksInPhase, LargestInPhase, InRange, Invalid
    <3>2. PhaseOf(e, acks + 1) = KeyPhase(e)
      BY <1>1, <3>1 DEF InStep, SentInOrder, InRange
    <3> QED
      BY <1>1, <1>6, <3>1, <3>2 DEF InRange
  <2> HIDE DEF c
  <2>3. LET r == SetLargestAcked(c, acks)
        IN  /\ r \in AEAD /\ r.keyPhase = a.keyPhase /\ r.firstSent = a.firstSent /\ r.firstRcvd = a.firstRcvd
            /\ r.largestAcked = IF acks = Invalid THEN a.largestAcked ELSE acks
            /\ r.error = a.error
    <3> HIDE DEF acks
    <3> QED
      BY <1>2, <2>1, <2>2, SetLargestAckedFields
  <2> QED
    BY Zenon, <1>6, <2>1, <2>3 DEF o, c
<1> QED
  BY Zenon, <1>3, <1>4, <1>5, <1>6

LEMMA OpenEffect ==
  ASSUME KeyUpdateInterval \in Nat \ {0}, KInv, NEW e \in Ends,
         NEW n \in 1..Len(sealed[Other(e)]), NEW expired \in BOOLEAN, Open(e, n, expired)
  PROVE  \E r \in AEAD, top \in Int :
           /\ aead' = [aead EXCEPT ![e] = r] /\ largestRcvd' = [largestRcvd EXCEPT ![e] = top] /\ sealed' = sealed
           /\ ~r.error
           /\ \/ /\ r.keyPhase = KeyPhase(e) /\ r.firstSent = FirstSent(e) /\ r.firstRcvd = FirstRcvd(e)
                 /\ r.largestAcked = LargestAcked(e) /\ top = Rcvd(e)
              \/ /\ top = IF n - 1 > Rcvd(e) THEN n - 1 ELSE Rcvd(e)
                 /\ r.largestAcked = IF AcksOf(Other(e), n) = Invalid THEN LargestAcked(e) ELSE AcksOf(Other(e), n)
                 /\ \/ /\ PhaseOf(Other(e), n) = KeyPhase(e) - 1 /\ r.keyPhase = KeyPhase(e)
                       /\ r.firstSent = FirstSent(e) /\ r.firstRcvd = FirstRcvd(e)
                    \/ /\ PhaseOf(Other(e), n) = KeyPhase(e) /\ r.keyPhase = KeyPhase(e)
                       /\ r.firstSent = FirstSent(e)
                       /\ r.firstRcvd = IF FirstRcvd(e) # Invalid THEN FirstRcvd(e) ELSE n - 1
                    \/ /\ PhaseOf(Other(e), n) = KeyPhase(e) + 1 /\ r.keyPhase = KeyPhase(e) + 1
                       /\ r.firstSent = Invalid /\ r.firstRcvd = n - 1
<1> DEFINE a == KeysAt(e, expired)
           ph == PhaseOf(Other(e), n)
           acks == AcksOf(Other(e), n)
           c == Opened(a, n - 1, ph)
           r == SetLargestAcked(c, acks)
           top == IF n - 1 > Rcvd(e) THEN n - 1 ELSE Rcvd(e)
<1>1. /\ a \in AEAD
      /\ a.keyPhase = KeyPhase(e) /\ a.firstSent = FirstSent(e) /\ a.firstRcvd = FirstRcvd(e)
      /\ a.largestAcked = LargestAcked(e) /\ ~a.error
  BY KeysAtFields DEF KInv, InStep
<1>2. /\ IF Decrypts(a, n - 1, ph)
         THEN /\ aead' = [aead EXCEPT ![e] = IF c.error THEN c ELSE r]
              /\ largestRcvd' = [largestRcvd EXCEPT ![e] = IF n - 1 > @ THEN n - 1 ELSE @]
         ELSE aead' = [aead EXCEPT ![e] = a] /\ largestRcvd' = largestRcvd
      /\ sealed' = sealed
  BY DEF Open, KeysAt, PhaseOf, AcksOf
<1>3. largestRcvd \in [Ends -> Int] /\ Rcvd(e) \in Int /\ Rcvd(e) = largestRcvd[e] /\ n \in 1..NumSealed(Other(e))
  BY DEF KInv, KeyTypeOK, Rcvd, NumSealed
<1>4. CASE Decrypts(a, n - 1, ph)
  <2>1. /\ ~c.error /\ r \in AEAD /\ ~r.error
        /\ r.largestAcked = IF acks = Invalid THEN LargestAcked(e) ELSE acks
        /\ \/ /\ ph = KeyPhase(e) - 1 /\ r.keyPhase = KeyPhase(e)
              /\ r.firstSent = FirstSent(e) /\ r.firstRcvd = FirstRcvd(e)
           \/ /\ ph = KeyPhase(e) /\ r.keyPhase = KeyPhase(e) /\ r.firstSent = FirstSent(e)
              /\ r.firstRcvd = IF FirstRcvd(e) # Invalid THEN FirstRcvd(e) ELSE n - 1
           \/ /\ ph = KeyPhase(e) + 1 /\ r.keyPhase = KeyPhase(e) + 1
              /\ r.firstSent = Invalid /\ r.firstRcvd = n - 1
    <3> HIDE DEF a
    <3> QED
      BY Zenon, <1>1, <1>3, <1>4, OpenedFields
  <2> HIDE DEF a, c, r
  <2>2. aead' = [aead EXCEPT ![e] = r] /\ top \in Int /\ largestRcvd' = [largestRcvd EXCEPT ![e] = top] /\ sealed' = sealed
    BY <1>2, <1>3, <1>4, <2>1
  <2> HIDE DEF ph, acks, top
  <2> QED
    BY Zenon, <2>1, <2>2 DEF ph, acks, top
<1>5. CASE ~Decrypts(a, n - 1, ph)
  <2>1. aead' = [aead EXCEPT ![e] = a] /\ largestRcvd' = [largestRcvd EXCEPT ![e] = Rcvd(e)] /\ sealed' = sealed
    <3> HIDE DEF a, r, c
    <3> QED
      BY <1>2, <1>3, <1>5
  <2> HIDE DEF a
  <2> QED
    BY Zenon, <1>1, <1>3, <2>1
<1> QED
  BY <1>4, <1>5

\* The argument for Open in terms of the folded fields alone: o sent the packet n.
LEMMA OpenedInStep ==
  ASSUME NEW e, NEW o, NEW n \in Nat, Other(e) = o, Other(o) = e,
         InRange(e), InRange(o), InStep(e), InStep(o), n \in 1..NumSealed(o),
         /\ KeyPhase(o)' = KeyPhase(o) /\ FirstSent(o)' = FirstSent(o) /\ FirstRcvd(o)' = FirstRcvd(o)
         /\ LargestAcked(o)' = LargestAcked(o) /\ NumSealed(o)' = NumSealed(o) /\ Rcvd(o)' = Rcvd(o)
         /\ \A m : PhaseOf(o, m)' = PhaseOf(o, m) /\ AcksOf(o, m)' = AcksOf(o, m)
         /\ Failed(o)' = Failed(o)
         /\ NumSealed(e)' = NumSealed(e)
         /\ \A m : PhaseOf(e, m)' = PhaseOf(e, m) /\ AcksOf(e, m)' = AcksOf(e, m)
         /\ ~Failed(e)',
         \/ /\ KeyPhase(e)' = KeyPhase(e) /\ FirstSent(e)' = FirstSent(e) /\ FirstRcvd(e)' = FirstRcvd(e)
            /\ LargestAcked(e)' = LargestAcked(e) /\ Rcvd(e)' = Rcvd(e)
         \/ /\ Rcvd(e)' = IF n - 1 > Rcvd(e) THEN n - 1 ELSE Rcvd(e)
            /\ LargestAcked(e)' = IF AcksOf(o, n) = Invalid THEN LargestAcked(e) ELSE AcksOf(o, n)
            /\ \/ /\ PhaseOf(o, n) = KeyPhase(e) - 1 /\ KeyPhase(e)' = KeyPhase(e)
                  /\ FirstSent(e)' = FirstSent(e) /\ FirstRcvd(e)' = FirstRcvd(e)
               \/ /\ PhaseOf(o, n) = KeyPhase(e) /\ KeyPhase(e)' = KeyPhase(e) /\ FirstSent(e)' = FirstSent(e)
                  /\ FirstRcvd(e)' = IF FirstRcvd(e) # Invalid THEN FirstRcvd(e) ELSE n - 1
               \/ /\ PhaseOf(o, n) = KeyPhase(e) + 1 /\ KeyPhase(e)' = KeyPhase(e) + 1
                  /\ FirstSent(e)' = Invalid /\ FirstRcvd(e)' = n - 1
  PROVE  InStep(e)' /\ InStep(o)'
<1> USE DEF Invalid
<1>1. SentInOrder(e) /\ SentInOrder(o) /\ OneAhead(e) /\ OneAhead(o)
  BY DEF InStep
<1>2. LargestInPhase(e) /\ LargestInPhase(o) /\ AcksInPhase(e) /\ AcksInPhase(o) /\ AckedInPhase(e) /\ AckedInPhase(o)
  BY DEF InStep
<1>3. ReceivedInPhase(e) /\ ReceivedInPhase(o) /\ ~Failed(o)'
  BY DEF InStep
<1>4. KeyPhase(e) \in Nat /\ KeyPhase(o) \in Nat /\ PhaseOf(o, n) \in Nat /\ AcksOf(o, n) \in Int
  BY DEF InRange
<1>5. Rcvd(e) \in Int /\ NumSealed(o) \in Nat /\ NumSealed(e) \in Nat
  BY DEF InRange
<1>6. KeyPhase(e)' = KeyPhase(e) \/ (KeyPhase(e)' = KeyPhase(e) + 1 /\ PhaseOf(o, n) = KeyPhase(e) + 1)
  OBVIOUS
<1>7. PhaseOf(o, n) <= KeyPhase(o) /\ KeyPhase(o) <= KeyPhase(e) + 1
  BY <1>1 DEF SentInOrder, OneAhead
<1>8. KeyPhase(e)' = KeyPhase(e) + 1 => KeyPhase(o) = KeyPhase(e) + 1
  BY SMTT(30), <1>4, <1>6, <1>7
<1>9. SentInOrder(e)'
  <2>1. CASE KeyPhase(e)' = KeyPhase(e)
    <3>1. FirstSent(e)' = FirstSent(e)
      BY <1>4, <2>1
    <3> QED  BY SMTT(30), <1>1, <2>1, <3>1 DEF SentInOrder
  <2>2. CASE KeyPhase(e)' = KeyPhase(e) + 1
    <3>1. FirstSent(e)' = Invalid
      BY <1>4, <2>2
    <3>2. \A m \in 1..NumSealed(e) : PhaseOf(e, m) \in Nat /\ PhaseOf(e, m) <= KeyPhase(e)
      BY Zenon, <1>1 DEF SentInOrder, InRange
    <3>3. \A m \in 1..NumSealed(e) : PhaseOf(e, m) <= KeyPhase(e)' /\ PhaseOf(e, m) # KeyPhase(e)'
      BY SMTT(30), <1>4, <2>2, <3>2
    <3> QED  BY SMTT(30), <1>1, <3>1, <3>3 DEF SentInOrder
  <2> QED  BY <1>6, <2>1, <2>2
<1>10. SentInOrder(o)'
  BY SMTT(30), <1>1 DEF SentInOrder
<1>11. ReceivedInPhase(e)' /\ ReceivedInPhase(o)'
  BY SMTT(30), <1>3, <1>4, <1>5 DEF ReceivedInPhase
<1>12. LargestInPhase(e)'
  <2>1. CASE Rcvd(e)' = Rcvd(e)
    BY SMTT(30), <1>2, <1>4, <1>5, <2>1 DEF LargestInPhase, InRange
  <2>2. CASE Rcvd(e)' = n - 1
    BY SMTT(30), <1>2, <1>4, <1>5, <2>2 DEF LargestInPhase, InRange
  <2> QED  BY <2>1, <2>2
<1>13. LargestInPhase(o)'
  BY <1>2 DEF LargestInPhase
<1>14. AcksInPhase(e)' /\ AcksInPhase(o)'
  BY SMTT(30), <1>2, <1>4, <1>5 DEF AcksInPhase, LargestInPhase
<1>15. AckedInPhase(e)'
  <2>1. CASE LargestAcked(e)' = LargestAcked(e)
    BY <1>2, <2>1 DEF AckedInPhase
  <2>2. CASE LargestAcked(e)' = AcksOf(o, n) /\ AcksOf(o, n) # Invalid
    BY SMTT(30), <1>2, <1>4, <1>5, <2>2 DEF AckedInPhase, AcksInPhase
  <2> QED
    BY <2>1, <2>2
<1>16. AckedInPhase(o)'
  BY SMTT(30), <1>2, <1>5 DEF AckedInPhase, LargestInPhase
<1>17. OneAhead(e)' /\ OneAhead(o)'
  BY SMTT(30), <1>1, <1>4, <1>6, <1>8 DEF OneAhead
<1> QED
  BY <1>3, <1>9, <1>10, <1>11, <1>12, <1>13, <1>14, <1>15, <1>16, <1>17 DEF InStep

LEMMA OpenKInv ==
  ASSUME KeyUpdateInterval \in Nat \ {0}, KInv, NEW e \in Ends,
         NEW n \in 1..Len(sealed[Other(e)]), NEW expired \in BOOLEAN, Open(e, n, expired)
  PROVE  KInv'
<1> DEFINE o == Other(e)
<1>0. o \in Ends /\ o # e /\ Other(o) = e /\ \A x \in Ends : x = e \/ x = o
  BY TwoEnds
<1>1. PICK r \in AEAD, top \in Int :
        /\ aead' = [aead EXCEPT ![e] = r] /\ largestRcvd' = [largestRcvd EXCEPT ![e] = top] /\ sealed' = sealed
        /\ ~r.error
        /\ \/ /\ r.keyPhase = KeyPhase(e) /\ r.firstSent = FirstSent(e) /\ r.firstRcvd = FirstRcvd(e)
              /\ r.largestAcked = LargestAcked(e) /\ top = Rcvd(e)
           \/ /\ top = IF n - 1 > Rcvd(e) THEN n - 1 ELSE Rcvd(e)
              /\ r.largestAcked = IF AcksOf(o, n) = Invalid THEN LargestAcked(e) ELSE AcksOf(o, n)
              /\ \/ /\ PhaseOf(o, n) = KeyPhase(e) - 1 /\ r.keyPhase = KeyPhase(e)
                    /\ r.firstSent = FirstSent(e) /\ r.firstRcvd = FirstRcvd(e)
                 \/ /\ PhaseOf(o, n) = KeyPhase(e) /\ r.keyPhase = KeyPhase(e)
                    /\ r.firstSent = FirstSent(e)
                    /\ r.firstRcvd = IF FirstRcvd(e) # Invalid THEN FirstRcvd(e) ELSE n - 1
                 \/ /\ PhaseOf(o, n) = KeyPhase(e) + 1 /\ r.keyPhase = KeyPhase(e) + 1
                    /\ r.firstSent = Invalid /\ r.firstRcvd = n - 1
  BY OpenEffect
<1>2. aead \in [Ends -> AEAD] /\ sealed \in [Ends -> Seq(Packet)] /\ largestRcvd \in [Ends -> Int]
  BY DEF KInv, KeyTypeOK
<1>3. KeyTypeOK'
  BY <1>1, <1>2 DEF KeyTypeOK
<1>4. aead'[e] = r /\ largestRcvd'[e] = top /\ aead'[o] = aead[o] /\ largestRcvd'[o] = largestRcvd[o]
  BY <1>0, <1>1, <1>2
<1>5. /\ KeyPhase(o)' = KeyPhase(o) /\ FirstSent(o)' = FirstSent(o) /\ FirstRcvd(o)' = FirstRcvd(o)
      /\ LargestAcked(o)' = LargestAcked(o) /\ NumSealed(o)' = NumSealed(o) /\ Rcvd(o)' = Rcvd(o)
      /\ \A m : PhaseOf(o, m)' = PhaseOf(o, m) /\ AcksOf(o, m)' = AcksOf(o, m)
      /\ Failed(o)' = Failed(o)
      /\ NumSealed(e)' = NumSealed(e)
      /\ \A m : PhaseOf(e, m)' = PhaseOf(e, m) /\ AcksOf(e, m)' = AcksOf(e, m)
      /\ ~Failed(e)'
  BY ZenonT(30), <1>1, <1>4 DEF KeyPhase, FirstSent, FirstRcvd, LargestAcked, Rcvd, NumSealed, PhaseOf, AcksOf, Failed
<1>6. \/ /\ KeyPhase(e)' = KeyPhase(e) /\ FirstSent(e)' = FirstSent(e) /\ FirstRcvd(e)' = FirstRcvd(e)
         /\ LargestAcked(e)' = LargestAcked(e) /\ Rcvd(e)' = Rcvd(e)
      \/ /\ Rcvd(e)' = IF n - 1 > Rcvd(e) THEN n - 1 ELSE Rcvd(e)
         /\ LargestAcked(e)' = IF AcksOf(o, n) = Invalid THEN LargestAcked(e) ELSE AcksOf(o, n)
         /\ \/ /\ PhaseOf(o, n) = KeyPhase(e) - 1 /\ KeyPhase(e)' = KeyPhase(e)
               /\ FirstSent(e)' = FirstSent(e) /\ FirstRcvd(e)' = FirstRcvd(e)
            \/ /\ PhaseOf(o, n) = KeyPhase(e) /\ KeyPhase(e)' = KeyPhase(e) /\ FirstSent(e)' = FirstSent(e)
               /\ FirstRcvd(e)' = IF FirstRcvd(e) # Invalid THEN FirstRcvd(e) ELSE n - 1
            \/ /\ PhaseOf(o, n) = KeyPhase(e) + 1 /\ KeyPhase(e)' = KeyPhase(e) + 1
               /\ FirstSent(e)' = Invalid /\ FirstRcvd(e)' = n - 1
  <2>1. /\ KeyPhase(e)' = r.keyPhase /\ FirstSent(e)' = r.firstSent /\ FirstRcvd(e)' = r.firstRcvd
        /\ LargestAcked(e)' = r.largestAcked /\ Rcvd(e)' = top
    BY <1>4 DEF KeyPhase, FirstSent, FirstRcvd, LargestAcked, Rcvd
  <2> QED
    BY <1>1, <2>1
<1>7. InRange(e) /\ InRange(o) /\ InStep(e) /\ InStep(o) /\ n \in 1..NumSealed(o)
  BY <1>0, <1>2, Ranges DEF KInv, NumSealed
<1> HIDE DEF o
<1>8. InStep(e)' /\ InStep(o)'
  <2>1. n \in Nat /\ Other(e) = o
    BY <1>7 DEF InRange, o
  <2> QED
    BY Zenon, <1>0, <1>5, <1>6, <1>7, <2>1, OpenedInStep DEF o
<1> QED
  BY <1>0, <1>3, <1>8 DEF KInv

\* A step that changes none of the folded fields keeps the endpoints in step.
LEMMA SameInStep ==
  ASSUME NEW e, NEW o, Other(e) = o, InStep(e),
         KeyPhase(e)' = KeyPhase(e) /\ FirstSent(e)' = FirstSent(e) /\ FirstRcvd(e)' = FirstRcvd(e),
         LargestAcked(e)' = LargestAcked(e) /\ NumSealed(e)' = NumSealed(e) /\ Rcvd(e)' = Rcvd(e),
         \A m : PhaseOf(e, m)' = PhaseOf(e, m) /\ AcksOf(e, m)' = AcksOf(e, m),
         Failed(e)' = Failed(e),
         KeyPhase(o)' = KeyPhase(o) /\ FirstSent(o)' = FirstSent(o) /\ FirstRcvd(o)' = FirstRcvd(o),
         LargestAcked(o)' = LargestAcked(o) /\ NumSealed(o)' = NumSealed(o) /\ Rcvd(o)' = Rcvd(o),
         \A m : PhaseOf(o, m)' = PhaseOf(o, m) /\ AcksOf(o, m)' = AcksOf(o, m)
  PROVE  InStep(e)'
<1>1. /\ SentInOrder(e) /\ ReceivedInPhase(e) /\ LargestInPhase(e) /\ AcksInPhase(e)
      /\ AckedInPhase(e) /\ OneAhead(e) /\ ~Failed(e)
  BY DEF InStep
<1>2. SentInOrder(e)'
  BY <1>1 DEF SentInOrder
<1>3. ReceivedInPhase(e)' /\ LargestInPhase(e)'
  BY Zenon, <1>1 DEF ReceivedInPhase, LargestInPhase
<1>4. AcksInPhase(e)' /\ AckedInPhase(e)'
  BY <1>1 DEF AcksInPhase, AckedInPhase
<1>5. OneAhead(e)'
  BY <1>1 DEF OneAhead
<1> QED
  BY <1>1, <1>2, <1>3, <1>4, <1>5 DEF InStep

--------------------------------------------------------------------------------
LEMMA ConfirmedKInv ==
  ASSUME KInv, NEW e \in Ends, SetHandshakeConfirmed(e)
  PROVE  KInv'
<1>1. aead \in [Ends -> AEAD]
  BY DEF KInv, KeyTypeOK
<1> DEFINE r == [aead[e] EXCEPT !.confirmed = TRUE]
<1>2. r \in AEAD
  BY Zenon, <1>1 DEF AEAD
<1>3. aead' = [aead EXCEPT ![e] = r] /\ sealed' = sealed /\ largestRcvd' = largestRcvd
  BY DEF SetHandshakeConfirmed
<1>4. KeyTypeOK'
  <2> HIDE DEF r
  <2> QED
    BY <1>2, <1>3 DEF KInv, KeyTypeOK
<1>5. ASSUME NEW x \in Ends
      PROVE  /\ KeyPhase(x)' = KeyPhase(x) /\ FirstSent(x)' = FirstSent(x) /\ FirstRcvd(x)' = FirstRcvd(x)
             /\ LargestAcked(x)' = LargestAcked(x) /\ NumSealed(x)' = NumSealed(x) /\ Rcvd(x)' = Rcvd(x)
             /\ \A m : PhaseOf(x, m)' = PhaseOf(x, m) /\ AcksOf(x, m)' = AcksOf(x, m)
             /\ Failed(x)' = Failed(x)
  <2>1. aead'[x] = IF x = e THEN r ELSE aead[x]
    <3> HIDE DEF r
    <3> QED
      BY <1>1, <1>3, <1>5
  <2>2. /\ r.keyPhase = aead[e].keyPhase /\ r.firstSent = aead[e].firstSent /\ r.firstRcvd = aead[e].firstRcvd
        /\ r.largestAcked = aead[e].largestAcked /\ r.error = aead[e].error
    BY <1>1 DEF AEAD
  <2> HIDE DEF r
  <2> QED
    BY <1>3, <2>1, <2>2 DEF KeyPhase, FirstSent, FirstRcvd, LargestAcked, Rcvd, NumSealed, PhaseOf, AcksOf, Failed
<1> HIDE DEF r
<1>6. ASSUME NEW x \in Ends PROVE InStep(x)'
  <2>1. InStep(x) /\ Other(x) \in Ends
    BY TwoEnds DEF KInv
  <2> QED
    BY <1>5, <2>1, SameInStep
<1> QED
  BY <1>4, <1>6 DEF KInv

LEMMA UnchangedKInv == KInv /\ UNCHANGED keyVars => KInv'
<1> SUFFICES ASSUME KInv, UNCHANGED keyVars PROVE KInv'
  OBVIOUS
<1>1. aead' = aead /\ sealed' = sealed /\ largestRcvd' = largestRcvd
  BY DEF keyVars
<1>2. KeyTypeOK'
  BY <1>1 DEF KInv, KeyTypeOK
<1>3. ASSUME NEW x
      PROVE  /\ KeyPhase(x)' = KeyPhase(x) /\ FirstSent(x)' = FirstSent(x) /\ FirstRcvd(x)' = FirstRcvd(x)
             /\ LargestAcked(x)' = LargestAcked(x) /\ NumSealed(x)' = NumSealed(x) /\ Rcvd(x)' = Rcvd(x)
             /\ \A m : PhaseOf(x, m)' = PhaseOf(x, m) /\ AcksOf(x, m)' = AcksOf(x, m)
             /\ Failed(x)' = Failed(x)
  BY <1>1 DEF KeyPhase, FirstSent, FirstRcvd, LargestAcked, Rcvd, NumSealed, PhaseOf, AcksOf, Failed
<1>4. ASSUME NEW x \in Ends PROVE InStep(x)'
  <2>1. InStep(x)
    BY DEF KInv
  <2> QED
    BY <1>3, <2>1, SameInStep
<1> QED
  BY <1>2, <1>4 DEF KInv

\* The parity of neighbouring phases differs, which is all that the key phase bit says.
LEMMA NeighbourBits == \A k \in Nat : Bit(k + 1) # Bit(k)
  BY DEF Bit

LEMMA InStepSuffices == KInv => KeysInStep
<1> SUFFICES ASSUME KInv PROVE KeysInStep
  OBVIOUS
<1>1. NoKeyUpdateError
  BY DEF KInv, InStep, Failed, NoKeyUpdateError
<1>2. ASSUME NEW e \in Ends, NEW n \in DOMAIN sealed[e]
      PROVE  /\ sealed[e][n].phase <= aead[Other(e)].keyPhase + 1
             /\ sealed[e][n].phase >= aead[Other(e)].keyPhase - 1 =>
                  TriedPhase(aead[Other(e)], n - 1, Bit(sealed[e][n].phase)) = sealed[e][n].phase
  <2> DEFINE o == Other(e)
             ph == PhaseOf(e, n)
  <2>1. o \in Ends /\ Other(o) = e
    BY TwoEnds
  <2>2. InRange(e) /\ InRange(o) /\ InStep(e) /\ InStep(o)
    BY <2>1, Ranges DEF KInv
  <2>3. n \in 1..NumSealed(e)
    BY <1>2 DEF KInv, KeyTypeOK, NumSealed
  <2> HIDE DEF o, ph
  <2>11. SentInOrder(e) /\ OneAhead(e) /\ OneAhead(o) /\ ReceivedInPhase(o)
    BY <2>2 DEF InStep
  <2>12. /\ KeyPhase(e) \in Nat /\ KeyPhase(o) \in Nat /\ ph \in Nat /\ n \in Nat /\ FirstRcvd(o) \in Int
         /\ ph <= KeyPhase(e) /\ KeyPhase(e) <= KeyPhase(o) + 1
    <3>1. KeyPhase(e) \in Nat /\ KeyPhase(o) \in Nat /\ ph \in Nat /\ FirstRcvd(o) \in Int
      BY Zenon, <2>2, <2>3 DEF InRange, ph
    <3>2. ph <= KeyPhase(e)
      BY Zenon, <2>3, <2>11 DEF SentInOrder, ph
    <3>3. KeyPhase(e) <= KeyPhase(o) + 1
      BY Zenon, <2>1, <2>11 DEF OneAhead
    <3> QED
      BY <2>3, <3>1, <3>2, <3>3
  <2>13. \A m \in 1..NumSealed(e) : (m <= n => PhaseOf(e, m) <= ph) /\ (n <= m => ph <= PhaseOf(e, m))
    BY <2>3, <2>11 DEF SentInOrder, ph
  <2>4. ph \in Nat /\ KeyPhase(o) \in Nat /\ ph <= KeyPhase(o) + 1
    BY <2>12
  <2>5. ph = KeyPhase(o) + 1 => Bit(ph) # Bit(KeyPhase(o))
    BY <2>4, NeighbourBits
  <2>6. KeyPhase(o) = ph + 1 => Bit(ph) # Bit(KeyPhase(o))
    BY <2>4, NeighbourBits
  <2>7. ph = KeyPhase(o) + 1 => ~((KeyPhase(o) > 0 /\ FirstRcvd(o) = Invalid) \/ n - 1 < FirstRcvd(o))
    <3> SUFFICES ASSUME ph = KeyPhase(o) + 1
                 PROVE  ~((KeyPhase(o) > 0 /\ FirstRcvd(o) = Invalid) \/ n - 1 < FirstRcvd(o))
      OBVIOUS
    <3>1. KeyPhase(e) = KeyPhase(o) + 1
      BY <2>12
    <3>2. KeyPhase(o) = 0 \/ FirstRcvd(o) # Invalid
      BY <2>1, <2>11, <3>1 DEF OneAhead
    <3>3. FirstRcvd(o) # Invalid => FirstRcvd(o) + 1 \in 1..NumSealed(e) /\ PhaseOf(e, FirstRcvd(o) + 1) = KeyPhase(o)
      BY <2>1, <2>2, <2>11 DEF InRange, ReceivedInPhase
    <3>4. ~(n - 1 < FirstRcvd(o))
      BY <2>12, <2>13, <3>3 DEF Invalid
    <3> QED
      BY <2>4, <3>2, <3>4
  <2>8. KeyPhase(o) = ph + 1 => (KeyPhase(o) > 0 /\ FirstRcvd(o) = Invalid) \/ n - 1 < FirstRcvd(o)
    <3> SUFFICES ASSUME KeyPhase(o) = ph + 1, FirstRcvd(o) # Invalid
                 PROVE  n - 1 < FirstRcvd(o)
      BY <2>4
    <3>1. FirstRcvd(o) + 1 \in 1..NumSealed(e) /\ PhaseOf(e, FirstRcvd(o) + 1) = KeyPhase(o)
      BY <2>1, <2>2, <2>11 DEF InRange, ReceivedInPhase
    <3> QED
      BY <2>12, <2>13, <3>1
  <2>9. ph >= KeyPhase(o) - 1 => ph = KeyPhase(o) \/ ph = KeyPhase(o) + 1 \/ KeyPhase(o) = ph + 1
    BY <2>4
  <2>10. ph >= KeyPhase(o) - 1 => TriedPhase(aead[o], n - 1, Bit(ph)) = ph
    BY <2>4, <2>5, <2>6, <2>7, <2>8, <2>9 DEF TriedPhase, OfPreviousPhase, KeyPhase, FirstRcvd
  <2> QED
    BY <2>4, <2>10 DEF o, ph, PhaseOf, KeyPhase
<1>3. RightKeyTried
  BY <1>2 DEF RightKeyTried
<1> QED
  BY <1>1, <1>3 DEF KeysInStep

\* However many packets are sent, lost, delayed and duplicated and whenever either side
\* updates: neither reports a KEY_UPDATE_ERROR against the other, and each packet of a
\* neighbouring phase is tried with the key it was sealed with (updatable_aead.go, open,
\* SetLargestAcked, KeyPhase).
THEOREM KeysStayInStep ==
  ASSUME KeyUpdateInterval \in Nat \ {0}
  PROVE  KeySpec => []KeysInStep
<1>1. KInv /\ [KeyNext]_keyVars => KInv'
  BY SealKInv, OpenKInv, ConfirmedKInv, UnchangedKInv DEF KeyNext
<1> QED
  BY InitKInv, <1>1, InStepSuffices, PTL DEF KeySpec

================================================================================
