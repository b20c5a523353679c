----------------------------- MODULE ConnIDsProofs -----------------------------
(* Proofs about connection ID management, for any number of connection IDs and     *)
(* paths: first the manager on its own (conn_id_manager.go), then the manager with *)
(* the generator of the peer (conn_id_generator.go).                               *)
EXTENDS ConnIDs, FiniteSetTheorems, WellFoundedInduction, TLAPS

\* The connection IDs that wait are newer than the active one, than every probed one
\* and than what was retired; what is late by the tests of RetireAtOnce is older than
\* something that arrived, so that its Retire Prior To is known already.
Order ==
  /\ rpt \in ValidRPT
  /\ 0 \in received /\ InUse \cup retired \subseteq received /\ highestProbingID \in received
  /\ \E r \in received : highestRetired <= r
  /\ priorTo <= highestRetired
  /\ \A s \in queue : s > active /\ s > highestProbingID /\ s >= highestRetired
  /\ failed \/ active >= highestRetired
  /\ \A r \in received : r >= 2 => rpt[r] <= priorTo

\* Without path probing, what was retired is recognised as late when it arrives again.
NoPathsOrder ==
  Paths = {} =>
    /\ highestProbingID = 0
    /\ \A r \in retired : r < active \/ r < highestRetired

\* A client gets no frames before the handshake is complete.
Untouched ==
  Client /\ ~handshakeComplete =>
    /\ queue = {} /\ active = 0 /\ received = {0} /\ retired = {} /\ highestRetired = 0
    /\ priorTo = 0 /\ highestProbingID = 0 /\ DOMAIN pathProbing = {} /\ ~activeHasToken

IInv == ConnIDsSound /\ Order /\ NoPathsOrder /\ Untouched

\* Frames come once, or no paths are probed.
Constants ==
  /\ MaxSeq \in Nat /\ MaxActive \in Nat \ {0} /\ Client \in BOOLEAN /\ Duplicates \in BOOLEAN
  /\ Duplicates => Paths = {}

\* The front of a non-empty queue is its smallest sequence number.
LEMMA FrontIsLeast ==
  ASSUME NEW q, q \subseteq Nat, q # {}
  PROVE  Front(q) \in q /\ \A t \in q : Front(q) <= t
<1>1. \E x \in q : \A y \in q : ~(<<y, x>> \in OpToRel(<, Nat))
  BY Zenon, WFMin, NatLessThanWellFounded
<1>2. PICK x \in q : \A y \in q : ~(<<y, x>> \in OpToRel(<, Nat))
  BY Zenon, <1>1
<1>3. \A y \in q : ~(y < x)
  BY Zenon, <1>2 DEF OpToRel
<1>4. \A y \in q : x <= y
  BY <1>3
<1> QED
  BY Zenon, <1>4 DEF Front

\* The paths that survive a Retire Prior To are those with a newer connection ID.
LEMMA PathsAfterFacts ==
  ASSUME NEW prior \in Int, Probing \subseteq Int,
         \A p, q \in DOMAIN pathProbing : p # q => pathProbing[p] # pathProbing[q]
  PROVE  LET paths == PathsAfter(prior)
         IN  /\ DOMAIN paths \subseteq DOMAIN pathProbing
             /\ {paths[p] : p \in DOMAIN paths} = {u \in Probing : u >= prior}
             /\ {pathProbing[p] : p \in DOMAIN pathProbing \ DOMAIN paths} = {u \in Probing : u < prior}
             /\ \A p, q \in DOMAIN paths : p # q => paths[p] # paths[q]
<1> DEFINE paths == PathsAfter(prior)
<1>1. DOMAIN paths = {p \in DOMAIN pathProbing : pathProbing[p] >= prior}
  BY DEF PathsAfter
<1>2. \A p \in DOMAIN paths : paths[p] = pathProbing[p]
  BY DEF PathsAfter
<1> HIDE DEF paths
<1>3. \A p \in DOMAIN pathProbing : pathProbing[p] \in Probing /\ pathProbing[p] \in Int
  BY DEF Probing
<1>4. {paths[p] : p \in DOMAIN paths} = {u \in Probing : u >= prior}
  BY <1>1, <1>2, <1>3 DEF Probing
<1>5. {pathProbing[p] : p \in DOMAIN pathProbing \ DOMAIN paths} = {u \in Probing : u < prior}
  BY <1>1, <1>3 DEF Probing
<1>6. \A p, q \in DOMAIN paths : p # q => paths[p] # paths[q]
  BY <1>1, <1>2
<1>7. DOMAIN paths \subseteq DOMAIN pathProbing
  BY <1>1
<1> QED
  BY <1>4, <1>5, <1>6, <1>7 DEF paths

LEMMA InitIInv ==
  ASSUME Constants, rpt \in ValidRPT, InitManager
  PROVE  IInv
<1>1. Probing = {} /\ DOMAIN pathProbing = {}
  BY DEF InitManager, Probing
<1>2. InUse = {0} /\ 0 \in SeqNums
  BY <1>1 DEF InUse, InitManager, Constants, SeqNums
<1>3. ConnIDsSound
  <2>1. TypeOK
    BY Zenon, <1>1, <1>2 DEF TypeOK, InitManager
  <2>2. NoUseAfterRetire /\ OnePathPerConnID /\ EveryConnIDAccountedFor
    BY <1>1, <1>2 DEF NoUseAfterRetire, OnePathPerConnID, EveryConnIDAccountedFor, InitManager
  <2>3. RetirePriorToHonoured /\ ResetTokenOfActive
    BY <1>2 DEF RetirePriorToHonoured, ResetTokenOfActive, InitManager
  <2> QED
    BY <2>1, <2>2, <2>3 DEF ConnIDsSound
<1>4. Order
  BY <1>1, <1>2 DEF Order, InitManager
<1>5. NoPathsOrder /\ Untouched
  BY <1>1 DEF NoPathsOrder, Untouched, InitManager
<1> QED
  BY <1>3, <1>4, <1>5 DEF IInv
\* A frame that comes late changes nothing but the frames to send.
LEMMA RetiredAtOnceIInv ==
  ASSUME Constants, IInv, NEW seq \in 1..MaxSeq, NEW conflict \in BOOLEAN,
         Add(seq, conflict), RetireAtOnce(seq)
  PROVE  IInv'
<1> USE DEF IInv, Constants
<1>1. /\ TypeOK /\ Order /\ NoPathsOrder /\ Untouched /\ NoUseAfterRetire /\ OnePathPerConnID
      /\ EveryConnIDAccountedFor /\ RetirePriorToHonoured /\ ResetTokenOfActive
  BY DEF ConnIDsSound
<1>2. /\ ~failed /\ ~closed /\ (Client => handshakeComplete) /\ (Duplicates \/ seq \notin received)
      /\ received' = received \cup {seq} /\ priorTo' = Larger(priorTo, rpt[seq])
      /\ retired' = retired \cup {seq} /\ failed' = QueueTooLong(queue)
      /\ UNCHANGED <<queue, active, pathProbing, highestProbingID, highestRetired, resetTokens,
                     activeHasToken, rpt, handshakeComplete, closed>>
  BY DEF Add
<1>3. /\ Probing' = Probing /\ InUse' = InUse
  BY <1>2 DEF Probing, InUse
<1>4. /\ active \in Nat /\ highestProbingID \in Nat /\ highestRetired \in Nat /\ priorTo \in Nat
      /\ queue \subseteq Nat /\ received \subseteq Nat /\ retired \subseteq Nat /\ seq \in SeqNums
      /\ InUse \subseteq Nat /\ seq \in Nat /\ seq >= 1 /\ rpt \in [1..MaxSeq -> SeqNums]
      /\ active \in received
  <2>1. rpt \in [1..MaxSeq -> SeqNums]
    BY <1>1 DEF Order, ValidRPT
  <2>2. active \in InUse /\ active \in received
    BY <1>1 DEF Order, InUse
  <2>3. SeqNums \subseteq Nat /\ seq \in SeqNums /\ seq \in Nat /\ seq >= 1
    BY DEF SeqNums
  <2>4. InUse \subseteq SeqNums
    BY <1>1 DEF TypeOK, InUse
  <2> QED
    BY <1>1, <2>1, <2>2, <2>3, <2>4 DEF TypeOK
\* Something newer arrived before: nothing is learnt from Retire Prior To.
<1>5. rpt[seq] <= priorTo /\ rpt[seq] \in Nat
  <2>1. PICK r \in received : seq < r
    <3>1. seq < active \/ seq < highestProbingID \/ seq < highestRetired
      BY <1>4 DEF RetireAtOnce, Larger
    <3>2. highestProbingID \in received /\ \E r \in received : highestRetired <= r
      BY <1>1 DEF Order
    <3>3. \A r \in received : highestRetired <= r /\ seq < highestRetired => seq < r
      BY <1>4
    <3> QED
      BY <1>4, <3>1, <3>2, <3>3
  <2>2. r \in 1..MaxSeq /\ r >= 2 /\ seq \in 1..r
    BY <2>1, <1>1, <1>4 DEF TypeOK, SeqNums
  <2>3. rpt[seq] <= rpt[r] /\ rpt[r] <= priorTo
    BY <2>1, <2>2, <1>1 DEF Order, ValidRPT
  <2>4. rpt[seq] \in Nat /\ rpt[r] \in Nat
    BY <1>4, <2>2 DEF SeqNums
  <2> QED
    BY <2>3, <2>4, <1>4
<1>6. priorTo' = priorTo
  BY <1>2, <1>4, <1>5 DEF Larger
<1>7. seq \notin InUse
  <2>1. CASE seq \notin received
    BY <2>1, <1>1 DEF Order
  <2>2. CASE Duplicates
    <3>1. Paths = {} /\ Probing = {} /\ highestProbingID = 0
      BY <2>2, <1>1 DEF TypeOK, Probing, NoPathsOrder
    <3>2. seq < active \/ seq < highestRetired
      BY <3>1, <1>4 DEF RetireAtOnce, Larger
    <3> QED
      BY <3>1, <3>2, <1>1, <1>2, <1>4 DEF InUse, Order
  <2> QED
    BY <2>1, <2>2, <1>2
<1>8. TypeOK'
  BY <1>1, <1>2, <1>3, <1>4, <1>6 DEF TypeOK, QueueTooLong
<1>9. ConnIDsSound'
  <2>1. NoUseAfterRetire' /\ OnePathPerConnID' /\ EveryConnIDAccountedFor'
    BY <1>1, <1>2, <1>3, <1>7 DEF NoUseAfterRetire, OnePathPerConnID, EveryConnIDAccountedFor
  <2>2. RetirePriorToHonoured' /\ ResetTokenOfActive'
    BY <1>1, <1>2, <1>3, <1>6 DEF RetirePriorToHonoured, ResetTokenOfActive
  <2> QED
    BY <1>8, <2>1, <2>2 DEF ConnIDsSound
<1>10. Order'
  <2>1. \A r \in received' : r >= 2 => rpt'[r] <= priorTo'
    BY <1>1, <1>2, <1>5, <1>6 DEF Order
  <2>2. failed' \/ active' >= highestRetired'
    BY <1>1, <1>2 DEF Order
  <2>3. \E r \in received' : highestRetired' <= r
    BY <1>1, <1>2 DEF Order
  <2> QED
    BY <2>1, <2>2, <2>3, <1>1, <1>2, <1>3, <1>6 DEF Order
<1>11. NoPathsOrder' /\ Untouched'
  BY <1>1, <1>2, <1>4 DEF NoPathsOrder, Untouched, RetireAtOnce, Larger
<1> QED
  BY <1>9, <1>10, <1>11
\* A frame that is not late and not for the active connection ID brings a connection ID
\* that is newer than everything it is compared with and that was never retired.
LEMMA NotLateIsNew ==
  ASSUME Constants, IInv, NEW seq \in 1..MaxSeq, Duplicates \/ seq \notin received,
         ~RetireAtOnce(seq), seq # active
  PROVE  /\ seq > active /\ seq > highestProbingID /\ seq >= highestRetired
         /\ seq \notin retired /\ seq \notin Probing
<1>1. TypeOK /\ Order /\ NoPathsOrder
  BY DEF IInv, ConnIDsSound
<1>2. /\ active \in Nat /\ highestProbingID \in Nat /\ highestRetired \in Nat /\ seq \in Nat /\ seq >= 1
      /\ retired \subseteq Nat
  BY <1>1 DEF TypeOK, SeqNums, Constants
<1>3. seq >= active /\ seq >= highestProbingID /\ seq >= highestRetired
  BY <1>2 DEF RetireAtOnce, Larger
<1>4. CASE seq \notin received
  BY <1>1, <1>2, <1>3, <1>4 DEF Order, InUse
<1>5. CASE Duplicates
  <2>1. Paths = {} /\ Probing = {} /\ highestProbingID = 0
    BY <1>5, <1>1 DEF TypeOK, Probing, NoPathsOrder, Constants
  <2>2. seq \notin retired
    BY <1>1, <1>2, <1>3, <2>1 DEF NoPathsOrder
  <2> QED
    BY <1>2, <1>3, <2>1, <2>2
<1> QED
  BY <1>4, <1>5

\* What Retire Prior To leaves, on its own: both parts of the queue and of the paths.
LEMMA KeptFacts ==
  ASSUME Constants, IInv, NEW seq \in 1..MaxSeq
  PROVE  LET prior == rpt[seq]
             kept  == QueueAfter(prior)
             paths == PathsAfter(prior)
             left  == {paths[p] : p \in DOMAIN paths}
             drop  == {pathProbing[p] : p \in DOMAIN pathProbing \ DOMAIN paths}
         IN  /\ prior \in SeqNums /\ prior <= seq
             /\ kept \subseteq queue /\ \A s \in kept : s >= prior
             /\ \A s \in queue \ kept : s < prior
             /\ \A u \in left : u \in Probing /\ u >= prior
             /\ \A u \in drop : u \in Probing /\ u < prior
             /\ Probing = left \cup drop
             /\ DOMAIN paths \subseteq DOMAIN pathProbing
             /\ \A p, q \in DOMAIN paths : p # q => paths[p] # paths[q]
<1> DEFINE prior == rpt[seq]
           paths == PathsAfter(prior)
           left  == {paths[p] : p \in DOMAIN paths}
           drop  == {pathProbing[p] : p \in DOMAIN pathProbing \ DOMAIN paths}
<1>1. TypeOK /\ Order /\ OnePathPerConnID
  BY DEF IInv, ConnIDsSound
<1>2. prior \in SeqNums /\ prior <= seq /\ SeqNums \subseteq Nat /\ Probing \subseteq Int /\ prior \in Int
  <2>1. rpt \in [1..MaxSeq -> SeqNums] /\ prior <= seq
    BY <1>1 DEF Order, ValidRPT
  <2>2. SeqNums \subseteq Nat
    BY DEF SeqNums
  <2>3. Probing \subseteq SeqNums
    BY <1>1 DEF TypeOK
  <2>4. prior \in SeqNums
    BY <2>1
  <2>5. prior <= seq
    BY <2>1
  <2> HIDE DEF prior
  <2> QED
    BY <2>2, <2>3, <2>4, <2>5
<1>3. /\ DOMAIN paths \subseteq DOMAIN pathProbing
      /\ left = {u \in Probing : u >= prior}
      /\ drop = {u \in Probing : u < prior}
      /\ \A p, q \in DOMAIN paths : p # q => paths[p] # paths[q]
  <2>1. \A p, q \in DOMAIN pathProbing : p # q => pathProbing[p] # pathProbing[q]
    BY <1>1 DEF OnePathPerConnID
  <2> HIDE DEF prior
  <2> QED
    BY <1>2, <2>1, PathsAfterFacts
<1> HIDE DEF prior, paths, left, drop
<1>4. /\ QueueAfter(prior) \subseteq queue /\ \A s \in QueueAfter(prior) : s >= prior
      /\ \A s \in queue \ QueueAfter(prior) : s < prior
  BY <1>1, <1>2 DEF QueueAfter, Order, TypeOK
<1>5. Probing = left \cup drop
  <2>1. \A u \in Probing : u >= prior \/ u < prior
    BY <1>2
  <2> QED
    BY <2>1, <1>3
<1> QED
  BY <1>2, <1>3, <1>4, <1>5 DEF prior, paths, left, drop
\* A frame that is stored, or confirms what is stored, with the connection IDs below its
\* Retire Prior To being retired and, if the active one is among them, replaced.
LEMMA StoredIInv ==
  ASSUME Constants, IInv, NEW seq \in 1..MaxSeq, NEW conflict \in BOOLEAN,
         Add(seq, conflict), ~RetireAtOnce(seq)
  PROVE  IInv'
<1> DEFINE prior  == rpt[seq]
           kept   == QueueAfter(prior)
           paths  == PathsAfter(prior)
           left   == {paths[p] : p \in DOMAIN paths}
           drop   == {pathProbing[p] : p \in DOMAIN pathProbing \ DOMAIN paths}
           ret    == retired \cup (queue \ kept) \cup drop
           high   == Larger(highestRetired, prior)
           longer == kept \cup {seq}
           Stays(q) == /\ queue' = q /\ retired' = ret /\ highestRetired' = high
                       /\ UNCHANGED <<active, resetTokens, activeHasToken>>
<1>1. /\ TypeOK /\ Order /\ NoPathsOrder /\ Untouched /\ NoUseAfterRetire /\ OnePathPerConnID
      /\ EveryConnIDAccountedFor /\ RetirePriorToHonoured /\ ResetTokenOfActive
  BY DEF IInv, ConnIDsSound
<1>2. /\ ~failed /\ ~closed /\ (Client => handshakeComplete) /\ (Duplicates \/ seq \notin received)
      /\ received' = received \cup {seq} /\ priorTo' = Larger(priorTo, prior)
      /\ pathProbing' = paths
      /\ UNCHANGED <<highestProbingID, rpt, handshakeComplete, closed>>
  BY DEF Add
<1>3. \/ seq = active /\ Stays(kept) /\ failed' = QueueTooLong(kept)
      \/ seq # active /\ seq \in kept /\ Stays(kept) /\ failed' = TRUE
      \/ seq # active /\ active >= prior /\ Stays(longer) /\ failed' = QueueTooLong(queue')
      \/ seq # active /\ active < prior /\ updateConnectionID(longer, ret, high)
           /\ failed' = QueueTooLong(queue')
  <2>1. active \in Int /\ prior \in Int
    BY <1>1, KeptFacts DEF TypeOK, SeqNums
  <2>2. active < prior \/ active >= prior
    BY <2>1
  <2> QED
    BY <2>2 DEF Add
<1>4. /\ prior \in SeqNums /\ prior <= seq
      /\ kept \subseteq queue /\ \A s \in kept : s >= prior
      /\ \A s \in queue \ kept : s < prior
      /\ \A u \in left : u \in Probing /\ u >= prior
      /\ \A u \in drop : u \in Probing /\ u < prior
      /\ Probing = left \cup drop
      /\ DOMAIN paths \subseteq DOMAIN pathProbing
      /\ \A p, q \in DOMAIN paths : p # q => paths[p] # paths[q]
  BY KeptFacts
<1>5. Probing' = left
  BY <1>2 DEF Probing
<1> HIDE DEF prior, kept, paths, left, drop
<1>6. SeqNums \subseteq Nat /\ seq \in SeqNums
  BY DEF SeqNums, Constants
<1>7. /\ active \in SeqNums /\ highestProbingID \in SeqNums /\ highestRetired \in SeqNums
      /\ priorTo \in SeqNums /\ queue \subseteq SeqNums /\ received \subseteq SeqNums
      /\ retired \subseteq SeqNums /\ Probing \subseteq SeqNums
  BY <1>1 DEF TypeOK
<1>8. /\ high \in SeqNums /\ high >= prior /\ high >= highestRetired
      /\ priorTo' \in SeqNums /\ priorTo' <= high /\ priorTo' >= priorTo /\ priorTo' >= prior
      /\ \E r \in received' : high <= r
  <2>1. /\ high \in SeqNums /\ high >= prior /\ high >= highestRetired
        /\ priorTo' \in SeqNums /\ priorTo' <= high /\ priorTo' >= priorTo /\ priorTo' >= prior
    BY <1>1, <1>2, <1>4, <1>6, <1>7 DEF Larger, Order
  <2>2. high = prior \/ high = highestRetired
    BY DEF Larger
  <2>3. \E r \in received : highestRetired <= r
    BY <1>1 DEF Order
  <2> QED
    BY <2>1, <2>2, <2>3, <1>2, <1>4
<1>9. /\ active \in Nat /\ highestRetired \in Nat /\ priorTo \in Nat /\ prior \in Nat
       /\ seq \in Nat /\ high \in Nat /\ priorTo' \in Nat
  BY Zenon, <1>4, <1>6, <1>7, <1>8
<1>10. /\ \A u \in queue : u \in Nat
       /\ \A u \in retired : u \in Nat
       /\ \A u \in Probing : u \in Nat
       /\ \A u \in received : u \in 0..MaxSeq
  BY <1>6, <1>7 DEF SeqNums
<1>11. \A r \in received' : r >= 2 => rpt'[r] <= priorTo'
  <2>1. \A r \in received : r >= 2 => rpt[r] \in SeqNums
    <3>1. rpt \in [1..MaxSeq -> SeqNums]
      BY <1>1 DEF Order, ValidRPT
    <3>2. \A r \in received : r >= 2 => r \in 1..MaxSeq
      BY <1>10 DEF Constants
    <3> QED
      BY <3>1, <3>2
  <2>2. \A r \in received : r >= 2 => rpt[r] <= priorTo
    BY <1>1 DEF Order
  <2>3. \A r \in received : r >= 2 => rpt[r] <= priorTo'
    <3>1. \A x \in Nat : x <= priorTo => x <= priorTo'
      BY <1>8, <1>9
    <3> QED
      BY Zenon, <2>1, <2>2, <3>1, <1>6
  <2>4. rpt[seq] <= priorTo'
    BY <1>4, <1>6, <1>8 DEF prior
  <2> QED
    BY <2>3, <2>4, <1>2
<1>12. Paths = {} => highestProbingID' = 0
  BY <1>1, <1>2 DEF NoPathsOrder
<1>13. Untouched'
  BY <1>2 DEF Untouched
<1>14. seq # active => /\ seq > active /\ seq > highestProbingID /\ seq >= highestRetired
                       /\ seq \notin retired /\ seq \notin Probing
  BY <1>2, NotLateIsNew
\* The two parts of the queue and of the paths are apart, and the frame is for neither
\* of those that are retired.
<1> DEFINE Apart == /\ kept \subseteq queue /\ left \subseteq Probing /\ drop \subseteq Probing
                    /\ Probing = left \cup drop /\ left \cap drop = {}
                    /\ seq \notin queue \ kept /\ seq \notin drop
<1>15. Apart
  BY <1>4, <1>9, <1>10
<1>16. \A u \in {active} \cup queue \cup Probing : u >= priorTo
  BY <1>1, <1>2 DEF RetirePriorToHonoured, InUse
<1>17. seq >= priorTo
  BY <1>1, <1>6, <1>7, <1>14, <1>16 DEF Order
<1>18. ASSUME NEW q, Stays(q), kept \subseteq q, q \subseteq longer, seq \in q \cup {active},
              seq \in q => seq # active, failed' \in BOOLEAN, failed' \/ active >= prior
       PROVE  IInv'
  <2>1. InUse' = {active} \cup q \cup left
    BY <1>5, <1>18 DEF InUse
  <2>2. TypeOK'
    BY Zenon, <1>1, <1>2, <1>4, <1>5, <1>6, <1>7, <1>8, <1>18 DEF TypeOK
  <2>3. NoUseAfterRetire'
    <3>1. active \notin ret /\ \A s \in queue : s \notin retired /\ s \notin drop
      BY <1>1, <1>15 DEF NoUseAfterRetire, OnePathPerConnID, InUse
    <3>2. \A s \in kept : s \notin ret
      BY <3>1, <1>15
    <3>3. \A s \in q : s \notin ret
      BY <3>1, <3>2, <1>14, <1>15, <1>18
    <3>4. \A u \in left : u \notin ret
      BY <1>1, <1>15 DEF NoUseAfterRetire, OnePathPerConnID, InUse
    <3> HIDE DEF ret
    <3> QED
      BY Zenon, <2>1, <3>1, <3>3, <3>4, <1>18 DEF NoUseAfterRetire
  <2>4. OnePathPerConnID'
    BY Zenon, <1>1, <1>2, <1>4, <1>5, <1>14, <1>18 DEF OnePathPerConnID
  <2>5. EveryConnIDAccountedFor'
    BY Zenon, <2>1, <1>1, <1>2, <1>4, <1>18 DEF EveryConnIDAccountedFor, InUse
  <2>6. RetirePriorToHonoured'
    <3>1. CASE active >= prior
      <4>1. \A u \in InUse' : u \in SeqNums /\ u >= priorTo /\ u >= prior
        BY <2>1, <3>1, <1>4, <1>6, <1>7, <1>18, <1>16, <1>17
      <4>2. priorTo' = priorTo \/ priorTo' = prior
        BY <1>2 DEF Larger
      <4> QED
        BY <4>1, <4>2 DEF RetirePriorToHonoured
    <3> QED
      BY <3>1, <1>18 DEF RetirePriorToHonoured
  <2>7. ResetTokenOfActive'
    BY <1>1, <1>2, <1>18 DEF ResetTokenOfActive
  <2>8. Order'
    <3>1. \A s \in q : s > active /\ s > highestProbingID /\ s >= high
      BY <1>1, <1>4, <1>6, <1>7, <1>14, <1>18 DEF Order, Larger
    <3>2. failed' \/ active' >= highestRetired'
      BY <1>1, <1>2, <1>4, <1>6, <1>7, <1>18 DEF Order, Larger
    <3>3. InUse' \cup retired' \subseteq received'
      BY Zenon, <2>1, <1>1, <1>2, <1>4, <1>18 DEF Order, InUse
    <3> HIDE DEF high
    <3> QED
      BY <3>1, <3>2, <3>3, <1>1, <1>2, <1>8, <1>11, <1>18 DEF Order
  <2>9. NoPathsOrder'
    <3>1. Paths = {} => Probing = {}
      BY <1>1 DEF TypeOK, Probing
    <3>2. Paths = {} => \A r \in retired : r < active \/ r < high
      BY <1>1, <1>8, <1>9, <1>10 DEF NoPathsOrder
    <3>3. \A r \in queue \ kept : r < high
      BY <1>4, <1>8, <1>9, <1>10
    <3> HIDE DEF high
    <3> QED
      BY Zenon, <3>1, <3>2, <3>3, <1>12, <1>18, <1>15 DEF NoPathsOrder
  <2> QED
    BY <1>13, <2>2, <2>3, <2>4, <2>5, <2>6, <2>7, <2>8, <2>9 DEF IInv, ConnIDsSound
<1>19. ASSUME seq # active, active < prior, updateConnectionID(longer, ret, high), failed' \in BOOLEAN
       PROVE  IInv'
  <2> DEFINE next == Front(longer)
  <2>1. next \in longer /\ \A t \in longer : next <= t
    <3>1. longer \subseteq Nat /\ longer # {}
      BY <1>4, <1>6, <1>7
    <3> HIDE DEF longer
    <3> QED
      BY Zenon, <3>1, FrontIsLeast
  <2>2. /\ active' = next /\ queue' = longer \ {next} /\ retired' = ret \cup {active}
        /\ highestRetired' = Larger(high, active) /\ resetTokens' = TokensAfterUpdate(next)
        /\ activeHasToken' = TRUE
    BY <1>19 DEF updateConnectionID, QueueWithoutFront, RetiredByUpdate
  <2> HIDE DEF next
  <2>3. \A s \in longer : /\ s \in SeqNums /\ s > active /\ s > highestProbingID /\ s >= high
                         /\ s \notin retired /\ s \notin Probing /\ s \in queue \cup {seq}
                         /\ s \notin queue \ kept
    BY <1>1, <1>4, <1>6, <1>7, <1>14, <1>19 DEF Order, Larger, NoUseAfterRetire, OnePathPerConnID, InUse
  <2>4. Larger(high, active) = high
    BY <1>4, <1>6, <1>7, <1>8, <1>19 DEF Larger
  <2> HIDE DEF high
  <2>5. InUse' = longer \cup left
    BY <1>5, <2>1, <2>2 DEF InUse
  <2>6. TypeOK'
    BY <1>1, <1>2, <1>4, <1>5, <1>7, <1>8, <1>19, <2>1, <2>2, <2>3, <2>4 DEF TypeOK, TokensAfterUpdate
  <2>7. NoUseAfterRetire'
    <3>1. \A s \in longer : s # active /\ s \notin retired /\ s \notin Probing /\ s \notin queue \ kept
      BY <2>3, <1>6, <1>7
    <3> QED
      BY <2>2, <2>5, <3>1, <1>1, <1>15 DEF NoUseAfterRetire, OnePathPerConnID, InUse
  <2>8. OnePathPerConnID'
    BY <2>1, <2>2, <2>3, <1>2, <1>4, <1>5 DEF OnePathPerConnID
  <2>9. EveryConnIDAccountedFor'
    BY <2>2, <2>5, <1>1, <1>2, <1>4 DEF EveryConnIDAccountedFor, InUse
  <2>10. RetirePriorToHonoured'
    <3>1. \A u \in InUse' : u \in SeqNums /\ u >= priorTo /\ u >= prior
      BY <2>5, <1>4, <1>6, <1>7, <1>16, <1>17
    <3>2. priorTo' = priorTo \/ priorTo' = prior
      BY <1>2 DEF Larger
    <3> QED
      BY <3>1, <3>2 DEF RetirePriorToHonoured
  <2>11. ResetTokenOfActive'
    BY <1>1, <1>2, <2>2 DEF ResetTokenOfActive, TokensAfterUpdate
  <2>12. Order'
    <3>1. \A s \in queue' : s > active' /\ s > highestProbingID /\ s >= high
      <4>1. \A s \in longer \ {next} : s > next
        <5>1. \A s \in longer : s \in Nat
          BY Zenon, <1>6, <2>3
        <5> HIDE DEF longer
        <5> QED
          BY <5>1, <2>1
      <4> QED
        BY <4>1, <2>2, <2>3
    <3>2. active' >= highestRetired'
      BY <2>1, <2>2, <2>3, <2>4
    <3>3. InUse' \cup retired' \subseteq received'
      BY <2>2, <2>5, <1>1, <1>2, <1>4 DEF Order, InUse
    <3> QED
      BY <3>1, <3>2, <3>3, <1>1, <1>2, <1>8, <1>11, <2>2, <2>4 DEF Order
  <2>13. NoPathsOrder'
    <3>1. Paths = {} => Probing = {}
      BY <1>1 DEF TypeOK, Probing
    <3>2. active < next
      BY <2>1, <2>3
    <3>3. next \in Nat /\ high \in Nat
      BY Zenon, <1>6, <1>8, <2>1, <2>3
    <3>4. Paths = {} => \A r \in retired : r < next \/ r < high
      BY <1>1, <1>8, <1>9, <1>10, <3>2, <3>3 DEF NoPathsOrder
    <3>5. \A r \in queue \ kept : r < high
      BY <1>4, <1>8, <1>9, <1>10
    <3> QED
      BY <3>1, <3>2, <3>4, <3>5, <1>12, <1>15, <2>2, <2>4 DEF NoPathsOrder
  <2> QED
    BY <1>13, <2>6, <2>7, <2>8, <2>9, <2>10, <2>11, <2>12, <2>13 DEF IInv, ConnIDsSound
<1>20. CASE seq = active /\ Stays(kept) /\ failed' = QueueTooLong(kept)
  <2>1. active \notin kept /\ failed' \in BOOLEAN /\ active >= prior
    BY <1>20, <1>1, <1>4 DEF OnePathPerConnID, QueueTooLong
  <2> HIDE DEF ret, high
  <2> QED
    BY <1>18, <1>20, <2>1
<1>21. CASE seq # active /\ seq \in kept /\ Stays(kept) /\ failed' = TRUE
  BY <1>18, <1>21
<1>22. CASE seq # active /\ active >= prior /\ Stays(longer) /\ failed' = QueueTooLong(queue')
  BY <1>18, <1>22 DEF QueueTooLong
<1>23. CASE seq # active /\ active < prior /\ updateConnectionID(longer, ret, high)
              /\ failed' = QueueTooLong(queue')
  BY <1>19, <1>23 DEF QueueTooLong
<1> QED
  BY Zenon, <1>3, <1>20, <1>21, <1>22, <1>23

\* The active connection ID is replaced by the front of the queue.
LEMMA GetIInv ==
  ASSUME Constants, IInv, NEW enough \in BOOLEAN, Get(enough)
  PROVE  IInv'
<1> DEFINE next == Front(queue)
<1>1. queue # {}
  <2>1. Cardinality({}) = 0 /\ ~(2 * 0 >= MaxActive)
    BY FS_EmptySet DEF Constants
  <2> QED
    BY <2>1 DEF Get, shouldUpdateConnID
<1>2. /\ TypeOK /\ Order /\ NoPathsOrder /\ Untouched /\ NoUseAfterRetire /\ OnePathPerConnID
      /\ EveryConnIDAccountedFor /\ RetirePriorToHonoured /\ ResetTokenOfActive
  BY DEF IInv, ConnIDsSound
<1>3. /\ ~failed /\ ~closed /\ handshakeComplete
      /\ active' = next /\ queue' = queue \ {next} /\ retired' = retired \cup {active}
      /\ highestRetired' = Larger(highestRetired, active) /\ resetTokens' = TokensAfterUpdate(next)
      /\ activeHasToken' = TRUE
      /\ UNCHANGED <<rpt, pathProbing, highestProbingID, handshakeComplete, failed, closed, received, priorTo>>
  BY DEF Get, updateConnectionID, QueueWithoutFront, RetiredByUpdate, shouldUpdateConnID
<1>4. /\ active \in Nat /\ highestRetired \in Nat /\ priorTo \in Nat
      /\ \A u \in queue : u \in Nat
      /\ \A u \in retired : u \in Nat
      /\ active >= highestRetired
  BY <1>2, <1>3 DEF TypeOK, SeqNums, Order
<1>5. next \in queue /\ \A t \in queue : next <= t
  BY <1>4, <1>1, FrontIsLeast
<1> HIDE DEF next
<1>6. highestRetired' = active /\ next > active /\ next \in Nat /\ \A t \in queue \ {next} : t > next
  BY <1>2, <1>3, <1>4, <1>5 DEF Larger, Order
<1>7. Probing' = Probing /\ InUse' = queue \cup Probing /\ active \in received
  BY <1>2, <1>3, <1>5 DEF Probing, InUse, Order
<1>8. TypeOK'
  BY <1>2, <1>3, <1>5, <1>6, <1>7 DEF TypeOK, TokensAfterUpdate
<1>9. NoUseAfterRetire' /\ OnePathPerConnID' /\ EveryConnIDAccountedFor'
  BY <1>2, <1>3, <1>5, <1>7
     DEF NoUseAfterRetire, OnePathPerConnID, EveryConnIDAccountedFor, InUse
<1>10. RetirePriorToHonoured' /\ ResetTokenOfActive'
  BY <1>2, <1>3, <1>7 DEF RetirePriorToHonoured, ResetTokenOfActive, TokensAfterUpdate, InUse
<1>11. Order'
  <2>1. InUse' \cup retired' \subseteq received'
    BY <1>2, <1>3, <1>7 DEF Order, InUse
  <2>2. \A s \in queue' : s > active' /\ s > highestProbingID' /\ s >= highestRetired'
    BY <1>2, <1>3, <1>4, <1>6 DEF Order
  <2>3. priorTo' <= highestRetired' /\ active' >= highestRetired'
    BY <1>2, <1>3, <1>4, <1>6 DEF Order
  <2>4. \E r \in received' : highestRetired' <= r
    BY <1>3, <1>4, <1>6, <1>7
  <2> QED
    BY <1>2, <1>3, <2>1, <2>2, <2>3, <2>4 DEF Order
<1>12. NoPathsOrder'
  BY <1>2, <1>3, <1>4, <1>6 DEF NoPathsOrder
<1>13. Untouched'
  BY <1>3 DEF Untouched
<1> QED
  BY <1>8, <1>9, <1>10, <1>11, <1>12, <1>13 DEF IInv, ConnIDsSound

\* The handshake completes, on the client with a reset token and a preferred address.
LEMMA SetHandshakeCompleteIInv ==
  ASSUME Constants, IInv, NEW token \in BOOLEAN, NEW preferredAddress \in BOOLEAN,
         SetHandshakeComplete(token, preferredAddress)
  PROVE  IInv'
<1>1. /\ TypeOK /\ Order /\ NoPathsOrder /\ Untouched /\ NoUseAfterRetire /\ OnePathPerConnID
      /\ EveryConnIDAccountedFor /\ RetirePriorToHonoured /\ ResetTokenOfActive
  BY DEF IInv, ConnIDsSound
<1>2. /\ ~failed /\ ~closed /\ ~handshakeComplete /\ handshakeComplete' = TRUE
      /\ (token \/ preferredAddress) => Client
      /\ activeHasToken' = (activeHasToken \/ token)
      /\ resetTokens' = IF token THEN resetTokens \cup {active} ELSE resetTokens
      /\ UNCHANGED <<rpt, active, pathProbing, highestProbingID, highestRetired, retired, failed, closed, priorTo>>
  BY DEF SetHandshakeComplete
<1>3. Probing' = Probing /\ Untouched'
  BY <1>2 DEF Probing, Untouched
<1>4. ResetTokenOfActive'
  BY Zenon, <1>1, <1>2 DEF ResetTokenOfActive, Untouched
<1>5. activeHasToken' \in BOOLEAN /\ resetTokens' \subseteq SeqNums
  BY <1>1, <1>2 DEF TypeOK
<1>6. CASE ~preferredAddress
  <2>1. UNCHANGED <<queue, received>> /\ InUse' = InUse
    BY <1>2, <1>3, <1>6 DEF SetHandshakeComplete, InUse
  <2>2. ConnIDsSound'
    BY <1>1, <1>2, <1>3, <1>4, <1>5, <2>1 DEF ConnIDsSound, TypeOK, NoUseAfterRetire, OnePathPerConnID,
         EveryConnIDAccountedFor, RetirePriorToHonoured
  <2>3. Order' /\ NoPathsOrder'
    BY <1>1, <1>2, <2>1 DEF Order, NoPathsOrder
  <2> QED
    BY <1>3, <2>2, <2>3 DEF IInv
<1>7. CASE preferredAddress
  <2>1. /\ queue = {} /\ active = 0 /\ received = {0} /\ retired = {} /\ highestRetired = 0
        /\ priorTo = 0 /\ highestProbingID = 0 /\ DOMAIN pathProbing = {} /\ Probing = {}
    BY <1>1, <1>2, <1>7 DEF Untouched, Probing
  <2>2. queue' = {1} /\ received' = {0, 1} /\ 1 \in SeqNums
    BY <1>7, <2>1 DEF SetHandshakeComplete, SeqNums, Constants
  <2>3. InUse' = {0, 1}
    BY <1>2, <1>3, <2>1, <2>2 DEF InUse
  <2>4. ConnIDsSound'
    <3>1. TypeOK'
      BY <1>1, <1>2, <1>3, <1>5, <2>1, <2>2 DEF TypeOK
    <3>2. NoUseAfterRetire' /\ OnePathPerConnID' /\ EveryConnIDAccountedFor'
      BY <1>2, <1>3, <2>1, <2>2, <2>3 DEF NoUseAfterRetire, OnePathPerConnID, EveryConnIDAccountedFor
    <3>3. RetirePriorToHonoured'
      BY <1>2, <2>1, <2>3 DEF RetirePriorToHonoured
    <3> QED
      BY <1>4, <3>1, <3>2, <3>3 DEF ConnIDsSound
  <2>5. Order'
    BY SMTT(30), <1>1, <1>2, <2>1, <2>2, <2>3 DEF Order
  <2>6. NoPathsOrder'
    BY <1>2, <2>1 DEF NoPathsOrder
  <2> QED
    BY <1>3, <2>4, <2>5, <2>6 DEF IInv
<1> QED
  BY <1>6, <1>7

\* A path gets the front of the queue, which is newer than what other paths have.
LEMMA GetConnIDForPathIInv ==
  ASSUME Constants, IInv, NEW p \in Paths, GetConnIDForPath(p)
  PROVE  IInv'
<1> DEFINE next == Front(queue)
<1>1. /\ TypeOK /\ Order /\ NoPathsOrder /\ Untouched /\ NoUseAfterRetire /\ OnePathPerConnID
      /\ EveryConnIDAccountedFor /\ RetirePriorToHonoured /\ ResetTokenOfActive
  BY DEF IInv, ConnIDsSound
<1>2. /\ ~failed /\ ~closed /\ handshakeComplete /\ p \notin DOMAIN pathProbing /\ queue # {}
      /\ pathProbing' = [q \in DOMAIN pathProbing \cup {p} |-> IF q = p THEN next ELSE pathProbing[q]]
      /\ queue' = queue \ {next} /\ highestProbingID' = next
      /\ UNCHANGED <<rpt, active, highestRetired, handshakeComplete, resetTokens, activeHasToken,
                     retired, failed, closed, received, priorTo>>
  BY DEF GetConnIDForPath, ConnIDForPath, QueueWithoutFront
<1>3. \A u \in queue : u \in Nat
  BY <1>1 DEF TypeOK, SeqNums
<1>4. next \in queue /\ \A t \in queue : next <= t
  BY <1>2, <1>3, FrontIsLeast
<1> HIDE DEF next
<1>5. /\ DOMAIN pathProbing' = DOMAIN pathProbing \cup {p} /\ pathProbing'[p] = next
      /\ \A q \in DOMAIN pathProbing : pathProbing'[q] = pathProbing[q]
  BY <1>2
<1>6. Probing' = Probing \cup {next} /\ \A q \in DOMAIN pathProbing : pathProbing[q] \in Probing
  BY <1>2, <1>5 DEF Probing
<1>7. InUse' = InUse /\ next \in received /\ next \in Nat
  BY <1>1, <1>2, <1>3, <1>4, <1>6 DEF InUse, Order
<1>8. TypeOK'
  BY <1>1, <1>2, <1>4, <1>5, <1>6 DEF TypeOK
<1>9. OnePathPerConnID'
  <2>1. next \notin Probing /\ next # active
    BY <1>1, <1>4 DEF OnePathPerConnID
  <2>2. \A q, r \in DOMAIN pathProbing' : q # r => pathProbing'[q] # pathProbing'[r]
    BY <1>1, <1>5, <1>6, <2>1 DEF OnePathPerConnID
  <2>3. active' \notin queue' \cup Probing' /\ queue' \cap Probing' = {}
    BY <1>1, <1>2, <1>6, <2>1 DEF OnePathPerConnID
  <2> QED
    BY <2>2, <2>3 DEF OnePathPerConnID
<1>10. NoUseAfterRetire' /\ EveryConnIDAccountedFor' /\ RetirePriorToHonoured' /\ ResetTokenOfActive'
  BY <1>1, <1>2, <1>7
     DEF NoUseAfterRetire, EveryConnIDAccountedFor, RetirePriorToHonoured, ResetTokenOfActive
<1>11. Order'
  <2>1. \A t \in queue' : t > next
    BY <1>2, <1>3, <1>4
  <2> QED
    BY <1>1, <1>2, <1>7, <2>1 DEF Order
<1>12. NoPathsOrder' /\ Untouched'
  BY <1>2 DEF NoPathsOrder, Untouched
<1> QED
  BY <1>8, <1>9, <1>10, <1>11, <1>12 DEF IInv, ConnIDsSound

\* The connection ID of a path is given back.
LEMMA RetireConnIDForPathIInv ==
  ASSUME Constants, IInv, NEW p \in Paths, RetireConnIDForPath(p)
  PROVE  IInv'
<1>1. /\ TypeOK /\ Order /\ NoPathsOrder /\ Untouched /\ NoUseAfterRetire /\ OnePathPerConnID
      /\ EveryConnIDAccountedFor /\ RetirePriorToHonoured /\ ResetTokenOfActive
  BY DEF IInv, ConnIDsSound
<1>2. /\ ~failed /\ ~closed /\ p \in DOMAIN pathProbing
      /\ retired' = retired \cup {pathProbing[p]}
      /\ pathProbing' = [q \in DOMAIN pathProbing \ {p} |-> pathProbing[q]]
      /\ UNCHANGED <<rpt, queue, active, highestProbingID, highestRetired, handshakeComplete, resetTokens,
                     activeHasToken, failed, closed, received, priorTo>>
  BY DEF RetireConnIDForPath, QueueAfterPath
<1>3. /\ DOMAIN pathProbing' = DOMAIN pathProbing \ {p}
      /\ \A q \in DOMAIN pathProbing' : pathProbing'[q] = pathProbing[q]
  BY <1>2
<1>4. Probing' = Probing \ {pathProbing[p]} /\ pathProbing[p] \in Probing
  <2>1. \A q \in DOMAIN pathProbing : q # p => pathProbing[q] # pathProbing[p]
    BY Zenon, <1>1, <1>2 DEF OnePathPerConnID
  <2> QED
    BY <1>2, <1>3, <2>1 DEF Probing
<1>5. InUse' = InUse \ {pathProbing[p]} /\ pathProbing[p] \in InUse
  BY <1>1, <1>2, <1>4 DEF InUse, OnePathPerConnID
<1>6. TypeOK'
  BY <1>1, <1>2, <1>3, <1>4 DEF TypeOK
<1>7. NoUseAfterRetire' /\ EveryConnIDAccountedFor' /\ RetirePriorToHonoured' /\ ResetTokenOfActive'
  BY Zenon, <1>1, <1>2, <1>5
     DEF NoUseAfterRetire, EveryConnIDAccountedFor, RetirePriorToHonoured, ResetTokenOfActive
<1>8. OnePathPerConnID'
  BY SMTT(30), <1>1, <1>2, <1>3, <1>4 DEF OnePathPerConnID
<1>9. Order'
  BY <1>1, <1>2, <1>5 DEF Order
<1>10. NoPathsOrder' /\ Untouched'
  BY <1>1, <1>2 DEF NoPathsOrder, Untouched
<1> QED
  BY <1>6, <1>7, <1>8, <1>9, <1>10 DEF IInv, ConnIDsSound

LEMMA CloseIInv ==
  ASSUME IInv, Close
  PROVE  IInv'
<1>1. /\ TypeOK /\ Order /\ NoPathsOrder /\ Untouched /\ NoUseAfterRetire /\ OnePathPerConnID
      /\ EveryConnIDAccountedFor /\ RetirePriorToHonoured /\ ResetTokenOfActive
  BY DEF IInv, ConnIDsSound
<1>2. /\ ~closed /\ closed' = TRUE /\ resetTokens' = TokensAfterClose
      /\ UNCHANGED <<rpt, queue, active, pathProbing, highestProbingID, highestRetired,
                     handshakeComplete, activeHasToken, retired, failed, received, priorTo>>
  BY DEF Close
<1>3. Probing' = Probing /\ InUse' = InUse
  BY <1>2 DEF Probing, InUse
<1>4. resetTokens' = {}
  BY <1>1, <1>2 DEF ResetTokenOfActive, TokensAfterClose
<1>5. ConnIDsSound'
  BY <1>1, <1>2, <1>3, <1>4 DEF ConnIDsSound, TypeOK, NoUseAfterRetire, OnePathPerConnID,
       EveryConnIDAccountedFor, RetirePriorToHonoured, ResetTokenOfActive
<1>6. Order' /\ NoPathsOrder' /\ Untouched'
  BY <1>1, <1>2, <1>3 DEF Order, NoPathsOrder, Untouched
<1> QED
  BY <1>5, <1>6 DEF IInv

LEMMA UnchangedIInv ==
  ASSUME IInv, UNCHANGED vars
  PROVE  IInv'
<1>1. UNCHANGED <<rpt, queue, active, pathProbing, highestProbingID, highestRetired, handshakeComplete,
                  resetTokens, activeHasToken, retired, failed, closed, received, priorTo>>
  BY DEF vars, managerVars
<1>2. Probing' = Probing /\ InUse' = InUse
  BY <1>1 DEF Probing, InUse
<1>3. ConnIDsSound'
  BY <1>1, <1>2 DEF IInv, ConnIDsSound, TypeOK, NoUseAfterRetire, OnePathPerConnID,
       EveryConnIDAccountedFor, RetirePriorToHonoured, ResetTokenOfActive
<1>4. Order' /\ NoPathsOrder' /\ Untouched'
  BY <1>1, <1>2 DEF IInv, Order, NoPathsOrder, Untouched
<1> QED
  BY <1>3, <1>4 DEF IInv

\* Every step of the manager keeps the inductive invariant.
LEMMA StepIInv ==
  ASSUME Constants, IInv, [Next]_vars
  PROVE  IInv'
<1>1. ASSUME NEW seq \in 1..MaxSeq, NEW conflict \in BOOLEAN, Add(seq, conflict)
      PROVE  IInv'
  BY <1>1, RetiredAtOnceIInv, StoredIInv
<1>2. CASE ManagerStep
  BY <1>2, GetIInv, SetHandshakeCompleteIInv, GetConnIDForPathIInv, RetireConnIDForPathIInv, CloseIInv
     DEF ManagerStep
<1>3. CASE UNCHANGED vars
  BY <1>3, UnchangedIInv
<1> QED
  BY <1>1, <1>2, <1>3 DEF Next

\* Whatever the order in which NEW_CONNECTION_ID frames arrive, paths are probed and given up
\* and the active connection ID is changed: every connection ID the peer issued has one use or
\* was given back, never both; Retire Prior To is honoured; and the reset token that is
\* registered is the one of the active connection ID (conn_id_manager.go).  On an endpoint that
\* probes paths the frames have to arrive once: highestProbingID is no guard for a repeated one.
THEOREM ConnIDsStaySound ==
  ASSUME Constants
  PROVE  Spec => []ConnIDsSound
<1>1. Init => IInv
  BY InitIInv DEF Init
<1>2. IInv /\ [Next]_vars => IInv'
  BY StepIInv
<1>3. IInv => ConnIDsSound
  BY DEF IInv
<1> QED
  BY <1>1, <1>2, <1>3, PTL DEF Spec

--------------------------------------------------------------------------------
(* The manager and the generator of the peer. *)

\* Everything that was issued is known to the generator or given back, everything that was
\* received was issued, and no frame was sent to the connection ID it retires.
Issued ==
  /\ highestSeq \in SeqNums /\ activeSrcConnIDs \subseteq 0..highestSeq
  /\ received \subseteq 0..highestSeq
  /\ (0..highestSeq) \ activeSrcConnIDs \subseteq retired
  /\ \A seq, destination \in SeqNums :
       <<seq, destination>> \in retirePackets => seq \in retired /\ seq # destination
  /\ IsFiniteSet(activeSrcConnIDs)

PInv == IInv /\ Issued /\ RetireNeverRejected /\ LimitNeverExceeded

PairConstants == Constants /\ ConnIDLimit \in Nat \ {0} /\ MaxIssued \in Nat \ {0}

LEMMA IssueLimitBounds ==
  ASSUME PairConstants
  PROVE  IssueLimit \in Nat \ {0} /\ IssueLimit <= ConnIDLimit
BY DEF PairConstants, IssueLimit

\* What this endpoint uses, it received and did not give back: the generator still has it.
LEMMA IssuedIsRoutable ==
  ASSUME IInv, Issued
  PROVE  InUse \subseteq activeSrcConnIDs
BY Zenon DEF IInv, ConnIDsSound, Order, Issued, NoUseAfterRetire

\* The queue is shorter than the limit: it is part of what the generator has, and so is
\* the active connection ID, which is not in the queue.
LEMMA QueueIsShort ==
  ASSUME PairConstants, IInv, Issued, Cardinality(activeSrcConnIDs) <= IssueLimit
  PROVE  ~QueueTooLong(queue)
<1> DEFINE rest == activeSrcConnIDs \ {active}
<1>1. active \in activeSrcConnIDs /\ queue \subseteq rest
  BY IssuedIsRoutable DEF InUse, IInv, ConnIDsSound, OnePathPerConnID
<1>2. IsFiniteSet(activeSrcConnIDs) /\ Cardinality(activeSrcConnIDs) \in Nat
  BY FS_CardinalityType DEF Issued
<1>3. IsFiniteSet(rest) /\ Cardinality(rest) = Cardinality(activeSrcConnIDs) - 1
  BY <1>1, <1>2, FS_RemoveElement
<1>4. IsFiniteSet(queue) /\ Cardinality(queue) <= Cardinality(rest) /\ Cardinality(queue) \in Nat
  BY <1>1, <1>3, FS_Subset, FS_CardinalityType
<1> HIDE DEF rest
<1> QED
  BY <1>2, <1>3, <1>4, IssueLimitBounds DEF QueueTooLong, PairConstants

\* A step of the manager takes nothing back that it gave back, and fails only over the
\* length of the queue.
LEMMA ManagerKeepsRetired ==
  ASSUME ManagerStep
  PROVE  retired \subseteq retired' /\ failed' = failed
BY ZenonT(30) DEF ManagerStep, Get, updateConnectionID, RetiredByUpdate, SetHandshakeComplete, GetConnIDForPath,
       RetireConnIDForPath, Close

LEMMA AddKeepsRetired ==
  ASSUME NEW seq \in 1..MaxSeq, Add(seq, FALSE)
  PROVE  /\ retired \subseteq retired' /\ failed' = QueueTooLong(queue')
         /\ received' = received \cup {seq}
<1>1. CASE RetireAtOnce(seq)
  BY Zenon, <1>1 DEF Add
<1>2. CASE ~RetireAtOnce(seq)
  BY Zenon, <1>2 DEF Add, updateConnectionID
<1> QED
  BY <1>1, <1>2

\* Steps of the manager, the generator looking on.
LEMMA ManagerPInv ==
  ASSUME PairConstants, PInv, [Next]_vars, UNCHANGED genVars, retired \subseteq retired',
         received' \subseteq 0..highestSeq, failed' \in {failed, QueueTooLong(queue')}
  PROVE  PInv'
<1>1. IInv'
  BY StepIInv DEF PInv, PairConstants
<1>2. UNCHANGED <<activeSrcConnIDs, highestSeq, retirePackets, genFailed>>
  BY DEF genVars
<1>3. Issued'
  BY <1>2 DEF PInv, Issued, SeqNums
<1>4. Cardinality(activeSrcConnIDs') <= IssueLimit /\ ~failed
  BY <1>2 DEF PInv, LimitNeverExceeded
<1>5. ~QueueTooLong(queue')
  <2>1. Cardinality(activeSrcConnIDs) <= IssueLimit
    BY DEF PInv, LimitNeverExceeded
  <2>2. IInv /\ Issued /\ Cardinality(activeSrcConnIDs) <= IssueLimit => ~QueueTooLong(queue)
    BY QueueIsShort
  <2>3. (IInv /\ Issued /\ Cardinality(activeSrcConnIDs) <= IssueLimit => ~QueueTooLong(queue))'
    BY QueueIsShort, PTL
  <2> QED
    BY <1>1, <1>3, <1>4, <2>3
<1> QED
  BY <1>1, <1>2, <1>3, <1>4, <1>5 DEF PInv, LimitNeverExceeded, RetireNeverRejected, IssueLimit

\* Connection IDs are issued up to the limit.
LEMMA SetMaxActiveConnIDsPInv ==
  ASSUME PairConstants, PInv, SetMaxActiveConnIDs
  PROVE  PInv'
<1> DEFINE n == IssueLimit - 1
<1>1. /\ highestSeq = 0 /\ n \in 1..MaxSeq /\ highestSeq' = n
      /\ activeSrcConnIDs' = activeSrcConnIDs \cup 1..n
      /\ UNCHANGED <<vars, retirePackets, genFailed>>
  BY DEF SetMaxActiveConnIDs
<1>2. IInv' /\ retired' = retired /\ received' = received /\ failed' = failed
  BY <1>1, UnchangedIInv DEF PInv, vars, managerVars
<1>3. n \in Nat /\ IssueLimit = n + 1 /\ 0..0 = {0}
  BY IssueLimitBounds
<1> HIDE DEF n
<1>4. activeSrcConnIDs' \subseteq 0..n /\ (0..n) \ activeSrcConnIDs' \subseteq retired
  <2>1. activeSrcConnIDs \subseteq {0} /\ {0} \ activeSrcConnIDs \subseteq retired
    BY <1>1, <1>3 DEF PInv, Issued
  <2>2. 0..n = {0} \cup 1..n
    BY <1>3
  <2> QED
    BY <1>1, <2>1, <2>2
<1>5. IsFiniteSet(0..n) /\ Cardinality(0..n) = n + 1
  BY <1>3, FS_Interval
<1>6. IsFiniteSet(activeSrcConnIDs') /\ Cardinality(activeSrcConnIDs') <= n + 1
  BY Zenon, <1>4, <1>5, FS_Subset
<1>7. Issued'
  BY <1>1, <1>2, <1>3, <1>4, <1>6 DEF PInv, Issued, SeqNums, PairConstants, Constants
<1> QED
  BY <1>1, <1>2, <1>3, <1>6, <1>7 DEF PInv, LimitNeverExceeded, RetireNeverRejected, IssueLimit

\* The packet goes to the active connection ID, which is not the retired one.
LEMMA SendRetirePInv ==
  ASSUME PairConstants, PInv, NEW seq \in 0..MaxSeq, SendRetire(seq)
  PROVE  PInv'
<1>1. /\ seq \in retired /\ retirePackets' = retirePackets \cup {<<seq, active>>}
      /\ UNCHANGED <<vars, activeSrcConnIDs, highestSeq, genFailed>>
  BY DEF SendRetire
<1>2. IInv' /\ retired' = retired /\ received' = received /\ failed' = failed
  BY <1>1, UnchangedIInv DEF PInv, vars, managerVars
<1>3. seq # active
  BY <1>1 DEF PInv, IInv, ConnIDsSound, NoUseAfterRetire, InUse
<1>4. Issued'
  BY <1>1, <1>2, <1>3 DEF PInv, Issued, SeqNums
<1> QED
  BY <1>1, <1>2, <1>4 DEF PInv, LimitNeverExceeded, RetireNeverRejected, IssueLimit

\* A connection ID is given back and, unless it is the first one, replaced.
LEMMA RetirePInv ==
  ASSUME PairConstants, PInv, NEW seq \in 0..MaxSeq, NEW destination \in 0..MaxSeq, Retire(seq, destination)
  PROVE  PInv'
<1>1. UNCHANGED <<vars, retirePackets>> /\ <<seq, destination>> \in retirePackets
  BY DEF Retire
<1>2. IInv' /\ retired' = retired /\ received' = received /\ failed' = failed
  BY <1>1, UnchangedIInv DEF PInv, vars, managerVars
<1>3. seq \in retired /\ seq # destination /\ seq <= highestSeq
  BY <1>1 DEF PInv, Issued, SeqNums, IInv, ConnIDsSound, Order
<1>4. /\ seq \in activeSrcConnIDs /\ UNCHANGED genFailed
      /\ IF Replaced(seq)
         THEN /\ highestSeq' = highestSeq + 1
              /\ activeSrcConnIDs' = (activeSrcConnIDs \ {seq}) \cup {highestSeq + 1}
         ELSE activeSrcConnIDs' = activeSrcConnIDs \ {seq} /\ UNCHANGED highestSeq
  BY <1>3 DEF Retire, Known, NextSeq, PInv, Issued, SeqNums
<1> DEFINE rest == activeSrcConnIDs \ {seq}
<1>5. /\ IsFiniteSet(rest) /\ Cardinality(rest) = Cardinality(activeSrcConnIDs) - 1
      /\ Cardinality(activeSrcConnIDs) \in Nat /\ Cardinality(activeSrcConnIDs) <= IssueLimit
  BY <1>4, FS_RemoveElement, FS_CardinalityType DEF PInv, Issued, LimitNeverExceeded
<1>6. highestSeq \in Nat /\ rest \subseteq 0..highestSeq /\ (0..highestSeq) \ rest \subseteq retired
  BY <1>3 DEF PInv, Issued, SeqNums
<1>7. CASE ~Replaced(seq)
  <2>1. activeSrcConnIDs' = rest /\ highestSeq' = highestSeq
    BY <1>4, <1>7
  <2>2. Issued'
    BY <1>1, <1>2, <1>5, <1>6, <2>1 DEF PInv, Issued
  <2>3. Cardinality(activeSrcConnIDs') <= IssueLimit
    BY <1>5, <2>1, IssueLimitBounds
  <2> QED
    BY <1>2, <1>4, <2>2, <2>3 DEF PInv, LimitNeverExceeded, RetireNeverRejected, IssueLimit
<1>8. CASE Replaced(seq)
  <2> DEFINE n == highestSeq + 1
  <2>1. activeSrcConnIDs' = rest \cup {n} /\ highestSeq' = n /\ n \in SeqNums
    BY <1>4, <1>6, <1>8 DEF Replaced, SeqNums, PairConstants, Constants
  <2>2. n \notin rest /\ 0..n = (0..highestSeq) \cup {n} /\ received \subseteq 0..n
    BY <1>6 DEF PInv, Issued
  <2> HIDE DEF n, rest
  <2>3. IsFiniteSet(activeSrcConnIDs') /\ Cardinality(activeSrcConnIDs') = Cardinality(rest) + 1
    BY <1>5, <2>1, <2>2, FS_AddElement
  <2>4. activeSrcConnIDs' \subseteq 0..n /\ (0..n) \ activeSrcConnIDs' \subseteq retired
    BY Zenon, <1>6, <2>1, <2>2
  <2>5. Issued'
    BY <1>1, <1>2, <2>1, <2>2, <2>3, <2>4 DEF PInv, Issued
  <2>6. Cardinality(activeSrcConnIDs') <= IssueLimit
    BY <1>5, <2>3
  <2> QED
    BY <1>2, <1>4, <2>5, <2>6 DEF PInv, LimitNeverExceeded, RetireNeverRejected, IssueLimit
<1> QED
  BY <1>7, <1>8

LEMMA PairInit ==
  ASSUME PairConstants, ConnIDsInit
  PROVE  PInv
<1>1. NoRPT \in ValidRPT
  BY DEF NoRPT, ValidRPT, SeqNums, PairConstants, Constants
<1>2. IInv
  BY <1>1, InitIInv DEF ConnIDsInit, PairConstants
<1>3. IsFiniteSet({0}) /\ Cardinality({0}) = 1 /\ 0..0 = {0} /\ 0 \in SeqNums
  <2>1. 0..0 = {0} /\ 0 \in SeqNums
    BY DEF SeqNums, PairConstants, Constants
  <2> QED
    BY <2>1, FS_Singleton
<1>4. Issued
  BY <1>3 DEF Issued, ConnIDsInit, GenInit, InitManager
<1>5. RetireNeverRejected /\ LimitNeverExceeded
  BY <1>3, IssueLimitBounds DEF RetireNeverRejected, LimitNeverExceeded, ConnIDsInit, GenInit, InitManager
<1> QED
  BY <1>2, <1>4, <1>5 DEF PInv

LEMMA PairStep ==
  ASSUME PairConstants, PInv, [ConnIDsNext]_allVars
  PROVE  PInv'
<1>1. received \subseteq 0..highestSeq /\ highestSeq \in Nat
  BY DEF PInv, Issued, SeqNums
<1>2. ASSUME NEW seq \in 1..MaxSeq, ReceiveNewConnectionID(seq)
      PROVE  PInv'
  <2>1. Add(seq, FALSE) /\ UNCHANGED genVars /\ seq <= highestSeq
    BY Zenon, <1>2 DEF ReceiveNewConnectionID
  <2>2. /\ [Next]_vars /\ retired \subseteq retired' /\ failed' = QueueTooLong(queue')
        /\ received' = received \cup {seq}
    BY Zenon, <2>1, AddKeepsRetired DEF Next
  <2>3. received' \subseteq 0..highestSeq
    BY <1>1, <2>1, <2>2
  <2> QED
    BY <2>1, <2>2, <2>3, ManagerPInv
<1>3. CASE UseConnIDs
  <2>1. ManagerStep /\ received' = received /\ UNCHANGED genVars
    BY <1>3 DEF UseConnIDs
  <2>2. [Next]_vars /\ retired \subseteq retired' /\ failed' = failed
    BY <2>1, ManagerKeepsRetired DEF Next
  <2> QED
    BY <1>1, <2>1, <2>2, ManagerPInv
<1>4. CASE UNCHANGED allVars
  <2>1. UNCHANGED vars /\ UNCHANGED genVars
    BY <1>4 DEF allVars
  <2>2. retired' = retired /\ received' = received /\ failed' = failed
    BY <2>1 DEF vars, managerVars
  <2> QED
    BY <1>1, <2>1, <2>2, ManagerPInv
<1> QED
  BY <1>2, <1>3, <1>4, SetMaxActiveConnIDsPInv, SendRetirePInv, RetirePInv DEF ConnIDsNext

\* Two endpoints that run this code agree on the connection IDs for every active_connection_id
\* limit: what the manager uses the generator of its peer still has in the packet handler map,
\* the generator rejects no RETIRE_CONNECTION_ID frame, also not one that is sent again, and
\* the manager never closes the connection with CONNECTION_ID_LIMIT_ERROR.
THEOREM PeersAlwaysAgree ==
  ASSUME PairConstants
  PROVE  ConnIDsSpec => []PeersAgree
<1>1. ConnIDsInit => PInv
  BY PairInit
<1>2. PInv /\ [ConnIDsNext]_allVars => PInv'
  BY PairStep
<1>3. PInv => PeersAgree
  BY IssuedIsRoutable DEF PInv, PeersAgree, InUseIsRoutable, IInv, ConnIDsSound
<1> QED
  BY <1>1, <1>2, <1>3, PTL DEF ConnIDsSpec
================================================================================
