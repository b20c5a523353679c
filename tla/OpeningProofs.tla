----------------------------- MODULE OpeningProofs -----------------------------
(* What may be opened: the server side of migration (path_manager.go), for any  *)
(* number of addresses and paths; the map of outgoing streams and the agreement of *)
(* the two maps on the limits, for any number of streams and of callers.        *)
EXTENDS PathManager, StreamLimits, FiniteSetTheorems, TLAPS

-------------------------------------------------------------------------------
(* The path manager (path_manager.go), for any number of addresses and paths.    *)

PathFields == {"paths", "next", "addr", "connIDs", "retired", "current", "twice", "at", "target", "probes",
               "challenges", "responses"}
PathShaped(t) == DOMAIN t = PathFields
PathSame(u, t, S) == PathShaped(u) /\ \A f \in PathFields \ S : u[f] = t[f]

IDs(t) == 0..(t.next - 1)

\* A connection ID is with one of the three.
HeldOnce(id, P, C, R) ==
    \/ id \in P /\ id \notin C /\ id \notin R
    \/ id \notin P /\ id \in C /\ id \notin R
    \/ id \notin P /\ id \notin C /\ id \in R

PathTypes(t) ==
    /\ t.next \in Nat /\ DOMAIN t.target = IDs(t)
    /\ IsFiniteSet(DOMAIN t.paths) /\ Cardinality(DOMAIN t.paths) <= MaxPaths
    /\ \A id \in DOMAIN t.paths : DOMAIN t.paths[id] = {"addr", "validated", "rcvdNonProbing"}

Held(t) ==
    /\ ~t.twice
    /\ DOMAIN t.paths \subseteq IDs(t) /\ t.current \subseteq IDs(t) /\ t.retired \subseteq IDs(t)
    /\ \A id \in IDs(t) : HeldOnce(id, DOMAIN t.paths, t.current, t.retired)

\* Only the client answers, from where it is, what was sent there; a path that is validated
\* was answered.
Answered(t) ==
    /\ t.addr \in t.at
    /\ t.challenges \subseteq IDs(t) /\ t.responses \subseteq IDs(t)
    /\ \A id \in t.responses : t.target[id] \in t.at
    /\ \A id \in DOMAIN t.paths :
         t.paths[id].addr = t.target[id] /\ (t.paths[id].validated => t.target[id] \in t.at)

PathInv(t) == PathShaped(t) /\ PathTypes(t) /\ Held(t) /\ Answered(t)

\* A PATH_RESPONSE validates the path that was challenged.
LEMMA ResponseKeeps ==
  ASSUME NEW t, PathInv(t), NEW id \in t.responses, NEW u, u = HandlePathResponseFrame(t, id)
  PROVE  PathInv(u) /\ PathSame(u, t, {"paths"}) /\ DOMAIN u.paths = DOMAIN t.paths
         /\ \A i \in DOMAIN t.paths : u.paths[i].addr = t.paths[i].addr
<1>0. PathShaped(t)
  BY DEF PathInv
<1>1. CASE id \notin DOMAIN t.paths
  BY <1>0, <1>1 DEF HandlePathResponseFrame, PathSame
<1>2. CASE id \in DOMAIN t.paths
  <2>1. PICK r : r = [t.paths[id] EXCEPT !.validated = TRUE]
    BY Zenon
  <2>2. r.addr = t.paths[id].addr /\ DOMAIN r = DOMAIN t.paths[id]
    BY <1>2, <2>1 DEF PathInv, PathTypes
  <2>3. PICK f : f = [t.paths EXCEPT ![id] = r]
    BY Zenon
  <2>4. DOMAIN f = DOMAIN t.paths /\ f[id] = r /\ \A i \in DOMAIN t.paths \ {id} : f[i] = t.paths[i]
    BY <1>2, <2>3
  <2>5. u = [t EXCEPT !.paths = f]
    BY <1>2, <2>1, <2>3 DEF HandlePathResponseFrame
  <2>6. PathSame(u, t, {"paths"}) /\ u.paths = f
    BY <1>0, <2>5 DEF PathSame, PathShaped, PathFields
  <2>7. /\ u.next = t.next /\ u.addr = t.addr /\ u.retired = t.retired /\ u.current = t.current /\ u.twice = t.twice
        /\ u.at = t.at /\ u.target = t.target /\ u.challenges = t.challenges /\ u.responses = t.responses
    BY <2>6 DEF PathSame, PathFields
  <2>8. PathShaped(u) /\ PathTypes(u)
    <3>1. \A i \in DOMAIN u.paths : DOMAIN u.paths[i] = {"addr", "validated", "rcvdNonProbing"}
      BY <2>2, <2>4, <2>6 DEF PathInv, PathTypes
    <3> QED
      BY <2>4, <2>6, <2>7, <3>1 DEF PathInv, PathTypes, PathSame, IDs
  <2>9. Held(u)
    BY <2>4, <2>6, <2>7 DEF PathInv, Held, IDs
  <2>10. t.target[id] \in t.at
    BY DEF PathInv, Answered
  <2>11. Answered(u)
    BY SMTT(30), <2>2, <2>4, <2>6, <2>7, <2>10 DEF PathInv, Answered, IDs
  <2>12. \A i \in DOMAIN t.paths : u.paths[i].addr = t.paths[i].addr
    BY <2>2, <2>4, <2>6
  <2> QED
    BY <2>4, <2>6, <2>8, <2>9, <2>11, <2>12 DEF PathInv
<1> QED
  BY <1>1, <1>2

\* A path is remembered to have carried more than probes.
LEMMA NonProbingKeeps ==
  ASSUME NEW t, PathInv(t), NEW id \in DOMAIN t.paths, NEW v, NEW u, u = [t EXCEPT !.paths[id].rcvdNonProbing = v]
  PROVE  PathInv(u) /\ PathSame(u, t, {"paths"}) /\ DOMAIN u.paths = DOMAIN t.paths
         /\ u.paths[id].addr = t.paths[id].addr
         /\ u.paths[id].validated = t.paths[id].validated
<1>0. PathShaped(t)
  BY DEF PathInv
<1>1. PICK r : r = [t.paths[id] EXCEPT !.rcvdNonProbing = v]
  BY Zenon
<1>2. r.addr = t.paths[id].addr /\ r.validated = t.paths[id].validated /\ DOMAIN r = DOMAIN t.paths[id]
  BY <1>1 DEF PathInv, PathTypes
<1>3. PICK f : f = [t.paths EXCEPT ![id] = r]
  BY Zenon
<1>4. DOMAIN f = DOMAIN t.paths /\ f[id] = r /\ \A i \in DOMAIN t.paths \ {id} : f[i] = t.paths[i]
  BY <1>3
<1>5. u = [t EXCEPT !.paths = f]
  BY <1>1, <1>3
<1>6. PathSame(u, t, {"paths"}) /\ u.paths = f
  BY <1>0, <1>5 DEF PathSame, PathShaped, PathFields
<1>7. /\ u.next = t.next /\ u.addr = t.addr /\ u.retired = t.retired /\ u.current = t.current /\ u.twice = t.twice
      /\ u.at = t.at /\ u.target = t.target /\ u.challenges = t.challenges /\ u.responses = t.responses
  BY <1>6 DEF PathSame, PathFields
<1>8. PathShaped(u) /\ PathTypes(u)
  BY <1>2, <1>4, <1>6, <1>7 DEF PathInv, PathTypes, PathSame, IDs
<1>9. Held(u)
  BY <1>4, <1>6, <1>7 DEF PathInv, Held, IDs
<1>10. Answered(u)
  BY <1>2, <1>4, <1>6, <1>7 DEF PathInv, Answered, IDs
<1> QED
  BY <1>2, <1>4, <1>6, <1>8, <1>9, <1>10 DEF PathInv

LEMMA RetireIs ==
  ASSUME NEW t, PathShaped(t), NEW D, D \cap t.retired = {}, ~t.twice, NEW u, u = RetireConnIDs(t, D)
  PROVE  PathSame(u, t, {"retired", "twice", "connIDs"}) /\ u.retired = t.retired \cup D /\ ~u.twice
<1>1. PICK w, n : w = (t.twice \/ D \cap t.retired # {}) /\ n = t.connIDs + Cardinality(D)
  OBVIOUS
<1>2. u = [t EXCEPT !.retired = t.retired \cup D, !.twice = w, !.connIDs = n]
  BY <1>1 DEF RetireConnIDs
<1>3. PathSame(u, t, {"retired", "twice", "connIDs"}) /\ u.retired = t.retired \cup D /\ u.twice = w
  BY Zenon, <1>2 DEF PathSame, PathShaped, PathFields
<1> QED
  BY Zenon, <1>1, <1>3

\* The connection moves to an address where the client is.
LEMMA SwitchKeeps ==
  ASSUME NEW t, PathInv(t), NEW addr \in t.at
  PROVE  PathInv(SwitchToPath(t, addr))
<1> DEFINE kept == {id \in DOMAIN t.paths : t.paths[id].addr = addr}
           D == DOMAIN t.paths \ kept
<1>0. PathShaped(t) /\ ~t.twice /\ D \cap t.retired = {}
  BY DEF PathInv, Held, HeldOnce
<1>1. PICK v : v = RetireConnIDs(t, D)
  BY ZenonT(30)
<1>2. PathSame(v, t, {"retired", "twice", "connIDs"}) /\ v.retired = t.retired \cup D /\ ~v.twice
  BY <1>0, <1>1, RetireIs
<1>3. v.current = t.current
  BY <1>2 DEF PathSame, PathFields
<1>4. PICK u : u = [v EXCEPT !.paths = NoPath, !.current = v.current \cup kept, !.addr = addr, !.probes = {}]
  BY Zenon
<1>5. PathSame(u, v, {"paths", "current", "addr", "probes"}) /\ u.paths = NoPath /\ u.current = t.current \cup kept /\ u.addr = addr
  BY Zenon, <1>2, <1>3, <1>4 DEF PathSame, PathShaped, PathFields
<1>6. /\ u.next = t.next /\ u.retired = t.retired \cup D /\ ~u.twice
      /\ u.at = t.at /\ u.target = t.target /\ u.challenges = t.challenges /\ u.responses = t.responses
  BY <1>2, <1>5 DEF PathSame, PathFields
<1>7. DOMAIN u.paths = {}
  BY <1>5 DEF NoPath
<1>8. PathShaped(u) /\ PathTypes(u)
  BY SMTT(30), <1>5, <1>6, <1>7, FS_EmptySet, PathAssumption DEF PathInv, PathTypes, PathSame, IDs
<1>9. Held(u)
  <2>1. kept \subseteq IDs(t) /\ D \subseteq IDs(t) /\ kept \cup D = DOMAIN t.paths /\ kept \cap D = {} /\ IDs(u) = IDs(t)
    BY <1>6 DEF PathInv, Held, IDs
  <2> HIDE DEF kept, D
  <2>2. ASSUME NEW id \in IDs(t) PROVE HeldOnce(id, DOMAIN u.paths, u.current, u.retired)
    <3>1. HeldOnce(id, DOMAIN t.paths, t.current, t.retired)
      BY DEF PathInv, Held
    <3> QED
      BY <1>5, <1>6, <1>7, <2>1, <3>1 DEF HeldOnce
  <2> QED
    BY Zenon, <1>5, <1>6, <1>7, <2>1, <2>2 DEF PathInv, Held
<1>10. Answered(u)
  BY <1>5, <1>6, <1>7 DEF PathInv, Answered, IDs
<1>11. u = SwitchToPath(t, addr)
  BY <1>1, <1>4 DEF SwitchToPath
<1> QED
  BY <1>8, <1>9, <1>10, <1>11 DEF PathInv

\* A new path is probed under a new number.
LEMMA ProbeKeeps ==
  ASSUME NEW t, PathInv(t), Cardinality(DOMAIN t.paths) < MaxPaths, NEW addr, NEW nonProbing
  PROVE  PathInv(ProbePath(t, addr, nonProbing))
<1> DEFINE id == t.next
           P == DOMAIN t.paths
<1>0. PathShaped(t) /\ id \in Nat /\ DOMAIN t.target = IDs(t) /\ id \notin IDs(t) /\ P \subseteq IDs(t) /\ id \notin P
      /\ id \notin t.current /\ id \notin t.retired
  BY SMTT(30) DEF PathInv, PathTypes, Held, IDs
<1>1. PICK r : r = [addr |-> addr, validated |-> FALSE, rcvdNonProbing |-> nonProbing]
  BY Zenon
<1>2. PICK f : f = [i \in P \cup {id} |-> IF i = id THEN r ELSE t.paths[i]]
  BY Zenon
<1>3. PICK z : z = [i \in DOMAIN t.target \cup {id} |-> IF i = id THEN addr ELSE t.target[i]]
  BY Zenon
<1>4. PICK u : u = ProbePath(t, addr, nonProbing)
  OBVIOUS
<1>5. u = [t EXCEPT !.next = id + 1, !.connIDs = t.connIDs - 1, !.probes = t.probes \cup {id},
                    !.challenges = t.challenges \cup {id}, !.target = z, !.paths = f]
  BY <1>1, <1>2, <1>3, <1>4 DEF ProbePath
<1>6. /\ PathSame(u, t, {"next", "connIDs", "probes", "challenges", "target", "paths"})
      /\ u.next = id + 1 /\ u.challenges = t.challenges \cup {id} /\ u.target = z /\ u.paths = f
  BY Zenon, <1>0, <1>5 DEF PathSame, PathShaped, PathFields
<1>7. /\ u.addr = t.addr /\ u.retired = t.retired /\ u.current = t.current /\ u.twice = t.twice
      /\ u.at = t.at /\ u.responses = t.responses
  BY <1>6 DEF PathSame, PathFields
<1>8. IDs(u) = IDs(t) \cup {id}
  BY <1>0, <1>6 DEF IDs
<1>9. /\ DOMAIN f = P \cup {id} /\ f[id] = r /\ (\A i \in P : f[i] = t.paths[i])
      /\ DOMAIN z = IDs(t) \cup {id} /\ z[id] = addr /\ \A i \in IDs(t) : z[i] = t.target[i]
  BY <1>0, <1>2, <1>3
<1>10. r.addr = addr /\ r.validated = FALSE /\ DOMAIN r = {"addr", "validated", "rcvdNonProbing"}
  BY <1>1
<1>11. IsFiniteSet(P \cup {id}) /\ Cardinality(P \cup {id}) <= MaxPaths
  <2>1. IsFiniteSet(P) /\ Cardinality(P) \in Nat
    BY FS_CardinalityType DEF PathInv, PathTypes
  <2>2. IsFiniteSet(P \cup {id}) /\ Cardinality(P \cup {id}) = Cardinality(P) + 1
    BY <1>0, <2>1, FS_AddElement
  <2> QED
    BY <2>1, <2>2, PathAssumption
<1> HIDE DEF id, P
<1>12. PathShaped(u) /\ PathTypes(u)
  <2>1. \A i \in DOMAIN u.paths : DOMAIN u.paths[i] = {"addr", "validated", "rcvdNonProbing"}
    BY <1>6, <1>9, <1>10 DEF PathInv, PathTypes, P
  <2> QED
    BY <1>0, <1>6, <1>8, <1>9, <1>11, <2>1 DEF PathTypes, PathSame
<1>13. Held(u)
  <2>1. ASSUME NEW i \in IDs(u) PROVE HeldOnce(i, DOMAIN u.paths, u.current, u.retired)
    <3>1. CASE i \in IDs(t)
      <4>1. HeldOnce(i, DOMAIN t.paths, t.current, t.retired)
        BY <3>1 DEF PathInv, Held
      <4> QED
        BY <1>0, <1>6, <1>7, <1>9, <3>1, <4>1 DEF HeldOnce, P
    <3>2. CASE i = id
      BY <1>0, <1>6, <1>7, <1>9, <3>2 DEF HeldOnce
    <3> QED
      BY <1>8, <3>1, <3>2
  <2> QED
    BY <1>0, <1>6, <1>7, <1>8, <1>9, <2>1 DEF PathInv, Held
<1>14. Answered(u)
  <2>1. t.challenges \subseteq IDs(t) /\ t.responses \subseteq IDs(t) /\ t.addr \in t.at
    BY DEF PathInv, Answered
  <2>2. \A i \in u.responses : u.target[i] \in u.at
    BY <1>6, <1>7, <1>9, <2>1 DEF PathInv, Answered
  <2>3. \A i \in DOMAIN u.paths : u.paths[i].addr = u.target[i] /\ (u.paths[i].validated => u.target[i] \in u.at)
    BY SMTT(30), <1>0, <1>6, <1>7, <1>9, <1>10 DEF PathInv, Answered, P
  <2> QED
    BY <1>6, <1>7, <1>8, <2>1, <2>2, <2>3 DEF Answered
<1> QED
  BY <1>4, <1>12, <1>13, <1>14 DEF PathInv

\* A packet from another address.
LEMMA HandlePacketKeeps ==
  ASSUME NEW t, PathInv(t), NEW addr, NEW nonProbing
  PROVE  PathInv(HandlePacket(t, addr, nonProbing))
<1> DEFINE known == {id \in DOMAIN t.paths : t.paths[id].addr = addr}
<1>1. CASE known # {}
  <2>1. PICK id : id = CHOOSE i \in known : TRUE
    OBVIOUS
  <2>2. id \in known
    BY <1>1, <2>1
  <2>3. PICK v : v = (t.paths[id].rcvdNonProbing \/ nonProbing)
    OBVIOUS
  <2>4. PICK u : u = [t EXCEPT !.paths[id].rcvdNonProbing = v]
    BY Zenon
  <2>5. PathInv(u) /\ PathSame(u, t, {"paths"}) /\ DOMAIN u.paths = DOMAIN t.paths
        /\ u.paths[id].addr = t.paths[id].addr /\ u.paths[id].validated = t.paths[id].validated
    BY <2>2, <2>4, NonProbingKeeps
  <2>6. HandlePacket(t, addr, nonProbing) =
          IF u.paths[id].validated /\ u.paths[id].rcvdNonProbing THEN SwitchToPath(u, addr) ELSE u
    BY SMTT(30), <1>1, <2>1, <2>3, <2>4 DEF HandlePacket
  <2>7. u.paths[id].validated => addr \in u.at
    BY <2>2, <2>5 DEF PathInv, Answered
  <2> QED
    BY <2>5, <2>6, <2>7, SwitchKeeps
<1>2. CASE known = {} /\ (Cardinality(DOMAIN t.paths) >= MaxPaths \/ t.connIDs = 0)
  BY <1>2 DEF HandlePacket
<1>3. CASE known = {} /\ ~(Cardinality(DOMAIN t.paths) >= MaxPaths \/ t.connIDs = 0)
  <2>1. Cardinality(DOMAIN t.paths) < MaxPaths
    BY <1>3, FS_CardinalityType, PathAssumption DEF PathInv, PathTypes
  <2>2. HandlePacket(t, addr, nonProbing) = ProbePath(t, addr, nonProbing)
    BY <1>3 DEF HandlePacket
  <2> QED
    BY <2>1, <2>2, ProbeKeeps
<1> QED
  BY <1>1, <1>2, <1>3

LEMMA ReceivePacketKeeps ==
  ASSUME PathInv(g), NEW addr, NEW nonProbing, NEW largest, NEW response \in {{}} \cup {{id} : id \in g.responses},
         ReceivePacket(addr, nonProbing, response, largest)
  PROVE  PathInv(g')
<1>1. PICK w : w = IF response = {} THEN g ELSE HandlePathResponseFrame(g, CHOOSE id \in response : TRUE)
  OBVIOUS
<1>2. PathInv(w)
  <2>1. CASE response = {}
    BY <1>1, <2>1
  <2>2. CASE response # {}
    <3>1. PICK id \in g.responses : response = {id}
      BY <2>2
    <3>2. (CHOOSE i \in response : TRUE) = id
      BY <3>1
    <3>3. w = HandlePathResponseFrame(g, id)
      BY <1>1, <2>2, <3>2
    <3> QED
      BY <3>1, <3>3, ResponseKeeps
  <2> QED
    BY <2>1, <2>2
<1>3. PICK t : t = [w EXCEPT !.responses = w.responses \ response]
  BY Zenon
<1>4. PathInv(t)
  <2>1. PathSame(t, w, {"responses"}) /\ t.responses \subseteq w.responses
    BY <1>2, <1>3 DEF PathInv, PathSame, PathShaped, PathFields
  <2>2. /\ t.next = w.next /\ t.addr = w.addr /\ t.retired = w.retired /\ t.current = w.current /\ t.twice = w.twice
        /\ t.at = w.at /\ t.target = w.target /\ t.challenges = w.challenges /\ t.paths = w.paths
    BY <2>1 DEF PathSame, PathFields
  <2>3. PathShaped(t) /\ PathTypes(t) /\ Held(t)
    BY <1>2, <2>1, <2>2 DEF PathInv, PathTypes, Held, PathSame, IDs
  <2>4. Answered(t)
    BY <1>2, <2>1, <2>2 DEF PathInv, Answered, IDs
  <2> QED
    BY <2>3, <2>4 DEF PathInv
<1>5. g' = t \/ g' = HandlePacket(t, addr, nonProbing)
  BY <1>1, <1>3 DEF ReceivePacket
<1> QED
  BY <1>4, <1>5, HandlePacketKeeps

LEMMA AnswerChallengeKeeps ==
  ASSUME PathInv(g), NEW id \in g.challenges, AnswerChallenge(id)
  PROVE  PathInv(g')
<1>1. PICK R : R = IF g.target[id] \in g.at THEN g.responses \cup {id} ELSE g.responses
  BY Zenon
<1>2. g' = [g EXCEPT !.challenges = g.challenges \ {id}, !.responses = R]
  BY <1>1 DEF AnswerChallenge
<1>3. PathSame(g', g, {"challenges", "responses"}) /\ g'.challenges = g.challenges \ {id} /\ g'.responses = R
  BY ZenonT(30), <1>2 DEF PathInv, PathSame, PathShaped, PathFields
<1>4. /\ g'.next = g.next /\ g'.addr = g.addr /\ g'.retired = g.retired /\ g'.current = g.current /\ g'.twice = g.twice
      /\ g'.at = g.at /\ g'.target = g.target /\ g'.paths = g.paths
  BY <1>3 DEF PathSame, PathFields
<1>5. PathShaped(g') /\ PathTypes(g') /\ Held(g')
  BY <1>3, <1>4 DEF PathInv, PathTypes, Held, PathSame, IDs
<1>6. R \subseteq IDs(g) /\ \A i \in R : g.target[i] \in g.at
  BY <1>1 DEF PathInv, Answered
<1>7. Answered(g')
  BY Zenon, <1>3, <1>4, <1>6 DEF PathInv, Answered, IDs
<1> QED
  BY <1>5, <1>7 DEF PathInv

\* Forgetting a probe changes nothing else.
LEMMA ForgetProbe ==
  ASSUME PathInv(g), NEW id, NEW t, t = [g EXCEPT !.probes = @ \ {id}]
  PROVE  PathInv(t)
<1>1. PathSame(t, g, {"probes"})
  BY DEF PathInv, PathSame, PathShaped, PathFields
<1>2. /\ t.next = g.next /\ t.addr = g.addr /\ t.retired = g.retired /\ t.current = g.current /\ t.twice = g.twice
      /\ t.at = g.at /\ t.target = g.target /\ t.paths = g.paths /\ t.challenges = g.challenges
      /\ t.responses = g.responses
  BY <1>1 DEF PathSame, PathFields
<1> QED
  BY <1>1, <1>2 DEF PathInv, PathTypes, Held, Answered, PathSame, IDs

LEMMA OnLostKeeps ==
  ASSUME PathInv(g), NEW id, OnLost(id)
  PROVE  PathInv(g')
<1>1. PICK t : t = [g EXCEPT !.probes = @ \ {id}]
  BY Zenon
<1>2. PathInv(t)
  BY <1>1, ForgetProbe
<1>3. CASE id \notin DOMAIN t.paths
  BY <1>1, <1>2, <1>3 DEF OnLost
<1>4. CASE id \in DOMAIN t.paths
  <2>1. PICK f : f = Without(t.paths, id)
    OBVIOUS
  <2>2. DOMAIN f = DOMAIN t.paths \ {id} /\ \A i \in DOMAIN f : f[i] = t.paths[i]
    BY <2>1 DEF Without
  <2>3. PICK v : v = [t EXCEPT !.paths = f]
    BY Zenon
  <2>4. PathSame(v, t, {"paths"}) /\ v.paths = f
    BY <1>2, <2>3 DEF PathInv, PathSame, PathShaped, PathFields
  <2>5. g' = RetireConnIDs(v, {id})
    BY <1>1, <1>4, <2>1, <2>3 DEF OnLost
  <2>6. v.retired = t.retired /\ v.twice = t.twice
    BY <2>4 DEF PathSame, PathFields
  <2>7. id \in IDs(t) /\ id \notin t.retired /\ id \notin t.current /\ ~t.twice
    BY <1>2, <1>4 DEF PathInv, Held, HeldOnce
  <2>8. PathSame(g', v, {"retired", "twice", "connIDs"}) /\ g'.retired = v.retired \cup {id} /\ ~g'.twice
    BY SMTT(30), <2>4, <2>5, <2>6, <2>7, RetireIs DEF PathSame
  <2>9. /\ g'.next = t.next /\ g'.addr = t.addr /\ g'.retired = t.retired \cup {id} /\ g'.current = t.current
        /\ g'.at = t.at /\ g'.target = t.target /\ g'.paths = f /\ g'.challenges = t.challenges
        /\ g'.responses = t.responses
    BY <2>4, <2>6, <2>8 DEF PathSame, PathFields
  <2>10. IsFiniteSet(DOMAIN f) /\ Cardinality(DOMAIN f) <= MaxPaths
    <3>1. IsFiniteSet(DOMAIN t.paths) /\ Cardinality(DOMAIN t.paths) <= MaxPaths /\ Cardinality(DOMAIN t.paths) \in Nat
      BY <1>2, FS_CardinalityType DEF PathInv, PathTypes
    <3>2. IsFiniteSet(DOMAIN f) /\ Cardinality(DOMAIN f) \in Nat /\ Cardinality(DOMAIN f) <= Cardinality(DOMAIN t.paths)
      BY <2>2, <3>1, FS_Subset, FS_CardinalityType
    <3> QED
      BY <3>1, <3>2, PathAssumption
  <2>11. PathShaped(g') /\ PathTypes(g')
    <3>1. \A i \in DOMAIN f : DOMAIN f[i] = {"addr", "validated", "rcvdNonProbing"}
      BY <1>2, <2>2 DEF PathInv, PathTypes
    <3> QED
      BY <1>2, <2>8, <2>9, <2>10, <3>1 DEF PathInv, PathTypes, PathSame, IDs
  <2>12. Held(g')
    <3>1. IDs(g') = IDs(t)
      BY <2>9 DEF IDs
    <3>2. ASSUME NEW i \in IDs(t) PROVE HeldOnce(i, DOMAIN f, t.current, t.retired \cup {id})
      <4>1. HeldOnce(i, DOMAIN t.paths, t.current, t.retired)
        BY <1>2 DEF PathInv, Held
      <4> QED
        BY <2>2, <2>7, <4>1 DEF HeldOnce
    <3>3. DOMAIN f \subseteq IDs(t) /\ t.current \subseteq IDs(t) /\ t.retired \cup {id} \subseteq IDs(t)
      BY <1>2, <2>2, <2>7 DEF PathInv, Held
    <3> QED
      BY <2>8, <2>9, <3>1, <3>2, <3>3 DEF Held
  <2>13. Answered(g')
    BY <1>2, <2>2, <2>9 DEF PathInv, Answered, IDs
  <2> QED
    BY <2>11, <2>12, <2>13 DEF PathInv
<1> QED
  BY <1>3, <1>4

LEMMA PathStarts ==
  ASSUME PathInit
  PROVE  PathInv(g)
<1>1. PICK at \in SUBSET (Addrs \ {Home}) :
        g = [paths |-> NoPath, next |-> 0, addr |-> Home, connIDs |-> MaxPaths, retired |-> {}, current |-> {}, twice |-> FALSE,
             at |-> at \cup {Home}, target |-> NoPath, probes |-> {}, challenges |-> {}, responses |-> {}]
  BY Zenon DEF PathInit
<1>2. PathShaped(g)
  BY <1>1 DEF PathShaped, PathFields
<1>3. /\ g.paths = NoPath /\ g.next = 0 /\ g.addr = Home /\ g.retired = {} /\ g.current = {} /\ ~g.twice
      /\ Home \in g.at /\ g.target = NoPath /\ g.challenges = {} /\ g.responses = {}
  BY <1>1
<1>4. DOMAIN NoPath = {} /\ IDs(g) = {}
  BY <1>3 DEF NoPath, IDs
<1>5. PathTypes(g)
  BY <1>3, <1>4, FS_EmptySet, PathAssumption DEF PathTypes
<1>6. Held(g) /\ Answered(g)
  BY <1>3, <1>4 DEF Held, Answered
<1> QED
  BY <1>2, <1>5, <1>6 DEF PathInv

\* Exactly one of three sets holds a connection ID.
LEMMA HeldOnceCounts ==
  ASSUME NEW id, NEW P, NEW C, NEW R, HeldOnce(id, P, C, R)
  PROVE  Cardinality({S \in {<<"path", P>>, <<"current", C>>, <<"retired", R>>} : id \in S[2]}) = 1
<1> DEFINE T == {S \in {<<"path", P>>, <<"current", C>>, <<"retired", R>>} : id \in S[2]}
<1>1. \E x : T = {x}
  <2>1. CASE id \in P /\ id \notin C /\ id \notin R
    <3>1. T = {<<"path", P>>}
      BY <2>1
    <3> QED
      BY Zenon, <3>1
  <2>2. CASE id \notin P /\ id \in C /\ id \notin R
    <3>1. T = {<<"current", C>>}
      BY <2>2
    <3> QED
      BY Zenon, <3>1
  <2>3. CASE id \notin P /\ id \notin C /\ id \in R
    <3>1. T = {<<"retired", R>>}
      BY <2>3
    <3> QED
      BY Zenon, <3>1
  <2> QED
    BY Zenon, <2>1, <2>2, <2>3 DEF HeldOnce
<1> HIDE DEF T
<1>2. Cardinality(T) = 1
  BY Zenon, <1>1, FS_Singleton
<1> QED
  BY <1>2 DEF T

\* A server only moves a connection to an address at which the client answered a challenge,
\* probes at most maxPaths paths at a time, and neither loses the connection ID of a path
\* nor retires it twice, whatever packets arrive, in which order, and from which addresses.
THEOREM PathsStaySound == PathSpec => []PathsSound
<1>1. PathInit => PathInv(g)
  BY PathStarts
<1>2. PathInv(g) /\ [PathNext]_pathVars => PathInv(g)'
  <2> SUFFICES ASSUME PathInv(g), [PathNext]_pathVars PROVE PathInv(g')
    OBVIOUS
  <2>1. CASE \E addr \in Addrs, nonProbing, largest \in BOOLEAN, response \in {{}} \cup {{id} : id \in g.responses} :
               ReceivePacket(addr, nonProbing, response, largest)
    BY <2>1, ReceivePacketKeeps
  <2>2. CASE \E id \in g.challenges : AnswerChallenge(id)
    BY <2>2, AnswerChallengeKeeps
  <2>3. ASSUME NEW id \in g.probes, OnAcked(id) PROVE PathInv(g')
    BY <2>3, ForgetProbe DEF OnAcked
  <2>4. ASSUME NEW id \in g.probes, OnLost(id) PROVE PathInv(g')
    BY <2>4, OnLostKeeps
  <2>5. CASE UNCHANGED pathVars
    BY <2>5 DEF pathVars
  <2> QED
    BY <2>1, <2>2, <2>3, <2>4, <2>5 DEF PathNext
<1>3. PathInv(g) => PathsSound
  <2> SUFFICES ASSUME PathInv(g) PROVE PathsSound
    OBVIOUS
  <2>1. \A id \in 0..(g.next - 1) :
          Cardinality({S \in {<<"path", DOMAIN g.paths>>, <<"current", g.current>>, <<"retired", g.retired>>} : id \in S[2]}) = 1
    BY HeldOnceCounts DEF PathInv, Held, IDs
  <2> QED
    BY <2>1 DEF PathInv, PathTypes, Held, Answered, PathsSound
<1> QED
  BY <1>1, <1>2, <1>3, PTL DEF PathSpec

--------------------------------------------------------------------------------
(* The inductive invariant, part by part.                                       *)

\* The queue is finite and its positions are the ones handed out so far.
QueueShape ==
  /\ IsFiniteSet(openQueue)
  /\ WaitersReachable

\* A caller in OpenStreamSync has an entry of its own in the queue.
OwnEntry ==
  /\ \A c \in Callers : pc[c] # "idle" => pos[c] \in openQueue
  /\ \A c, d \in Callers : (c # d /\ pc[c] # "idle" /\ pc[d] # "idle") => pos[c] # pos[d]

\* Until the map is closed, only the oldest waiter is ever woken.
OnlyOldestWoken ==
  ~closed => /\ \A t \in token, q \in openQueue : t <= q
             /\ \A c \in Callers, q \in openQueue : pc[c] = "woken" => pos[c] <= q

\* Waiters exist only once a limit is known; with blockedSent unset, the limit
\* covers all of them.
CoveredUnlessBlocked ==
  /\ (openQueue # {} \/ blockedSent) => maxStream >= 0
  /\ ~blockedSent => \/ openQueue = {}
                     \/ Cardinality(openQueue) <= maxStream - (nextStream - 1)

\* blockedSent says that the last STREAMS_BLOCKED frame carries the current limit.
BlockedFramesUpToDate ==
  /\ blockedSent => Len(blockedFrames) > 0 /\ blockedFrames[Len(blockedFrames)] = maxStream
  /\ \A i \in 1..Len(blockedFrames) : blockedFrames[i] <= maxStream
  /\ ~blockedSent => \A i \in 1..Len(blockedFrames) : blockedFrames[i] < maxStream

IInv ==
  /\ TypeOK
  /\ WithinLimit
  /\ QueueShape
  /\ OwnEntry
  /\ OnlyOldestWoken
  /\ CoveredUnlessBlocked
  /\ BlockedFramesUpToDate
  /\ OneBlockedFramePerLimit

--------------------------------------------------------------------------------
\* The invariant holds in the initial state of a new map.
LEMMA InitIInv == Init => IInv
<1> SUFFICES ASSUME Init PROVE IInv
  OBVIOUS
<1>1. TypeOK
  <2>1. blockedSent \in BOOLEAN /\ closed \in BOOLEAN
    BY Zenon DEF Init
  <2>2. /\ pc \in [Callers -> {"idle", "waiting", "woken", "cancelled"}]
        /\ pos \in [Callers -> Nat]
    BY DEF Init
  <2>3. blockedFrames \in Seq(Nat)
    BY DEF Init
  <2> QED
    BY <2>1, <2>2, <2>3 DEF Init, TypeOK, InvalidStreamNum
<1>2. WithinLimit
  BY DEF Init, WithinLimit, ReportedLimit, InvalidStreamNum
<1>3. QueueShape /\ OwnEntry /\ OnlyOldestWoken
  BY FS_EmptySet DEF Init, QueueShape, WaitersReachable, OwnEntry, OnlyOldestWoken
<1>4. CoveredUnlessBlocked /\ BlockedFramesUpToDate /\ OneBlockedFramePerLimit
  BY DEF Init, CoveredUnlessBlocked, BlockedFramesUpToDate, OneBlockedFramePerLimit
<1> QED
  BY <1>1, <1>2, <1>3, <1>4 DEF IInv

\* The effect of maybeSendBlockedFrame under a known limit on the history: with
\* the invariant before, the frames stay increasing and blockedSent is accurate.
LEMMA BlockedFrameStep ==
  ASSUME NEW was \in BOOLEAN, NEW limit \in Nat,
         blockedFrames \in Seq(Nat),
         was => Len(blockedFrames) > 0 /\ blockedFrames[Len(blockedFrames)] = limit,
         \A i \in 1..Len(blockedFrames) : blockedFrames[i] <= limit,
         ~was => \A i \in 1..Len(blockedFrames) : blockedFrames[i] < limit,
         OneBlockedFramePerLimit,
         maybeSendBlockedFrame(was, limit),
         maxStream' = limit
  PROVE  /\ blockedFrames' \in Seq(Nat)
         /\ blockedSent' = TRUE
         /\ BlockedFramesUpToDate'
         /\ OneBlockedFramePerLimit'
  BY DEF maybeSendBlockedFrame, ReportedLimit, InvalidStreamNum, BlockedFramesUpToDate,
         OneBlockedFramePerLimit

\* What a step that neither queues a frame nor moves the limit does to the parts
\* of the invariant that speak of frames and of the limit.
LEMMA FramesUntouched ==
  ASSUME IInv, UNCHANGED <<blockedSent, blockedFrames, maxStream>>
  PROVE  BlockedFramesUpToDate' /\ OneBlockedFramePerLimit'
  BY DEF IInv, BlockedFramesUpToDate, OneBlockedFramePerLimit

\* maybeSendBlockedFrame for the current limit keeps the frame invariants.
LEMMA BlockedFrameNow ==
  ASSUME IInv, Usable, maybeSendBlockedFrame(blockedSent, maxStream), maxStream' = maxStream
  PROVE  /\ blockedFrames' \in Seq(Nat)
         /\ blockedSent' = TRUE
         /\ BlockedFramesUpToDate'
         /\ OneBlockedFramePerLimit'
<1>1. maxStream \in Nat /\ blockedSent \in BOOLEAN /\ blockedFrames \in Seq(Nat)
  BY DEF IInv, TypeOK, Usable, InvalidStreamNum
<1>2. /\ blockedSent => /\ Len(blockedFrames) > 0
                        /\ blockedFrames[Len(blockedFrames)] = maxStream
      /\ \A i \in 1..Len(blockedFrames) : blockedFrames[i] <= maxStream
      /\ ~blockedSent => \A i \in 1..Len(blockedFrames) : blockedFrames[i] < maxStream
      /\ OneBlockedFramePerLimit
  BY DEF IInv, BlockedFramesUpToDate
<1> QED
  BY Zenon, <1>1, <1>2, BlockedFrameStep

\* OpenStream preserves the invariant.
LEMMA OpenStreamIInv ==
  ASSUME IInv, NEW c \in Callers, OpenStream(c)
  PROVE  IInv'
<1> USE DEF IInv
<1>1. UNCHANGED <<queueVars, maxStream, closed, pc, pos>> /\ Usable
  BY DEF OpenStream
<1>2. QueueShape' /\ OwnEntry' /\ OnlyOldestWoken'
  BY <1>1 DEF QueueShape, WaitersReachable, OwnEntry, OnlyOldestWoken, queueVars
<1>3. CASE MayOpenDirectly
  <2>0. openStream /\ UNCHANGED <<blockedSent, blockedFrames>>
    BY <1>3 DEF OpenStream
  <2>1. TypeOK' /\ WithinLimit' /\ CoveredUnlessBlocked'
    BY <1>1, <1>3, <2>0 DEF TypeOK, WithinLimit, CoveredUnlessBlocked, MayOpenDirectly,
       HasCredit, openStream, queueVars, ReportedLimit, InvalidStreamNum
  <2>2. BlockedFramesUpToDate' /\ OneBlockedFramePerLimit'
    BY <1>1, <2>0, FramesUntouched
  <2> QED
    BY <1>2, <2>1, <2>2
<1>4. CASE ~MayOpenDirectly
  <2>0. maybeSendBlockedFrame(blockedSent, maxStream) /\ UNCHANGED <<streams, nextStream>>
    BY <1>4 DEF OpenStream
  <2>1. blockedFrames' \in Seq(Nat) /\ blockedSent' = TRUE /\ BlockedFramesUpToDate'
        /\ OneBlockedFramePerLimit'
    BY <1>1, <2>0, BlockedFrameNow
  <2>2. TypeOK' /\ WithinLimit' /\ CoveredUnlessBlocked'
    BY <1>1, <2>0, <2>1 DEF TypeOK, WithinLimit, CoveredUnlessBlocked, queueVars, Usable,
       ReportedLimit, InvalidStreamNum
  <2> QED
    BY <1>2, <2>1, <2>2
<1> QED
  BY <1>3, <1>4

\* OpenStreamSync, up to its select, preserves the invariant.
LEMMA OpenStreamSyncIInv ==
  ASSUME IInv, NEW c \in Callers, OpenStreamSync(c)
  PROVE  IInv'
<1> USE DEF IInv
<1>1. CASE MayOpenDirectly
  <2>0. /\ openStream
        /\ UNCHANGED <<queueVars, blockedSent, blockedFrames, pc, pos, maxStream, closed>>
    BY <1>1 DEF OpenStreamSync
  <2>1. TypeOK' /\ WithinLimit' /\ CoveredUnlessBlocked'
    BY <1>1, <2>0 DEF TypeOK, WithinLimit, CoveredUnlessBlocked, MayOpenDirectly, HasCredit,
       openStream, queueVars, ReportedLimit, InvalidStreamNum
  <2>2. BlockedFramesUpToDate' /\ OneBlockedFramePerLimit'
    BY <2>0, FramesUntouched
  <2>3. QueueShape' /\ OwnEntry' /\ OnlyOldestWoken'
    BY <2>0 DEF QueueShape, WaitersReachable, OwnEntry, OnlyOldestWoken, queueVars
  <2> QED
    BY <2>1, <2>2, <2>3
<1>2. CASE ~MayOpenDirectly
  <2>0. /\ pc[c] = "idle" /\ Usable
        /\ pos' = [pos EXCEPT ![c] = highestInQueue]
        /\ pc' = [pc EXCEPT ![c] = "waiting"]
        /\ openQueue' = openQueue \cup {highestInQueue}
        /\ highestInQueue' = highestInQueue + 1
        /\ lowestInQueue' = IF openQueue = {} THEN highestInQueue ELSE lowestInQueue
        /\ maybeSendBlockedFrame(blockedSent, maxStream)
        /\ UNCHANGED <<streams, nextStream, token, maxStream, closed>>
    BY <1>2 DEF OpenStreamSync
  <2>1. blockedFrames' \in Seq(Nat) /\ blockedSent' = TRUE /\ BlockedFramesUpToDate'
        /\ OneBlockedFramePerLimit'
    BY <2>0, BlockedFrameNow
  <2>2. TypeOK'
    BY <2>0, <2>1 DEF TypeOK
  <2>3. WithinLimit' /\ CoveredUnlessBlocked'
    BY <2>0, <2>1 DEF TypeOK, WithinLimit, CoveredUnlessBlocked, Usable, ReportedLimit,
       InvalidStreamNum
  <2>4. QueueShape'
    <3>1. IsFiniteSet(openQueue')
      BY <2>0, FS_AddElement DEF QueueShape
    <3>2. WaitersReachable'
      BY <2>0 DEF QueueShape, WaitersReachable, TypeOK
    <3> QED
      BY <3>1, <3>2 DEF QueueShape
  <2>5. highestInQueue \notin openQueue
    BY DEF QueueShape, WaitersReachable, TypeOK
  <2>6. OwnEntry'
    BY <2>0, <2>5 DEF OwnEntry, TypeOK
  <2>7. OnlyOldestWoken'
    BY <2>0, <2>5 DEF OnlyOldestWoken, OwnEntry, QueueShape, WaitersReachable, TypeOK
  <2> QED
    BY <2>1, <2>2, <2>3, <2>4, <2>6, <2>7
<1> QED
  BY <1>1, <1>2

\* The steps of a waiter that touch neither the limit nor the frames.
LEMMA WaiterIInv ==
  ASSUME IInv, NEW c \in Callers,
         \/ SelectWaitChan(c) \/ SelectCtxDone(c) \/ ReturnClosed(c) \/ KeepWaiting(c)
  PROVE  IInv'
<1> USE DEF IInv
<1>1. /\ UNCHANGED <<streams, openQueue, lowestInQueue, highestInQueue, nextStream,
                     maxStream, blockedSent, closed, pos, blockedFrames>>
      /\ token' \subseteq token
      /\ pc[c] # "idle"
      /\ pc' \in [Callers -> {"idle", "waiting", "woken", "cancelled"}]
      /\ \A d \in Callers : d # c => pc'[d] = pc[d]
      /\ pc'[c] = "woken" => pos[c] \in token \/ closed
  BY Zenon DEF SelectWaitChan, WaitChanReady, SelectCtxDone, ReturnClosed, KeepWaiting, queueVars,
     TypeOK
<1>2. TypeOK' /\ WithinLimit' /\ CoveredUnlessBlocked'
  BY <1>1 DEF TypeOK, WithinLimit, CoveredUnlessBlocked, ReportedLimit, InvalidStreamNum
<1>3. BlockedFramesUpToDate' /\ OneBlockedFramePerLimit'
  BY <1>1, FramesUntouched
<1>4. QueueShape' /\ OwnEntry'
  BY <1>1 DEF QueueShape, WaitersReachable, OwnEntry
<1>5. OnlyOldestWoken'
  BY <1>1 DEF OnlyOldestWoken, OwnEntry, TypeOK
<1> QED
  BY <1>2, <1>3, <1>4, <1>5

\* What removing one element does to the size of a finite set.
LEMMA RemoveOne ==
  ASSUME NEW S, NEW x, IsFiniteSet(S)
  PROVE  /\ IsFiniteSet(S \ {x})
         /\ Cardinality(S) \in Nat /\ Cardinality(S \ {x}) \in Nat
         /\ Cardinality(S \ {x}) = IF x \in S THEN Cardinality(S) - 1 ELSE Cardinality(S)
<1>1. /\ IsFiniteSet(S \ {x})
      /\ Cardinality(S \ {x}) = IF x \in S THEN Cardinality(S) - 1 ELSE Cardinality(S)
  BY FS_RemoveElement
<1> QED
  BY <1>1, FS_CardinalityType

\* A waiter that leaves the queue because its context is done.
LEMMA ReturnCancelledIInv ==
  ASSUME IInv, NEW c \in Callers, ReturnCancelled(c)
  PROVE  IInv'
<1> USE DEF IInv, ReturnCancelled
<1>1. TypeOK' /\ WithinLimit'
  BY Zenon DEF TypeOK, WithinLimit, ReportedLimit, InvalidStreamNum
<1>2. BlockedFramesUpToDate' /\ OneBlockedFramePerLimit'
  BY FramesUntouched
<1>3. /\ IsFiniteSet(openQueue')
      /\ Cardinality(openQueue') <= Cardinality(openQueue)
      /\ Cardinality(openQueue') \in Nat /\ Cardinality(openQueue) \in Nat
  <2>1. IsFiniteSet(openQueue) /\ openQueue' = openQueue \ {pos[c]}
    BY DEF QueueShape
  <2>2. /\ IsFiniteSet(openQueue \ {pos[c]})
        /\ Cardinality(openQueue) \in Nat /\ Cardinality(openQueue \ {pos[c]}) \in Nat
        /\ \/ Cardinality(openQueue \ {pos[c]}) = Cardinality(openQueue) - 1
           \/ Cardinality(openQueue \ {pos[c]}) = Cardinality(openQueue)
    BY <2>1, RemoveOne
  <2> HIDE DEF ReturnCancelled, IInv
  <2> QED
    BY <2>1, <2>2
<1>4. QueueShape'
  BY <1>3 DEF QueueShape, WaitersReachable
<1>6. CoveredUnlessBlocked'
  <2>1. UNCHANGED <<nextStream, maxStream, blockedSent>> /\ pos[c] \in openQueue
    BY DEF OwnEntry
  <2>2. nextStream \in Nat /\ maxStream \in Int /\ CoveredUnlessBlocked
    BY DEF TypeOK
  <2> HIDE DEF ReturnCancelled, IInv
  <2> QED
    BY <1>3, <2>1, <2>2 DEF CoveredUnlessBlocked
<1>5. OwnEntry' /\ OnlyOldestWoken'
  BY DEF OwnEntry, OnlyOldestWoken, TypeOK
<1> QED
  BY <1>1, <1>2, <1>4, <1>5, <1>6

\* A waiter that opens its stream and wakes the next one.
LEMMA OpenWaitingIInv ==
  ASSUME IInv, NEW c \in Callers, OpenWaiting(c)
  PROVE  IInv'
<1> USE DEF IInv
<1>1. /\ pc[c] = "woken" /\ ~closed /\ nextStream <= maxStream
      /\ streams' = streams \cup {nextStream}
      /\ nextStream' = nextStream + 1
      /\ pc' = [pc EXCEPT ![c] = "idle"]
      /\ openQueue' = openQueue \ {pos[c]}
      /\ lowestInQueue' = pos[c] + 1
      /\ token' \subseteq openQueue'
      /\ \A t \in token' : t \in token \/ \A r \in openQueue' : pos[c] + 1 <= r => t <= r
      /\ UNCHANGED <<highestInQueue, maxStream, blockedSent, closed, pos, blockedFrames>>
  BY DEF OpenWaiting, HasCredit, openStream, unblockOpenSync, ToUnblock, LowestAfter
<1>2. /\ pos[c] \in openQueue /\ pos[c] \in Nat
      /\ \A q \in openQueue : q \in Nat /\ pos[c] <= q
  BY <1>1 DEF OwnEntry, OnlyOldestWoken, TypeOK
<1>3. \A q \in openQueue' : pos[c] + 1 <= q
  BY <1>1, <1>2
<1>4. TypeOK'
  <2>1. streams' \subseteq (Nat \ {0}) /\ nextStream' \in Nat \ {0}
    BY <1>1 DEF TypeOK
  <2>2. pc' \in [Callers -> {"idle", "waiting", "woken", "cancelled"}]
    BY <1>1 DEF TypeOK
  <2>3. openQueue' \subseteq Nat /\ token' \subseteq openQueue' /\ lowestInQueue' \in Nat
    BY <1>1, <1>2
  <2>4. UNCHANGED <<highestInQueue, maxStream, blockedSent, closed, pos, blockedFrames>>
    BY <1>1
  <2> QED
    BY <2>1, <2>2, <2>3, <2>4 DEF TypeOK
<1>10. WithinLimit'
  BY <1>1 DEF TypeOK, WithinLimit, ReportedLimit, InvalidStreamNum
<1>5. BlockedFramesUpToDate' /\ OneBlockedFramePerLimit'
  BY <1>1, FramesUntouched
<1>6. /\ IsFiniteSet(openQueue')
      /\ Cardinality(openQueue') = Cardinality(openQueue) - 1
      /\ Cardinality(openQueue') \in Nat /\ Cardinality(openQueue) \in Nat
  BY Zenon, <1>1, <1>2, RemoveOne DEF QueueShape
<1>7. QueueShape' /\ CoveredUnlessBlocked'
  BY <1>1, <1>2, <1>3, <1>6 DEF QueueShape, WaitersReachable, CoveredUnlessBlocked, TypeOK
<1>8. OwnEntry'
  BY <1>1 DEF OwnEntry, TypeOK
<1>9. OnlyOldestWoken'
  <2>1. \A t \in token', q \in openQueue' : t <= q
    BY <1>1, <1>3 DEF OnlyOldestWoken
  <2>2. \A d \in Callers : pc'[d] # "woken"
    <3> SUFFICES ASSUME NEW d \in Callers, d # c, pc[d] = "woken" PROVE FALSE
      BY <1>1 DEF TypeOK
    <3>1. pos[d] \in openQueue /\ pos[d] <= pos[c] /\ pos[d] # pos[c]
      BY <1>1, <1>2 DEF OwnEntry, OnlyOldestWoken
    <3> QED
      BY <1>2, <3>1
  <2> QED
    BY <2>1, <2>2 DEF OnlyOldestWoken
<1> QED
  BY <1>4, <1>5, <1>7, <1>8, <1>9, <1>10

\* A higher limit from the peer.
LEMMA SetMaxStreamIInv ==
  ASSUME IInv, NEW num \in 0..MaxLimit, SetMaxStream(num)
  PROVE  IInv'
<1> USE DEF IInv
<1>0. num \in Nat /\ num > maxStream
  BY DEF SetMaxStream, IsStaleLimit, TypeOK
<1>1. /\ ~closed /\ maxStream' = num
      /\ UNCHANGED <<streams, openQueue, lowestInQueue, highestInQueue, nextStream, closed,
                     pc, pos>>
      /\ token' \subseteq openQueue
      /\ \A t \in token' : t \in token \/ \A r \in openQueue : lowestInQueue <= r => t <= r
  BY DEF SetMaxStream, unblockOpenSync, ToUnblock
<1>2. /\ blockedSent' \in BOOLEAN
      /\ blockedFrames' \in Seq(Nat)
      /\ BlockedFramesUpToDate' /\ OneBlockedFramePerLimit'
      /\ blockedSent' \/ ~StillBlocked(num)
  <2>1. \A i \in 1..Len(blockedFrames) : blockedFrames[i] < num /\ blockedFrames[i] <= num
    BY <1>0 DEF BlockedFramesUpToDate, TypeOK
  <2>2. CASE StillBlocked(num)
    <3>1. maybeSendBlockedFrame(FALSE, num)
      BY Zenon, <2>2 DEF SetMaxStream
    <3>2. FALSE \in BOOLEAN /\ blockedFrames \in Seq(Nat) /\ OneBlockedFramePerLimit
      BY DEF TypeOK
    <3>3. blockedFrames' \in Seq(Nat) /\ blockedSent' = TRUE /\ BlockedFramesUpToDate'
          /\ OneBlockedFramePerLimit'
      BY Zenon, <1>0, <1>1, <2>1, <3>1, <3>2, BlockedFrameStep
    <3> QED
      BY <3>3, Zenon
  <2>3. CASE ~StillBlocked(num)
    <3>1. ~blockedSent' /\ blockedSent' \in BOOLEAN /\ blockedFrames' = blockedFrames
      BY Zenon, <2>3 DEF SetMaxStream
    <3>2. BlockedFramesUpToDate' /\ OneBlockedFramePerLimit'
      BY <1>1, <2>1, <3>1 DEF BlockedFramesUpToDate, OneBlockedFramePerLimit
    <3> QED
      BY <2>3, <3>1, <3>2 DEF TypeOK
  <2> QED
    BY <2>2, <2>3
<1>3. TypeOK' /\ WithinLimit'
  BY <1>0, <1>1, <1>2 DEF TypeOK, WithinLimit, ReportedLimit, InvalidStreamNum
<1>4. QueueShape' /\ OwnEntry'
  BY <1>1 DEF QueueShape, WaitersReachable, OwnEntry
<1>5. CoveredUnlessBlocked'
  <2>1. Cardinality(openQueue) \in Nat
    BY FS_CardinalityType DEF QueueShape
  <2> QED
    BY <1>0, <1>1, <1>2, <2>1 DEF CoveredUnlessBlocked, StillBlocked, TypeOK
<1>6. OnlyOldestWoken'
  BY <1>1 DEF OnlyOldestWoken, QueueShape, WaitersReachable
<1> QED
  BY <1>2, <1>3, <1>4, <1>5, <1>6

\* Deleting a stream, closing the map and stuttering.
LEMMA OtherIInv ==
  ASSUME IInv,
         \/ \E num \in streams : DeleteStream(num)
         \/ CloseWithError
         \/ UNCHANGED vars
  PROVE  IInv'
<1> USE DEF IInv
<1>1. /\ UNCHANGED <<openQueue, token, lowestInQueue, highestInQueue, nextStream,
                     maxStream, blockedSent, pc, pos, blockedFrames>>
      /\ streams' \subseteq streams
      /\ closed' \in BOOLEAN /\ (closed => closed')
  BY Zenon DEF DeleteStream, CloseWithError, vars, queueVars, TypeOK
<1>2. TypeOK' /\ WithinLimit' /\ CoveredUnlessBlocked'
  BY <1>1 DEF TypeOK, WithinLimit, CoveredUnlessBlocked, ReportedLimit, InvalidStreamNum
<1>3. BlockedFramesUpToDate' /\ OneBlockedFramePerLimit'
  BY <1>1, FramesUntouched
<1>4. QueueShape' /\ OwnEntry' /\ OnlyOldestWoken'
  BY <1>1 DEF QueueShape, WaitersReachable, OwnEntry, OnlyOldestWoken
<1> QED
  BY <1>2, <1>3, <1>4

\* Every step of the map preserves the invariant.
LEMMA NextIInv == IInv /\ [Next]_vars => IInv'
<1> SUFFICES ASSUME IInv, [Next]_vars PROVE IInv'
  OBVIOUS
<1>1. ASSUME NEW c \in Callers, OpenStream(c) PROVE IInv'
  BY <1>1, OpenStreamIInv
<1>2. ASSUME NEW c \in Callers, OpenStreamSync(c) PROVE IInv'
  BY <1>2, OpenStreamSyncIInv
<1>3. ASSUME NEW c \in Callers,
             \/ SelectWaitChan(c) \/ SelectCtxDone(c) \/ ReturnClosed(c) \/ KeepWaiting(c)
      PROVE IInv'
  BY <1>3, WaiterIInv
<1>4. ASSUME NEW c \in Callers, ReturnCancelled(c) PROVE IInv'
  BY <1>4, ReturnCancelledIInv
<1>5. ASSUME NEW c \in Callers, OpenWaiting(c) PROVE IInv'
  BY <1>5, OpenWaitingIInv
<1>6. ASSUME NEW num \in 0..MaxLimit, SetMaxStream(num) PROVE IInv'
  BY <1>6, SetMaxStreamIInv
<1>7. ASSUME \/ \E num \in streams : DeleteStream(num)
             \/ CloseWithError
             \/ UNCHANGED vars
      PROVE IInv'
  BY <1>7, OtherIInv
<1> QED
  BY <1>1, <1>2, <1>3, <1>4, <1>5, <1>6, <1>7 DEF Next

\* The invariant holds throughout.
THEOREM Invariance == Spec => []IInv
  BY InitIInv, NextIInv, PTL DEF Spec

--------------------------------------------------------------------------------
(* The safety properties of the map.                                            *)

\* Every variable of the map keeps its type.
THEOREM TypeCorrect == Spec => []TypeOK
  BY Invariance, PTL DEF IInv

\* No interleaving of callers, limits and cancellations opens a stream beyond
\* the peer's limit.
THEOREM LimitRespected == Spec => []WithinLimit
  BY Invariance, PTL DEF IInv

\* No waiter is ever below the point where unblockOpenSync starts to search.
THEOREM AllWaitersReachable == Spec => []WaitersReachable
  BY Invariance, PTL DEF IInv, QueueShape

\* At most one STREAMS_BLOCKED frame is queued for a limit.
THEOREM BlockedOnce == Spec => []OneBlockedFramePerLimit
  BY Invariance, PTL DEF IInv

\* If the limit does not cover all waiters, STREAMS_BLOCKED was queued for it
\* (maybeSendBlockedFrame).
LEMMA ReportedByInvariant == IInv => BlockedIsReported
<1> SUFFICES ASSUME IInv, openQueue # {}, Cardinality(openQueue) > maxStream - (nextStream - 1)
             PROVE  \E i \in 1..Len(blockedFrames) : blockedFrames[i] = maxStream
  BY DEF BlockedIsReported
<1>1. Cardinality(openQueue) \in Nat
  BY FS_CardinalityType DEF IInv, QueueShape
<1>2. blockedSent
  <2> SUFFICES ASSUME ~blockedSent PROVE FALSE
    OBVIOUS
  <2>1. Cardinality(openQueue) <= maxStream - (nextStream - 1)
    BY DEF IInv, CoveredUnlessBlocked
  <2> QED
    BY <1>1, <2>1 DEF IInv, TypeOK
<1> QED
  BY <1>2 DEF IInv, BlockedFramesUpToDate, TypeOK

\* If the limit does not cover all waiters, the peer was told so.
THEOREM BlockedReported == Spec => []BlockedIsReported
  BY ReportedByInvariant, Invariance, PTL

\* Waiters are served in the order of their arrival, and nobody overtakes them.
THEOREM FirstComeFirstServed == Spec => ServedInOrder
<1> DEFINE Ordered ==
      nextStream' # nextStream =>
        \/ openQueue = {}
        \/ \E c \in Callers : /\ pc[c] = "woken" /\ pc'[c] = "idle"
                              /\ \A q \in openQueue : pos[c] <= q
<1>1. IInv /\ [Next]_vars => [Ordered]_vars
  <2> SUFFICES ASSUME IInv, Next, nextStream' # nextStream PROVE Ordered
    BY DEF vars
  <2>1. ASSUME NEW c \in Callers, OpenStream(c) \/ OpenStreamSync(c) PROVE openQueue = {}
    BY <2>1 DEF OpenStream, OpenStreamSync, MayOpenDirectly
  <2>2. ASSUME NEW c \in Callers, OpenWaiting(c)
        PROVE  /\ pc[c] = "woken" /\ pc'[c] = "idle"
               /\ \A q \in openQueue : pos[c] <= q
    BY <2>2 DEF OpenWaiting, IInv, OnlyOldestWoken, TypeOK
  <2>3. ASSUME NEW c \in Callers,
               \/ SelectWaitChan(c) \/ SelectCtxDone(c) \/ ReturnCancelled(c)
               \/ ReturnClosed(c) \/ KeepWaiting(c)
        PROVE  FALSE
    BY <2>3 DEF SelectWaitChan, SelectCtxDone, ReturnCancelled, ReturnClosed, KeepWaiting
  <2>4. ASSUME NEW num, SetMaxStream(num) \/ DeleteStream(num) \/ CloseWithError PROVE FALSE
    BY Zenon, <2>4 DEF SetMaxStream, DeleteStream, CloseWithError
  <2> QED
    BY <2>1, <2>2, <2>3, <2>4 DEF Next
<1> QED
  BY <1>1, Invariance, PTL DEF Spec, ServedInOrder

--------------------------------------------------------------------------------
(* Wake-ups.  As long as no context is cancelled, none is lost.                 *)

\* A wake-up is in flight whenever a waiter could be served.
WakeUpInFlight ==
  (openQueue # {} /\ HasCredit /\ ~closed)
    => token # {} \/ \E c \in Callers : pc[c] = "woken"

\* Every entry of an open map belongs to a caller that waits for it.
NoCancellation ==
  /\ \A c \in Callers : pc[c] # "cancelled"
  /\ ~closed => \A q \in openQueue : \E c \in Callers : pc[c] # "idle" /\ pos[c] = q

SInv == IInv /\ NoCancellation /\ WakeUpInFlight

\* A non-empty set of naturals has a smallest element.
LEMMA LeastElement ==
  ASSUME NEW S \in SUBSET Nat, S # {}
  PROVE  \E x \in S : \A y \in S : x <= y
<1>1. \E x \in S : \A y \in S : ~(<<y, x>> \in OpToRel(<, Nat))
  BY Zenon, WFMin, NatLessThanWellFounded
<1>2. PICK x \in S : \A y \in S : ~(<<y, x>> \in OpToRel(<, Nat))
  BY Zenon, <1>1
<1>3. \A y \in S : ~(y < x)
  BY Zenon, <1>2 DEF OpToRel
<1> QED
  BY <1>3

\* unblockOpenSync reaches a waiter if there is one.
LEMMA UnblockReaches ==
  ASSUME NEW queue \in SUBSET Nat, queue # {}, NEW lowest \in Nat, highestInQueue \in Nat,
         \A q \in queue : lowest <= q /\ q < highestInQueue,
         unblockOpenSync(queue, lowest)
  PROVE  token' # {}
<1>1. PICK q \in queue : \A r \in queue : q <= r
  BY LeastElement
<1>2. q \in ToUnblock(queue, lowest, highestInQueue)
  BY <1>1 DEF ToUnblock
<1> QED
  BY <1>2 DEF unblockOpenSync

\* Without cancellation, entries of the queue keep their owners.
LEMMA NoCancellationStep ==
  ASSUME Cancellable = {}, IInv, NoCancellation, [Next]_vars
  PROVE  NoCancellation'
<1> USE DEF NoCancellation, IInv
<1>1. ASSUME NEW c \in Callers, OpenStream(c) PROVE NoCancellation'
  BY <1>1 DEF OpenStream, queueVars
<1>2. ASSUME NEW c \in Callers, OpenStreamSync(c) PROVE NoCancellation'
  <2>1. CASE MayOpenDirectly
    BY <1>2, <2>1 DEF OpenStreamSync, queueVars
  <2>2. CASE ~MayOpenDirectly
    <3>1. /\ pc[c] = "idle"
          /\ pos' = [pos EXCEPT ![c] = highestInQueue]
          /\ pc' = [pc EXCEPT ![c] = "waiting"]
          /\ openQueue' = openQueue \cup {highestInQueue}
          /\ UNCHANGED closed
      BY <1>2, <2>2 DEF OpenStreamSync
    <3> QED
      BY <3>1 DEF TypeOK
  <2> QED
    BY <2>1, <2>2
<1>3. ASSUME NEW c \in Callers, SelectWaitChan(c) \/ KeepWaiting(c) \/ ReturnClosed(c)
      PROVE  NoCancellation'
  BY ZenonT(30), <1>3 DEF SelectWaitChan, KeepWaiting, ReturnClosed, queueVars, TypeOK
<1>4. ASSUME NEW c \in Callers, OpenWaiting(c) PROVE NoCancellation'
  BY <1>4 DEF OpenWaiting, TypeOK
<1>5. ASSUME NEW c \in Callers, SelectCtxDone(c) \/ ReturnCancelled(c) PROVE NoCancellation'
  BY <1>5 DEF SelectCtxDone, ReturnCancelled
<1>6. ASSUME NEW num, SetMaxStream(num) \/ DeleteStream(num) \/ CloseWithError \/ UNCHANGED vars
      PROVE  NoCancellation'
  BY Zenon, <1>6 DEF SetMaxStream, DeleteStream, CloseWithError, vars, queueVars
<1> QED
  BY ZenonT(30), <1>1, <1>2, <1>3, <1>4, <1>5, <1>6 DEF Next

\* Every step that makes credit meet a waiter, or that uses a wake-up up, leaves
\* another wake-up behind.
LEMMA WakeUpStep ==
  ASSUME IInv, NoCancellation, WakeUpInFlight, IInv', NoCancellation', [Next]_vars
  PROVE  WakeUpInFlight'
<1> USE DEF WakeUpInFlight, HasCredit
<1>0. /\ openQueue \in SUBSET Nat /\ lowestInQueue \in Nat /\ highestInQueue \in Nat
      /\ nextStream \in Nat /\ maxStream \in Int
      /\ \A q \in openQueue : lowestInQueue <= q /\ q < highestInQueue
  BY DEF IInv, TypeOK, QueueShape, WaitersReachable
<1>1. ASSUME NEW c \in Callers, OpenStream(c) PROVE WakeUpInFlight'
  <2>1. CASE MayOpenDirectly
    BY <1>1, <2>1 DEF OpenStream, queueVars, MayOpenDirectly
  <2>2. CASE ~MayOpenDirectly
    BY <1>1, <2>2 DEF OpenStream, queueVars
  <2> QED
    BY <2>1, <2>2
<1>2. ASSUME NEW c \in Callers, OpenStreamSync(c) PROVE WakeUpInFlight'
  <2>1. CASE MayOpenDirectly
    BY <1>2, <2>1 DEF OpenStreamSync, queueVars, MayOpenDirectly
  <2>2. CASE ~MayOpenDirectly
    <3>1. /\ pc[c] = "idle"
          /\ pc' = [pc EXCEPT ![c] = "waiting"]
          /\ UNCHANGED <<token, nextStream, maxStream, closed>>
          /\ openQueue # {} \/ ~(nextStream <= maxStream)
      BY <1>2, <2>2 DEF OpenStreamSync, MayOpenDirectly
    <3> QED
      BY <3>1 DEF IInv, TypeOK
  <2> QED
    BY <2>1, <2>2
<1>3. ASSUME NEW c \in Callers, SelectWaitChan(c) PROVE WakeUpInFlight'
  BY <1>3 DEF SelectWaitChan, IInv, TypeOK
<1>4. ASSUME NEW c \in Callers, KeepWaiting(c) \/ ReturnClosed(c) PROVE WakeUpInFlight'
  BY <1>4 DEF KeepWaiting, ReturnClosed
<1>5. ASSUME NEW c \in Callers, OpenWaiting(c) PROVE WakeUpInFlight'
  <2>1. /\ openQueue' = openQueue \ {pos[c]} /\ lowestInQueue' = pos[c] + 1
        /\ unblockOpenSync(openQueue', lowestInQueue') /\ UNCHANGED highestInQueue
    BY <1>5 DEF OpenWaiting, LowestAfter
  <2>2. /\ openQueue' \in SUBSET Nat /\ lowestInQueue' \in Nat
        /\ \A q \in openQueue' : lowestInQueue' <= q /\ q < highestInQueue
    BY <2>1 DEF IInv, TypeOK, QueueShape, WaitersReachable
  <2>3. openQueue' # {} => token' # {}
    BY <1>0, <2>1, <2>2, UnblockReaches
  <2> QED
    BY <2>3
<1>6. ASSUME NEW num, SetMaxStream(num) PROVE WakeUpInFlight'
  <2>1. unblockOpenSync(openQueue, lowestInQueue) /\ UNCHANGED openQueue
    BY <1>6 DEF SetMaxStream
  <2>2. openQueue # {} => token' # {}
    BY <1>0, <2>1, UnblockReaches
  <2> QED
    BY <2>1, <2>2
<1>7. ASSUME NEW c \in Callers, SelectCtxDone(c) \/ ReturnCancelled(c) PROVE FALSE
  BY <1>7 DEF SelectCtxDone, ReturnCancelled, NoCancellation, IInv, TypeOK
<1>8. ASSUME NEW num, DeleteStream(num) \/ CloseWithError \/ UNCHANGED vars
      PROVE  WakeUpInFlight'
  BY <1>8 DEF DeleteStream, CloseWithError, vars, queueVars
<1> QED
  BY <1>1, <1>2, <1>3, <1>4, <1>5, <1>6, <1>7, <1>8 DEF Next

\* If no caller's context is cancelled, credit never meets a waiter without a
\* wake-up in flight: OpenStreamSync loses no wake-up.
THEOREM NoLostWakeUp ==
  ASSUME Cancellable = {}
  PROVE  Spec => []CreditIsSignalled
<1>1. Init => SInv
  BY InitIInv DEF Init, SInv, NoCancellation, WakeUpInFlight
<1>2. SInv /\ [Next]_vars => SInv'
  BY NextIInv, NoCancellationStep, WakeUpStep DEF SInv
<1>3. SInv => CreditIsSignalled
  <2> SUFFICES ASSUME SInv, ~closed, NEW t \in token
               PROVE  \E c \in Callers : pc[c] = "woken" \/ (pc[c] = "waiting" /\ pos[c] \in token)
    BY DEF SInv, CreditIsSignalled, WakeUpInFlight
  <2>1. PICK c \in Callers : pc[c] # "idle" /\ pos[c] = t
    BY DEF SInv, NoCancellation, IInv, TypeOK
  <2>2. pc[c] \in {"waiting", "woken"}
    BY <2>1 DEF SInv, NoCancellation, IInv, TypeOK
  <2> QED
    BY <2>1, <2>2
<1> QED
  BY <1>1, <1>2, <1>3, PTL DEF Spec

--------------------------------------------------------------------------------
(* StreamLimits.  Two endpoints that run this code agree on the stream limit,     *)
(* for every set of callers and every limit: the invariant of the opener's map    *)
(* carries over to the composition, and the frames in between never promise more  *)
(* than the acceptor grants.                                                      *)

\* What the acceptor grants is what it promised at the start and one more for every
\* stream that is done, up to the last stream ID; it never takes anything back, so
\* no frame on its way, however old, says more.
GrantExact ==
  /\ done \in Nat /\ opened \in Nat
  /\ granted = Acceptor!Smaller(MaxLimit, done + MaxNumStreams)
  /\ maxStreamsFrames \subseteq 0..granted
  /\ maxStream <= granted

LInv == IInv /\ GrantExact

USE StreamLimitsAssumption, OutgoingAssumption

LEMMA GrantRange == GrantExact => granted \in Nat /\ granted <= MaxLimit
  BY DEF GrantExact, Acceptor!Smaller

LEMMA InitLInv == LimitsInit => LInv
<1> SUFFICES ASSUME LimitsInit PROVE LInv
  OBVIOUS
<1>1. IInv
  BY InitIInv DEF LimitsInit
<1>2. GrantExact
  BY DEF LimitsInit, Init, Acceptor!CreditInit, GrantExact, Acceptor!Smaller, InvalidStreamNum
<1> QED
  BY <1>1, <1>2 DEF LInv

\* Every step of the composition is a step of the opener's map or leaves it alone.
LEMMA OpenerRefined == LInv /\ [LimitsNext]_limitVars => [Next]_vars
<1> SUFFICES ASSUME LInv, [LimitsNext]_limitVars PROVE [Next]_vars
  OBVIOUS
<1>1. CASE OpenerStep
  BY <1>1 DEF OpenerStep, WaiterStep, Next
<1>2. ASSUME NEW num \in maxStreamsFrames, ReceiveMaxStreams(num) PROVE Next
  <2>1. num \in 0..MaxLimit
    BY GrantRange DEF LInv, GrantExact
  <2> QED
    BY <1>2, <2>1 DEF ReceiveMaxStreams, Next
<1>3. ASSUME NEW num \in 1..(nextStream - 1), ReceiveStream(num) PROVE UNCHANGED vars
  BY <1>3 DEF ReceiveStream
<1>4. CASE FinishStream
  BY <1>4 DEF FinishStream
<1>5. CASE UNCHANGED limitVars
  BY <1>5 DEF limitVars
<1> QED
  BY <1>1, <1>2, <1>3, <1>4, <1>5 DEF LimitsNext

LEMMA GrantStep == LInv /\ [LimitsNext]_limitVars => GrantExact'
<1> SUFFICES ASSUME LInv, [LimitsNext]_limitVars PROVE GrantExact'
  OBVIOUS
<1> USE DEF LInv, GrantExact, acceptorVars
<1>0. granted \in Nat /\ maxStream \in Int
  BY GrantRange DEF IInv, TypeOK
<1>1. CASE OpenerStep
  <2>1. UNCHANGED maxStream
    BY Zenon, <1>1 DEF OpenerStep, OpenStream, OpenStreamSync, WaiterStep, SelectWaitChan, ReturnCancelled,
                ReturnClosed, KeepWaiting, OpenWaiting, SelectCtxDone, DeleteStream, CloseWithError
  <2> QED
    BY <1>1, <2>1 DEF OpenerStep
<1>2. ASSUME NEW num \in maxStreamsFrames, ReceiveMaxStreams(num) PROVE GrantExact'
  BY <1>0, <1>2 DEF ReceiveMaxStreams, SetMaxStream
<1>3. ASSUME NEW num \in 1..(nextStream - 1), ReceiveStream(num) PROVE GrantExact'
  BY <1>0, <1>3 DEF ReceiveStream, Acceptor!Open, vars, IInv, TypeOK
<1>4. CASE FinishStream
  <2>1. done' = done + 1 /\ opened' = opened /\ maxStream' = maxStream
    BY <1>4 DEF FinishStream, Acceptor!Finish, vars
  <2>2. granted' = Acceptor!Smaller(MaxLimit, done' + MaxNumStreams)
    BY <1>4 DEF FinishStream, Acceptor!Finish
  <2>3. granted' \in Nat /\ granted <= granted'
    BY <2>1, <2>2 DEF Acceptor!Smaller
  <2>4. maxStreamsFrames' = maxStreamsFrames \cup {granted'}
    BY <1>4 DEF FinishStream
  <2>5. maxStreamsFrames' \subseteq 0..granted' /\ maxStream' <= granted'
    BY <1>0, <2>1, <2>3, <2>4
  <2> QED
    BY <2>1, <2>2, <2>5
<1>5. CASE UNCHANGED limitVars
  BY <1>5 DEF limitVars, vars
<1> QED
  BY <1>1, <1>2, <1>3, <1>4, <1>5 DEF LimitsNext

LEMMA LimitsInvariance == LimitsSpec => []LInv
<1>1. LInv /\ [LimitsNext]_limitVars => LInv'
  BY OpenerRefined, GrantStep, NextIInv DEF LInv
<1> QED
  BY InitLInv, <1>1, PTL DEF LimitsSpec

\* For any number of callers and any limits, in whatever order MAX_STREAMS frames come
\* and however often: the acceptor never sees a stream beyond what it granted, and
\* was told if its limit keeps callers waiting (GetOrOpenStream, SetMaxStream).
THEOREM LimitsNeverDisagree == LimitsSpec => []LimitsAgree
<1>1. LInv => TypeOK /\ NeverRejected
  BY GrantRange DEF LInv, IInv, TypeOK, WithinLimit, ReportedLimit, InvalidStreamNum, GrantExact, NeverRejected
<1>2. LInv => BlockedIsReported
  BY ReportedByInvariant DEF LInv
<1> QED
  BY LimitsInvariance, <1>1, <1>2, PTL DEF LimitsAgree

================================================================================
