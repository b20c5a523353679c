------------------------------ MODULE HTTP3Proofs ------------------------------
(* The client's pool and the server that stops, proved for any finite number of *)
(* requests and connections.  The state of a part is one record: for every action, *)
(* which of its fields change and how is shown first, then what follows for the *)
(* part's invariant.  The pool counts the requests that use an entry, the server *)
(* the connections it serves.                                                   *)
EXTENDS H3Pool, H3Server, FiniteSetTheorems, TLAPS

-----------------------------------------------------------------------------
(* The client's pool (H3Pool): an entry counts at least the requests that  *)
(* use it.                                                                 *)

PoolFields == {"entry", "made", "locked", "idleCalls", "closer", "dial", "complete", "conn", "use", "pc", "on", "reused", "held", "cancelled"}

PoolShape(t) ==
    /\ DOMAIN t = PoolFields
    /\ t.made \in 0..MaxEntries /\ t.entry \in 0..t.made
    /\ DOMAIN t.conn = Entries /\ DOMAIN t.dial = Entries /\ DOMAIN t.complete = Entries
    /\ t.use \in [Entries -> Int]
    /\ DOMAIN t.pc = Requests /\ t.on \in [Requests -> 0..MaxEntries]
    /\ DOMAIN t.reused = Requests /\ DOMAIN t.cancelled = Requests /\ t.held \in [Requests -> SUBSET Entries]

PoolKept(u, t, S) == \A f \in PoolFields \ S : u[f] = t[f]

\* The requests whose use of e is counted and will be given back, or that wait for its dial.
Holders(t, e) == {r \in Requests : e \in t.held[r] \/ (t.pc[r] = "dialing" /\ t.on[r] = e)}

\* An entry that a request holds is not the one it is given next.
Fresh(t) ==
    \A r \in Requests :
        /\ t.held[r] \subseteq 1..t.made
        /\ t.pc[r] = "new" => t.entry \notin t.held[r]
        /\ t.pc[r] = "dialing" => t.on[r] \in (1..t.made) \ t.held[r]
        /\ t.pc[r] = "trip" => t.on[r] \in t.held[r]

Counted(t) == \A e \in Entries : t.use[e] >= Cardinality(Holders(t, e))

\* What was closed as idle has left the pool, and nobody uses it.
IdleGone(t) == \A e \in Entries : t.conn[e] = "idleClosed" => e <= t.made /\ e # t.entry /\ Holders(t, e) = {}

PoolInv(t) == PoolShape(t) /\ Fresh(t) /\ Counted(t) /\ IdleGone(t)

PoolConstants == IsFiniteSet(Requests) /\ MaxEntries \in Nat

LEMMA HoldersFinite ==
  ASSUME PoolConstants, NEW t, NEW e
  PROVE  IsFiniteSet(Holders(t, e)) /\ Cardinality(Holders(t, e)) \in Nat
<1>1. Holders(t, e) \subseteq Requests
  BY DEF Holders
<1> QED
  BY <1>1, FS_Subset, FS_CardinalityType DEF PoolConstants

LEMMA PoolInitInv == PoolConstants /\ PoolInit => PoolInv(p)
<1> SUFFICES ASSUME PoolConstants, PoolInit PROVE PoolInv(p)
  OBVIOUS
<1>1. PoolShape(p) /\ Fresh(p)
  BY DEF PoolInit, PoolShape, PoolFields, Fresh, Entries, PoolConstants
<1>2. \A e : Holders(p, e) = {}
  BY DEF PoolInit, Holders
<1>3. Counted(p)
  <2>1. \A e \in Entries : p.use[e] = 0 /\ Cardinality(Holders(p, e)) = 0
    BY Zenon, <1>2, FS_EmptySet DEF PoolInit
  <2> QED
    BY <2>1 DEF Counted
<1>4. IdleGone(p)
  BY DEF PoolInit, IdleGone
<1> QED
  BY <1>1, <1>3, <1>4 DEF PoolInv

\* Steps in which no request begins to use an entry and no count goes down.
LEMMA HoldersShrink ==
  ASSUME PoolConstants, NEW u, NEW t, PoolShape(t), Counted(t), IdleGone(t), PoolShape(u),
         \A e \in Entries : Holders(u, e) \subseteq Holders(t, e), u.use = t.use,
         \A e \in Entries : u.conn[e] = "idleClosed" => t.conn[e] = "idleClosed",
         u.made = t.made, u.entry \in {0, t.entry}
  PROVE  Counted(u) /\ IdleGone(u)
<1>1. Counted(u)
  <2> SUFFICES ASSUME NEW e \in Entries PROVE u.use[e] >= Cardinality(Holders(u, e))
    BY DEF Counted
  <2>1. Cardinality(Holders(u, e)) <= Cardinality(Holders(t, e))
    BY FS_Subset, HoldersFinite
  <2>2. t.use[e] >= Cardinality(Holders(t, e)) /\ u.use[e] = t.use[e] /\ t.use[e] \in Int
    BY DEF Counted, PoolShape
  <2> QED
    BY <2>1, <2>2, HoldersFinite
<1>2. IdleGone(u)
  BY DEF IdleGone, Entries
<1> QED
  BY <1>1, <1>2

\* roundTripOpt returns: request r gives back what it held.
LEMMA GivesBack ==
  ASSUME PoolConstants, NEW u, NEW t, NEW r \in Requests, PoolInv(t), PoolShape(u),
         u.pc[r] \notin {"new", "dialing", "trip"}, u.held[r] = {},
         \A o \in Requests \ {r} : u.pc[o] = t.pc[o] /\ u.on[o] = t.on[o] /\ u.held[o] = t.held[o],
         \A e \in Entries : u.use[e] = IF e \in t.held[r] THEN t.use[e] - 1 ELSE t.use[e],
         u.conn = t.conn, u.made = t.made, u.entry \in {0, t.entry}
  PROVE  PoolInv(u)
<1>1. Fresh(u)
  <2> SUFFICES ASSUME NEW o \in Requests
               PROVE  /\ u.held[o] \subseteq 1..u.made
                      /\ u.pc[o] = "new" => u.entry \notin u.held[o]
                      /\ u.pc[o] = "dialing" => u.on[o] \in (1..u.made) \ u.held[o]
                      /\ u.pc[o] = "trip" => u.on[o] \in u.held[o]
    BY DEF Fresh
  <2>1. CASE o = r
    BY <2>1
  <2>2. CASE o # r
    <3>1. t.held[o] \subseteq 1..t.made /\ (t.pc[o] = "new" => t.entry \notin t.held[o])
          /\ (t.pc[o] = "dialing" => t.on[o] \in (1..t.made) \ t.held[o]) /\ (t.pc[o] = "trip" => t.on[o] \in t.held[o])
      BY DEF PoolInv, Fresh
    <3>2. 0 \notin t.held[o]
      BY <3>1
    <3> QED
      BY <2>2, <3>1, <3>2
  <2> QED
    BY <2>1, <2>2
<1>2. \A e \in Entries : Holders(u, e) = Holders(t, e) \ {r}
  BY DEF Holders
<1>3. Counted(u)
  <2> SUFFICES ASSUME NEW e \in Entries PROVE u.use[e] >= Cardinality(Holders(u, e))
    BY DEF Counted
  <2>1. t.use[e] >= Cardinality(Holders(t, e)) /\ t.use[e] \in Int
    BY DEF PoolInv, Counted, PoolShape
  <2>2. e \in t.held[r] => Cardinality(Holders(u, e)) = Cardinality(Holders(t, e)) - 1
    <3>1. e \in t.held[r] => r \in Holders(t, e)
      BY DEF Holders
    <3> QED
      BY <1>2, <3>1, HoldersFinite, FS_RemoveElement
  <2>3. Cardinality(Holders(u, e)) <= Cardinality(Holders(t, e))
    BY <1>2, HoldersFinite, FS_Subset
  <2> QED
    BY <2>1, <2>2, <2>3, HoldersFinite
<1>4. IdleGone(u)
  BY <1>2 DEF PoolInv, IdleGone, Entries
<1> QED
  BY <1>1, <1>3, <1>4 DEF PoolInv

\* getClient hands the entry of the pool, which is new or was there, to request r.
LEMMA TakesEntry ==
  ASSUME PoolConstants, NEW u, NEW t, NEW r \in Requests, PoolInv(t), PoolShape(u),
         t.pc[r] = "new", u.pc[r] = "dialing", u.on[r] = u.entry, u.held = t.held, u.entry # 0,
         \A o \in Requests \ {r} : u.pc[o] = t.pc[o] /\ u.on[o] = t.on[o],
         \A e \in Entries : u.use[e] = IF e = u.entry THEN t.use[e] + 1 ELSE t.use[e],
         u.conn = t.conn,
         \/ u.made = t.made /\ u.entry = t.entry
         \/ u.made = t.made + 1 /\ u.entry = u.made
  PROVE  PoolInv(u)
<1>0. u.entry \in Entries /\ u.made \in Nat /\ t.made \in Nat /\ t.made <= u.made
  BY DEF PoolInv, PoolShape, Entries, PoolConstants
<1>1. Fresh(u)
  <2> SUFFICES ASSUME NEW o \in Requests
               PROVE  /\ u.held[o] \subseteq 1..u.made
                      /\ u.pc[o] = "new" => u.entry \notin u.held[o]
                      /\ u.pc[o] = "dialing" => u.on[o] \in (1..u.made) \ u.held[o]
                      /\ u.pc[o] = "trip" => u.on[o] \in u.held[o]
    BY DEF Fresh
  <2>1. t.held[o] \subseteq 1..t.made /\ (t.pc[o] = "new" => t.entry \notin t.held[o])
        /\ (t.pc[o] = "dialing" => t.on[o] \in (1..t.made) \ t.held[o]) /\ (t.pc[o] = "trip" => t.on[o] \in t.held[o])
    BY DEF PoolInv, Fresh
  <2>2. u.held[o] \subseteq 1..u.made
    BY <2>1, <1>0
  <2>3. t.pc[o] = "new" => u.entry \notin t.held[o]
    BY <2>1, <1>0
  <2>4. u.entry \in 1..u.made
    BY <1>0 DEF PoolShape, Entries
  <2>5. CASE o = r
    BY <2>2, <2>3, <2>4, <2>5
  <2>6. CASE o # r
    BY <2>1, <2>2, <2>3, <2>6, <1>0
  <2> QED
    BY <2>5, <2>6
<1>2. \A e \in Entries : Holders(u, e) = IF e = u.entry THEN Holders(t, e) \cup {r} ELSE Holders(t, e)
  BY DEF Holders
<1>3. Counted(u)
  <2> SUFFICES ASSUME NEW e \in Entries PROVE u.use[e] >= Cardinality(Holders(u, e))
    BY DEF Counted
  <2>1. t.use[e] >= Cardinality(Holders(t, e)) /\ t.use[e] \in Int
    BY DEF PoolInv, Counted, PoolShape
  <2>2. Cardinality(Holders(u, e)) \in Nat /\ Cardinality(Holders(t, e)) \in Nat
    BY HoldersFinite
  <2>3. CASE e = u.entry
    <3>1. Holders(u, e) = Holders(t, e) \cup {r}
      BY <1>2, <2>3
    <3>2. Cardinality(Holders(u, e)) = IF r \in Holders(t, e) THEN Cardinality(Holders(t, e)) ELSE Cardinality(Holders(t, e)) + 1
      BY ZenonT(30), <3>1, HoldersFinite, FS_AddElement
    <3>3. u.use[e] = t.use[e] + 1
      BY <2>3
    <3> QED
      BY <2>1, <2>2, <3>2, <3>3
  <2>4. CASE e # u.entry
    BY <1>2, <2>1, <2>4
  <2> QED
    BY <2>3, <2>4
<1>4. IdleGone(u)
  <2> SUFFICES ASSUME NEW e \in Entries, u.conn[e] = "idleClosed" PROVE e <= u.made /\ e # u.entry /\ Holders(u, e) = {}
    BY DEF IdleGone
  <2>1. e <= t.made /\ e # t.entry /\ Holders(t, e) = {} /\ e \in Nat
    BY DEF PoolInv, IdleGone, Entries
  <2> QED
    BY <2>1, <1>0, <1>2
<1> QED
  BY <1>1, <1>3, <1>4 DEF PoolInv

LEMMA ReturnedFields ==
  ASSUME PoolConstants, NEW t, PoolShape(t), NEW r \in Requests, NEW how
  PROVE  LET u == Returned(t, r, how)
         IN  /\ PoolShape(u) /\ PoolKept(u, t, {"pc", "held", "on", "reused", "use"})
             /\ u.pc = [t.pc EXCEPT ![r] = how] /\ u.held = [t.held EXCEPT ![r] = {}] /\ u.on = [t.on EXCEPT ![r] = 0]
             /\ \A e \in Entries : u.use[e] = IF e \in t.held[r] THEN t.use[e] - 1 ELSE t.use[e]
<1> DEFINE u == Returned(t, r, how)
<1>1. DOMAIN u = PoolFields /\ PoolKept(u, t, {"pc", "held", "on", "reused", "use"})
  BY Zenon DEF Returned, PoolShape, PoolKept, PoolFields
<1>2. /\ u.pc = [t.pc EXCEPT ![r] = how] /\ u.held = [t.held EXCEPT ![r] = {}] /\ u.on = [t.on EXCEPT ![r] = 0]
      /\ u.reused = [t.reused EXCEPT ![r] = FALSE]
      /\ u.use = [e \in Entries |-> IF e \in t.held[r] THEN t.use[e] - 1 ELSE t.use[e]]
  BY DEF Returned, PoolShape, PoolFields
<1> HIDE DEF u
<1>3. u.use \in [Entries -> Int]
  BY <1>2 DEF PoolShape
<1>4. u.on \in [Requests -> 0..MaxEntries] /\ u.held \in [Requests -> SUBSET Entries]
  <2>1. 0 \in 0..MaxEntries
    BY DEF PoolConstants
  <2> QED
    BY <1>2, <2>1 DEF PoolShape
<1>5. DOMAIN u.pc = Requests /\ DOMAIN u.reused = Requests
  BY <1>2 DEF PoolShape
<1>6. PoolShape(u)
  BY <1>1, <1>3, <1>4, <1>5 DEF PoolShape, PoolKept, PoolFields
<1> QED
  BY <1>1, <1>2, <1>6 DEF u

\* The ways in which roundTripOpt returns.
LEMMA ReturnedInv ==
  ASSUME PoolConstants, PoolInv(p), NEW r \in Requests, NEW how \in {"failed", "body"},
         \/ p' = Returned(p, r, how)
         \/ p' = [Returned(p, r, how) EXCEPT !.on[r] = p.on[r]]
         \/ p' = [Returned(p, r, how) EXCEPT !.entry = 0]
  PROVE  PoolInv(p)'
<1> DEFINE v == Returned(p, r, how)
<1>1. /\ PoolShape(v) /\ PoolKept(v, p, {"pc", "held", "on", "reused", "use"})
      /\ v.pc = [p.pc EXCEPT ![r] = how] /\ v.held = [p.held EXCEPT ![r] = {}] /\ v.on = [p.on EXCEPT ![r] = 0]
      /\ \A e \in Entries : v.use[e] = IF e \in p.held[r] THEN p.use[e] - 1 ELSE p.use[e]
  BY ReturnedFields DEF PoolInv
<1>2. p' = v \/ p' = [v EXCEPT !.on[r] = p.on[r]] \/ p' = [v EXCEPT !.entry = 0]
  OBVIOUS
<1> HIDE DEF v
<1>3. PoolKept(p', v, {"on", "entry"}) /\ DOMAIN p' = PoolFields
  BY <1>1, <1>2 DEF PoolShape, PoolKept, PoolFields
<1>4. p'.entry \in {0, v.entry} /\ (p'.on = v.on \/ p'.on = [v.on EXCEPT ![r] = p.on[r]])
  BY <1>1, <1>2 DEF PoolShape, PoolFields
<1>5. p'.on \in [Requests -> 0..MaxEntries]
  BY <1>1, <1>4 DEF PoolShape, PoolInv
<1>6. v.entry = p.entry /\ v.made = p.made /\ v.conn = p.conn
  BY <1>1 DEF PoolKept, PoolFields
<1>7. p'.pc = v.pc /\ p'.held = v.held /\ p'.use = v.use /\ p'.conn = v.conn /\ p'.made = v.made
  BY <1>3 DEF PoolKept, PoolFields
<1>8. PoolShape(p')
  <2>1. p'.entry \in 0..p'.made
    BY <1>1, <1>4, <1>7 DEF PoolShape
  <2> QED
    BY <1>1, <1>3, <1>5, <2>1 DEF PoolShape, PoolKept, PoolFields
<1>9. p'.pc[r] = how /\ p'.held[r] = {}
  BY <1>1, <1>7 DEF PoolInv, PoolShape
<1>10. \A o \in Requests \ {r} : p'.pc[o] = p.pc[o] /\ p'.on[o] = p.on[o] /\ p'.held[o] = p.held[o]
  BY <1>1, <1>4, <1>7 DEF PoolInv, PoolShape
<1>11. \A e \in Entries : p'.use[e] = IF e \in p.held[r] THEN p.use[e] - 1 ELSE p.use[e]
  BY <1>1, <1>7
<1>12. p'.pc[r] \notin {"new", "dialing", "trip"} /\ p'.conn = p.conn /\ p'.made = p.made /\ p'.entry \in {0, p.entry}
  BY <1>4, <1>6, <1>7, <1>9
<1> QED
  BY <1>8, <1>9, <1>10, <1>11, <1>12, GivesBack

LEMMA UseInv ==
  ASSUME PoolConstants, PoolInv(p), NEW r \in Requests, p.pc[r] = "new",
         \/ p.entry # 0 /\ p' = Use(p, r)
         \/ p.entry = 0 /\ p.made < MaxEntries /\ p' = Use(NewEntry(p), r)
  PROVE  PoolInv(p)'
<1> DEFINE v == IF p.entry = 0 THEN NewEntry(p) ELSE p
<1>1. PoolShape(v) /\ PoolKept(v, p, {"made", "entry", "dial"}) /\ v.entry \in Entries
      /\ ((v.made = p.made /\ v.entry = p.entry) \/ (v.made = p.made + 1 /\ v.entry = v.made))
  <2>1. CASE p.entry = 0
    <3>1. PoolKept(v, p, {"made", "entry", "dial"}) /\ v.made = p.made + 1 /\ v.entry = p.made + 1 /\ DOMAIN v = PoolFields /\ DOMAIN v.dial = Entries
      BY Zenon, <2>1 DEF NewEntry, PoolInv, PoolShape, PoolKept, PoolFields
    <3>2. v.made \in 0..MaxEntries /\ v.entry \in 0..v.made /\ v.entry \in Entries
      BY SMTT(30), <2>1, <3>1 DEF PoolInv, PoolShape, Entries, PoolConstants
    <3> QED
      BY SMTT(30), <3>1, <3>2 DEF PoolInv, PoolShape, PoolKept, PoolFields
  <2>2. CASE p.entry # 0
    <3>1. p.entry \in Entries
      BY <2>2 DEF PoolInv, PoolShape, Entries, PoolConstants
    <3>2. v = p
      BY <2>2
    <3> HIDE DEF v
    <3> QED
      BY <3>1, <3>2 DEF PoolInv, PoolKept
  <2> QED
    BY <2>1, <2>2
<1>2. p' = Use(v, r)
  OBVIOUS
<1> HIDE DEF v
<1>3. DOMAIN p' = PoolFields /\ PoolKept(p', v, {"pc", "on", "use", "reused"})
  BY Zenon, <1>1, <1>2 DEF Use, PoolShape, PoolKept, PoolFields
<1>4. p'.pc = [v.pc EXCEPT ![r] = "dialing"] /\ p'.on = [v.on EXCEPT ![r] = v.entry] /\ p'.use = [v.use EXCEPT ![v.entry] = @ + 1]
      /\ DOMAIN p'.reused = Requests
  BY <1>1, <1>2 DEF Use, PoolShape, PoolFields
<1>5. v.pc = p.pc /\ v.on = p.on /\ v.use = p.use /\ v.held = p.held /\ v.conn = p.conn
  BY <1>1 DEF PoolKept, PoolFields
<1>6. p'.entry = v.entry /\ p'.made = v.made /\ p'.held = v.held /\ p'.conn = v.conn
  BY <1>3 DEF PoolKept, PoolFields
<1>7. p'.use \in [Entries -> Int] /\ \A e \in Entries : p'.use[e] = IF e = v.entry THEN p.use[e] + 1 ELSE p.use[e]
  BY <1>1, <1>4, <1>5 DEF PoolShape
<1>8. p'.on \in [Requests -> 0..MaxEntries] /\ DOMAIN p'.pc = Requests
  <2>1. v.entry \in 0..MaxEntries
    BY <1>1 DEF Entries, PoolConstants
  <2> QED
    BY <1>1, <1>4, <2>1 DEF PoolShape
<1>9. PoolShape(p')
  BY <1>1, <1>3, <1>4, <1>7, <1>8 DEF PoolShape, PoolKept, PoolFields
<1>10. p'.pc[r] = "dialing" /\ p'.on[r] = v.entry
  BY <1>1, <1>4 DEF PoolShape
<1>11. \A o \in Requests \ {r} : p'.pc[o] = p.pc[o] /\ p'.on[o] = p.on[o]
  BY <1>1, <1>4, <1>5 DEF PoolShape
<1>12. v.entry # 0
  BY <1>1 DEF Entries
<1> QED
  BY <1>1, <1>5, <1>6, <1>7, <1>9, <1>10, <1>11, <1>12, TakesEntry

\* A request r goes on, keeping what it holds.
LEMMA RequestMoves ==
  ASSUME PoolConstants, PoolInv(p), NEW r \in Requests, PoolShape(p'),
         p'.use = p.use, p'.conn = p.conn, p'.made = p.made, p'.entry \in {0, p.entry},
         \A o \in Requests \ {r} : p'.pc[o] = p.pc[o] /\ p'.on[o] = p.on[o] /\ p'.held[o] = p.held[o],
         \/ /\ p.pc[r] = "dialing" /\ p'.pc[r] = "trip" /\ p'.on[r] = p.on[r] /\ p'.held[r] = p.held[r] \cup {p.on[r]}
         \/ /\ p'.pc[r] = "new" /\ p'.held[r] = p.held[r] /\ p'.entry = 0
         \/ /\ p'.pc[r] \notin {"new", "dialing", "trip"} /\ p'.held[r] = p.held[r]
  PROVE  PoolInv(p)'
<1>1. Fresh(p')
  <2> SUFFICES ASSUME NEW o \in Requests
               PROVE  /\ p'.held[o] \subseteq 1..p'.made
                      /\ p'.pc[o] = "new" => p'.entry \notin p'.held[o]
                      /\ p'.pc[o] = "dialing" => p'.on[o] \in (1..p'.made) \ p'.held[o]
                      /\ p'.pc[o] = "trip" => p'.on[o] \in p'.held[o]
    BY DEF Fresh
  <2>1. p.held[o] \subseteq 1..p.made /\ (p.pc[o] = "new" => p.entry \notin p.held[o])
        /\ (p.pc[o] = "dialing" => p.on[o] \in (1..p.made) \ p.held[o]) /\ (p.pc[o] = "trip" => p.on[o] \in p.held[o])
    BY DEF PoolInv, Fresh
  <2>2. 0 \notin p.held[o]
    BY <2>1
  <2>3. CASE o = r
    BY <2>1, <2>2, <2>3
  <2>4. CASE o # r
    BY <2>1, <2>2, <2>4
  <2> QED
    BY <2>3, <2>4
<1>2. \A e \in Entries : Holders(p', e) \subseteq Holders(p, e)
  BY DEF Holders
<1>3. Counted(p') /\ IdleGone(p')
  BY <1>2, HoldersShrink DEF PoolInv
<1> QED
  BY <1>1, <1>3 DEF PoolInv

\* Steps of the environment and of Close: requests stay where they are.
LEMMA RequestsStay ==
  ASSUME PoolConstants, PoolInv(p), PoolShape(p'),
         p'.use = p.use, p'.made = p.made, p'.entry \in {0, p.entry}, p'.pc = p.pc, p'.on = p.on, p'.held = p.held,
         \A e \in Entries : p'.conn[e] = "idleClosed" => p.conn[e] = "idleClosed"
  PROVE  PoolInv(p)'
<1>1. Fresh(p')
  <2>1. \A o \in Requests : 0 \notin p.held[o]
    BY DEF PoolInv, Fresh
  <2> QED
    BY <2>1 DEF PoolInv, Fresh
<1>2. \A e \in Entries : Holders(p', e) \subseteq Holders(p, e)
  BY DEF Holders
<1>3. Counted(p') /\ IdleGone(p')
  BY <1>2, HoldersShrink DEF PoolInv
<1> QED
  BY <1>1, <1>3 DEF PoolInv

LEMMA DialAwaitedInv ==
  ASSUME PoolConstants, PoolInv(p), NEW r \in Requests, DialAwaited(r)
  PROVE  PoolInv(p)'
<1>1. CASE p' = Returned(p, r, "failed")
  BY <1>1, ReturnedInv
<1>2. CASE p' = [p EXCEPT !.pc[r] = "removeFailed"]
  <2>1. DOMAIN p' = PoolFields /\ PoolKept(p', p, {"pc"}) /\ p'.pc = [p.pc EXCEPT ![r] = "removeFailed"]
    BY <1>2 DEF PoolInv, PoolShape, PoolKept, PoolFields
  <2>2. PoolShape(p')
    BY <2>1 DEF PoolInv, PoolShape, PoolKept, PoolFields
  <2>3. p'.use = p.use /\ p'.conn = p.conn /\ p'.made = p.made /\ p'.entry = p.entry /\ p'.on = p.on /\ p'.held = p.held
    BY <2>1 DEF PoolKept, PoolFields
  <2>4. p'.pc[r] = "removeFailed" /\ \A o \in Requests \ {r} : p'.pc[o] = p.pc[o]
    BY <2>1 DEF PoolInv, PoolShape
  <2> QED
    BY <2>2, <2>3, <2>4, RequestMoves
<1>3. CASE p' = [p EXCEPT !.pc[r] = "trip", !.held[r] = @ \cup {p.on[r]}] /\ p.pc[r] = "dialing"
  <2>1. /\ DOMAIN p' = PoolFields /\ PoolKept(p', p, {"pc", "held"}) /\ p'.pc = [p.pc EXCEPT ![r] = "trip"]
        /\ p'.held = [p.held EXCEPT ![r] = @ \cup {p.on[r]}]
    BY Zenon, <1>3 DEF PoolInv, PoolShape, PoolKept, PoolFields
  <2>2. p.on[r] \in Entries
    BY <1>3 DEF PoolInv, Fresh, PoolShape, Entries
  <2>3. p'.held \in [Requests -> SUBSET Entries] /\ DOMAIN p'.pc = Requests
    BY <2>1, <2>2 DEF PoolInv, PoolShape
  <2>4. PoolShape(p')
    BY <2>1, <2>3 DEF PoolInv, PoolShape, PoolKept, PoolFields
  <2>5. p'.use = p.use /\ p'.conn = p.conn /\ p'.made = p.made /\ p'.entry = p.entry /\ p'.on = p.on
    BY <2>1 DEF PoolKept, PoolFields
  <2>6. p'.pc[r] = "trip" /\ p'.held[r] = p.held[r] \cup {p.on[r]} /\ \A o \in Requests \ {r} : p'.pc[o] = p.pc[o] /\ p'.held[o] = p.held[o]
    BY <2>1 DEF PoolInv, PoolShape
  <2> QED
    BY <1>3, <2>4, <2>5, <2>6, RequestMoves
<1> QED
  BY <1>1, <1>2, <1>3 DEF DialAwaited

LEMMA TripReturnsInv ==
  ASSUME PoolConstants, PoolInv(p), NEW r \in Requests, TripReturns(r)
  PROVE  PoolInv(p)'
<1>1. CASE p' = [Returned(p, r, "body") EXCEPT !.on[r] = p.on[r]]
  BY Zenon, <1>1, ReturnedInv
<1>2. CASE p' = Returned(p, r, "failed")
  BY <1>2, ReturnedInv
<1>3. CASE \E to \in {"removeRetry", "removeFailed"} : p' = [p EXCEPT !.pc[r] = to]
  <2> PICK to \in {"removeRetry", "removeFailed"} : p' = [p EXCEPT !.pc[r] = to]
    BY <1>3
  <2>1. DOMAIN p' = PoolFields /\ PoolKept(p', p, {"pc"}) /\ p'.pc = [p.pc EXCEPT ![r] = to]
    BY DEF PoolInv, PoolShape, PoolKept, PoolFields
  <2>2. PoolShape(p')
    BY <2>1 DEF PoolInv, PoolShape, PoolKept, PoolFields
  <2>3. p'.use = p.use /\ p'.conn = p.conn /\ p'.made = p.made /\ p'.entry = p.entry /\ p'.on = p.on /\ p'.held = p.held
    BY <2>1 DEF PoolKept, PoolFields
  <2>4. p'.pc[r] = to /\ \A o \in Requests \ {r} : p'.pc[o] = p.pc[o]
    BY <2>1 DEF PoolInv, PoolShape
  <2> QED
    BY <2>2, <2>3, <2>4, RequestMoves
<1> QED
  BY <1>1, <1>2, <1>3 DEF TripReturns

LEMMA RemoveClientInv ==
  ASSUME PoolConstants, PoolInv(p), NEW r \in Requests, RemoveClient(r) \/ BodyClosed(r)
  PROVE  PoolInv(p)'
<1>1. CASE p' = [Returned(p, r, "failed") EXCEPT !.entry = 0]
  BY Zenon, <1>1, ReturnedInv
<1>2. CASE \/ p' = [p EXCEPT !.pc[r] = "new", !.reused[r] = FALSE, !.on[r] = 0, !.entry = 0]
           \/ p' = [p EXCEPT !.pc[r] = "done", !.on[r] = 0]
  <2>1. /\ DOMAIN p' = PoolFields /\ PoolKept(p', p, {"pc", "on", "reused", "entry"}) /\ p'.on = [p.on EXCEPT ![r] = 0]
        /\ DOMAIN p'.reused = Requests
    BY ZenonT(30), <1>2 DEF PoolInv, PoolShape, PoolKept, PoolFields
  <2>2. \/ p'.pc = [p.pc EXCEPT ![r] = "new"] /\ p'.entry = 0
        \/ p'.pc = [p.pc EXCEPT ![r] = "done"] /\ p'.entry = p.entry
    BY Zenon, <1>2 DEF PoolInv, PoolShape, PoolFields
  <2>3. p'.on \in [Requests -> 0..MaxEntries] /\ DOMAIN p'.pc = Requests
    <3>1. 0 \in 0..MaxEntries
      BY DEF PoolConstants
    <3> QED
      BY SMTT(30), <2>1, <2>2, <3>1 DEF PoolInv, PoolShape
  <2>4. p'.use = p.use /\ p'.conn = p.conn /\ p'.made = p.made /\ p'.held = p.held /\ p'.entry \in {0, p.entry}
    BY <2>1, <2>2 DEF PoolKept, PoolFields
  <2>5. p'.entry \in 0..p'.made
    BY <2>4 DEF PoolInv, PoolShape, PoolConstants
  <2>6. PoolShape(p')
    BY <2>1, <2>3, <2>5 DEF PoolInv, PoolShape, PoolKept, PoolFields
  <2>7. ((p'.pc[r] = "new" /\ p'.entry = 0) \/ p'.pc[r] = "done") /\ \A o \in Requests \ {r} : p'.pc[o] = p.pc[o] /\ p'.on[o] = p.on[o]
    BY <2>1, <2>2 DEF PoolInv, PoolShape
  <2> QED
    BY <2>4, <2>6, <2>7, RequestMoves
<1> QED
  BY <1>1, <1>2 DEF RemoveClient, BodyClosed

LEMMA GetClientInv ==
  ASSUME PoolConstants, PoolInv(p), NEW r \in Requests, GetClient(r)
  PROVE  PoolInv(p)'
  BY ReturnedInv, UseInv DEF GetClient

LEMMA PoolEnvironmentInv ==
  ASSUME PoolConstants, PoolInv(p),
         \/ \E r \in Requests : Cancel(r)
         \/ \E e \in Entries : DialReturns(e) \/ EntryHandshakeCompletes(e) \/ ConnDies(e)
         \/ ClosePool
  PROVE  PoolInv(p)'
<1>1. DOMAIN p' = PoolFields /\ PoolKept(p', p, {"cancelled", "dial", "complete", "conn", "locked", "closer", "entry"})
  BY Zenon DEF Cancel, DialReturns, EntryHandshakeCompletes, ConnDies, ClosePool, PoolInv, PoolShape, PoolKept, PoolFields
<1>2. p'.entry \in {0, p.entry} /\ DOMAIN p'.cancelled = Requests /\ DOMAIN p'.dial = Entries /\ DOMAIN p'.complete = Entries
  BY ZenonT(30) DEF Cancel, DialReturns, EntryHandshakeCompletes, ConnDies, ClosePool, PoolInv, PoolShape, PoolFields
<1>3. DOMAIN p'.conn = Entries /\ \A e \in Entries : p'.conn[e] = "idleClosed" => p.conn[e] = "idleClosed"
  <2>1. \/ p'.conn = p.conn
        \/ \E e \in Entries : p'.conn = [p.conn EXCEPT ![e] = "closed"]
        \/ p'.conn = [e \in Entries |-> IF e = p.entry /\ p.dial[e] = "ok" THEN "closed" ELSE p.conn[e]]
    BY Zenon DEF Cancel, DialReturns, EntryHandshakeCompletes, ConnDies, ClosePool, PoolInv, PoolShape, PoolFields
  <2> QED
    BY Zenon, <2>1 DEF PoolInv, PoolShape
<1>4. p'.use = p.use /\ p'.made = p.made /\ p'.held = p.held /\ p'.pc = p.pc /\ p'.on = p.on
  BY <1>1 DEF PoolKept, PoolFields
<1>5. p'.entry \in 0..p'.made
  BY SMTT(30), <1>2, <1>4 DEF PoolInv, PoolShape, PoolConstants
<1>6. PoolShape(p')
  BY <1>1, <1>2, <1>3, <1>5 DEF PoolInv, PoolShape, PoolKept, PoolFields
<1> QED
  BY <1>2, <1>3, <1>4, <1>6, RequestsStay

LEMMA CloseIdleInv ==
  ASSUME PoolConstants, PoolInv(p), CloseIdleConnections
  PROVE  PoolInv(p)'
<1>1. CASE p' = [p EXCEPT !.idleCalls = @ + 1]
  <2>1. DOMAIN p' = PoolFields /\ PoolKept(p', p, {"idleCalls"})
    BY <1>1 DEF PoolInv, PoolShape, PoolKept, PoolFields
  <2>2. PoolShape(p')
    BY <2>1 DEF PoolInv, PoolShape, PoolKept, PoolFields
  <2>3. p'.use = p.use /\ p'.made = p.made /\ p'.held = p.held /\ p'.pc = p.pc /\ p'.on = p.on /\ p'.entry = p.entry /\ p'.conn = p.conn
    BY <2>1 DEF PoolKept, PoolFields
  <2> QED
    BY <2>2, <2>3, RequestsStay
<1>2. CASE /\ p.use[p.entry] = 0 /\ p.entry # 0
           /\ p' = [p EXCEPT !.idleCalls = @ + 1, !.conn[p.entry] = "idleClosed", !.entry = 0]
  <2>0. p.entry \in Entries /\ p.entry <= p.made /\ p.made \in Nat
    BY <1>2 DEF PoolInv, PoolShape, Entries, PoolConstants
  <2>1. /\ DOMAIN p' = PoolFields /\ PoolKept(p', p, {"idleCalls", "conn", "entry"}) /\ p'.entry = 0
        /\ p'.conn = [p.conn EXCEPT ![p.entry] = "idleClosed"]
    BY Zenon, <1>2 DEF PoolInv, PoolShape, PoolKept, PoolFields
  <2>2. p'.use = p.use /\ p'.made = p.made /\ p'.held = p.held /\ p'.pc = p.pc /\ p'.on = p.on
    BY <2>1 DEF PoolKept, PoolFields
  <2>3. PoolShape(p')
    <3>1. DOMAIN p'.conn = Entries /\ p'.entry \in 0..p'.made
      BY <2>0, <2>1, <2>2 DEF PoolInv, PoolShape
    <3> QED
      BY <2>1, <3>1 DEF PoolInv, PoolShape, PoolKept, PoolFields
  <2>4. Fresh(p')
    <3>1. \A o \in Requests : 0 \notin p.held[o]
      BY DEF PoolInv, Fresh
    <3> QED
      BY <2>1, <2>2, <3>1 DEF PoolInv, Fresh
  <2>5. \A e : Holders(p', e) = Holders(p, e)
    BY <2>2 DEF Holders
  <2>6. Counted(p')
    BY <2>2, <2>5 DEF PoolInv, Counted
  <2>7. Holders(p, p.entry) = {}
    <3>1. Cardinality(Holders(p, p.entry)) <= 0
      BY <1>2, <2>0 DEF PoolInv, Counted
    <3>2. Cardinality(Holders(p, p.entry)) = 0
      BY <3>1, HoldersFinite
    <3> QED
      BY <3>2, HoldersFinite, FS_EmptySet
  <2>8. IdleGone(p')
    <3> SUFFICES ASSUME NEW e \in Entries, p'.conn[e] = "idleClosed" PROVE e <= p'.made /\ e # p'.entry /\ Holders(p', e) = {}
      BY DEF IdleGone
    <3>1. e = p.entry \/ p.conn[e] = "idleClosed"
      BY <2>1 DEF PoolInv, PoolShape
    <3>2. e # 0
      BY DEF Entries
    <3> QED
      BY <2>0, <2>1, <2>2, <2>5, <2>7, <3>1, <3>2 DEF PoolInv, IdleGone
  <2> QED
    BY <2>3, <2>4, <2>6, <2>8 DEF PoolInv
<1> QED
  BY <1>1, <1>2 DEF CloseIdleConnections

LEMMA PoolInvSuffices == PoolConstants /\ PoolInv(p) => PoolSound
<1> SUFFICES ASSUME PoolConstants, PoolInv(p), NEW r \in Requests, p.pc[r] \in {"dialing", "trip"}
             PROVE  /\ p.conn[p.on[r]] # "idleClosed" /\ p.use[p.on[r]] > 0
                    /\ p.on[r] \notin (p.held[r] \ (IF p.pc[r] = "trip" THEN {p.on[r]} ELSE {}))
  BY DEF PoolSound, IdleClosesIdle, RetryIsFresh
<1> DEFINE e == p.on[r]
<1>1. e \in Entries
  BY DEF PoolInv, PoolShape, Fresh, Entries
<1>2. r \in Holders(p, e)
  BY DEF PoolInv, Fresh, Holders
<1>3. Cardinality(Holders(p, e)) # 0
  BY <1>2, HoldersFinite, FS_EmptySet
<1>4. p.use[e] >= Cardinality(Holders(p, e)) /\ p.use[e] \in Int
  BY <1>1 DEF PoolInv, Counted, PoolShape
<1>5. p.use[e] > 0
  BY <1>3, <1>4, HoldersFinite
<1>6. p.conn[e] # "idleClosed"
  BY <1>1, <1>2 DEF PoolInv, IdleGone
<1>7. p.on[r] \notin (p.held[r] \ (IF p.pc[r] = "trip" THEN {p.on[r]} ELSE {}))
  BY DEF PoolInv, Fresh
<1> QED
  BY <1>5, <1>6, <1>7

\* For any finite number of requests, and any number of dials: CloseIdleConnections closes
\* no connection on which a request waits, because its use count is at least the number of
\* such requests, and a request that is retried after its connection failed does not get
\* that connection again (transport.go, getClient, roundTripOpt, removeClient).
THEOREM PoolStaysSound == ASSUME PoolConstants PROVE PoolSpec => []PoolSound
<1>1. PoolInit => PoolInv(p)
  BY PoolInitInv
<1>2. PoolInv(p) /\ [PoolNext]_p => PoolInv(p)'
  <2> SUFFICES ASSUME PoolInv(p), [PoolNext]_p PROVE PoolInv(p)'
    OBVIOUS
  <2>1. CASE UNCHANGED p
    BY <2>1 DEF PoolInv, PoolShape, Fresh, Counted, IdleGone, Holders
  <2>2. CASE PoolNext
    BY <2>2, GetClientInv, DialAwaitedInv, TripReturnsInv, RemoveClientInv, PoolEnvironmentInv, CloseIdleInv DEF PoolNext
  <2> QED
    BY <2>1, <2>2
<1>3. PoolInv(p) => PoolSound
  BY PoolInvSuffices
<1> QED
  BY <1>1, <1>2, <1>3, PTL DEF PoolSpec

-----------------------------------------------------------------------------
(* The server (H3Server): the counter is the number of connections that    *)
(* are served, and whoever waits for them is not left alone.               *)

ServerFields == {"closed", "used", "closing", "grace", "locked", "count", "chan", "closedChans", "panicked", "listener", "listenerClosed",
                 "taken", "pc", "connClosed", "next", "running", "goAway", "caller", "waits"}

ServerShape(t) ==
    /\ DOMAIN t = ServerFields
    /\ DOMAIN t.pc = Conns /\ DOMAIN t.connClosed = Conns /\ DOMAIN t.running = Conns
    /\ t.next \in [Conns -> 0..MaxRequests] /\ t.goAway \in [Conns -> 0..MaxRequests]
    /\ DOMAIN t.caller = Callers

ServerKept(u, t, S) == \A f \in ServerFields \ S : u[f] = t[f]

\* The connections in the counter: a connection that will look at the context has left it.
InCount(t) == {c \in Conns : t.pc[c] \in Serving \ {"check"}}

CountExact(t) ==
    /\ t.count = Cardinality(InCount(t))
    /\ \A c \in t.taken : c \in Listened /\ t.pc[c] = "accepted"

\* Who counts the connections or waits for them has the mutex alone and has cancelled the
\* grace context.
Waits(t) ==
    /\ \A k \in Callers : t.caller[k] \in {"counting", "waiting"} =>
           t.locked /\ t.grace /\ \A j \in Callers \ {k} : t.caller[j] \notin {"counting", "waiting"}
    /\ \A k \in Callers : t.caller[k] = "waiting" => \/ t.panicked \/ t.chan \in t.closedChans
                                                      \/ \E c \in Conns : t.pc[c] \in Serving

GoAwayExact(t) ==
    \A c \in Conns : /\ t.next[c] <= t.goAway[c]
                     /\ t.pc[c] \in {"new", "accepted", "start", "loop"} => t.goAway[c] = MaxRequests

ServerInv(t) == ServerShape(t) /\ CountExact(t) /\ Waits(t) /\ GoAwayExact(t)

ServerConstants == IsFiniteSet(Listened) /\ IsFiniteSet(Direct) /\ Listened \cap Direct = {} /\ MaxRequests \in Nat

LEMMA InCountFinite ==
  ASSUME ServerConstants, NEW t
  PROVE  IsFiniteSet(InCount(t)) /\ Cardinality(InCount(t)) \in Nat
<1>1. IsFiniteSet(Conns)
  BY Zenon, FS_Union DEF ServerConstants, Conns
<1>2. InCount(t) \subseteq Conns
  BY DEF InCount
<1> QED
  BY <1>1, <1>2, FS_Subset, FS_CardinalityType

LEMMA ServerInitInv == ServerConstants /\ ServerInit => ServerInv(s)
<1> SUFFICES ASSUME ServerConstants, ServerInit PROVE ServerInv(s)
  OBVIOUS
<1>1. ServerShape(s)
  BY DEF ServerInit, ServerShape, ServerFields, ServerConstants
<1>2. InCount(s) = {} /\ s.count = 0 /\ s.taken = {}
  BY DEF ServerInit, InCount, Serving
<1>3. CountExact(s)
  BY <1>2, FS_EmptySet DEF CountExact
<1>4. Waits(s)
  BY DEF ServerInit, Waits
<1>5. GoAwayExact(s)
  BY DEF ServerInit, GoAwayExact, ServerConstants
<1> QED
  BY <1>1, <1>3, <1>4, <1>5 DEF ServerInv

\* How the counted connections change when one connection moves.
LEMMA InCountMoves ==
  ASSUME ServerConstants, NEW u, NEW t, NEW c \in Conns, NEW x, DOMAIN t.pc = Conns, u.pc = [t.pc EXCEPT ![c] = x]
  PROVE  /\ (t.pc[c] \in Serving \ {"check"} <=> x \in Serving \ {"check"}) => InCount(u) = InCount(t)
         /\ t.pc[c] \notin Serving \ {"check"} /\ x \in Serving \ {"check"} => Cardinality(InCount(u)) = Cardinality(InCount(t)) + 1
         /\ t.pc[c] \in Serving \ {"check"} /\ x \notin Serving \ {"check"} => Cardinality(InCount(u)) = Cardinality(InCount(t)) - 1
<1>1. (t.pc[c] \in Serving \ {"check"} <=> x \in Serving \ {"check"}) => InCount(u) = InCount(t)
  BY DEF InCount
<1>2. ASSUME t.pc[c] \notin Serving \ {"check"}, x \in Serving \ {"check"}
      PROVE  Cardinality(InCount(u)) = Cardinality(InCount(t)) + 1
  <2>1. InCount(u) = InCount(t) \cup {c} /\ c \notin InCount(t)
    BY <1>2 DEF InCount
  <2> QED
    BY Zenon, <2>1, InCountFinite, FS_AddElement
<1>3. ASSUME t.pc[c] \in Serving \ {"check"}, x \notin Serving \ {"check"}
      PROVE  Cardinality(InCount(u)) = Cardinality(InCount(t)) - 1
  <2>1. InCount(u) = InCount(t) \ {c} /\ c \in InCount(t)
    BY <1>3 DEF InCount
  <2> QED
    BY Zenon, <2>1, InCountFinite, FS_RemoveElement
<1> QED
  BY <1>1, <1>2, <1>3

\* Steps of others leave who waits alone, if a connection stays or the channel is closed.
LEMMA WaitsKept ==
  ASSUME NEW u, NEW t, Waits(t), u.caller = t.caller, u.locked = t.locked, t.grace => u.grace, u.chan = t.chan,
         t.closedChans \subseteq u.closedChans, ~t.panicked,
         t.grace /\ (\E c \in Conns : t.pc[c] \in Serving) => u.chan \in u.closedChans \/ \E c \in Conns : u.pc[c] \in Serving
  PROVE  Waits(u)
  BY DEF Waits

\* A connection c moves from one place to another and is in the counter in both or in neither.
LEMMA ConnMoves ==
  ASSUME ServerConstants, ServerInv(s), ~s.panicked, NEW c \in Conns, NEW x, DOMAIN s' = ServerFields,
         ServerKept(s', s, {"pc", "connClosed", "running", "goAway", "taken"}),
         s'.pc = [s.pc EXCEPT ![c] = x],
         DOMAIN s'.connClosed = Conns, DOMAIN s'.running = Conns, s'.goAway = s.goAway \/ s'.goAway = [s.goAway EXCEPT ![c] = s.next[c]],
         s.pc[c] \in Serving \ {"check"} <=> x \in Serving \ {"check"}, s.pc[c] # "check",
         \/ s'.taken = s.taken /\ s.pc[c] # "accepted"
         \/ s'.taken = {c} /\ c \in Listened /\ x = "accepted",
         x \in {"new", "accepted", "start", "loop"} => s'.goAway = s.goAway /\ s.pc[c] \in {"new", "accepted", "start", "loop"}
  PROVE  ServerInv(s)'
<1>0. s'.count = s.count /\ s'.caller = s.caller /\ s'.locked = s.locked /\ s'.grace = s.grace /\ s'.chan = s.chan /\ s'.closedChans = s.closedChans
      /\ s'.next = s.next
  BY DEF ServerKept, ServerFields
<1>a. DOMAIN s.pc = Conns /\ s.next \in [Conns -> 0..MaxRequests] /\ s.goAway \in [Conns -> 0..MaxRequests]
  BY DEF ServerInv, ServerShape
<1>1. ServerShape(s')
  <2>1. s'.goAway \in [Conns -> 0..MaxRequests] /\ DOMAIN s'.pc = Conns
    BY <1>a
  <2> QED
    BY <1>0, <2>1 DEF ServerInv, ServerShape
<1>2. CountExact(s')
  <2>1. InCount(s') = InCount(s)
    BY <1>a, InCountMoves
  <2>2. \A d \in s'.taken : d \in Listened /\ s'.pc[d] = "accepted"
    <3> SUFFICES ASSUME NEW d \in s'.taken PROVE d \in Listened /\ s'.pc[d] = "accepted"
      OBVIOUS
    <3>1. d \in s.taken => d \in Listened /\ s.pc[d] = "accepted" /\ d \in Conns
      BY DEF ServerInv, CountExact, Conns
    <3> QED
      BY <1>a, <3>1
  <2> QED
    BY <1>0, <2>1, <2>2 DEF ServerInv, CountExact
<1>3. Waits(s')
  <2>1. (\E d \in Conns : s.pc[d] \in Serving) => \E d \in Conns : s'.pc[d] \in Serving
    <3> SUFFICES ASSUME NEW d \in Conns, s.pc[d] \in Serving PROVE s'.pc[d] \in Serving
      OBVIOUS
    <3> QED
      BY <1>a
  <2> QED
    BY Zenon, <1>0, <2>1, WaitsKept DEF ServerInv
<1>4. GoAwayExact(s')
  <2> SUFFICES ASSUME NEW d \in Conns
               PROVE  s'.next[d] <= s'.goAway[d] /\ (s'.pc[d] \in {"new", "accepted", "start", "loop"} => s'.goAway[d] = MaxRequests)
    BY DEF GoAwayExact
  <2>1. s.next[d] <= s.goAway[d] /\ (s.pc[d] \in {"new", "accepted", "start", "loop"} => s.goAway[d] = MaxRequests)
        /\ s.next[d] \in Nat /\ s'.goAway[d] \in {s.goAway[d], s.next[d]}
    BY SMTT(30), <1>a DEF ServerInv, GoAwayExact, ServerConstants
  <2>2. s'.next[d] <= s'.goAway[d]
    BY SMTT(30), <1>0, <2>1
  <2>3. CASE d = c
    BY <1>a, <2>1, <2>2, <2>3
  <2>4. CASE d # c
    BY <1>a, <2>1, <2>2, <2>4
  <2> QED
    BY <2>3, <2>4
<1> QED
  BY <1>1, <1>2, <1>3, <1>4 DEF ServerInv

LEMMA ConnStepsInv ==
  ASSUME ServerConstants, ServerInv(s), ~s.panicked, NEW c \in Conns,
         AcceptConn(c) \/ StartConn(c) \/ AcceptFails(c) \/ Drained(c) \/ ConnDone(c)
  PROVE  ServerInv(s)'
<1>a. DOMAIN s = ServerFields /\ DOMAIN s.pc = Conns /\ DOMAIN s.connClosed = Conns /\ DOMAIN s.running = Conns
      /\ DOMAIN s.goAway = Conns
  BY DEF ServerInv, ServerShape
<1>1. CASE AcceptConn(c)
  <2>1. /\ DOMAIN s' = ServerFields /\ ServerKept(s', s, {"pc", "taken"}) /\ s'.pc = [s.pc EXCEPT ![c] = "accepted"]
        /\ s'.taken = {c} /\ c \in Listened /\ s.pc[c] = "new"
    BY Zenon, <1>a, <1>1 DEF AcceptConn, Goto, ServerKept, ServerFields
  <2>2. s'.connClosed = s.connClosed /\ s'.running = s.running /\ s'.goAway = s.goAway
    BY <2>1 DEF ServerKept, ServerFields
  <2>3. ServerKept(s', s, {"pc", "connClosed", "running", "goAway", "taken"})
    BY <2>1 DEF ServerKept, ServerFields
  <2> QED
    BY <1>a, <2>1, <2>2, <2>3, ConnMoves DEF Serving
<1>2. CASE StartConn(c) \/ AcceptFails(c) \/ Drained(c) \/ ConnDone(c)
  <2>1. DOMAIN s' = ServerFields /\ ServerKept(s', s, {"pc", "connClosed", "goAway"})
    BY Zenon, <1>a, <1>2 DEF StartConn, AcceptFails, Drained, ConnDone, Goto, ServerKept, ServerFields
  <2>2. /\ DOMAIN s'.connClosed = Conns
        /\ \/ s'.goAway = s.goAway
           \/ s'.goAway = [s.goAway EXCEPT ![c] = s.next[c]] /\ s.pc[c] = "loop" /\ s'.pc = [s.pc EXCEPT ![c] = "drain"]
    BY Zenon, <1>a, <1>2 DEF StartConn, AcceptFails, Drained, ConnDone, Goto, ServerFields
  <2>3. \/ s.pc[c] = "start" /\ \E x \in {"done", "loop"} : s'.pc = [s.pc EXCEPT ![c] = x]
        \/ s.pc[c] \in {"loop", "drain", "wait"} /\ \E x \in {"wait", "drain", "done"} : s'.pc = [s.pc EXCEPT ![c] = x]
    BY Zenon, <1>a, <1>2 DEF StartConn, AcceptFails, Drained, ConnDone, Goto, ServerFields
  <2>4. s'.running = s.running /\ s'.taken = s.taken
    BY <2>1 DEF ServerKept, ServerFields
  <2>5. ServerKept(s', s, {"pc", "connClosed", "running", "goAway", "taken"})
    BY <2>1 DEF ServerKept, ServerFields
  <2>6. PICK x \in {"loop", "wait", "drain", "done"} : s'.pc = [s.pc EXCEPT ![c] = x] /\ (x = "loop" => s.pc[c] = "start")
    BY <2>3
  <2>7. x = "loop" => s'.goAway = s.goAway
    BY <1>a, <2>2, <2>6
  <2>8. s.pc[c] \in Serving \ {"check"} /\ s.pc[c] \notin {"check", "accepted"} /\ x \in Serving \ {"check"}
    BY <2>3, <2>6 DEF Serving
  <2>9. x \in {"new", "accepted", "start", "loop"} => s'.goAway = s.goAway /\ s.pc[c] \in {"new", "accepted", "start", "loop"}
    BY <2>6, <2>7
  <2>10. DOMAIN s'.running = Conns
    BY <1>a, <2>4
  <2> QED
    BY <2>1, <2>2, <2>4, <2>5, <2>6, <2>8, <2>9, <2>10, ConnMoves
<1> QED
  BY <1>1, <1>2

\* Steps that move no connection and no caller.
LEMMA NobodyMoves ==
  ASSUME ServerConstants, ServerInv(s), ~s.panicked, DOMAIN s' = ServerFields,
         s'.pc = s.pc, s'.caller = s.caller, s'.count = s.count, s'.taken = s.taken, s'.goAway = s.goAway,
         DOMAIN s'.connClosed = Conns, DOMAIN s'.running = Conns, s'.next \in [Conns -> 0..MaxRequests],
         s'.closedChans = s.closedChans, s'.locked = s.locked, s'.grace = s.grace, s'.chan = s.chan \/ ~s.locked,
         \A d \in Conns : s'.next[d] <= s.goAway[d]
  PROVE  ServerInv(s)'
<1>1. ServerShape(s')
  BY DEF ServerInv, ServerShape
<1>2. InCount(s') = InCount(s)
  BY DEF InCount
<1>3. CountExact(s')
  BY <1>2 DEF ServerInv, CountExact
<1>4. Waits(s')
  BY DEF ServerInv, Waits
<1>5. GoAwayExact(s')
  BY DEF ServerInv, GoAwayExact
<1> QED
  BY <1>1, <1>3, <1>4, <1>5 DEF ServerInv

LEMMA StayInv ==
  ASSUME ServerConstants, ServerInv(s), ~s.panicked, 
         \/ AddListener \/ RemoveListener
         \/ \E c \in Conns : AcceptRequest(c) \/ HandlerDone(c) \/ ClientCloses(c)
  PROVE  ServerInv(s)'
<1>a. /\ DOMAIN s = ServerFields /\ DOMAIN s.pc = Conns /\ DOMAIN s.connClosed = Conns /\ DOMAIN s.running = Conns
      /\ s.next \in [Conns -> 0..MaxRequests]
  BY DEF ServerInv, ServerShape
<1>b. \A d \in Conns : s.next[d] <= s.goAway[d] /\ (s.pc[d] \in {"new", "accepted", "start", "loop"} => s.goAway[d] = MaxRequests)
  BY DEF ServerInv, GoAwayExact
<1>1. CASE AddListener \/ RemoveListener
  <2>1. DOMAIN s' = ServerFields /\ ServerKept(s', s, {"listener", "used", "chan"}) /\ ~s.locked
    BY Zenon, <1>a, <1>1 DEF AddListener, RemoveListener, InitServer, ServerKept, ServerFields
  <2>2. /\ s'.pc = s.pc /\ s'.caller = s.caller /\ s'.count = s.count /\ s'.taken = s.taken /\ s'.goAway = s.goAway
        /\ s'.connClosed = s.connClosed /\ s'.running = s.running /\ s'.next = s.next
        /\ s'.closedChans = s.closedChans /\ s'.locked = s.locked /\ s'.grace = s.grace
    BY <2>1 DEF ServerKept, ServerFields
  <2> QED
    BY <1>a, <1>b, <2>1, <2>2, NobodyMoves
<1>2. CASE \E c \in Conns : AcceptRequest(c) \/ HandlerDone(c) \/ ClientCloses(c)
  <2> PICK c \in Conns : AcceptRequest(c) \/ HandlerDone(c) \/ ClientCloses(c)
    BY <1>2
  <2>1. DOMAIN s' = ServerFields /\ ServerKept(s', s, {"next", "running", "connClosed"})
    BY ZenonT(30), <1>a DEF AcceptRequest, HandlerDone, ClientCloses, ServerKept, ServerFields
  <2>2. DOMAIN s'.connClosed = Conns /\ DOMAIN s'.running = Conns
    BY ZenonT(30), <1>a DEF AcceptRequest, HandlerDone, ClientCloses, ServerFields
  <2>3. s'.next = s.next \/ (s'.next = [s.next EXCEPT ![c] = @ + 1] /\ s.pc[c] = "loop" /\ s.next[c] < MaxRequests)
    BY Zenon, <1>a DEF AcceptRequest, HandlerDone, ClientCloses, ServerFields
  <2>4. s'.next \in [Conns -> 0..MaxRequests] /\ \A d \in Conns : s'.next[d] <= s.goAway[d]
    <3>1. CASE s'.next = s.next
      BY <1>a, <1>b, <3>1
    <3>2. CASE s'.next = [s.next EXCEPT ![c] = @ + 1] /\ s.pc[c] = "loop" /\ s.next[c] < MaxRequests
      <4>1. s.next[c] + 1 \in 0..MaxRequests /\ s.goAway[c] = MaxRequests /\ s.next[c] + 1 <= s.goAway[c]
        BY SMTT(30), <1>a, <1>b, <3>2 DEF ServerConstants
      <4>2. s'.next \in [Conns -> 0..MaxRequests]
        BY <1>a, <3>2, <4>1
      <4>3. \A d \in Conns : s'.next[d] <= s.goAway[d]
        BY <1>a, <1>b, <3>2, <4>1
      <4> QED
        BY <4>2, <4>3
    <3> QED
      BY <2>3, <3>1, <3>2
  <2>5. /\ s'.pc = s.pc /\ s'.caller = s.caller /\ s'.count = s.count /\ s'.taken = s.taken /\ s'.goAway = s.goAway
        /\ s'.closedChans = s.closedChans /\ s'.locked = s.locked /\ s'.grace = s.grace /\ s'.chan = s.chan
    BY <2>1 DEF ServerKept, ServerFields
  <2> QED
    BY <2>1, <2>2, <2>4, <2>5, NobodyMoves
<1> QED
  BY <1>1, <1>2

LEMMA CheckGraceInv ==
  ASSUME ServerConstants, ServerInv(s), ~s.panicked, CheckGrace
  PROVE  ServerInv(s)'
<1>a. /\ DOMAIN s = ServerFields /\ DOMAIN s.pc = Conns /\ DOMAIN s.connClosed = Conns /\ DOMAIN s.running = Conns
      /\ s.next \in [Conns -> 0..MaxRequests]
  BY DEF ServerInv, ServerShape
<1>1. DOMAIN s' = ServerFields /\ ServerKept(s', s, {"listener", "taken", "pc"})
  BY Zenon, <1>a DEF CheckGrace, ServerKept, ServerFields
<1>2. \/ s'.taken = {} /\ s'.pc = [d \in Conns |-> IF d \in s.taken THEN "dropped" ELSE s.pc[d]]
      \/ s'.taken = s.taken /\ s'.pc = s.pc
  BY Zenon, <1>a DEF CheckGrace, ServerFields
<1>3. /\ s'.caller = s.caller /\ s'.count = s.count /\ s'.goAway = s.goAway /\ s'.connClosed = s.connClosed /\ s'.running = s.running
      /\ s'.next = s.next /\ s'.closedChans = s.closedChans /\ s'.locked = s.locked /\ s'.grace = s.grace /\ s'.chan = s.chan
  BY <1>1 DEF ServerKept, ServerFields
<1>4. ServerShape(s')
  <2>1. DOMAIN s'.pc = Conns
    BY <1>a, <1>2
  <2> QED
    BY <1>1, <1>3, <2>1 DEF ServerInv, ServerShape
<1>5. \A d \in Conns : s'.pc[d] = s.pc[d] \/ (s'.pc[d] = "dropped" /\ s.pc[d] = "accepted")
  BY <1>a, <1>2 DEF ServerInv, CountExact
<1>6. CountExact(s')
  <2>1. InCount(s') = InCount(s)
    BY <1>5 DEF InCount, Serving
  <2>2. \A d \in s'.taken : d \in Listened /\ s'.pc[d] = "accepted"
    BY <1>2 DEF ServerInv, CountExact
  <2> QED
    BY <1>3, <2>1, <2>2 DEF ServerInv, CountExact
<1>7. Waits(s')
  <2>1. \A d \in Conns : s.pc[d] \in Serving => s'.pc[d] \in Serving
    BY <1>5 DEF Serving
  <2> QED
    BY <1>3, <2>1, WaitsKept DEF ServerInv
<1>8. GoAwayExact(s')
  BY <1>3, <1>5 DEF ServerInv, GoAwayExact
<1> QED
  BY <1>4, <1>6, <1>7, <1>8 DEF ServerInv

\* A connection is counted before its goroutine starts.
LEMMA CountedInv ==
  ASSUME ServerConstants, ServerInv(s), ~s.panicked, NEW c \in Conns, s.pc[c] = "accepted",
         DOMAIN s' = ServerFields, ServerKept(s', s, {"pc", "count", "taken", "listener"}),
         s'.pc = [s.pc EXCEPT ![c] = "start"], s'.count = s.count + 1,
         s'.taken = {} \/ (s'.taken = s.taken /\ c \notin s.taken)
  PROVE  ServerInv(s)'
<1>a. DOMAIN s.pc = Conns
  BY DEF ServerInv, ServerShape
<1>0. /\ s'.caller = s.caller /\ s'.goAway = s.goAway /\ s'.connClosed = s.connClosed /\ s'.running = s.running
      /\ s'.next = s.next /\ s'.closedChans = s.closedChans /\ s'.locked = s.locked /\ s'.grace = s.grace /\ s'.chan = s.chan
  BY DEF ServerKept, ServerFields
<1>1. ServerShape(s')
  BY <1>0, <1>a DEF ServerInv, ServerShape
<1>2. \A d \in Conns : s'.pc[d] = s.pc[d] \/ (s'.pc[d] = "start" /\ s.pc[d] = "accepted")
  BY <1>a
<1>3. CountExact(s')
  <2>1. Cardinality(InCount(s')) = Cardinality(InCount(s)) + 1
    BY SMTT(30), <1>a, InCountMoves DEF Serving
  <2>2. \A d \in s'.taken : d \in Listened /\ s'.pc[d] = "accepted"
    BY <1>a DEF ServerInv, CountExact, Conns
  <2> QED
    BY <2>1, <2>2 DEF ServerInv, CountExact
<1>4. Waits(s')
  <2>1. \A d \in Conns : s.pc[d] \in Serving => s'.pc[d] \in Serving
    BY <1>2 DEF Serving
  <2> QED
    BY Zenon, <1>0, <2>1, WaitsKept DEF ServerInv
<1>5. GoAwayExact(s')
  BY SMTT(30), <1>0, <1>2 DEF ServerInv, GoAwayExact
<1> QED
  BY <1>1, <1>3, <1>4, <1>5 DEF ServerInv

LEMMA CountStepsInv ==
  ASSUME ServerConstants, ServerInv(s), ~s.panicked, NEW c \in Conns, CountConn(c) \/ ServeQUICConn(c)
  PROVE  ServerInv(s)'
<1>a. DOMAIN s = ServerFields /\ DOMAIN s.pc = Conns
  BY DEF ServerInv, ServerShape
<1>1. CASE CountConn(c)
  <2>1. /\ DOMAIN s' = ServerFields /\ ServerKept(s', s, {"pc", "count", "taken", "listener"})
        /\ s'.pc = [s.pc EXCEPT ![c] = "start"] /\ s'.count = s.count + 1 /\ s'.taken = {} /\ c \in s.taken
    BY Zenon, <1>a, <1>1 DEF CountConn, Goto, ServerKept, ServerFields
  <2>2. s.pc[c] = "accepted"
    BY <2>1 DEF ServerInv, CountExact
  <2> QED
    BY <2>1, <2>2, CountedInv
<1>2. CASE c \in Direct /\ s.pc[c] = "accepted" /\ s' = [Goto(s, c, "start") EXCEPT !.count = @ + 1]
  <2>1. /\ DOMAIN s' = ServerFields /\ ServerKept(s', s, {"pc", "count"})
        /\ s'.pc = [s.pc EXCEPT ![c] = "start"] /\ s'.count = s.count + 1
    BY Zenon, <1>a, <1>2 DEF Goto, ServerKept, ServerFields
  <2>2. ServerKept(s', s, {"pc", "count", "taken", "listener"}) /\ s'.taken = s.taken
    BY <2>1 DEF ServerKept, ServerFields
  <2>3. c \notin s.taken
    BY <1>2 DEF ServerInv, CountExact, ServerConstants
  <2> QED
    BY <1>2, <2>1, <2>2, <2>3, CountedInv
<1>3. CASE c \in Direct /\ s.pc[c] = "new" /\ ~s.locked /\ s' = InitServer(Goto(s, c, "accepted"))
  <2>1. /\ DOMAIN s' = ServerFields /\ ServerKept(s', s, {"pc", "used", "chan"}) /\ s'.pc = [s.pc EXCEPT ![c] = "accepted"]
    BY Zenon, <1>a, <1>3 DEF Goto, InitServer, ServerKept, ServerFields
  <2>2. /\ s'.caller = s.caller /\ s'.goAway = s.goAway /\ s'.connClosed = s.connClosed /\ s'.running = s.running /\ s'.taken = s.taken
        /\ s'.count = s.count /\ s'.next = s.next /\ s'.closedChans = s.closedChans /\ s'.locked = s.locked /\ s'.grace = s.grace
    BY <2>1 DEF ServerKept, ServerFields
  <2>3. ServerShape(s')
    BY <1>a, <2>1, <2>2 DEF ServerInv, ServerShape
  <2>4. \A d \in Conns : s'.pc[d] = s.pc[d] \/ (s'.pc[d] = "accepted" /\ s.pc[d] = "new")
    BY <1>a, <1>3, <2>1
  <2>5. CountExact(s')
    <3>1. InCount(s') = InCount(s)
      BY <2>4 DEF InCount, Serving
    <3>2. \A d \in s'.taken : d \in Listened /\ s'.pc[d] = "accepted"
      BY <2>2, <2>4 DEF ServerInv, CountExact, Conns
    <3> QED
      BY <2>2, <3>1, <3>2 DEF ServerInv, CountExact
  <2>6. Waits(s')
    BY <1>3, <2>2 DEF ServerInv, Waits
  <2>7. GoAwayExact(s')
    BY <2>2, <2>4 DEF ServerInv, GoAwayExact
  <2> QED
    BY <2>3, <2>5, <2>6, <2>7 DEF ServerInv
<1> QED
  BY <1>1, <1>2, <1>3 DEF ServeQUICConn

LEMMA DecreaseConnCountInv ==
  ASSUME ServerConstants, ServerInv(s), ~s.panicked, NEW c \in Conns, DecreaseConnCount(c)
  PROVE  ServerInv(s)'
<1>a. DOMAIN s = ServerFields /\ DOMAIN s.pc = Conns
  BY DEF ServerInv, ServerShape
<1>1. DOMAIN s' = ServerFields /\ ServerKept(s', s, {"pc", "count", "panicked", "closedChans"})
  BY Zenon, <1>a DEF DecreaseConnCount, Goto, ServerKept, ServerFields
<1>2. /\ s'.caller = s.caller /\ s'.goAway = s.goAway /\ s'.connClosed = s.connClosed /\ s'.running = s.running /\ s'.taken = s.taken
      /\ s'.next = s.next /\ s'.locked = s.locked /\ s'.grace = s.grace /\ s'.chan = s.chan
  BY <1>1 DEF ServerKept, ServerFields
<1>3. \/ /\ s.pc[c] = "done" /\ s'.count = s.count - 1 /\ s'.closedChans = s.closedChans
         /\ s'.pc = [s.pc EXCEPT ![c] = IF s.count = 1 THEN "check" ELSE "gone"]
      \/ /\ s.pc[c] = "check" /\ s'.count = s.count /\ s'.pc = [s.pc EXCEPT ![c] = "gone"]
         /\ s'.closedChans = IF s.grace THEN s.closedChans \cup {s.chan} ELSE s.closedChans
  BY Zenon, <1>a DEF DecreaseConnCount, Goto, ServerFields
<1>4. ServerShape(s')
  <2>1. DOMAIN s'.pc = Conns
    BY <1>a, <1>3
  <2> QED
    BY <1>1, <1>2, <2>1 DEF ServerInv, ServerShape
<1>5. CountExact(s')
  <2>1. s'.count = Cardinality(InCount(s'))
    <3>1. CASE s.pc[c] = "done"
      <4>1. Cardinality(InCount(s')) = Cardinality(InCount(s)) - 1
        <5>1. PICK x \in {"check", "gone"} : s'.pc = [s.pc EXCEPT ![c] = x]
          BY <1>3
        <5> QED
          BY SMTT(30), <1>a, <3>1, <5>1, InCountMoves DEF Serving
      <4> QED
        BY <1>3, <3>1, <4>1 DEF ServerInv, CountExact
    <3>2. CASE s.pc[c] = "check"
      <4>1. InCount(s') = InCount(s)
        BY SMTT(30), <1>3, <1>a, <3>2, InCountMoves DEF Serving
      <4> QED
        BY <1>3, <3>2, <4>1 DEF ServerInv, CountExact
    <3> QED
      BY <1>3, <3>1, <3>2
  <2>2. \A d \in s'.taken : d \in Listened /\ s'.pc[d] = "accepted"
    BY <1>a, <1>2, <1>3 DEF ServerInv, CountExact, Conns
  <2> QED
    BY <2>1, <2>2 DEF CountExact
<1>6. Waits(s')
  <2>1. s.grace => s'.chan \in s'.closedChans \/ \E d \in Conns : s'.pc[d] \in Serving
    <3>1. CASE s.pc[c] = "done" /\ s.count = 1
      BY <1>a, <1>3, <3>1 DEF Serving
    <3>2. CASE s.pc[c] = "done" /\ s.count # 1
      <4>1. c \in InCount(s) /\ s.count = Cardinality(InCount(s))
        BY <3>2 DEF InCount, Serving, ServerInv, CountExact
      <4>2. InCount(s) # {c}
        BY Zenon, <3>2, <4>1, FS_Singleton
      <4>3. PICK d \in InCount(s) : d # c
        BY <4>1, <4>2
      <4>4. d \in Conns /\ s.pc[d] \in Serving /\ s'.pc[d] = s.pc[d]
        BY <1>a, <1>3, <4>3 DEF InCount
      <4> QED
        BY <4>4
    <3>3. CASE s.pc[c] = "check"
      BY <1>2, <1>3, <3>3
    <3> QED
      BY <1>3, <3>1, <3>2, <3>3
  <2>2. s.closedChans \subseteq s'.closedChans
    BY <1>3
  <2> QED
    BY <1>2, <2>1, <2>2, WaitsKept DEF ServerInv
<1>7. GoAwayExact(s')
  <2>1. \A d \in Conns : s'.pc[d] = s.pc[d] \/ s'.pc[d] \in {"check", "gone"}
    BY <1>a, <1>3
  <2> QED
    BY <1>2, <2>1 DEF ServerInv, GoAwayExact
<1> QED
  BY <1>4, <1>5, <1>6, <1>7 DEF ServerInv

LEMMA CallersInv ==
  ASSUME ServerConstants, ServerInv(s), ~s.panicked,
         \/ Shutdown \/ Close
         \/ \E k \in Callers : CloseLocks(k) \/ CloseCounts(k) \/ CloseReturns(k)
  PROVE  ServerInv(s)'
<1>a. DOMAIN s = ServerFields /\ DOMAIN s.caller = Callers /\ {"close", "shutdown"} = Callers
  BY DEF ServerInv, ServerShape, Callers
<1>1. DOMAIN s' = ServerFields /\ ServerKept(s', s, {"closed", "closing", "grace", "locked", "listenerClosed", "caller", "waits"})
  BY Zenon, <1>a DEF Shutdown, Close, CloseLocks, CloseCounts, CloseReturns, ServerKept, ServerFields
<1>2. /\ s'.goAway = s.goAway /\ s'.connClosed = s.connClosed /\ s'.running = s.running /\ s'.taken = s.taken /\ s'.pc = s.pc
      /\ s'.next = s.next /\ s'.count = s.count /\ s'.chan = s.chan /\ s'.closedChans = s.closedChans
  BY <1>1 DEF ServerKept, ServerFields
<1> DEFINE Moved(k, x) ==
             /\ s'.caller = [s.caller EXCEPT ![k] = x]
             /\ s.grace => s'.grace
             /\ \/ x = "counting" /\ ~s.locked /\ s'.locked /\ s'.grace
                \/ x = "waiting" /\ s.caller[k] = "counting" /\ s.count # 0 /\ s'.locked = s.locked
                \/ x \notin {"counting", "waiting"} /\ (s'.locked = s.locked \/ s.caller[k] \in {"counting", "waiting"})
<1>b. \E k \in Callers, x \in {"returned", "counting", "waiting", "loading", "closing", "grace"} : Moved(k, x)
  <2>1. CASE Close
    <3>1. Moved("close", "closing")
      BY <1>a, <2>1 DEF Close, ServerFields
    <3> QED
      BY Zenon, <3>1, <1>a
  <2>2. CASE Shutdown
    <3>a. "shutdown" \in DOMAIN s.caller
      BY <1>a
    <3>1. CASE s' = [s EXCEPT !.closed = TRUE, !.grace = TRUE, !.caller["shutdown"] = "loading"]
      <4>1. Moved("shutdown", "loading")
        BY <1>a, <3>a, <3>1 DEF ServerFields
      <4> QED
        BY Zenon, <4>1, <1>a
    <3>2. CASE s' = [s EXCEPT !.closed = TRUE, !.caller["shutdown"] = "returned"]
      <4>1. Moved("shutdown", "returned")
        BY <1>a, <3>a, <3>2 DEF ServerFields
      <4> QED
        BY Zenon, <4>1, <1>a
    <3>3. CASE \E x \in {"closing", "grace"} : s' = [s EXCEPT !.caller["shutdown"] = x, !.waits = s.chan] \/ s' = [s EXCEPT !.caller["shutdown"] = x]
      <4>1. PICK x \in {"closing", "grace"} : s' = [s EXCEPT !.caller["shutdown"] = x, !.waits = s.chan] \/ s' = [s EXCEPT !.caller["shutdown"] = x]
        BY Zenon, <3>3
      <4>2. Moved("shutdown", x)
        BY ZenonT(30), <1>a, <3>a, <4>1 DEF ServerFields
      <4> QED
        BY Zenon, <4>2, <1>a
    <3> HIDE DEF Moved
    <3> QED
      BY Zenon, <2>2, <3>1, <3>2, <3>3 DEF Shutdown
  <2>3. ASSUME NEW k \in Callers, CloseLocks(k) PROVE Moved(k, "returned") \/ Moved(k, "counting")
    BY Zenon, <1>a, <2>3 DEF CloseLocks, ServerFields
  <2>4. ASSUME NEW k \in Callers, CloseCounts(k) PROVE Moved(k, "returned") \/ Moved(k, "waiting")
    BY ZenonT(30), <1>a, <2>4 DEF CloseCounts, ServerFields
  <2>5. ASSUME NEW k \in Callers, CloseReturns(k) PROVE Moved(k, "returned")
    BY ZenonT(30), <1>a, <2>5 DEF CloseReturns, ServerFields
  <2> HIDE DEF Moved
  <2> QED
    BY <2>1, <2>2, <2>3, <2>4, <2>5
<1>3. PICK k \in Callers, x \in {"returned", "counting", "waiting", "loading", "closing", "grace"} : Moved(k, x)
  BY ZenonT(30), <1>b
<1>4. ServerShape(s')
  BY <1>1, <1>2, <1>3, <1>a DEF ServerInv, ServerShape
<1>5. CountExact(s')
  <2>1. InCount(s') = InCount(s)
    BY <1>2 DEF InCount
  <2> QED
    BY <1>2, <2>1 DEF ServerInv, CountExact
<1>6. Waits(s')
  <2>1. \A j \in Callers : s'.caller[j] = IF j = k THEN x ELSE s.caller[j]
    BY <1>a, <1>3
  <2>2. s.count # 0 => \E c \in Conns : s.pc[c] \in Serving
    <3>1. s.count # 0 => InCount(s) # {}
      BY FS_EmptySet DEF ServerInv, CountExact
    <3> QED
      BY <3>1 DEF InCount
  <2>3. \A j \in Callers : s'.caller[j] \in {"counting", "waiting"} =>
          s'.locked /\ s'.grace /\ \A i \in Callers \ {j} : s'.caller[i] \notin {"counting", "waiting"}
    BY <1>3, <2>1 DEF ServerInv, Waits
  <2>4. \A j \in Callers : s'.caller[j] = "waiting" => s'.panicked \/ s'.chan \in s'.closedChans \/ \E c \in Conns : s'.pc[c] \in Serving
    BY <1>2, <1>3, <2>1, <2>2 DEF ServerInv, Waits
  <2> QED
    BY <2>3, <2>4 DEF Waits
<1>7. GoAwayExact(s')
  BY <1>2 DEF ServerInv, GoAwayExact
<1> QED
  BY <1>4, <1>5, <1>6, <1>7 DEF ServerInv

\* For any finite number of connections, in whatever order they come, end and are drained:
\* connCount is the number of connections that are served, Close never waits on a channel
\* that nobody will close, and no request at or above the ID of a GOAWAY is handed to a
\* handler (server.go, serveListener, ServeQUICConn, handleConn, decreaseConnCount, Close,
\* Shutdown).
THEOREM ServerAlwaysStops == ASSUME ServerConstants PROVE ServerSpec => []ServerStops
<1>1. ServerInit => ServerInv(s)
  BY ServerInitInv
<1>2. ServerInv(s) /\ [ServerNext]_s => ServerInv(s)'
  <2> SUFFICES ASSUME ServerInv(s), [ServerNext]_s PROVE ServerInv(s)'
    OBVIOUS
  <2>1. CASE UNCHANGED s
    BY <2>1 DEF ServerInv, ServerShape, CountExact, InCount, Waits, GoAwayExact
  <2>2. CASE ServerNext
    BY <2>2, ConnStepsInv, StayInv, CheckGraceInv, CountStepsInv, DecreaseConnCountInv, CallersInv DEF ServerNext
  <2> QED
    BY <2>1, <2>2
<1>3. ServerInv(s) => ServerStops
  BY DEF ServerInv, CountExact, InCount, Waits, GoAwayExact, ServerStops
<1> QED
  BY <1>1, <1>2, <1>3, PTL DEF ServerSpec

================================================================================
