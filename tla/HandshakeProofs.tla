--------------------------- MODULE HandshakeProofs ---------------------------
(***************************************************************************)
(* Proofs about the handshake of two connections, for any number of        *)
(* packets in the network and any length of the queue of undecryptable     *)
(* packets.  The invariant describes each end by how far its TLS stack has *)
(* come, says how far the ends can be apart, and what a packet, however    *)
(* old, tells about its sender; all of that only ever grows, so a packet   *)
(* that is late or repeated tells the truth.                               *)
(***************************************************************************)
EXTENDS Handshake, TLAPS

Fields == {"status", "why", "tls", "openers", "sealers", "crypto", "finished", "out", "owed", "got",
           "complete", "confirmed", "undecryptable", "todo"}
Shaped(t) == DOMAIN t = Fields
\* Only the fields in S may differ.
Same(u, t, S) == Shaped(u) /\ \A x \in Fields \ S : u[x] = t[x]

Ends == {"client", "server"}
Pending(t) == t.undecryptable \cup t.todo

\* The client's record, whatever the server does.
LocalClient(t) ==
    /\ t.status \in {"open", "closed", "remote"}
    /\ t.tls \in {"start", "hello", "extensions", "done"}
    /\ DOMAIN t.crypto = CryptoLevels
    /\ t.crypto["initial"] = IF t.tls = "start" THEN {} ELSE {1}
    /\ t.crypto["handshake"] \subseteq {1, 2}
    /\ t.tls = "start" => t.crypto["handshake"] = {}
    /\ t.tls = "hello" => 1 \notin t.crypto["handshake"]
    /\ t.tls = "extensions" => t.crypto["handshake"] = {1}
    /\ t.tls = "done" => t.crypto["handshake"] = {1, 2}
    /\ t.complete = (t.tls = "done")
    /\ t.finished \subseteq CryptoLevels
    /\ t.confirmed <=> "handshake" \in t.finished
    /\ t.confirmed => t.tls = "done"
    /\ "initial" \in t.finished => t.tls # "start"

ClientKeys(t) ==
    /\ "initial" \in t.sealers <=> "initial" \notin t.finished
    /\ "handshake" \in t.sealers <=> t.tls # "start" /\ "handshake" \notin t.finished
    /\ "oneRTT" \in t.sealers <=> t.tls = "done"
    /\ t.sealers \subseteq Levels
    /\ t.status = "open" =>
         /\ t.openers \subseteq Levels \ {"zeroRTT"}
         /\ "initial" \in t.openers <=> "initial" \notin t.finished
         /\ "handshake" \in t.openers <=> t.tls # "start" /\ "handshake" \notin t.finished
         /\ "oneRTT" \in t.openers <=> t.tls = "done"

ClientOut(t) ==
    /\ t.out \subseteq {"CH1", "CH2", "CFIN", "EARLY"}
    /\ "CFIN" \in t.out => t.tls = "done"
    /\ t.status = "open" =>
         /\ "initial" \notin t.finished => {"CH1", "CH2"} \subseteq t.out
         /\ t.tls = "done" /\ ~t.confirmed => "CFIN" \in t.out
    /\ t.owed \subseteq Acks /\ \A a \in t.owed : a.f = "HSD" => t.confirmed

LocalServer(t) ==
    /\ t.status \in {"open", "closed", "remote"}
    /\ t.status = "closed" => t.tls # "start"
    /\ t.tls \in {"start", "flight", "done"}
    /\ DOMAIN t.crypto = CryptoLevels
    /\ t.crypto["initial"] \subseteq {1, 2}
    /\ t.tls = "start" <=> t.crypto["initial"] # {1, 2}
    /\ t.crypto["handshake"] = IF t.tls = "done" THEN {1} ELSE {}
    /\ t.complete = (t.tls = "done") /\ t.confirmed = (t.tls = "done")
    /\ t.finished \subseteq CryptoLevels
    /\ "handshake" \in t.finished <=> t.tls = "done"
    /\ "initial" \in t.finished => t.tls # "start"
    /\ t.tls = "done" => "initial" \in t.finished

ServerKeys(t) ==
    /\ "initial" \in t.sealers <=> "initial" \notin t.finished
    /\ "handshake" \in t.sealers <=> t.tls = "flight"
    /\ "oneRTT" \in t.sealers <=> t.tls # "start"
    /\ t.sealers \subseteq Levels \ {"zeroRTT"}
    /\ t.status = "open" =>
         /\ t.openers \subseteq Levels
         /\ "initial" \in t.openers <=> "initial" \notin t.finished
         /\ "handshake" \in t.openers <=> t.tls = "flight"
         /\ "oneRTT" \in t.openers <=> t.tls = "done"

ServerOut(t) ==
    /\ t.out \subseteq {"SH", "EE", "SFIN", "DATA", "HSD"}
    /\ t.out # {} => t.tls # "start"
    /\ "HSD" \in t.out => t.tls = "done"
    /\ t.status = "open" =>
         /\ t.tls # "start" /\ "initial" \notin t.finished => "SH" \in t.out
         /\ t.tls = "flight" => {"EE", "SFIN"} \subseteq t.out
    /\ t.owed \subseteq Acks /\ \A a \in t.owed : a.lvl = "oneRTT" => t.tls = "done"

\* How far the two ends can be apart.
Together(k, v) ==
    /\ k.tls # "start" => v.tls # "start"
    /\ "initial" \in v.finished => k.tls # "start"
    /\ v.tls = "done" => k.tls = "done" /\ "initial" \in k.finished
    /\ k.confirmed => v.tls = "done"
    /\ v.status = "open" /\ v.tls = "done" => "HSD" \in v.out \/ k.confirmed

AllFrames == Frames \cup {"PING", "ACK", "CLOSE"}

\* What a packet says of its sender, and of what its sender has received.
PacketShape(p) ==
    /\ p.to \in Ends /\ p.f \in AllFrames /\ p.lvls \subseteq Levels
    /\ p.f # "CLOSE" => \E l \in Levels : p.lvls = {l}
    /\ p.f \in DOMAIN Chunk => p.lvls = {Chunk[p.f].lvl} /\ p.to = Peer(Chunk[p.f].by)
    /\ p.f = "HSD" => p.to = "client"
    /\ p.f \in {"HSD", "ACK"} => p.lvls = {"oneRTT"}
    /\ p.f = "ACK" => p.of \in Acks

ToServer(p, k) ==
    p.to = "server" =>
      /\ "handshake" \in p.lvls => k.tls # "start"
      /\ "handshake" \in p.lvls /\ p.f # "CLOSE" => "initial" \in k.finished
      /\ p.f = "CFIN" => k.tls = "done"
      /\ p.f = "ACK" /\ p.of.f = "HSD" => k.confirmed

ToClient(p, v) ==
    p.to = "client" =>
      /\ p.f = "SH" \/ "handshake" \in p.lvls => v.tls # "start"
      /\ p.f = "HSD" => v.tls = "done"
      /\ p.f = "ACK" /\ p.of.lvl = "oneRTT" => v.tls = "done"

PacketOK(p, k, v) == PacketShape(p) /\ ToServer(p, k) /\ ToClient(p, v)

SInv(t) == Shaped(t) /\ LocalServer(t) /\ ServerKeys(t) /\ ServerOut(t)
CInv(t) == Shaped(t) /\ LocalClient(t) /\ ClientKeys(t) /\ ClientOut(t)

\* What an end knows is never forgotten.
Grows(u, t) ==
    /\ t.tls # "start" => u.tls # "start"
    /\ t.tls = "done" => u.tls = "done"
    /\ "initial" \in t.finished => "initial" \in u.finished
    /\ t.confirmed => u.confirmed

--------------------------------------------------------------------------------
(* Crypto streams and the dropping of levels.                                    *)

LEMMA NumReadIs ==
  /\ NumRead({}) = 0 /\ NumRead({2}) = 0 /\ NumRead({1}) = 1 /\ NumRead({1, 2}) = 2
<1>1. 1..0 = {} /\ 1..1 = {1} /\ 1..2 = {1, 2} /\ 0..2 = {0, 1, 2}
  OBVIOUS
<1>2. ASSUME NEW ch, NEW k \in {0, 1, 2}, \A n \in {0, 1, 2} : (1..n \subseteq ch /\ n + 1 \notin ch) <=> n = k
      PROVE  NumRead(ch) = k
  <2>1. \A n \in 0..2 : (1..n \subseteq ch /\ n + 1 \notin ch) <=> n = k
    BY <1>1, <1>2
  <2>2. k \in 0..2
    BY <1>1
  <2> QED
    BY <2>1, <2>2 DEF NumRead
<1>3. \A n \in {0, 1, 2} : (1..n \subseteq {} /\ n + 1 \notin {}) <=> n = 0
  BY <1>1
<1>4. \A n \in {0, 1, 2} : (1..n \subseteq {2} /\ n + 1 \notin {2}) <=> n = 0
  BY <1>1
<1>5. \A n \in {0, 1, 2} : (1..n \subseteq {1} /\ n + 1 \notin {1}) <=> n = 1
  BY <1>1
<1>6. \A n \in {0, 1, 2} : (1..n \subseteq {1, 2} /\ n + 1 \notin {1, 2}) <=> n = 2
  BY <1>1
<1> QED
  BY <1>2, <1>3, <1>4, <1>5, <1>6

LEMMA NoMoreData ==
  ~HasMoreData({}) /\ ~HasMoreData({1}) /\ ~HasMoreData({1, 2})
<1>1. 1..0 = {} /\ 1..1 = {1} /\ 1..2 = {1, 2}
  OBVIOUS
<1> QED
  BY <1>1, NumReadIs DEF HasMoreData

LEMMA DropIs ==
  ASSUME NEW t, Shaped(t), NEW l, ~HasMoreData(t.crypto[l]), NEW u, u = DropEncryptionLevel(t, l)
  PROVE  /\ Same(u, t, {"openers", "sealers", "finished", "out"})
         /\ u.openers = t.openers \ {l} /\ u.sealers = t.sealers \ {l} /\ u.finished = t.finished \cup {l}
         /\ u.out = {f \in t.out : f \in DOMAIN Chunk => Chunk[f].lvl # l}
BY Zenon DEF DropEncryptionLevel, Same, Shaped, Fields

LEMMA ClosedIs ==
  ASSUME NEW t, Shaped(t), NEW how, NEW u, u = Closed(t, how)
  PROVE  /\ Same(u, t, {"status", "openers", "out", "owed", "got", "undecryptable", "todo"})
         /\ u.status = how /\ u.openers = {} /\ u.out = {} /\ u.owed = {} /\ u.undecryptable = {} /\ u.todo = {}
BY Zenon DEF Closed, Same, Shaped, Fields

\* The chunks.
LEMMA ChunkIs ==
  /\ DOMAIN Chunk = {"CH1", "CH2", "SH", "EE", "SFIN", "CFIN"}
  /\ Chunk["CH1"].by = "client" /\ Chunk["CH1"].lvl = "initial" /\ Chunk["CH1"].i = 1
  /\ Chunk["CH2"].by = "client" /\ Chunk["CH2"].lvl = "initial" /\ Chunk["CH2"].i = 2
  /\ Chunk["SH"].by = "server" /\ Chunk["SH"].lvl = "initial" /\ Chunk["SH"].i = 1
  /\ Chunk["EE"].by = "server" /\ Chunk["EE"].lvl = "handshake" /\ Chunk["EE"].i = 1
  /\ Chunk["SFIN"].by = "server" /\ Chunk["SFIN"].lvl = "handshake" /\ Chunk["SFIN"].i = 2
  /\ Chunk["CFIN"].by = "client" /\ Chunk["CFIN"].lvl = "handshake" /\ Chunk["CFIN"].i = 1
BY DEF Chunk

--------------------------------------------------------------------------------
(* The server handles a packet.                                                  *)

\* Closing keeps what others may rely on.
LEMMA ServerCloses ==
  ASSUME NEW k, NEW t, SInv(t), Together(k, t), NEW how \in {"closed", "remote"}, how = "closed" => t.tls # "start"
  PROVE  LET u == Closed(t, how) IN SInv(u) /\ Together(k, u) /\ Grows(u, t) /\ Pending(u) = {}
<1> DEFINE u == Closed(t, how)
<1>0. Shaped(t)
  BY DEF SInv
<1>1. /\ Same(u, t, {"status", "openers", "out", "owed", "got", "undecryptable", "todo"})
      /\ u.status = how /\ u.openers = {} /\ u.out = {} /\ u.owed = {} /\ u.undecryptable = {} /\ u.todo = {}
  BY <1>0, ClosedIs
<1> HIDE DEF u
<1>2. /\ u.tls = t.tls /\ u.crypto = t.crypto /\ u.finished = t.finished /\ u.sealers = t.sealers
      /\ u.complete = t.complete /\ u.confirmed = t.confirmed /\ Shaped(u)
  BY <1>1 DEF Same, Fields
<1>3. LocalServer(u)
  BY <1>1, <1>2 DEF SInv, LocalServer
<1>4. ServerKeys(u)
  BY <1>1, <1>2 DEF SInv, ServerKeys
<1>5. ServerOut(u)
  BY <1>1, <1>2 DEF SInv, ServerOut
<1>6. Together(k, u) /\ Grows(u, t) /\ Pending(u) = {}
  BY <1>1, <1>2 DEF Together, Grows, Pending
<1> QED
  BY <1>2, <1>3, <1>4, <1>5, <1>6 DEF SInv, u

\* A Handshake packet makes the server drop the Initial keys.
LEMMA ServerDropsInitial ==
  ASSUME NEW k, NEW t, SInv(t), Together(k, t), t.status = "open", "handshake" \in t.openers, k.tls # "start",
         NEW u, u = DropEncryptionLevel(t, "initial")
  PROVE  /\ SInv(u) /\ Together(k, u) /\ Grows(u, t) /\ Pending(u) = Pending(t)
         /\ u.status = "open" /\ u.openers = t.openers \ {"initial"} /\ u.tls = t.tls /\ u.complete = t.complete
<1>1. Shaped(t) /\ t.tls = "flight" /\ t.crypto["initial"] = {1, 2}
  BY DEF SInv, ServerKeys, LocalServer
<1>2. /\ Same(u, t, {"openers", "sealers", "finished", "out"})
      /\ u.openers = t.openers \ {"initial"} /\ u.sealers = t.sealers \ {"initial"} /\ u.finished = t.finished \cup {"initial"}
      /\ u.out = {f \in t.out : f \in DOMAIN Chunk => Chunk[f].lvl # "initial"}
  <2>1. ~HasMoreData(t.crypto["initial"])
    BY <1>1, NoMoreData
  <2>2. Shaped(t) /\ u = DropEncryptionLevel(t, "initial")
    BY <1>1
  <2> QED
    BY ONLY <2>1, <2>2, DropIs
<1>3. /\ u.tls = t.tls /\ u.crypto = t.crypto /\ u.status = t.status /\ u.owed = t.owed
      /\ u.complete = t.complete /\ u.confirmed = t.confirmed /\ Shaped(u)
      /\ u.undecryptable = t.undecryptable /\ u.todo = t.todo
  BY <1>2 DEF Same, Fields
<1>4. u.out \subseteq t.out /\ \A f \in {"EE", "SFIN", "DATA", "HSD"} : f \in t.out => f \in u.out
  BY <1>2, ChunkIs
<1>5. LocalServer(u)
  BY Zenon, <1>1, <1>2, <1>3 DEF SInv, LocalServer, CryptoLevels
<1>6. ServerKeys(u)
  BY <1>1, <1>2, <1>3 DEF SInv, ServerKeys
<1>7. ServerOut(u)
  BY <1>1, <1>2, <1>3, <1>4 DEF SInv, ServerOut
<1>8. Together(k, u) /\ Grows(u, t) /\ Pending(u) = Pending(t)
  BY <1>1, <1>2, <1>3, <1>4 DEF Together, Grows, Pending
<1> QED
  BY <1>2, <1>3, <1>5, <1>6, <1>7, <1>8 DEF SInv

\* The rest of the ClientHello, or a repeated part of it.
LEMMA ServerReadsHello ==
  ASSUME NEW k, NEW t, SInv(t), Together(k, t), t.status = "open", "initial" \in t.openers, NEW i \in {1, 2},
         NEW u, u = HandleCryptoFrame("server", t, "initial", i)
  PROVE  SInv(u) /\ Together(k, u) /\ Grows(u, t) /\ Pending(u) = Pending(t) /\ u.complete = t.complete
<1> DEFINE x == [t EXCEPT !.crypto["initial"] = @ \cup {i}]
<1>1. /\ Shaped(t) /\ DOMAIN t.crypto = CryptoLevels /\ "initial" \notin t.finished /\ t.tls \in {"start", "flight"}
      /\ t.crypto["initial"] \subseteq {1, 2} /\ t.crypto["handshake"] = {}
  BY DEF SInv, LocalServer, ServerKeys
<1>2. u = ServerMessage(x)
  BY <1>1 DEF HandleCryptoFrame, HandleMessage
<1>3. /\ Same(x, t, {"crypto"}) /\ x.crypto = [t.crypto EXCEPT !["initial"] = @ \cup {i}]
  BY <1>1 DEF Same, Shaped, Fields
<1> HIDE DEF x
<1>4. /\ DOMAIN x.crypto = CryptoLevels /\ x.crypto["initial"] = t.crypto["initial"] \cup {i} /\ x.crypto["handshake"] = {}
  BY <1>1, <1>3 DEF CryptoLevels
<1>5. /\ x.tls = t.tls /\ x.status = t.status /\ x.owed = t.owed /\ x.out = t.out /\ x.openers = t.openers /\ x.sealers = t.sealers
      /\ x.complete = t.complete /\ x.confirmed = t.confirmed /\ x.finished = t.finished /\ Shaped(x)
      /\ x.undecryptable = t.undecryptable /\ x.todo = t.todo
  BY <1>3 DEF Same, Fields
<1>6. CASE t.tls = "flight" \/ x.crypto["initial"] # {1, 2}
  <2>1. NumRead(x.crypto["handshake"]) = 0
    BY <1>4, NumReadIs
  <2>2. t.tls = "start" => NumRead(x.crypto["initial"]) # 2
    <3>1. x.crypto["initial"] \subseteq {1, 2}
      BY <1>1, <1>4
    <3>2. x.crypto["initial"] # {1, 2} => x.crypto["initial"] = {} \/ x.crypto["initial"] = {1} \/ x.crypto["initial"] = {2}
      BY <3>1
    <3> QED
      BY <1>6, <3>2, NumReadIs
  <2>3. u = x
    BY <1>1, <1>2, <1>5, <2>1, <2>2 DEF ServerMessage
  <2>4. LocalServer(x)
    <3>1. t.tls = "flight" => x.crypto["initial"] = {1, 2}
      BY <1>4 DEF SInv, LocalServer
    <3>2. x.crypto["initial"] \subseteq {1, 2}
      BY <1>1, <1>4
    <3> QED
      BY <1>1, <1>4, <1>5, <1>6, <3>1, <3>2 DEF SInv, LocalServer
  <2>5. ServerKeys(x) /\ ServerOut(x)
    BY <1>5 DEF SInv, ServerKeys, ServerOut
  <2>6. Together(k, x) /\ Grows(x, t) /\ Pending(x) = Pending(t)
    BY <1>5 DEF Together, Grows, Pending
  <2> QED
    BY <1>5, <2>3, <2>4, <2>5, <2>6 DEF SInv
<1>7. CASE t.tls = "start" /\ x.crypto["initial"] = {1, 2}
  <2>1. x.tls = "start" /\ NumRead(x.crypto["initial"]) = 2
    BY <1>5, <1>7, NumReadIs
  <2> DEFINE y == SetWriteKey(SetWriteKey(SetReadKey(x, "handshake"), "handshake"), "oneRTT")
             z == IF early = "accepted" THEN SetReadKey(y, "zeroRTT") ELSE y
             w == WriteRecord([z EXCEPT !.tls = "flight"], {"SH", "EE", "SFIN", "DATA"})
  <2>2. u = ReceivedReadKeys(w)
    BY <1>2, <2>1 DEF ServerMessage
  <2>3. /\ Same(y, x, {"openers", "sealers"}) /\ y.openers = x.openers \cup {"handshake"}
        /\ y.sealers = (x.sealers \cup {"handshake"}) \cup {"oneRTT"}
    BY Zenon, <1>5 DEF SetReadKey, SetWriteKey, Same, Shaped, Fields
  <2> HIDE DEF y
  <2>4. /\ Same(z, y, {"openers"}) /\ y.openers \subseteq z.openers /\ z.openers \subseteq y.openers \cup {"zeroRTT"}
    BY <2>3 DEF SetReadKey, Same, Shaped, Fields
  <2> HIDE DEF z
  <2>5. /\ Same(w, z, {"tls", "out"}) /\ w.tls = "flight" /\ w.out = z.out \cup {"SH", "EE", "SFIN", "DATA"}
    BY Zenon, <2>4 DEF WriteRecord, Same, Shaped, Fields
  <2> HIDE DEF w
  <2>6. /\ Same(u, w, {"todo", "undecryptable"}) /\ u.todo = w.todo \cup w.undecryptable /\ u.undecryptable = {}
    BY Zenon, <2>2, <2>5 DEF ReceivedReadKeys, Same, Shaped, Fields
  <2>7. /\ Shaped(u) /\ u.tls = "flight" /\ u.crypto = x.crypto /\ u.status = "open" /\ u.owed = t.owed /\ u.finished = t.finished
        /\ u.complete = t.complete /\ u.confirmed = t.confirmed
    BY <1>5, <2>3, <2>4, <2>5, <2>6 DEF Same, Fields
  <2>8. /\ u.out = t.out \cup {"SH", "EE", "SFIN", "DATA"} /\ u.sealers = (t.sealers \cup {"handshake"}) \cup {"oneRTT"}
    BY <1>5, <2>3, <2>4, <2>5, <2>6 DEF Same, Fields
  <2>9. /\ t.openers \cup {"handshake"} \subseteq u.openers /\ u.openers \subseteq t.openers \cup {"handshake", "zeroRTT"}
    BY <1>5, <2>3, <2>4, <2>5, <2>6 DEF Same, Fields
  <2>10. u.todo = t.todo \cup t.undecryptable /\ u.undecryptable = {}
    BY <1>5, <2>3, <2>4, <2>5, <2>6 DEF Same, Fields
  <2>11. LocalServer(u)
    BY Zenon, <1>1, <1>4, <1>7, <2>7 DEF SInv, LocalServer
  <2>12. ServerKeys(u)
    BY <1>1, <1>7, <2>7, <2>8, <2>9 DEF SInv, ServerKeys, LocalServer, Levels
  <2>13. ServerOut(u)
    BY <1>7, <2>7, <2>8 DEF SInv, ServerOut
  <2>14. Together(k, u) /\ Grows(u, t) /\ Pending(u) = Pending(t)
    BY <1>7, <2>7, <2>10 DEF Together, Grows, Pending, SInv, LocalServer
  <2> QED
    BY <2>7, <2>11, <2>12, <2>13, <2>14 DEF SInv
<1> QED
  BY <1>1, <1>6, <1>7

\* The client's Finished completes the handshake, which confirms it at once.
LEMMA ServerFinishes ==
  ASSUME NEW k, NEW t, SInv(t), Together(k, t), t.status = "open", "handshake" \in t.openers, "initial" \in t.finished,
         k.tls = "done", "initial" \in k.finished,
         NEW p, p.f = "CFIN",
         NEW u, u = HandleFrames("server", t, p, "handshake")
  PROVE  SInv(u) /\ Together(k, u) /\ Grows(u, t) /\ Pending(u) \subseteq Pending(t)
<1> DEFINE x == [t EXCEPT !.crypto["handshake"] = @ \cup {1}]
           y == [SetReadKey(x, "oneRTT") EXCEPT !.tls = "done", !.complete = TRUE]
           z == ReceivedReadKeys(y)
           w == [z EXCEPT !.undecryptable = {}]
           v == DropEncryptionLevel(w, "handshake")
<1>1. /\ Shaped(t) /\ DOMAIN t.crypto = CryptoLevels /\ "handshake" \notin t.finished /\ t.tls = "flight"
      /\ t.crypto["handshake"] = {} /\ t.complete = FALSE
  BY Zenon DEF SInv, LocalServer, ServerKeys
<1>2. /\ Same(x, t, {"crypto"}) /\ x.crypto = [t.crypto EXCEPT !["handshake"] = @ \cup {1}]
  BY <1>1 DEF Same, Shaped, Fields
<1>3. HandleFrame("server", t, p, "handshake") = ServerMessage(x)
  BY <1>1, ChunkIs DEF HandleFrame, HandleCryptoFrame, HandleMessage
<1> HIDE DEF x
<1>4. /\ DOMAIN x.crypto = CryptoLevels /\ x.crypto["handshake"] = {1} /\ x.crypto["initial"] = t.crypto["initial"]
  BY <1>1, <1>2 DEF CryptoLevels
<1>5. x.tls = "flight" /\ NumRead(x.crypto["handshake"]) = 1 /\ Shaped(x)
  BY <1>1, <1>2, <1>4, NumReadIs DEF Same, Fields
<1>6. ServerMessage(x) = z
  BY <1>5 DEF ServerMessage
<1>7. /\ Same(y, x, {"openers", "tls", "complete"}) /\ y.openers = x.openers \cup {"oneRTT"} /\ y.tls = "done" /\ y.complete = TRUE
  BY Zenon, <1>5 DEF SetReadKey, Same, Shaped, Fields
<1> HIDE DEF y
<1>8. /\ Same(z, y, {"todo", "undecryptable"}) /\ z.todo = y.todo \cup y.undecryptable
  BY Zenon, <1>7 DEF ReceivedReadKeys, Same, Shaped, Fields
<1>9. u = HandleHandshakeComplete("server", z)
  BY <1>1, <1>3, <1>6, <1>7, <1>8 DEF HandleFrames, Same, Fields
<1> HIDE DEF z
<1>10. Same(w, z, {"undecryptable"}) /\ w.undecryptable = {}
  BY <1>8 DEF Same, Shaped, Fields
<1>11. u = [[v EXCEPT !.confirmed = TRUE] EXCEPT !.out = @ \cup {"HSD"}]
  BY <1>9 DEF HandleHandshakeComplete, HandshakeConfirmed
<1> HIDE DEF w
<1>12. w.crypto = x.crypto /\ Shaped(w)
  BY <1>7, <1>8, <1>10 DEF Same, Fields
<1>13. ~HasMoreData(w.crypto["handshake"])
  BY <1>4, <1>12, NoMoreData
<1>14. /\ Same(v, w, {"openers", "sealers", "finished", "out"})
       /\ v.openers = w.openers \ {"handshake"} /\ v.sealers = w.sealers \ {"handshake"} /\ v.finished = w.finished \cup {"handshake"}
       /\ v.out = {f \in w.out : f \in DOMAIN Chunk => Chunk[f].lvl # "handshake"}
  BY <1>12, <1>13, DropIs
<1> HIDE DEF v
<1>15. Same(u, v, {"confirmed", "out"}) /\ u.confirmed = TRUE /\ u.out = v.out \cup {"HSD"}
  BY Zenon, <1>11, <1>14 DEF Same, Shaped, Fields
<1>16. /\ Shaped(u) /\ u.tls = "done" /\ u.complete = TRUE /\ u.confirmed = TRUE /\ u.crypto = x.crypto /\ u.status = "open" /\ u.owed = t.owed
  BY <1>2, <1>7, <1>8, <1>10, <1>14, <1>15 DEF Same, Fields
<1>17. /\ u.finished = t.finished \cup {"handshake"} /\ u.sealers = t.sealers \ {"handshake"}
       /\ u.openers = (t.openers \cup {"oneRTT"}) \ {"handshake"}
  BY <1>2, <1>7, <1>8, <1>10, <1>14, <1>15 DEF Same, Fields
<1>18. u.todo = t.todo \cup t.undecryptable /\ u.undecryptable = {}
  BY <1>2, <1>7, <1>8, <1>10, <1>14, <1>15 DEF Same, Fields
<1>19. u.out \subseteq t.out \cup {"HSD"} /\ "HSD" \in u.out
  BY <1>2, <1>7, <1>8, <1>10, <1>14, <1>15 DEF Same, Fields
<1>20. LocalServer(u)
  BY Zenon, <1>1, <1>4, <1>16, <1>17 DEF SInv, LocalServer, CryptoLevels
<1>21. ServerKeys(u)
  BY <1>1, <1>16, <1>17 DEF SInv, ServerKeys, LocalServer, Levels
<1>22. ServerOut(u)
  BY <1>16, <1>17, <1>19 DEF SInv, ServerOut
<1>23. Together(k, u) /\ Grows(u, t) /\ Pending(u) \subseteq Pending(t)
  BY <1>16, <1>17, <1>18, <1>19 DEF Together, Grows, Pending
<1> QED
  BY <1>16, <1>20, <1>21, <1>22, <1>23 DEF SInv

\* An ACK, a PING or application data, which move nothing.
LEMMA ServerStays ==
  ASSUME NEW k, NEW t, SInv(t), Together(k, t), t.status = "open", NEW u, Same(u, t, {"out", "got"}),
         \E f \in AppFrames : u.out = t.out \ {f} /\ (f = "HSD" => k.confirmed)
  PROVE  SInv(u) /\ Together(k, u) /\ Grows(u, t) /\ Pending(u) = Pending(t)
<1>1. /\ Shaped(u) /\ u.tls = t.tls /\ u.crypto = t.crypto /\ u.finished = t.finished /\ u.sealers = t.sealers /\ u.openers = t.openers
      /\ u.complete = t.complete /\ u.confirmed = t.confirmed /\ u.status = t.status /\ u.owed = t.owed
      /\ u.undecryptable = t.undecryptable /\ u.todo = t.todo
  BY DEF Same, Fields
<1>2. u.out \subseteq t.out /\ (\A f \in {"SH", "EE", "SFIN"} : f \in t.out => f \in u.out)
      /\ ("HSD" \in t.out => "HSD" \in u.out \/ k.confirmed)
  BY DEF AppFrames
<1>3. LocalServer(u) /\ ServerKeys(u)
  BY <1>1 DEF SInv, LocalServer, ServerKeys
<1>4. ServerOut(u)
  BY <1>1, <1>2 DEF SInv, ServerOut
<1>5. Together(k, u) /\ Grows(u, t) /\ Pending(u) = Pending(t)
  BY <1>1, <1>2 DEF Together, Grows, Pending
<1> QED
  BY <1>1, <1>3, <1>4, <1>5 DEF SInv

\* The packet is owed an ACK.
LEMMA ServerOwes ==
  ASSUME NEW k, NEW t, SInv(t), Together(k, t), NEW f, NEW l, l = "oneRTT" => t.tls = "done",
         NEW u, u = [t EXCEPT !.owed = @ \cup ({[f |-> f, lvl |-> l]} \cap Acks)]
  PROVE  SInv(u) /\ Together(k, u) /\ Grows(u, t) /\ Pending(u) = Pending(t)
<1>0. Shaped(t)
  BY DEF SInv
<1>1. /\ Shaped(u) /\ u.tls = t.tls /\ u.crypto = t.crypto /\ u.finished = t.finished /\ u.sealers = t.sealers /\ u.openers = t.openers
      /\ u.complete = t.complete /\ u.confirmed = t.confirmed /\ u.status = t.status /\ u.out = t.out
      /\ u.undecryptable = t.undecryptable /\ u.todo = t.todo
  BY <1>0 DEF Shaped, Fields
<1>2. u.owed = t.owed \cup ({[f |-> f, lvl |-> l]} \cap Acks)
  BY <1>0 DEF Shaped, Fields
<1>3. u.owed \subseteq Acks /\ \A a \in u.owed : a.lvl = "oneRTT" => u.tls = "done"
  BY <1>1, <1>2 DEF SInv, ServerOut
<1>4. LocalServer(u) /\ ServerKeys(u)
  BY <1>1 DEF SInv, LocalServer, ServerKeys
<1>5. ServerOut(u)
  BY <1>1, <1>3 DEF SInv, ServerOut
<1>6. Together(k, u) /\ Grows(u, t) /\ Pending(u) = Pending(t)
  BY <1>1 DEF Together, Grows, Pending
<1> QED
  BY <1>1, <1>4, <1>5, <1>6 DEF SInv


\* The server handles a packet that it can read.
LEMMA ServerUnpacked ==
  ASSUME NEW k, NEW t, SInv(t), Together(k, t), t.status = "open", NEW p, PacketOK(p, k, t), p.to = "server",
         NEW l \in p.lvls, l \in t.openers,
         NEW u, u = HandleUnpacked("server", t, p, l)
  PROVE  SInv(u) /\ Together(k, u) /\ Grows(u, t) /\ Pending(u) \subseteq Pending(t)
<1> DEFINE d == IF l = "handshake" /\ "initial" \in t.openers THEN DropEncryptionLevel(t, "initial") ELSE t
           g == HandleFrames("server", d, p, l)
<1>1. u = [g EXCEPT !.owed = @ \cup ({[f |-> p.f, lvl |-> l]} \cap Acks)]
  BY DEF HandleUnpacked
<1>2. l = "handshake" => k.tls # "start"
  BY DEF PacketOK, ToServer
<1>3. /\ SInv(d) /\ Together(k, d) /\ Grows(d, t) /\ Pending(d) = Pending(t)
      /\ d.status = "open" /\ l \in d.openers /\ d.tls = t.tls /\ d.complete = t.complete
      /\ l = "handshake" => "initial" \in d.finished
  <2>1. CASE l = "handshake" /\ "initial" \in t.openers
    <3>1. d = DropEncryptionLevel(t, "initial")
      BY <2>1
    <3>2. /\ SInv(d) /\ Together(k, d) /\ Grows(d, t) /\ Pending(d) = Pending(t)
          /\ d.status = "open" /\ d.openers = t.openers \ {"initial"} /\ d.tls = t.tls /\ d.complete = t.complete
      BY <1>2, <2>1, <3>1, ServerDropsInitial
    <3>3. "initial" \in d.finished
      BY <3>2 DEF SInv, ServerKeys
    <3> QED
      BY <2>1, <3>2, <3>3
  <2>2. CASE ~(l = "handshake" /\ "initial" \in t.openers)
    <3>1. d = t
      BY <2>2
    <3>2. l = "handshake" => "initial" \in t.finished
      BY <2>2 DEF SInv, ServerKeys
    <3>3. Grows(t, t)
      BY DEF Grows
    <3> QED
      BY <3>1, <3>2, <3>3
  <2> QED
    BY <2>1, <2>2
<1> HIDE DEF d
<1>4. l \in Levels /\ (p.f # "CLOSE" => p.lvls = {l}) /\ (p.f \in DOMAIN Chunk => l = Chunk[p.f].lvl /\ Chunk[p.f].by = "client")
  BY ChunkIs DEF PacketOK, PacketShape, Peer
<1>5. l = "oneRTT" => d.tls = "done"
  BY <1>3 DEF SInv, ServerKeys
<1>6. SInv(g) /\ Together(k, g) /\ Grows(g, d) /\ Pending(g) \subseteq Pending(d)
  <2>0. d.complete = (d.tls = "done") /\ Shaped(d)
    BY <1>3 DEF SInv, LocalServer
  <2>1. CASE p.f \in {"CH1", "CH2"}
    <3>1. l = "initial" /\ Chunk[p.f].i \in {1, 2}
      BY <1>4, <2>1, ChunkIs
    <3>2. HandleFrame("server", d, p, l) = HandleCryptoFrame("server", d, "initial", Chunk[p.f].i)
      BY <2>1, <3>1, ChunkIs DEF HandleFrame
    <3> DEFINE h == HandleCryptoFrame("server", d, "initial", Chunk[p.f].i)
    <3>3. SInv(h) /\ Together(k, h) /\ Grows(h, d) /\ Pending(h) = Pending(d) /\ h.complete = d.complete
      BY <1>3, <3>1, ServerReadsHello
    <3>4. g = h
      BY <3>2, <3>3 DEF HandleFrames
    <3> QED
      BY <3>3, <3>4
  <2>2. CASE p.f = "CFIN"
    <3>1. l = "handshake" /\ k.tls = "done" /\ "initial" \in k.finished
      BY <1>4, <2>2, ChunkIs DEF PacketOK, ToServer
    <3> QED
      BY <1>3, <2>2, <3>1, ServerFinishes
  <2>3. CASE p.f \in {"SH", "EE", "SFIN", "HSD"}
    BY <1>4, <2>3, ChunkIs DEF PacketOK, PacketShape
  <2>4. CASE p.f = "ACK"
    <3>1. HandleFrame("server", d, p, l) = [d EXCEPT !.out = @ \ {p.of.f}]
      BY <2>4, ChunkIs DEF HandleFrame, HandleAckFrame
    <3>2. p.of.f \in AppFrames /\ (p.of.f = "HSD" => k.confirmed)
      BY <2>4 DEF PacketOK, PacketShape, ToServer, Acks, AppFrames
    <3> DEFINE h == [d EXCEPT !.out = @ \ {p.of.f}]
    <3>3. Same(h, d, {"out", "got"}) /\ h.out = d.out \ {p.of.f} /\ h.complete = d.complete
      BY <2>0 DEF Same, Shaped, Fields
    <3> HIDE DEF h
    <3>4. g = h
      BY Zenon, <3>1, <3>3 DEF HandleFrames, h
    <3> QED
      BY <1>3, <3>2, <3>3, <3>4, ServerStays
  <2>5. CASE p.f = "CLOSE"
    <3>1. HandleFrame("server", d, p, l) = Closed(d, "remote")
      BY <2>5, ChunkIs DEF HandleFrame
    <3>2. Closed(d, "remote").complete = d.complete
      BY <2>0, ClosedIs DEF Same, Fields
    <3>3. g = Closed(d, "remote")
      BY <3>1, <3>2 DEF HandleFrames
    <3> QED
      BY <1>3, <3>3, ServerCloses
  <2>6. CASE p.f \in {"EARLY", "DATA", "PING"}
    <3> DEFINE h == [d EXCEPT !.got = @ \cup ({p.f} \cap AppFrames)]
    <3>1. HandleFrame("server", d, p, l) = h
      BY <2>6, ChunkIs DEF HandleFrame
    <3>2. Same(h, d, {"out", "got"}) /\ h.out = d.out /\ h.complete = d.complete
      BY <2>0 DEF Same, Shaped, Fields
    <3> HIDE DEF h
    <3>3. g = h
      BY <3>1, <3>2 DEF HandleFrames
    <3>4. SInv(d) /\ "EARLY" \notin d.out
      BY <1>3 DEF SInv, ServerOut
    <3>5. \E f \in AppFrames : h.out = d.out \ {f} /\ (f = "HSD" => k.confirmed)
      BY <3>2, <3>4 DEF AppFrames
    <3> QED
      BY <1>3, <3>2, <3>3, <3>5, ServerStays
  <2>7. p.f \in {"CH1", "CH2", "CFIN", "SH", "EE", "SFIN", "HSD", "ACK", "CLOSE", "EARLY", "DATA", "PING"}
    BY ChunkIs DEF PacketOK, PacketShape, AllFrames, Frames, AppFrames
  <2> QED
    BY <2>1, <2>2, <2>3, <2>4, <2>5, <2>6, <2>7
<1> HIDE DEF g
<1>7. l = "oneRTT" => g.tls = "done"
  BY <1>5, <1>6 DEF Grows
<1>8. SInv(u) /\ Together(k, u) /\ Grows(u, g) /\ Pending(u) = Pending(g)
  BY SMTT(30), <1>1, <1>6, <1>7, ServerOwes
<1>9. Grows(u, t)
  BY <1>3, <1>6, <1>8 DEF Grows
<1> QED
  BY <1>3, <1>6, <1>8, <1>9

\* A packet that the server cannot read waits, if a key may come; none is awaited in vain.
LEMMA ServerHandles ==
  ASSUME NEW k, NEW t, SInv(t), Together(k, t), t.status = "open", NEW p, PacketOK(p, k, t), p.to = "server",
         NEW u, u = HandleOnePacket("server", t, p)
  PROVE  SInv(u) /\ Together(k, u) /\ Grows(u, t) /\ Pending(u) \subseteq Pending(t) \cup {p}
<1> DEFINE d == Get1RTTOpener(t, p)
<1>1. /\ Same(d, t, {"openers"}) /\ (d.openers = t.openers \/ d.openers = t.openers \ {"zeroRTT"})
  BY DEF Get1RTTOpener, Same, Shaped, Fields, SInv
<1> HIDE DEF d
<1>2. /\ Shaped(d) /\ d.tls = t.tls /\ d.crypto = t.crypto /\ d.finished = t.finished /\ d.sealers = t.sealers /\ d.out = t.out
      /\ d.complete = t.complete /\ d.confirmed = t.confirmed /\ d.status = t.status /\ d.owed = t.owed
      /\ d.undecryptable = t.undecryptable /\ d.todo = t.todo
  BY <1>1 DEF Same, Fields
<1>3. SInv(d) /\ Together(k, d) /\ Grows(d, t) /\ Pending(d) = Pending(t) /\ PacketOK(p, k, d)
  <2>1. LocalServer(d) /\ ServerOut(d)
    BY <1>2 DEF SInv, LocalServer, ServerOut
  <2>2. ServerKeys(d)
    BY <1>1, <1>2 DEF SInv, ServerKeys
  <2>3. Together(k, d) /\ Grows(d, t) /\ Pending(d) = Pending(t) /\ PacketOK(p, k, d)
    BY <1>2 DEF Together, Grows, Pending, PacketOK, ToClient
  <2> QED
    BY <1>2, <2>1, <2>2, <2>3 DEF SInv
<1>4. CASE Unpackable(d, p) # {}
  <2> DEFINE l == CHOOSE x \in Unpackable(d, p) : TRUE
  <2>1. l \in p.lvls /\ l \in d.openers
    BY <1>4 DEF Unpackable
  <2>2. u = HandleUnpacked("server", d, p, l)
    BY <1>4 DEF HandleOnePacket, d
  <2> HIDE DEF l
  <2>3. SInv(u) /\ Together(k, u) /\ Grows(u, d) /\ Pending(u) \subseteq Pending(d)
    BY <1>2, <1>3, <2>1, <2>2, ServerUnpacked
  <2> QED
    BY <1>3, <2>3 DEF Grows
<1>5. CASE Unpackable(d, p) = {}
  <2>1. u = HandleUnpackError("server", d, p)
    BY <1>5 DEF HandleOnePacket, d
  <2>2. d.complete => \A l \in p.lvls : ~KeysNotYetAvailable("server", d, l)
    BY Zenon, <1>2, <1>3 DEF SInv, LocalServer, ServerKeys, KeysNotYetAvailable
  <2>3. u = d \/ u = [d EXCEPT !.undecryptable = @ \cup {p}]
    BY Zenon, <2>1, <2>2 DEF HandleUnpackError, TryQueueingUndecryptable
  <2>4. CASE u = d
    BY <1>3, <2>4
  <2>5. CASE u = [d EXCEPT !.undecryptable = @ \cup {p}]
    <3>1. /\ Shaped(u) /\ u.tls = d.tls /\ u.crypto = d.crypto /\ u.finished = d.finished /\ u.sealers = d.sealers /\ u.out = d.out
          /\ u.complete = d.complete /\ u.confirmed = d.confirmed /\ u.status = d.status /\ u.owed = d.owed /\ u.openers = d.openers
          /\ u.undecryptable = d.undecryptable \cup {p} /\ u.todo = d.todo
      BY <1>2, <2>5 DEF Shaped, Fields
    <3>2. LocalServer(u) /\ ServerOut(u) /\ ServerKeys(u)
      BY SMTT(30), <1>3, <3>1 DEF SInv, LocalServer, ServerOut, ServerKeys
    <3>3. Together(k, u) /\ Grows(u, t) /\ Pending(u) \subseteq Pending(t) \cup {p}
      BY <1>3, <3>1 DEF Together, Grows, Pending
    <3> QED
      BY <3>1, <3>2, <3>3 DEF SInv
  <2> QED
    BY <2>3, <2>4, <2>5
<1> QED
  BY <1>4, <1>5

--------------------------------------------------------------------------------
(* The client handles a packet.                                                  *)

LEMMA StillTogether ==
  ASSUME NEW v, NEW t, Together(t, v), NEW u, Grows(u, t),
         u.tls # "start" => v.tls # "start", u.confirmed => v.tls = "done"
  PROVE  Together(u, v)
BY DEF Together, Grows

LEMMA ClientCloses ==
  ASSUME NEW t, CInv(t), NEW how \in {"closed", "remote"}
  PROVE  LET u == Closed(t, how)
         IN  CInv(u) /\ Grows(u, t) /\ Pending(u) = {} /\ u.tls = t.tls /\ u.confirmed = t.confirmed /\ u.complete = t.complete
<1> DEFINE u == Closed(t, how)
<1>0. Shaped(t)
  BY DEF CInv
<1>1. /\ Same(u, t, {"status", "openers", "out", "owed", "got", "undecryptable", "todo"})
      /\ u.status = how /\ u.openers = {} /\ u.out = {} /\ u.owed = {} /\ u.undecryptable = {} /\ u.todo = {}
  BY <1>0, ClosedIs
<1> HIDE DEF u
<1>2. /\ u.tls = t.tls /\ u.crypto = t.crypto /\ u.finished = t.finished /\ u.sealers = t.sealers
      /\ u.complete = t.complete /\ u.confirmed = t.confirmed /\ Shaped(u)
  BY <1>1 DEF Same, Fields
<1>3. LocalClient(u)
  BY <1>1, <1>2 DEF CInv, LocalClient
<1>4. ClientKeys(u)
  BY <1>1, <1>2 DEF CInv, ClientKeys
<1>5. ClientOut(u)
  BY <1>1, <1>2 DEF CInv, ClientOut
<1>6. Grows(u, t) /\ Pending(u) = {}
  BY <1>1, <1>2 DEF Grows, Pending
<1> QED
  BY <1>2, <1>3, <1>4, <1>5, <1>6 DEF CInv, u

\* The client drops a level: Initial with its first Handshake packet, Handshake when the
\* handshake is confirmed.
LEMMA ClientDropsInitial ==
  ASSUME NEW t, CInv(t), t.status = "open", t.tls # "start", NEW u, u = DropEncryptionLevel(t, "initial")
  PROVE  /\ CInv(u) /\ Grows(u, t) /\ Pending(u) = Pending(t) /\ "initial" \in u.finished
         /\ u.tls = t.tls /\ u.confirmed = t.confirmed /\ u.status = "open"
<1>1. Shaped(t) /\ t.crypto["initial"] = {1}
  BY DEF CInv, LocalClient
<1>2. ~HasMoreData(t.crypto["initial"])
  BY <1>1, NoMoreData
<1>3. Shaped(t) /\ u = DropEncryptionLevel(t, "initial")
  BY <1>1
<1>4. /\ Same(u, t, {"openers", "sealers", "finished", "out"})
      /\ u.openers = t.openers \ {"initial"} /\ u.sealers = t.sealers \ {"initial"} /\ u.finished = t.finished \cup {"initial"}
      /\ u.out = {f \in t.out : f \in DOMAIN Chunk => Chunk[f].lvl # "initial"}
  BY ONLY <1>2, <1>3, DropIs
<1>5. /\ u.tls = t.tls /\ u.crypto = t.crypto /\ u.status = t.status /\ u.owed = t.owed
      /\ u.complete = t.complete /\ u.confirmed = t.confirmed /\ Shaped(u)
      /\ u.undecryptable = t.undecryptable /\ u.todo = t.todo
  BY <1>4 DEF Same, Fields
<1>6. u.out \subseteq t.out /\ ("CFIN" \in t.out => "CFIN" \in u.out)
  BY <1>4, ChunkIs
<1>7. LocalClient(u)
  BY <1>4, <1>5 DEF CInv, LocalClient, CryptoLevels
<1>8. ClientKeys(u)
  BY <1>4, <1>5 DEF CInv, ClientKeys
<1>9. ClientOut(u)
  BY <1>4, <1>5, <1>6 DEF CInv, ClientOut
<1>10. Grows(u, t) /\ Pending(u) = Pending(t) /\ "initial" \in u.finished
  BY <1>4, <1>5 DEF Grows, Pending
<1> QED
  BY <1>5, <1>7, <1>8, <1>9, <1>10 DEF CInv

LEMMA ClientConfirms ==
  ASSUME NEW t, CInv(t), t.status = "open", t.tls = "done", NEW u, u = HandshakeConfirmed(t)
  PROVE  CInv(u) /\ Grows(u, t) /\ Pending(u) = Pending(t) /\ u.tls = "done" /\ u.confirmed = TRUE /\ u.complete = t.complete
<1> DEFINE w == DropEncryptionLevel(t, "handshake")
<1>1. Shaped(t) /\ t.crypto["handshake"] = {1, 2}
  BY DEF CInv, LocalClient
<1>2. ~HasMoreData(t.crypto["handshake"])
  BY <1>1, NoMoreData
<1>3. Shaped(t)
  BY <1>1
<1>4. /\ Same(w, t, {"openers", "sealers", "finished", "out"})
      /\ w.openers = t.openers \ {"handshake"} /\ w.sealers = t.sealers \ {"handshake"} /\ w.finished = t.finished \cup {"handshake"}
      /\ w.out = {f \in t.out : f \in DOMAIN Chunk => Chunk[f].lvl # "handshake"}
  BY ONLY <1>2, <1>3, DropIs
<1>5. u = [w EXCEPT !.confirmed = TRUE]
  BY DEF HandshakeConfirmed
<1> HIDE DEF w
<1>6. Same(u, w, {"confirmed"}) /\ u.confirmed = TRUE
  BY <1>4, <1>5 DEF Same, Shaped, Fields
<1>7. /\ u.tls = t.tls /\ u.crypto = t.crypto /\ u.status = t.status /\ u.owed = t.owed
      /\ u.complete = t.complete /\ Shaped(u)
      /\ u.undecryptable = t.undecryptable /\ u.todo = t.todo
  BY <1>4, <1>6 DEF Same, Fields
<1>8. u.openers = t.openers \ {"handshake"} /\ u.sealers = t.sealers \ {"handshake"} /\ u.finished = t.finished \cup {"handshake"}
      /\ u.out = {f \in t.out : f \in DOMAIN Chunk => Chunk[f].lvl # "handshake"}
  BY <1>4, <1>6 DEF Same, Fields
<1>9. u.out \subseteq t.out /\ \A f \in {"CH1", "CH2"} : f \in t.out => f \in u.out
  BY <1>8, ChunkIs
<1>10. LocalClient(u)
  BY <1>6, <1>7, <1>8 DEF CInv, LocalClient, CryptoLevels
<1>11. ClientKeys(u)
  BY <1>7, <1>8 DEF CInv, ClientKeys
<1>12. ClientOut(u)
  BY <1>6, <1>7, <1>8, <1>9 DEF CInv, ClientOut
<1>13. Grows(u, t) /\ Pending(u) = Pending(t)
  BY <1>6, <1>7, <1>8 DEF Grows, Pending
<1> QED
  BY <1>6, <1>7, <1>10, <1>11, <1>12, <1>13 DEF CInv

\* The ServerHello.
LEMMA ClientReadsHello ==
  ASSUME NEW t, CInv(t), t.status = "open", "initial" \in t.openers,
         NEW u, u = HandleCryptoFrame("client", t, "initial", 1)
  PROVE  CInv(u) /\ Grows(u, t) /\ Pending(u) = Pending(t) /\ u.complete = t.complete /\ u.confirmed = t.confirmed
<1> DEFINE x == [t EXCEPT !.crypto["initial"] = @ \cup {1}]
           y == ClientHello1(x)
<1>1. /\ Shaped(t) /\ DOMAIN t.crypto = CryptoLevels /\ "initial" \notin t.finished
      /\ t.tls \in {"start", "hello", "extensions", "done"} /\ t.crypto["initial"] \in {{}, {1}}
  BY DEF CInv, LocalClient, ClientKeys
<1>2. u = ClientFinished(ClientExtensions(y))
  BY <1>1 DEF HandleCryptoFrame, HandleMessage
<1>3. /\ Same(x, t, {"crypto"}) /\ x.crypto = [t.crypto EXCEPT !["initial"] = @ \cup {1}]
  BY <1>1 DEF Same, Shaped, Fields
<1> HIDE DEF x
<1>4. /\ DOMAIN x.crypto = CryptoLevels /\ x.crypto["initial"] = {1} /\ x.crypto["handshake"] = t.crypto["handshake"]
  BY <1>1, <1>3 DEF CryptoLevels
<1>5. /\ x.tls = t.tls /\ x.status = t.status /\ x.owed = t.owed /\ x.out = t.out /\ x.openers = t.openers /\ x.sealers = t.sealers
      /\ x.complete = t.complete /\ x.confirmed = t.confirmed /\ x.finished = t.finished /\ Shaped(x)
      /\ x.undecryptable = t.undecryptable /\ x.todo = t.todo
  BY <1>3 DEF Same, Fields
<1>6. NumRead(x.crypto["initial"]) = 1
  BY <1>4, NumReadIs
<1>7. CASE t.tls = "start"
  <2> DEFINE w == [USetWriteKey(USetReadKey(x, "handshake"), "handshake") EXCEPT !.tls = "hello"]
  <2>1. y = ReceivedReadKeys(w)
    BY <1>5, <1>6, <1>7 DEF ClientHello1
  <2>2. /\ Same(w, x, {"openers", "sealers", "tls"}) /\ w.tls = "hello" /\ w.openers = x.openers \cup {"handshake"}
        /\ w.sealers = x.sealers \cup {"handshake"}
    BY Zenon, <1>5 DEF USetReadKey, USetWriteKey, Same, Shaped, Fields
  <2> HIDE DEF w, y
  <2>3. /\ Same(y, w, {"todo", "undecryptable"}) /\ y.todo = w.todo \cup w.undecryptable /\ y.undecryptable = {}
    BY Zenon, <2>1, <2>2 DEF ReceivedReadKeys, Same, Shaped, Fields
  <2>4. /\ Shaped(y) /\ y.tls = "hello" /\ y.crypto = x.crypto /\ y.status = "open" /\ y.owed = t.owed /\ y.finished = t.finished
        /\ y.complete = t.complete /\ y.confirmed = t.confirmed /\ y.out = t.out
    BY <1>5, <2>2, <2>3 DEF Same, Fields
  <2>5. y.sealers = t.sealers \cup {"handshake"} /\ y.openers = t.openers \cup {"handshake"}
    BY <1>5, <2>2, <2>3 DEF Same, Fields
  <2>6. y.todo = t.todo \cup t.undecryptable /\ y.undecryptable = {}
    BY <1>5, <2>2, <2>3 DEF Same, Fields
  <2>7. t.crypto["handshake"] = {}
    BY <1>7 DEF CInv, LocalClient
  <2>8. NumRead(y.crypto["handshake"]) = 0
    BY <1>4, <2>4, <2>7, NumReadIs
  <2>9. u = y
    BY <1>2, <2>4, <2>8 DEF ClientExtensions, ClientFinished
  <2>10. LocalClient(y)
    BY <1>4, <1>7, <2>4, <2>7 DEF CInv, LocalClient
  <2>11. ClientKeys(y)
    <3>1. t.finished \subseteq {"initial"}
      BY <1>7 DEF CInv, LocalClient, CryptoLevels
    <3> QED
      BY <1>7, <2>4, <2>5, <3>1 DEF CInv, ClientKeys, Levels
  <2>12. ClientOut(y)
    BY <1>7, <2>4 DEF CInv, ClientOut
  <2>13. Grows(y, t) /\ Pending(y) = Pending(t)
    BY <1>7, <2>4, <2>6 DEF Grows, Pending
  <2> QED
    BY <2>4, <2>9, <2>10, <2>11, <2>12, <2>13 DEF CInv
<1>8. CASE t.tls # "start"
  <2>1. y = x
    BY <1>5, <1>8 DEF ClientHello1
  <2>2. /\ t.tls = "hello" => t.crypto["handshake"] = {} \/ t.crypto["handshake"] = {2}
        /\ t.tls = "extensions" => t.crypto["handshake"] = {1}
    BY DEF CInv, LocalClient
  <2>3. (t.tls = "hello" => NumRead(x.crypto["handshake"]) = 0) /\ (t.tls = "extensions" => NumRead(x.crypto["handshake"]) = 1)
    BY Zenon, <1>4, <2>2, NumReadIs
  <2>4. u = x
    BY <1>1, <1>2, <1>5, <2>1, <2>3 DEF ClientExtensions, ClientFinished
  <2>5. LocalClient(x)
    BY <1>1, <1>4, <1>5, <1>8 DEF CInv, LocalClient
  <2>6. ClientKeys(x) /\ ClientOut(x)
    BY <1>5 DEF CInv, ClientKeys, ClientOut
  <2>7. Grows(x, t) /\ Pending(x) = Pending(t)
    BY <1>5 DEF Grows, Pending
  <2> QED
    BY <1>5, <2>4, <2>5, <2>6, <2>7 DEF CInv
<1> QED
  BY <1>7, <1>8

\* The server's Finished: the client has all keys and sends its own Finished.
LEMMA ClientFinishes ==
  ASSUME NEW t, Shaped(t), t.tls = "extensions", t.crypto["handshake"] = {1, 2}, NEW u, u = ClientFinished(t)
  PROVE  /\ Same(u, t, {"openers", "sealers", "out", "tls", "complete", "todo", "undecryptable"})
         /\ u.openers = t.openers \cup {"oneRTT"} /\ u.sealers = (t.sealers \ {"zeroRTT"}) \cup {"oneRTT"}
         /\ u.out = t.out \cup {"CFIN"} /\ u.tls = "done" /\ u.complete = TRUE
         /\ u.todo = t.todo \cup t.undecryptable /\ u.undecryptable = {}
<1> DEFINE y == USetWriteKey(USetReadKey(t, "oneRTT"), "oneRTT")
           w == [WriteRecord(y, {"CFIN"}) EXCEPT !.tls = "done", !.complete = TRUE]
<1>1. NumRead(t.crypto["handshake"]) = 2
  BY NumReadIs
<1>2. u = ReceivedReadKeys(w)
  BY <1>1 DEF ClientFinished
<1>3. Same(y, t, {"openers", "sealers"}) /\ y.openers = t.openers \cup {"oneRTT"} /\ y.sealers = (t.sealers \ {"zeroRTT"}) \cup {"oneRTT"}
  BY Zenon DEF USetReadKey, USetWriteKey, Same, Shaped, Fields
<1> HIDE DEF y
<1>4. Same(w, y, {"out", "tls", "complete"}) /\ w.out = y.out \cup {"CFIN"} /\ w.tls = "done" /\ w.complete = TRUE
  BY Zenon, <1>3 DEF WriteRecord, Same, Shaped, Fields
<1> HIDE DEF w
<1>5. /\ Same(u, w, {"todo", "undecryptable"}) /\ u.todo = w.todo \cup w.undecryptable /\ u.undecryptable = {}
  BY Zenon, <1>2, <1>4 DEF ReceivedReadKeys, Same, Shaped, Fields
<1>6. Same(u, t, {"openers", "sealers", "out", "tls", "complete", "todo", "undecryptable"})
  BY <1>3, <1>4, <1>5 DEF Same, Fields
<1> QED
  BY <1>3, <1>4, <1>5, <1>6 DEF Same, Fields

\* EncryptedExtensions and the server's Finished, in any order.
LEMMA ClientReadsFlight ==
  ASSUME NEW t, CInv(t), t.status = "open", "handshake" \in t.openers, NEW i \in {1, 2},
         NEW u, u = HandleCryptoFrame("client", t, "handshake", i)
  PROVE  CInv(u) /\ Grows(u, t) /\ Pending(u) = Pending(t) /\ u.confirmed = t.confirmed /\ u.tls # "start"
<1> DEFINE x == [t EXCEPT !.crypto["handshake"] = @ \cup {i}]
           y == ClientExtensions(x)
<1>1. /\ Shaped(t) /\ DOMAIN t.crypto = CryptoLevels /\ "handshake" \notin t.finished
      /\ t.tls \in {"hello", "extensions", "done"} /\ t.crypto["handshake"] \subseteq {1, 2} /\ t.crypto["initial"] = {1}
  BY DEF CInv, LocalClient, ClientKeys
<1>3. /\ Same(x, t, {"crypto"}) /\ x.crypto = [t.crypto EXCEPT !["handshake"] = @ \cup {i}]
  BY <1>1 DEF Same, Shaped, Fields
<1>2. u = ClientFinished(y)
  <2>1. u = ClientFinished(ClientExtensions(ClientHello1(x)))
    BY <1>1 DEF HandleCryptoFrame, HandleMessage
  <2>2. x.tls # "start"
    BY <1>1, <1>3 DEF Same, Fields
  <2> QED
    BY <2>1, <2>2 DEF ClientHello1
<1> HIDE DEF x
<1> DEFINE ch == t.crypto["handshake"] \cup {i}
<1>4. /\ DOMAIN x.crypto = CryptoLevels /\ x.crypto["handshake"] = ch /\ x.crypto["initial"] = {1}
  BY <1>1, <1>3 DEF CryptoLevels
<1>5. /\ x.tls = t.tls /\ x.status = t.status /\ x.owed = t.owed /\ x.out = t.out /\ x.openers = t.openers /\ x.sealers = t.sealers
      /\ x.complete = t.complete /\ x.confirmed = t.confirmed /\ x.finished = t.finished /\ Shaped(x)
      /\ x.undecryptable = t.undecryptable /\ x.todo = t.todo
  BY <1>3 DEF Same, Fields
<1>6. /\ ch \in {{1}, {2}, {1, 2}}
      /\ t.tls = "extensions" => ch \in {{1}, {1, 2}}
      /\ t.tls = "done" => ch = {1, 2}
  <2>1. ch \subseteq {1, 2} /\ ch # {}
    BY <1>1
  <2> QED
    BY <2>1 DEF CInv, LocalClient
<1> HIDE DEF ch
<1>7. ASSUME t.tls = "done" \/ (t.tls = "hello" /\ ch = {2}) \/ (t.tls = "extensions" /\ ch = {1})
      PROVE  u = x /\ CInv(x) /\ Grows(x, t) /\ Pending(x) = Pending(t)
  <2>1. (ch = {2} => NumRead(x.crypto["handshake"]) = 0) /\ (ch = {1} => NumRead(x.crypto["handshake"]) = 1)
    BY <1>4, NumReadIs
  <2>2. y = x
    BY <1>5, <1>7, <2>1 DEF ClientExtensions
  <2>3. u = x
    BY <1>2, <1>5, <1>7, <2>1, <2>2 DEF ClientFinished
  <2>4. LocalClient(x)
    BY <1>1, <1>4, <1>5, <1>6, <1>7 DEF CInv, LocalClient
  <2>5. ClientKeys(x) /\ ClientOut(x)
    BY <1>5 DEF CInv, ClientKeys, ClientOut
  <2>6. Grows(x, t) /\ Pending(x) = Pending(t)
    BY <1>5 DEF Grows, Pending
  <2> QED
    BY <1>5, <2>3, <2>4, <2>5, <2>6 DEF CInv
<1>8. ASSUME (t.tls = "hello" /\ ch \in {{1}, {1, 2}}) \/ (t.tls = "extensions" /\ ch = {1, 2})
      PROVE  /\ Same(y, x, {"tls", "sealers", "out"}) /\ y.tls = "extensions"
             /\ y.sealers \subseteq x.sealers /\ x.sealers \ {"zeroRTT"} \subseteq y.sealers
             /\ y.out \subseteq x.out /\ x.out \ {"EARLY"} \subseteq y.out
  <2>1. CASE t.tls = "hello"
    <3>1. NumRead(x.crypto["handshake"]) >= 1
      BY <1>4, <1>8, <2>1, NumReadIs
    <3> DEFINE w == [x EXCEPT !.tls = "extensions"]
    <3>2. y = IF early = "rejected" THEN Reject0RTT(w) ELSE w
      BY <1>5, <2>1, <3>1 DEF ClientExtensions
    <3>3. Same(w, x, {"tls"}) /\ w.tls = "extensions"
      BY <1>5 DEF Same, Shaped, Fields
    <3> HIDE DEF w, y
    <3>4. CASE early = "rejected"
      <4>1. Same(y, w, {"sealers", "out"}) /\ y.sealers = w.sealers \ {"zeroRTT"} /\ y.out = w.out \ {"EARLY"}
        BY Zenon, <3>2, <3>3, <3>4 DEF Reject0RTT, Same, Shaped, Fields
      <4> QED
        BY <3>3, <4>1 DEF Same, Fields
    <3>5. CASE early # "rejected"
      BY <3>2, <3>3, <3>5 DEF Same, Fields
    <3> QED
      BY <3>4, <3>5
  <2>2. CASE t.tls = "extensions"
    <3>1. y = x
      BY <1>5, <2>2 DEF ClientExtensions
    <3> QED
      BY <1>5, <2>2, <3>1 DEF Same
  <2> QED
    BY <1>8, <2>1, <2>2
<1> HIDE DEF y
<1>9. CASE t.tls = "hello" /\ ch = {1}
  <2>1. Shaped(y) /\ y.tls = "extensions" /\ y.crypto = x.crypto /\ y.status = t.status /\ y.owed = t.owed /\ y.finished = t.finished
        /\ y.complete = t.complete /\ y.confirmed = t.confirmed /\ y.openers = t.openers
        /\ y.undecryptable = t.undecryptable /\ y.todo = t.todo
    BY <1>5, <1>8, <1>9 DEF Same, Fields
  <2>2. NumRead(y.crypto["handshake"]) = 1
    BY Zenon, <1>4, <1>9, <2>1, NumReadIs
  <2>3. u = y
    BY <1>2, <2>2 DEF ClientFinished
  <2>4. /\ y.sealers \subseteq t.sealers /\ t.sealers \ {"zeroRTT"} \subseteq y.sealers
        /\ y.out \subseteq t.out /\ t.out \ {"EARLY"} \subseteq y.out
    BY <1>5, <1>8, <1>9
  <2>5. LocalClient(y)
    BY <1>4, <1>9, <2>1 DEF CInv, LocalClient
  <2>6. ClientKeys(y)
    BY <1>9, <2>1, <2>4 DEF CInv, ClientKeys
  <2>7. ClientOut(y)
    BY <1>9, <2>1, <2>4 DEF CInv, ClientOut
  <2>8. Grows(y, t) /\ Pending(y) = Pending(t)
    BY <1>9, <2>1 DEF Grows, Pending
  <2> QED
    BY <2>1, <2>3, <2>5, <2>6, <2>7, <2>8 DEF CInv
<1>10. CASE t.tls \in {"hello", "extensions"} /\ ch = {1, 2}
  <2>1. Shaped(y) /\ y.tls = "extensions" /\ y.crypto = x.crypto /\ y.status = t.status /\ y.owed = t.owed /\ y.finished = t.finished
        /\ y.confirmed = t.confirmed /\ y.openers = t.openers
        /\ y.undecryptable = t.undecryptable /\ y.todo = t.todo
    BY <1>5, <1>8, <1>10 DEF Same, Fields
  <2>2. /\ y.sealers \subseteq t.sealers /\ t.sealers \ {"zeroRTT"} \subseteq y.sealers
        /\ y.out \subseteq t.out /\ t.out \ {"EARLY"} \subseteq y.out
    BY <1>5, <1>8, <1>10
  <2>3. y.crypto["handshake"] = {1, 2}
    BY <1>4, <1>10, <2>1
  <2>4. /\ Same(u, y, {"openers", "sealers", "out", "tls", "complete", "todo", "undecryptable"})
        /\ u.openers = y.openers \cup {"oneRTT"} /\ u.sealers = (y.sealers \ {"zeroRTT"}) \cup {"oneRTT"}
        /\ u.out = y.out \cup {"CFIN"} /\ u.tls = "done" /\ u.complete = TRUE
        /\ u.todo = y.todo \cup y.undecryptable /\ u.undecryptable = {}
    BY Zenon, <1>2, <2>1, <2>3, ClientFinishes
  <2>5. Shaped(u) /\ u.crypto = x.crypto /\ u.status = "open" /\ u.owed = t.owed /\ u.finished = t.finished /\ u.confirmed = t.confirmed
    BY <2>1, <2>4 DEF Same, Fields
  <2>6. LocalClient(u)
    BY Zenon, <1>4, <1>10, <2>4, <2>5 DEF CInv, LocalClient
  <2>7. ClientKeys(u)
    BY <1>1, <1>10, <2>1, <2>2, <2>4, <2>5 DEF CInv, ClientKeys, Levels
  <2>8. ClientOut(u)
    BY <1>10, <2>2, <2>4, <2>5 DEF CInv, ClientOut
  <2>9. Grows(u, t) /\ Pending(u) = Pending(t)
    BY <1>10, <2>1, <2>4, <2>5 DEF Grows, Pending
  <2> QED
    BY <2>4, <2>5, <2>6, <2>7, <2>8, <2>9 DEF CInv
<1>11. x.confirmed = t.confirmed /\ x.tls # "start"
  BY <1>1, <1>5
<1> QED
  BY <1>1, <1>6, <1>7, <1>9, <1>10, <1>11

\* An ACK, a PING or application data, which move nothing.
LEMMA ClientStays ==
  ASSUME NEW t, CInv(t), NEW u, Same(u, t, {"out", "got"}), \E f \in AppFrames : u.out = t.out \ {f}
  PROVE  CInv(u) /\ Grows(u, t) /\ Pending(u) = Pending(t) /\ u.status = t.status /\ u.tls = t.tls /\ u.confirmed = t.confirmed
         /\ u.complete = t.complete
<1>1. /\ Shaped(u) /\ u.tls = t.tls /\ u.crypto = t.crypto /\ u.finished = t.finished /\ u.sealers = t.sealers /\ u.openers = t.openers
      /\ u.complete = t.complete /\ u.confirmed = t.confirmed /\ u.status = t.status /\ u.owed = t.owed
      /\ u.undecryptable = t.undecryptable /\ u.todo = t.todo
  BY DEF Same, Fields
<1>2. u.out \subseteq t.out /\ (\A f \in {"CH1", "CH2", "CFIN"} : f \in t.out => f \in u.out)
  BY DEF AppFrames
<1>3. LocalClient(u) /\ ClientKeys(u)
  BY <1>1 DEF CInv, LocalClient, ClientKeys
<1>4. ClientOut(u)
  BY <1>1, <1>2 DEF CInv, ClientOut
<1>5. Grows(u, t) /\ Pending(u) = Pending(t)
  BY <1>1 DEF Grows, Pending
<1> QED
  BY <1>1, <1>3, <1>4, <1>5 DEF CInv

\* The packet is owed an ACK.
LEMMA ClientOwes ==
  ASSUME NEW t, CInv(t), NEW f, NEW l, f = "HSD" => t.confirmed,
         NEW u, u = [t EXCEPT !.owed = @ \cup ({[f |-> f, lvl |-> l]} \cap Acks)]
  PROVE  CInv(u) /\ Grows(u, t) /\ Pending(u) = Pending(t) /\ u.tls = t.tls /\ u.confirmed = t.confirmed
<1>0. Shaped(t)
  BY DEF CInv
<1>1. /\ Shaped(u) /\ u.tls = t.tls /\ u.crypto = t.crypto /\ u.finished = t.finished /\ u.sealers = t.sealers /\ u.openers = t.openers
      /\ u.complete = t.complete /\ u.confirmed = t.confirmed /\ u.status = t.status /\ u.out = t.out
      /\ u.undecryptable = t.undecryptable /\ u.todo = t.todo
  BY <1>0 DEF Shaped, Fields
<1>2. u.owed = t.owed \cup ({[f |-> f, lvl |-> l]} \cap Acks)
  BY <1>0 DEF Shaped, Fields
<1>3. u.owed \subseteq Acks /\ \A a \in u.owed : a.f = "HSD" => u.confirmed
  BY <1>1, <1>2 DEF CInv, ClientOut
<1>4. LocalClient(u) /\ ClientKeys(u)
  BY <1>1 DEF CInv, LocalClient, ClientKeys
<1>5. ClientOut(u)
  BY <1>1, <1>3 DEF CInv, ClientOut
<1>6. Grows(u, t) /\ Pending(u) = Pending(t)
  BY <1>1 DEF Grows, Pending
<1> QED
  BY <1>1, <1>4, <1>5, <1>6 DEF CInv

\* The client handles the frame of a packet that it can read.
LEMMA ClientHandlesFrames ==
  ASSUME NEW v, NEW t, CInv(t), Together(t, v), t.status = "open", NEW p, PacketOK(p, t, v), p.to = "client",
         NEW l \in p.lvls, l \in t.openers,
         NEW g, g = HandleFrames("client", t, p, l)
  PROVE  /\ CInv(g) /\ Grows(g, t) /\ Pending(g) \subseteq Pending(t)
         /\ g.tls # "start" => v.tls # "start"
         /\ g.confirmed => v.tls = "done"
         /\ p.f = "HSD" => g.confirmed
<1>1. l \in Levels /\ (p.f # "CLOSE" => p.lvls = {l}) /\ (p.f \in DOMAIN Chunk => l = Chunk[p.f].lvl /\ Chunk[p.f].by = "server")
  BY SMTT(30), ChunkIs DEF PacketOK, PacketShape, Peer
<1>2. l = "oneRTT" => t.tls = "done"
  BY DEF CInv, ClientKeys
<1>3. Shaped(t) /\ (t.tls # "start" => v.tls # "start") /\ (t.confirmed => v.tls = "done") /\ Grows(t, t)
  BY DEF CInv, Together, Grows
<1>4. CASE p.f = "SH"
  <2>1. l = "initial" /\ Chunk[p.f].i = 1 /\ v.tls # "start"
    BY <1>1, <1>4, ChunkIs DEF PacketOK, ToClient
  <2> DEFINE h == HandleCryptoFrame("client", t, "initial", 1)
  <2>2. HandleFrame("client", t, p, l) = h
    BY <1>4, <2>1, ChunkIs DEF HandleFrame
  <2>3. CInv(h) /\ Grows(h, t) /\ Pending(h) = Pending(t) /\ h.complete = t.complete /\ h.confirmed = t.confirmed
    BY <2>1, ClientReadsHello
  <2>4. g = h
    BY <2>2, <2>3 DEF HandleFrames
  <2> QED
    BY <1>3, <1>4, <2>1, <2>3, <2>4
<1>5. CASE p.f \in {"EE", "SFIN"}
  <2>1. l = "handshake" /\ Chunk[p.f].i \in {1, 2} /\ v.tls # "start"
    BY <1>1, <1>5, ChunkIs DEF PacketOK, ToClient
  <2> DEFINE h == HandleCryptoFrame("client", t, "handshake", Chunk[p.f].i)
  <2>2. HandleFrame("client", t, p, l) = h
    BY <1>5, <2>1, ChunkIs DEF HandleFrame
  <2>3. CInv(h) /\ Grows(h, t) /\ Pending(h) = Pending(t) /\ h.confirmed = t.confirmed
    BY <2>1, ClientReadsFlight
  <2>4. g = h \/ g = [h EXCEPT !.undecryptable = {}]
    BY <2>2 DEF HandleFrames, HandleHandshakeComplete
  <2> HIDE DEF h
  <2>5. CASE g = h
    BY <1>3, <1>5, <2>1, <2>3, <2>5
  <2>6. CASE g = [h EXCEPT !.undecryptable = {}]
    <3>0. Shaped(h)
      BY <2>3 DEF CInv
    <3>1. /\ Shaped(g) /\ g.tls = h.tls /\ g.crypto = h.crypto /\ g.finished = h.finished /\ g.sealers = h.sealers /\ g.openers = h.openers
          /\ g.complete = h.complete /\ g.confirmed = h.confirmed /\ g.status = h.status /\ g.out = h.out /\ g.owed = h.owed
          /\ g.undecryptable = {} /\ g.todo = h.todo
      BY <2>6, <3>0 DEF Shaped, Fields
    <3>2. LocalClient(g) /\ ClientKeys(g) /\ ClientOut(g)
      <4>1. LocalClient(g)
        BY <2>3, <3>1 DEF CInv, LocalClient
      <4>2. ClientKeys(g)
        BY <2>3, <3>1 DEF CInv, ClientKeys
      <4>3. ClientOut(g)
        BY <2>3, <3>1 DEF CInv, ClientOut
      <4> QED
        BY Zenon, <4>1, <4>2, <4>3
    <3>3. Grows(g, t) /\ Pending(g) \subseteq Pending(t)
      BY <2>3, <3>1 DEF Grows, Pending
    <3> QED
      BY <1>3, <1>5, <2>1, <2>3, <3>1, <3>2, <3>3 DEF CInv
  <2> QED
    BY <2>4, <2>5, <2>6
<1>6. CASE p.f \in {"CH1", "CH2", "CFIN"}
  BY <1>1, <1>6, ChunkIs
<1>7. CASE p.f = "HSD"
  <2>1. t.tls = "done" /\ v.tls = "done"
    BY <1>2, <1>7 DEF PacketOK, PacketShape, ToClient
  <2>2. HandleFrame("client", t, p, l) = IF t.confirmed THEN t ELSE HandshakeConfirmed(t)
    BY <1>7, ChunkIs DEF HandleFrame
  <2>3. CASE t.confirmed
    <3>1. g = t
      BY <2>2, <2>3 DEF HandleFrames
    <3> QED
      BY <1>3, <2>1, <2>3, <3>1
  <2>4. CASE ~t.confirmed
    <3> DEFINE h == HandshakeConfirmed(t)
    <3>1. CInv(h) /\ Grows(h, t) /\ Pending(h) = Pending(t) /\ h.tls = "done" /\ h.confirmed = TRUE /\ h.complete = t.complete
      BY Zenon, <2>1, ClientConfirms
    <3>2. g = h
      BY <2>2, <2>4, <3>1 DEF HandleFrames
    <3> QED
      BY <2>1, <3>1, <3>2
  <2> QED
    BY <2>3, <2>4
<1>8. CASE p.f = "ACK"
  <2> DEFINE x == [t EXCEPT !.out = @ \ {p.of.f}]
  <2>1. t.tls = "done" /\ (p.of.lvl = "oneRTT" => v.tls = "done") /\ p.of.f \in AppFrames
    BY <1>2, <1>8 DEF PacketOK, PacketShape, ToClient, Acks, AppFrames
  <2>2. HandleFrame("client", t, p, l) = IF p.of.lvl = "oneRTT" /\ ~t.confirmed THEN HandshakeConfirmed(x) ELSE x
    BY <1>8, ChunkIs DEF HandleFrame, HandleAckFrame
  <2>3. Same(x, t, {"out", "got"}) /\ x.out = t.out \ {p.of.f}
    BY <1>3 DEF Same, Shaped, Fields
  <2> HIDE DEF x
  <2>4. CInv(x) /\ Grows(x, t) /\ Pending(x) = Pending(t) /\ x.status = t.status /\ x.tls = t.tls /\ x.confirmed = t.confirmed
        /\ x.complete = t.complete
    BY <2>1, <2>3, ClientStays
  <2>5. CASE p.of.lvl = "oneRTT" /\ ~t.confirmed
    <3> DEFINE h == HandshakeConfirmed(x)
    <3>1. CInv(h) /\ Grows(h, x) /\ Pending(h) = Pending(x) /\ h.tls = "done" /\ h.confirmed = TRUE /\ h.complete = x.complete
      BY Zenon, <2>1, <2>4, ClientConfirms
    <3> HIDE DEF h
    <3>2. g = h
      BY <2>2, <2>4, <2>5, <3>1 DEF HandleFrames, h
    <3>3. Grows(h, t)
      BY <2>4, <3>1 DEF Grows
    <3> QED
      BY <1>8, <2>1, <2>4, <2>5, <3>1, <3>2, <3>3
  <2>6. CASE ~(p.of.lvl = "oneRTT" /\ ~t.confirmed)
    <3>1. g = x
      BY <2>2, <2>4, <2>6 DEF HandleFrames
    <3> QED
      BY <1>3, <1>8, <2>4, <3>1
  <2> QED
    BY <2>5, <2>6
<1>9. CASE p.f = "CLOSE"
  <2> DEFINE h == Closed(t, "remote")
  <2>1. HandleFrame("client", t, p, l) = h
    BY <1>9, ChunkIs DEF HandleFrame
  <2>2. CInv(h) /\ Grows(h, t) /\ Pending(h) = {} /\ h.tls = t.tls /\ h.confirmed = t.confirmed /\ h.complete = t.complete
    BY ClientCloses
  <2>3. g = h
    BY <2>1, <2>2 DEF HandleFrames
  <2> QED
    BY <1>3, <1>9, <2>2, <2>3
<1>10. CASE p.f \in {"EARLY", "DATA", "PING"}
  <2> DEFINE h == [t EXCEPT !.got = @ \cup ({p.f} \cap AppFrames)]
  <2>1. HandleFrame("client", t, p, l) = h
    BY <1>10, ChunkIs DEF HandleFrame
  <2>2. Same(h, t, {"out", "got"}) /\ h.out = t.out
    BY <1>3 DEF Same, Shaped, Fields
  <2> HIDE DEF h
  <2>3. "DATA" \notin t.out
    BY DEF CInv, ClientOut
  <2>4. \E f \in AppFrames : h.out = t.out \ {f}
    BY <2>2, <2>3 DEF AppFrames
  <2>5. CInv(h) /\ Grows(h, t) /\ Pending(h) = Pending(t) /\ h.tls = t.tls /\ h.confirmed = t.confirmed /\ h.complete = t.complete
    BY <2>2, <2>4, ClientStays
  <2>6. g = h
    BY <2>1, <2>5 DEF HandleFrames
  <2> QED
    BY <1>3, <1>10, <2>5, <2>6
<1>11. p.f \in {"CH1", "CH2", "CFIN", "SH", "EE", "SFIN", "HSD", "ACK", "CLOSE", "EARLY", "DATA", "PING"}
  BY ChunkIs DEF PacketOK, PacketShape, AllFrames, Frames, AppFrames
<1> QED
  BY Zenon, <1>4, <1>5, <1>6, <1>7, <1>8, <1>9, <1>10, <1>11

LEMMA ClientUnpacked ==
  ASSUME NEW v, NEW t, CInv(t), Together(t, v), t.status = "open", NEW p, PacketOK(p, t, v), p.to = "client",
         NEW l \in p.lvls, l \in t.openers,
         NEW u, u = HandleUnpacked("client", t, p, l)
  PROVE  CInv(u) /\ Together(u, v) /\ Grows(u, t) /\ Pending(u) \subseteq Pending(t)
<1> DEFINE g == HandleFrames("client", t, p, l)
<1>1. u = [g EXCEPT !.owed = @ \cup ({[f |-> p.f, lvl |-> l]} \cap Acks)]
  BY DEF HandleUnpacked
<1>2. /\ CInv(g) /\ Grows(g, t) /\ Pending(g) \subseteq Pending(t)
      /\ g.tls # "start" => v.tls # "start"
      /\ g.confirmed => v.tls = "done"
      /\ p.f = "HSD" => g.confirmed
  BY ClientHandlesFrames
<1> HIDE DEF g
<1>3. CInv(u) /\ Grows(u, g) /\ Pending(u) = Pending(g) /\ u.tls = g.tls /\ u.confirmed = g.confirmed
  BY <1>1, <1>2, ClientOwes
<1>4. Grows(u, t)
  BY <1>2, <1>3 DEF Grows
<1>5. Together(u, v)
  BY <1>2, <1>3, <1>4, StillTogether
<1> QED
  BY <1>2, <1>3, <1>4, <1>5

\* A packet that the client cannot read waits, if a key may come; none is awaited in vain.
LEMMA ClientHandles ==
  ASSUME NEW v, NEW t, CInv(t), Together(t, v), t.status = "open", NEW p, PacketOK(p, t, v), p.to = "client",
         NEW u, u = HandleOnePacket("client", t, p)
  PROVE  CInv(u) /\ Together(u, v) /\ Grows(u, t) /\ Pending(u) \subseteq Pending(t) \cup {p}
<1> DEFINE d == Get1RTTOpener(t, p)
<1>1. /\ Same(d, t, {"openers"}) /\ (d.openers = t.openers \/ d.openers = t.openers \ {"zeroRTT"})
  BY DEF Get1RTTOpener, Same, Shaped, Fields, CInv
<1> HIDE DEF d
<1>2. /\ Shaped(d) /\ d.tls = t.tls /\ d.crypto = t.crypto /\ d.finished = t.finished /\ d.sealers = t.sealers /\ d.out = t.out
      /\ d.complete = t.complete /\ d.confirmed = t.confirmed /\ d.status = t.status /\ d.owed = t.owed
      /\ d.undecryptable = t.undecryptable /\ d.todo = t.todo
  BY <1>1 DEF Same, Fields
<1>3. CInv(d) /\ Together(d, v) /\ Grows(d, t) /\ Pending(d) = Pending(t) /\ PacketOK(p, d, v)
  <2>1. LocalClient(d) /\ ClientOut(d)
    BY <1>2 DEF CInv, LocalClient, ClientOut
  <2>2. ClientKeys(d)
    BY <1>1, <1>2 DEF CInv, ClientKeys
  <2>3. Together(d, v) /\ Grows(d, t) /\ Pending(d) = Pending(t) /\ PacketOK(p, d, v)
    BY <1>2 DEF Together, Grows, Pending, PacketOK, ToServer
  <2> QED
    BY Zenon, <1>2, <2>1, <2>2, <2>3 DEF CInv
<1>4. CASE Unpackable(d, p) # {}
  <2> DEFINE l == CHOOSE x \in Unpackable(d, p) : TRUE
  <2>1. l \in p.lvls /\ l \in d.openers
    BY <1>4 DEF Unpackable
  <2>2. u = HandleUnpacked("client", d, p, l)
    BY <1>4 DEF HandleOnePacket, d
  <2> HIDE DEF l
  <2>3. CInv(u) /\ Together(u, v) /\ Grows(u, d) /\ Pending(u) \subseteq Pending(d)
    BY <1>2, <1>3, <2>1, <2>2, ClientUnpacked
  <2> QED
    BY Zenon, <1>3, <2>3 DEF Grows
<1>5. CASE Unpackable(d, p) = {}
  <2>1. u = HandleUnpackError("client", d, p)
    BY <1>5 DEF HandleOnePacket, d
  <2>2. d.complete => \A l \in p.lvls : ~KeysNotYetAvailable("client", d, l)
    BY ZenonT(30), <1>2, <1>3 DEF CInv, LocalClient, ClientKeys, KeysNotYetAvailable, Together
  <2>3. u = d \/ u = [d EXCEPT !.undecryptable = @ \cup {p}]
    BY Zenon, <2>1, <2>2 DEF HandleUnpackError, TryQueueingUndecryptable
  <2>4. CASE u = d
    BY <1>3, <2>4
  <2>5. CASE u = [d EXCEPT !.undecryptable = @ \cup {p}]
    <3>1. /\ Shaped(u) /\ u.tls = d.tls /\ u.crypto = d.crypto /\ u.finished = d.finished /\ u.sealers = d.sealers /\ u.out = d.out
          /\ u.complete = d.complete /\ u.confirmed = d.confirmed /\ u.status = d.status /\ u.owed = d.owed /\ u.openers = d.openers
          /\ u.undecryptable = d.undecryptable \cup {p} /\ u.todo = d.todo
      BY Zenon, <1>2, <2>5 DEF Shaped, Fields
    <3>2. LocalClient(u) /\ ClientOut(u) /\ ClientKeys(u)
      <4>1. LocalClient(d) /\ ClientOut(d) /\ ClientKeys(d)
        BY Zenon, <1>3 DEF CInv
      <4>2. LocalClient(u)
        BY Zenon, <3>1, <4>1 DEF LocalClient
      <4>3. ClientOut(u) /\ ClientKeys(u)
        BY Zenon, <3>1, <4>1 DEF ClientOut, ClientKeys
      <4> QED
        BY Zenon, <4>2, <4>3
    <3>3. Together(u, v) /\ Grows(u, t) /\ Pending(u) \subseteq Pending(t) \cup {p}
      BY <1>3, <3>1 DEF Together, Grows, Pending
    <3> QED
      BY <3>1, <3>2, <3>3 DEF CInv
  <2> QED
    BY <2>3, <2>4, <2>5
<1> QED
  BY <1>4, <1>5

--------------------------------------------------------------------------------
(* Both ends and the network.                                                    *)

\* The inductive invariant.
HInv ==
    /\ DOMAIN c = Ends
    /\ CInv(c["client"]) /\ SInv(c["server"]) /\ Together(c["client"], c["server"])
    /\ \A p \in net \cup Pending(c["client"]) \cup Pending(c["server"]) : PacketOK(p, c["client"], c["server"])
    /\ \A e \in Ends : \A p \in Pending(c[e]) : p.to = e

\* What a packet says stays true.
LEMMA PacketStaysOK ==
  ASSUME NEW p, NEW k, NEW v, PacketOK(p, k, v), NEW k2, NEW v2, Grows(k2, k), Grows(v2, v)
  PROVE  PacketOK(p, k2, v2)
BY DEF PacketOK, ToServer, ToClient, Grows

\* A step of the client.
LEMMA ClientStep ==
  ASSUME HInv, NEW u, CInv(u), Together(u, c["server"]), Grows(u, c["client"]),
         DOMAIN c' = Ends, c'["client"] = u, c'["server"] = c["server"],
         \A p \in Pending(u) : p \in Pending(c["client"]) \/ (p \in net /\ p.to = "client"),
         \A p \in net' : p \in net \/ PacketOK(p, u, c["server"])
  PROVE  HInv'
<1>1. DOMAIN c' = Ends /\ c'["client"] = u /\ c'["server"] = c["server"]
  OBVIOUS
<1>2. Grows(c["server"], c["server"])
  BY DEF Grows
<1>3. \A p \in net \cup Pending(c["client"]) \cup Pending(c["server"]) : PacketOK(p, u, c["server"])
  BY <1>2, PacketStaysOK DEF HInv
<1>4. \A p \in net' \cup Pending(u) \cup Pending(c["server"]) : PacketOK(p, u, c["server"])
  BY <1>3
<1>5. (\A p \in Pending(u) : p.to = "client") /\ \A p \in Pending(c["server"]) : p.to = "server"
  BY DEF HInv, Ends
<1>6. \A e \in Ends : \A p \in Pending(c'[e]) : p.to = e
  BY <1>1, <1>5 DEF Ends
<1>7. HInv' <=> /\ DOMAIN c' = Ends
                /\ CInv(c'["client"]) /\ SInv(c'["server"]) /\ Together(c'["client"], c'["server"])
                /\ \A p \in net' \cup Pending(c'["client"]) \cup Pending(c'["server"]) : PacketOK(p, c'["client"], c'["server"])
                /\ \A e \in Ends : \A p \in Pending(c'[e]) : p.to = e
  BY DEF HInv
<1> QED
  BY SMTT(30), <1>1, <1>4, <1>6, <1>7 DEF HInv

\* A step of the server.
LEMMA ServerStep ==
  ASSUME HInv, NEW u, SInv(u), Together(c["client"], u), Grows(u, c["server"]),
         DOMAIN c' = Ends, c'["server"] = u, c'["client"] = c["client"],
         \A p \in Pending(u) : p \in Pending(c["server"]) \/ (p \in net /\ p.to = "server"),
         \A p \in net' : p \in net \/ PacketOK(p, c["client"], u)
  PROVE  HInv'
<1>1. DOMAIN c' = Ends /\ c'["client"] = c["client"] /\ c'["server"] = u
  OBVIOUS
<1>2. Grows(c["client"], c["client"])
  BY DEF Grows
<1>3. \A p \in net \cup Pending(c["client"]) \cup Pending(c["server"]) : PacketOK(p, c["client"], u)
  BY <1>2, PacketStaysOK DEF HInv
<1>4. \A p \in net' \cup Pending(c["client"]) \cup Pending(u) : PacketOK(p, c["client"], u)
  BY <1>3
<1>5. (\A p \in Pending(u) : p.to = "server") /\ \A p \in Pending(c["client"]) : p.to = "client"
  BY DEF HInv, Ends
<1>6. \A e \in Ends : \A p \in Pending(c'[e]) : p.to = e
  BY <1>1, <1>5 DEF Ends
<1>7. HInv' <=> /\ DOMAIN c' = Ends
                /\ CInv(c'["client"]) /\ SInv(c'["server"]) /\ Together(c'["client"], c'["server"])
                /\ \A p \in net' \cup Pending(c'["client"]) \cup Pending(c'["server"]) : PacketOK(p, c'["client"], c'["server"])
                /\ \A e \in Ends : \A p \in Pending(c'[e]) : p.to = e
  BY DEF HInv
<1> QED
  BY SMTT(30), <1>1, <1>4, <1>6, <1>7 DEF HInv

LEMMA SameEnds ==
  ASSUME HInv, c' = c, \A p \in net' : p \in net \/ PacketOK(p, c["client"], c["server"])
  PROVE  HInv'
<1>1. \A p \in net' \cup Pending(c["client"]) \cup Pending(c["server"]) : PacketOK(p, c["client"], c["server"])
  BY DEF HInv
<1> QED
  BY <1>1 DEF HInv

\* What the client sends, after it has dropped the Initial keys.
LEMMA ClientSends ==
  ASSUME HInv, Ready("client"), NEW l \in c["client"].sealers, NEW p, p.to = "server", p.lvls = {l}, p.of = NoAck,
         \/ p.f \in c["client"].out /\ (p.f \in DOMAIN Chunk => l = Chunk[p.f].lvl) /\ (p.f \notin DOMAIN Chunk => l \notin CryptoLevels)
         \/ p.f = "PING",
         Sent("client", l), net' = net \cup {p}
  PROVE  HInv'
<1> DEFINE t == c["client"]
           u == IF l = "handshake" /\ "initial" \in t.openers THEN DropEncryptionLevel(t, "initial") ELSE t
<1>1. CInv(t) /\ Together(t, c["server"]) /\ t.status = "open" /\ DOMAIN c = Ends
  BY DEF HInv, Ready, Open
<1>2. DOMAIN c' = Ends /\ c'["client"] = u /\ c'["server"] = c["server"]
  BY <1>1 DEF Sent, Ends
<1>3. l = "handshake" => t.tls # "start"
  BY Zenon, <1>1 DEF CInv, ClientKeys
<1>4. /\ CInv(u) /\ Grows(u, t) /\ Pending(u) = Pending(t) /\ (l = "handshake" => "initial" \in u.finished)
      /\ u.tls = t.tls /\ u.confirmed = t.confirmed
  <2>1. CASE l = "handshake" /\ "initial" \in t.openers
    BY <1>1, <1>3, <2>1, ClientDropsInitial
  <2>2. CASE ~(l = "handshake" /\ "initial" \in t.openers)
    <3>1. u = t
      BY <2>2
    <3>2. l = "handshake" => "initial" \in t.finished
      BY <1>1, <2>2 DEF CInv, ClientKeys
    <3> QED
      BY <1>1, <3>1, <3>2 DEF Grows
  <2> QED
    BY <2>1, <2>2
<1> HIDE DEF u
<1>5. Together(u, c["server"])
  BY <1>1, <1>4, StillTogether DEF Together
<1>6. p.f \in {"CH1", "CH2", "CFIN", "EARLY", "PING"} /\ l \in Levels /\ (p.f = "CFIN" => t.tls = "done")
  BY <1>1 DEF CInv, ClientOut, ClientKeys
<1>7. PacketShape(p)
  <2>1. p.to \in Ends /\ p.f \in AllFrames /\ p.lvls \subseteq Levels /\ p.f \notin {"HSD", "ACK"}
    BY <1>6, ChunkIs DEF Ends, AllFrames, Frames, AppFrames
  <2>2. p.f \in DOMAIN Chunk => p.lvls = {Chunk[p.f].lvl} /\ p.to = Peer(Chunk[p.f].by)
    BY <1>6, ChunkIs DEF Peer
  <2> QED
    BY <1>6, <2>1, <2>2 DEF PacketShape
<1>8. ToServer(p, u) /\ ToClient(p, c["server"])
  BY <1>3, <1>4, <1>6 DEF ToServer, ToClient
<1>9. PacketOK(p, u, c["server"])
  BY <1>7, <1>8 DEF PacketOK
<1> QED
  BY <1>2, <1>4, <1>5, <1>9, ClientStep

\* What the server sends.
LEMMA ServerSends ==
  ASSUME HInv, Ready("server"), NEW l \in c["server"].sealers, NEW p, p.to = "client", p.lvls = {l}, p.of = NoAck,
         \/ p.f \in c["server"].out /\ (p.f \in DOMAIN Chunk => l = Chunk[p.f].lvl) /\ (p.f \notin DOMAIN Chunk => l \notin CryptoLevels)
         \/ p.f = "PING",
         Sent("server", l), net' = net \cup {p}
  PROVE  HInv'
<1> DEFINE t == c["server"]
<1>1. SInv(t) /\ t.status = "open"
  BY DEF HInv, Ready, Open
<1>2. c' = c
  BY DEF Sent
<1>3. l \in {"initial", "handshake", "oneRTT"} /\ (l = "handshake" => t.tls # "start")
  BY <1>1 DEF SInv, ServerKeys, Levels
<1>4. /\ p.f \in {"SH", "EE", "SFIN", "DATA", "HSD", "PING"} /\ (p.f = "HSD" => t.tls = "done") /\ (p.f # "PING" => t.tls # "start")
  BY <1>1 DEF SInv, ServerOut
<1>5. p.f = "HSD" => l = "oneRTT"
  BY <1>3, ChunkIs DEF CryptoLevels
<1>6. PacketShape(p)
  <2>1. p.to \in Ends /\ p.f \in AllFrames /\ p.lvls \subseteq Levels /\ p.f # "ACK"
    BY <1>3, <1>4, ChunkIs DEF Ends, AllFrames, Frames, AppFrames, Levels
  <2>2. p.f \in DOMAIN Chunk => p.lvls = {Chunk[p.f].lvl} /\ p.to = Peer(Chunk[p.f].by)
    BY <1>4, ChunkIs DEF Peer
  <2> QED
    BY <1>3, <1>5, <2>1, <2>2 DEF PacketShape, Levels
<1>7. ToServer(p, c["client"]) /\ ToClient(p, t)
  BY <1>3, <1>4 DEF ToServer, ToClient
<1>8. PacketOK(p, c["client"], t)
  BY <1>6, <1>7 DEF PacketOK
<1> QED
  BY <1>2, <1>8, SameEnds

LEMMA SendFrameKeeps ==
  ASSUME HInv, NEW e \in Ends, NEW f \in Frames, NEW l \in Levels, SendFrame(e, f, l)
  PROVE  HInv'
<1> DEFINE p == Packet(e, l, f)
<1>1. p.lvls = {l} /\ p.of = NoAck /\ p.f = f /\ p.to = Peer(e)
  BY DEF Packet
<1>2. /\ Ready(e) /\ f \in c[e].out /\ l \in c[e].sealers /\ Sent(e, l) /\ net' = net \cup {p}
      /\ (f \in DOMAIN Chunk => l = Chunk[f].lvl) /\ (f \notin DOMAIN Chunk => l \notin CryptoLevels)
  BY DEF SendFrame, SendPacket, CryptoLevels
<1> HIDE DEF p
<1>3. CASE e = "client"
  <2>1. p.to = "server"
    BY <1>1, <1>3 DEF Peer
  <2> QED
    BY <1>1, <1>2, <1>3, <2>1, ClientSends
<1>4. CASE e = "server"
  <2>1. p.to = "client"
    BY <1>1, <1>4 DEF Peer
  <2> QED
    BY <1>1, <1>2, <1>4, <2>1, ServerSends
<1> QED
  BY <1>3, <1>4 DEF Ends

LEMMA SendPingKeeps ==
  ASSUME HInv, NEW e \in Ends, NEW l \in CryptoLevels, SendPing(e, l)
  PROVE  HInv'
<1> DEFINE p == Packet(e, l, "PING")
<1>1. p.lvls = {l} /\ p.of = NoAck /\ p.f = "PING" /\ p.to = Peer(e)
  BY DEF Packet
<1>2. Ready(e) /\ l \in c[e].sealers /\ Sent(e, l) /\ net' = net \cup {p}
  BY DEF SendPing, SendPacket
<1> HIDE DEF p
<1>3. CASE e = "client"
  <2>1. p.to = "server"
    BY <1>1, <1>3 DEF Peer
  <2> QED
    BY <1>1, <1>2, <1>3, <2>1, ClientSends
<1>4. CASE e = "server"
  <2>1. p.to = "client"
    BY <1>1, <1>4 DEF Peer
  <2> QED
    BY <1>1, <1>2, <1>4, <2>1, ServerSends
<1> QED
  BY <1>3, <1>4 DEF Ends

\* Without one of the ACKs that it owed.
LEMMA SendAckKeeps ==
  ASSUME HInv, NEW e \in Ends, NEW a \in Acks, SendAck(e, a)
  PROVE  HInv'
<1> DEFINE p == AckPacket(e, a)
           t == c[e]
<1>1. p.lvls = {"oneRTT"} /\ p.of = a /\ p.f = "ACK" /\ p.to = Peer(e)
  BY DEF AckPacket
<1>2. Ready(e) /\ a \in t.owed /\ net' = net \cup {p} /\ c' = [c EXCEPT ![e].owed = @ \ {a}]
  BY DEF SendAck, SendPacket
<1> HIDE DEF p
<1>3. PacketShape(p)
  <2>1. p.to \in Ends /\ p.f \in AllFrames /\ p.lvls \subseteq Levels /\ p.f \notin DOMAIN Chunk
    BY <1>1, ChunkIs DEF Ends, AllFrames, Levels, Peer
  <2> QED
    BY <1>1, <2>1 DEF PacketShape, Levels
<1> DEFINE u == [t EXCEPT !.owed = @ \ {a}]
<1>4. DOMAIN c' = Ends /\ c'[e] = u /\ \A x \in Ends \ {e} : c'[x] = c[x]
  BY <1>2 DEF HInv
<1>5. Shaped(t)
  BY DEF HInv, CInv, SInv, Ends
<1>6. /\ Shaped(u) /\ u.tls = t.tls /\ u.crypto = t.crypto /\ u.finished = t.finished /\ u.sealers = t.sealers /\ u.openers = t.openers
      /\ u.complete = t.complete /\ u.confirmed = t.confirmed /\ u.status = t.status /\ u.out = t.out
      /\ u.undecryptable = t.undecryptable /\ u.todo = t.todo /\ u.owed = t.owed \ {a}
  BY Zenon, <1>5 DEF Shaped, Fields
<1> HIDE DEF u
<1>7. Pending(u) = Pending(t) /\ Grows(u, t)
  BY <1>6 DEF Pending, Grows
<1>8. CASE e = "client"
  <2>1. LocalClient(u) /\ ClientKeys(u) /\ ClientOut(u) /\ (a.f = "HSD" => u.confirmed)
    <3>1. CInv(t)
      BY Zenon, <1>8 DEF HInv
    <3>2. LocalClient(t) /\ ClientKeys(t) /\ ClientOut(t)
      BY Zenon, <3>1 DEF CInv
    <3>3. LocalClient(u)
      BY Zenon, <1>6, <3>2 DEF LocalClient
    <3>4. ClientKeys(u) /\ ClientOut(u)
      BY Zenon, <1>6, <3>2 DEF ClientKeys, ClientOut
    <3>5. a.f = "HSD" => t.confirmed
      BY Zenon, <1>2, <3>2 DEF ClientOut
    <3> QED
      BY Zenon, <1>6, <3>3, <3>4, <3>5
  <2>2. CInv(u) /\ Together(u, c["server"])
    BY Zenon, <1>6, <1>8, <2>1 DEF HInv, CInv, Together
  <2>3. PacketOK(p, u, c["server"])
    BY <1>1, <1>3, <1>8, <2>1 DEF PacketOK, ToServer, ToClient, Peer
  <2>4. c'["client"] = u /\ c'["server"] = c["server"]
    BY <1>4, <1>8 DEF Ends
  <2> QED
    BY <1>2, <1>4, <1>7, <1>8, <2>2, <2>3, <2>4, ClientStep
<1>9. CASE e = "server"
  <2>1. LocalServer(u) /\ ServerKeys(u) /\ ServerOut(u) /\ (a.lvl = "oneRTT" => u.tls = "done")
    <3>1. SInv(t)
      BY Zenon, <1>9 DEF HInv
    <3>2. LocalServer(t) /\ ServerKeys(t) /\ ServerOut(t)
      BY Zenon, <3>1 DEF SInv
    <3>3. LocalServer(u)
      BY Zenon, <1>6, <3>2 DEF LocalServer
    <3>4. ServerKeys(u) /\ ServerOut(u)
      BY Zenon, <1>6, <3>2 DEF ServerKeys, ServerOut
    <3>5. a.lvl = "oneRTT" => t.tls = "done"
      BY Zenon, <1>2, <3>2 DEF ServerOut
    <3> QED
      BY Zenon, <1>6, <3>3, <3>4, <3>5
  <2>2. SInv(u) /\ Together(c["client"], u)
    BY <1>6, <1>9, <2>1 DEF HInv, SInv, Together
  <2>3. PacketOK(p, c["client"], u)
    BY <1>1, <1>3, <1>9, <2>1 DEF PacketOK, ToServer, ToClient, Peer
  <2>4. c'["server"] = u /\ c'["client"] = c["client"]
    BY <1>4, <1>9 DEF Ends
  <2> QED
    BY <1>2, <1>4, <1>7, <1>9, <2>2, <2>3, <2>4, ServerStep
<1> QED
  BY <1>8, <1>9 DEF Ends

LEMMA CloseLocalKeeps ==
  ASSUME HInv, NEW e \in Ends, CloseLocal(e)
  PROVE  HInv'
<1> DEFINE t == c[e]
           u == Closed(t, "closed")
           p == [to |-> Peer(e), lvls |-> t.sealers, f |-> "CLOSE", of |-> NoAck]
<1>1. p.lvls = t.sealers /\ p.of = NoAck /\ p.f = "CLOSE" /\ p.to = Peer(e)
  OBVIOUS
<1>2. (e = "server" => t.tls # "start") /\ net' = net \cup {p} /\ c' = [c EXCEPT ![e] = u]
  BY DEF CloseLocal
<1> HIDE DEF p, u
<1>3. PacketShape(p)
  <2>1. p.to \in Ends /\ p.f \in AllFrames /\ p.f \notin DOMAIN Chunk
    BY <1>1, ChunkIs DEF Ends, AllFrames, Peer
  <2>2. p.lvls \subseteq Levels
    BY <1>1 DEF HInv, CInv, SInv, ClientKeys, ServerKeys, Ends
  <2> QED
    BY <1>1, <2>1, <2>2 DEF PacketShape
<1>4. DOMAIN c' = Ends /\ c'[e] = u /\ \A x \in Ends \ {e} : c'[x] = c[x]
  BY <1>2 DEF HInv
<1>5. CASE e = "client"
  <2>1. CInv(u) /\ Grows(u, t) /\ Pending(u) = {} /\ u.tls = t.tls /\ u.confirmed = t.confirmed
    BY Zenon, <1>5, ClientCloses DEF HInv, u
  <2>2. Together(u, c["server"])
    BY <1>5, <2>1, StillTogether DEF HInv, Together
  <2>3. PacketOK(p, u, c["server"])
    BY Zenon, <1>1, <1>3, <1>5, <2>1 DEF PacketOK, ToServer, ToClient, Peer, HInv, CInv, ClientKeys
  <2>4. c'["client"] = u /\ c'["server"] = c["server"]
    BY <1>4, <1>5 DEF Ends
  <2> QED
    BY <1>2, <1>4, <1>5, <2>1, <2>2, <2>3, <2>4, ClientStep
<1>6. CASE e = "server"
  <2>1. SInv(u) /\ Together(c["client"], u) /\ Grows(u, t) /\ Pending(u) = {}
    BY Zenon, <1>2, <1>6, ServerCloses DEF HInv, u
  <2>2. PacketOK(p, c["client"], u)
    BY <1>1, <1>2, <1>3, <1>6, <2>1 DEF PacketOK, ToServer, ToClient, Peer, Grows
  <2>3. c'["server"] = u /\ c'["client"] = c["client"]
    BY <1>4, <1>6 DEF Ends
  <2> QED
    BY <1>2, <1>4, <1>6, <2>1, <2>2, <2>3, ServerStep
<1> QED
  BY <1>5, <1>6 DEF Ends

\* An end handles a packet: one that arrives, or one that had waited.
LEMMA HandledKeeps ==
  ASSUME HInv, NEW e \in Ends, Open(e), NEW p, PacketOK(p, c["client"], c["server"]), p.to = e,
         p \in net \/ p \in Pending(c[e]),
         NEW t, Same(t, c[e], {"openers", "todo"}), t.todo \subseteq c[e].todo,
         t.openers = c[e].openers \/ t.openers = c[e].openers \ {"zeroRTT"},
         c' = [c EXCEPT ![e] = HandleOnePacket(e, t, p)], net' \subseteq net
  PROVE  HInv'
<1> DEFINE u == HandleOnePacket(e, t, p)
<1>1. DOMAIN c' = Ends /\ c'[e] = u /\ \A x \in Ends \ {e} : c'[x] = c[x]
  BY DEF HInv
<1>2. /\ Shaped(t) /\ t.tls = c[e].tls /\ t.crypto = c[e].crypto /\ t.finished = c[e].finished /\ t.sealers = c[e].sealers /\ t.out = c[e].out
      /\ t.complete = c[e].complete /\ t.confirmed = c[e].confirmed /\ t.status = c[e].status /\ t.owed = c[e].owed
      /\ t.undecryptable = c[e].undecryptable
  BY DEF Same, Fields
<1>3. t.status = "open" /\ Pending(t) \subseteq Pending(c[e])
  BY <1>2 DEF Open, Pending
<1> HIDE DEF u
<1>4. CASE e = "client"
  <2>1. LocalClient(t) /\ ClientOut(t) /\ ClientKeys(t)
    <3>1. CInv(c[e])
      BY Zenon, <1>4 DEF HInv
    <3>2. LocalClient(c[e]) /\ ClientOut(c[e]) /\ ClientKeys(c[e])
      BY Zenon, <3>1 DEF CInv
    <3>3. LocalClient(t)
      BY Zenon, <1>2, <3>2 DEF LocalClient
    <3>4. ClientOut(t)
      BY Zenon, <1>2, <3>2 DEF ClientOut
    <3>5. ClientKeys(t)
      BY Zenon, <1>2, <3>2 DEF ClientKeys
    <3> QED
      BY Zenon, <3>3, <3>4, <3>5
  <2>2. CInv(t) /\ Together(t, c["server"]) /\ PacketOK(p, t, c["server"]) /\ Grows(t, c["client"])
    <3>1. CInv(c[e]) /\ Together(c[e], c["server"]) /\ PacketOK(p, c[e], c["server"])
      BY Zenon, <1>4 DEF HInv
    <3>2. CInv(t)
      BY Zenon, <1>2, <2>1, <3>1 DEF CInv
    <3>3. Together(t, c["server"])
      BY Zenon, <1>2, <3>1 DEF Together
    <3>4. PacketOK(p, t, c["server"])
      BY Zenon, <1>2, <3>1 DEF PacketOK, ToServer
    <3>5. Grows(t, c["client"])
      BY Zenon, <1>2, <1>4 DEF Grows
    <3> QED
      BY Zenon, <3>2, <3>3, <3>4, <3>5
  <2>3. CInv(u) /\ Together(u, c["server"]) /\ Grows(u, t) /\ Pending(u) \subseteq Pending(t) \cup {p}
    BY SMTT(30), <1>3, <1>4, <2>2, ClientHandles DEF u
  <2>4. Grows(u, c["client"])
    BY <2>2, <2>3 DEF Grows
  <2>5. c'["client"] = u /\ c'["server"] = c["server"]
    BY <1>1, <1>4 DEF Ends
  <2>6. \A q \in Pending(u) : q \in Pending(c["client"]) \/ (q \in net /\ q.to = "client")
    BY <1>3, <1>4, <2>3
  <2> QED
    BY Zenon, <1>1, <2>3, <2>4, <2>5, <2>6, ClientStep
<1>5. CASE e = "server"
  <2>1. LocalServer(t) /\ ServerOut(t) /\ ServerKeys(t)
    <3>1. SInv(c[e])
      BY Zenon, <1>5 DEF HInv
    <3>2. LocalServer(c[e]) /\ ServerOut(c[e]) /\ ServerKeys(c[e])
      BY Zenon, <3>1 DEF SInv
    <3>3. LocalServer(t)
      BY Zenon, <1>2, <3>2 DEF LocalServer
    <3>4. ServerOut(t)
      BY Zenon, <1>2, <3>2 DEF ServerOut
    <3>5. ServerKeys(t)
      BY Zenon, <1>2, <3>2 DEF ServerKeys
    <3> QED
      BY Zenon, <3>3, <3>4, <3>5
  <2>2. SInv(t) /\ Together(c["client"], t) /\ PacketOK(p, c["client"], t) /\ Grows(t, c["server"])
    <3>1. SInv(c[e]) /\ Together(c["client"], c[e]) /\ PacketOK(p, c["client"], c[e])
      BY Zenon, <1>5 DEF HInv
    <3>2. SInv(t)
      BY Zenon, <1>2, <2>1, <3>1 DEF SInv
    <3>3. Together(c["client"], t)
      BY Zenon, <1>2, <3>1 DEF Together
    <3>4. PacketOK(p, c["client"], t)
      BY Zenon, <1>2, <3>1 DEF PacketOK, ToClient
    <3>5. Grows(t, c["server"])
      BY Zenon, <1>2, <1>5 DEF Grows
    <3> QED
      BY Zenon, <3>2, <3>3, <3>4, <3>5
  <2>3. SInv(u) /\ Together(c["client"], u) /\ Grows(u, t) /\ Pending(u) \subseteq Pending(t) \cup {p}
    BY <1>3, <1>5, <2>2, ServerHandles DEF u
  <2>4. Grows(u, c["server"])
    BY Zenon, <2>2, <2>3 DEF Grows
  <2>5. c'["server"] = u /\ c'["client"] = c["client"]
    BY <1>1, <1>5 DEF Ends
  <2>6. \A q \in Pending(u) : q \in Pending(c["server"]) \/ (q \in net /\ q.to = "server")
    BY <1>3, <1>5, <2>3
  <2> QED
    BY Zenon, <1>1, <2>3, <2>4, <2>5, <2>6, ServerStep
<1> QED
  BY <1>4, <1>5 DEF Ends

LEMMA DeliverKeeps ==
  ASSUME HInv, NEW p \in net, NEW keep \in BOOLEAN, NEW forget \in BOOLEAN, Deliver(p, keep, forget)
  PROVE  HInv'
<1>1. PacketOK(p, c["client"], c["server"]) /\ p.to \in Ends /\ net' \subseteq net
  BY DEF HInv, PacketOK, PacketShape, Deliver
<1>2. CASE ~Open(p.to)
  BY <1>1, <1>2, SameEnds DEF Deliver
<1>3. CASE Open(p.to)
  <2> DEFINE t == IF forget THEN [c[p.to] EXCEPT !.openers = @ \ {"zeroRTT"}] ELSE c[p.to]
  <2>1. c' = [c EXCEPT ![p.to] = HandleOnePacket(p.to, t, p)]
    BY <1>3 DEF Deliver
  <2>2. Shaped(c[p.to])
    BY <1>1 DEF HInv, CInv, SInv, Ends
  <2>3. /\ Same(t, c[p.to], {"openers", "todo"}) /\ t.todo \subseteq c[p.to].todo
        /\ t.openers = c[p.to].openers \/ t.openers = c[p.to].openers \ {"zeroRTT"}
    BY <2>2 DEF Same, Shaped, Fields
  <2> HIDE DEF t
  <2> QED
    BY Zenon, <1>1, <1>3, <2>1, <2>3, HandledKeeps
<1> QED
  BY <1>2, <1>3

LEMMA ProcessKeeps ==
  ASSUME HInv, NEW e \in Ends, NEW p \in c[e].todo, ProcessUndecryptable(e, p)
  PROVE  HInv'
<1> DEFINE t == [c[e] EXCEPT !.todo = @ \ {p}]
<1>1. p \in Pending(c[e])
  BY DEF Pending
<1>2. PacketOK(p, c["client"], c["server"]) /\ p.to = e
  BY <1>1 DEF HInv, Ends
<1>3. c' = [c EXCEPT ![e] = HandleOnePacket(e, t, p)] /\ net' \subseteq net /\ Open(e)
  BY DEF ProcessUndecryptable
<1>4. Shaped(c[e])
  BY DEF HInv, CInv, SInv, Ends
<1>5. /\ Same(t, c[e], {"openers", "todo"}) /\ t.todo \subseteq c[e].todo /\ t.openers = c[e].openers
  BY <1>4 DEF Same, Shaped, Fields
<1> HIDE DEF t
<1> QED
  BY Zenon, <1>1, <1>2, <1>3, <1>5, HandledKeeps

LEMMA HInitially == HandshakeInit => HInv
<1> SUFFICES ASSUME HandshakeInit
             PROVE  HInv
  OBVIOUS
<1> DEFINE k == NewConnection("client", early)
           v == NewConnection("server", early)
<1>1. DOMAIN c = Ends /\ c["client"] = k /\ c["server"] = v /\ net = {}
  BY DEF HandshakeInit, Ends
<1>2. /\ Shaped(k) /\ k.status = "open" /\ k.tls = "start" /\ k.openers = {"initial"} /\ "initial" \in k.sealers
      /\ k.sealers \subseteq {"initial", "zeroRTT"} /\ k.crypto = [l \in CryptoLevels |-> {}] /\ k.finished = {}
      /\ k.out = {"CH1", "CH2", "EARLY"} /\ k.owed = {} /\ k.complete = FALSE /\ k.confirmed = FALSE
      /\ k.undecryptable = {} /\ k.todo = {}
  BY ZenonT(30) DEF NewConnection, Shaped, Fields
<1>3. /\ Shaped(v) /\ v.status = "open" /\ v.tls = "start" /\ v.openers = {"initial"} /\ v.sealers = {"initial"}
      /\ v.crypto = [l \in CryptoLevels |-> {}] /\ v.finished = {}
      /\ v.out = {} /\ v.owed = {} /\ v.complete = FALSE /\ v.confirmed = FALSE /\ v.undecryptable = {} /\ v.todo = {}
  BY Zenon DEF NewConnection, Shaped, Fields
<1> HIDE DEF k, v
<1>4. "initial" \in CryptoLevels /\ "handshake" \in CryptoLevels
  BY DEF CryptoLevels
<1>5. LocalClient(k) /\ ClientOut(k)
  <2>1. k.crypto["initial"] = {} /\ k.crypto["handshake"] = {} /\ DOMAIN k.crypto = CryptoLevels
    BY <1>2, <1>4
  <2>2. LocalClient(k)
    <3>1. k.complete = (k.tls = "done")
      BY ZenonT(30), <1>2
    <3>2. "handshake" \notin k.finished /\ "initial" \notin k.finished
      BY <1>2
    <3> QED
      BY Zenon, <1>2, <2>1, <3>1, <3>2 DEF LocalClient
  <2>3. ClientOut(k)
    BY <1>2 DEF ClientOut
  <2> QED
    BY <2>2, <2>3
<1>6. ClientKeys(k)
  BY <1>2 DEF ClientKeys, Levels
<1>7. LocalServer(v) /\ ServerOut(v)
  BY ZenonT(30), <1>3, <1>4 DEF LocalServer, ServerOut
<1>8. ServerKeys(v)
  BY Zenon, <1>3 DEF ServerKeys, Levels
<1>9. Together(k, v)
  BY <1>2, <1>3 DEF Together
<1>10. CInv(k) /\ SInv(v)
  BY <1>2, <1>3, <1>5, <1>6, <1>7, <1>8 DEF CInv, SInv
<1>11. Pending(k) = {} /\ Pending(v) = {}
  BY <1>2, <1>3 DEF Pending
<1> QED
  BY <1>1, <1>9, <1>10, <1>11 DEF HInv, Ends

LEMMA HStays == HInv /\ [HandshakeNext]_handshakeVars => HInv'
<1> SUFFICES ASSUME HInv, [HandshakeNext]_handshakeVars
             PROVE  HInv'
  OBVIOUS
<1>1. ASSUME NEW e \in Ends, NEW f \in Frames, NEW l \in Levels, SendFrame(e, f, l)
      PROVE  HInv'
  BY <1>1, SendFrameKeeps
<1>2. ASSUME NEW e \in Ends, NEW l \in CryptoLevels, SendPing(e, l)
      PROVE  HInv'
  BY <1>2, SendPingKeeps
<1>3. ASSUME NEW e \in Ends, NEW a \in Acks, SendAck(e, a)
      PROVE  HInv'
  BY <1>3, SendAckKeeps
<1>4. ASSUME NEW e \in Ends, NEW p \in c[e].todo, ProcessUndecryptable(e, p)
      PROVE  HInv'
  BY <1>4, ProcessKeeps
<1>5. ASSUME NEW e \in Ends, CloseLocal(e)
      PROVE  HInv'
  BY <1>5, CloseLocalKeeps
<1>6. ASSUME NEW p \in net, NEW keep \in BOOLEAN, NEW forget \in BOOLEAN, Deliver(p, keep, forget)
      PROVE  HInv'
  BY <1>6, DeliverKeeps
<1>7. ASSUME NEW p \in net, Lose(p)
      PROVE  HInv'
  BY <1>7, SameEnds DEF Lose
<1>8. CASE UNCHANGED handshakeVars
  BY <1>8, SameEnds DEF handshakeVars
<1> QED
  BY <1>1, <1>2, <1>3, <1>4, <1>5, <1>6, <1>7, <1>8 DEF HandshakeNext, Ends

THEOREM HandshakeInvariant == HandshakeSpec => []HInv
BY HInitially, HStays, PTL DEF HandshakeSpec

--------------------------------------------------------------------------------
(* What follows.                                                                 *)

\* No order of losses, copies and delays makes either connection fail (a crypto stream
\* finished with data left, crypto data after its level, a packet queued after completion),
\* and whatever was sent on a level has been received when the sender drops the level.
THEOREM HandshakeStaysSound == HandshakeSpec => []HandshakeSound
<1>1. HInv => HandshakeSound
  <2> SUFFICES ASSUME HInv
               PROVE  HandshakeSound
    BY Zenon
  <2> DEFINE k == c["client"]
             v == c["server"]
  <2>0. /\ LocalClient(k) /\ ClientOut(k) /\ ClientKeys(k)
        /\ LocalServer(v) /\ ServerOut(v) /\ ServerKeys(v) /\ Together(k, v)
    BY Zenon DEF HInv, CInv, SInv
  <2>1. NoSpuriousFailure
    BY Zenon, <2>0 DEF NoSpuriousFailure, LocalClient, LocalServer, Ends
  <2>2. "initial" \in k.finished => 1 \in v.crypto["initial"] /\ 2 \in v.crypto["initial"]
    BY Zenon, <2>0 DEF LocalClient, LocalServer, Together
  <2>3. "handshake" \in k.finished => 1 \in v.crypto["handshake"]
    BY <2>0 DEF LocalClient, LocalServer, Together
  <2>4. "initial" \in v.finished => 1 \in k.crypto["initial"]
    BY Zenon, <2>0 DEF LocalClient, LocalServer, Together
  <2>5. "handshake" \in v.finished => 1 \in k.crypto["handshake"] /\ 2 \in k.crypto["handshake"]
    BY <2>0 DEF LocalClient, LocalServer, Together
  <2>6. DroppedLevelNotNeeded
    <3> SUFFICES ASSUME NEW f \in DOMAIN Chunk, Chunk[f].lvl \in c[Chunk[f].by].finished
                 PROVE  Chunk[f].i \in c[Peer(Chunk[f].by)].crypto[Chunk[f].lvl]
      BY DEF DroppedLevelNotNeeded
    <3>1. f \in {"CH1", "CH2", "SH", "EE", "SFIN", "CFIN"}
      BY ChunkIs
    <3> QED
      BY <2>2, <2>3, <2>4, <2>5, <3>1, ChunkIs DEF Peer
  <2> QED
    BY <2>1, <2>6 DEF HandshakeSound
<1> QED
  BY <1>1, HandshakeInvariant, PTL

\* However far apart the ends are, a CONNECTION_CLOSE, sent at every level that its sender has
\* keys for, can be read by a peer that is still open.
THEOREM CloseStaysReadable == HandshakeSpec => []CloseIsReadable
<1>1. HInv => CloseIsReadable
  <2> SUFFICES ASSUME HInv
               PROVE  CloseIsReadable
    OBVIOUS
  <2> DEFINE k == c["client"]
             v == c["server"]
  <2>0. /\ LocalClient(k) /\ ClientOut(k) /\ ClientKeys(k)
        /\ LocalServer(v) /\ ServerOut(v) /\ ServerKeys(v) /\ Together(k, v)
    BY Zenon DEF HInv, CInv, SInv
  <2>1. k.status = "closed" /\ v.status = "open" => k.sealers \cap v.openers # {}
    <3> SUFFICES ASSUME v.status = "open"
                 PROVE  \E l \in {"initial", "handshake", "oneRTT"} : l \in k.sealers /\ l \in v.openers
      BY Zenon
    <3>1. CASE v.tls = "done"
      BY <2>0, <3>1 DEF ClientKeys, ServerKeys, Together
    <3>2. CASE v.tls # "done" /\ "initial" \notin k.finished
      <4>1. CASE "initial" \notin v.finished
        BY Zenon, <2>0, <3>2, <4>1 DEF ClientKeys, ServerKeys
      <4>2. CASE "initial" \in v.finished
        <5>1. v.tls = "flight" /\ k.tls # "start" /\ ~k.confirmed
          BY Zenon, <2>0, <3>2, <4>2 DEF LocalClient, LocalServer, Together
        <5> QED
          BY <2>0, <5>1 DEF ClientKeys, ServerKeys, LocalClient
      <4> QED
        BY <4>1, <4>2
    <3>3. CASE v.tls # "done" /\ "initial" \in k.finished
      <4>1. v.tls = "flight" /\ k.tls # "start" /\ ~k.confirmed
        BY Zenon, <2>0, <3>3 DEF LocalClient, LocalServer, Together
      <4> QED
        BY <2>0, <4>1 DEF ClientKeys, ServerKeys, LocalClient
    <3> QED
      BY <3>1, <3>2, <3>3
  <2>2. v.status = "closed" /\ k.status = "open" => v.sealers \cap k.openers # {}
    <3> SUFFICES ASSUME v.status = "closed", k.status = "open"
                 PROVE  \E l \in {"initial", "handshake", "oneRTT"} : l \in v.sealers /\ l \in k.openers
      OBVIOUS
    <3>1. v.tls # "start"
      BY Zenon, <2>0 DEF LocalServer
    <3>2. CASE k.tls = "done"
      BY <2>0, <3>1, <3>2 DEF ClientKeys, ServerKeys
    <3>3. CASE k.tls # "done"
      <4>1. v.tls = "flight" /\ ~k.confirmed
        BY Zenon, <2>0, <3>1, <3>3 DEF LocalClient, LocalServer, Together
      <4>2. CASE k.tls # "start"
        BY Zenon, <2>0, <4>1, <4>2 DEF ClientKeys, ServerKeys, LocalClient
      <4>3. CASE k.tls = "start"
        BY Zenon, <2>0, <4>1, <4>3 DEF ClientKeys, ServerKeys, LocalClient, Together
      <4> QED
        BY <4>2, <4>3
    <3> QED
      BY <3>2, <3>3
  <2> QED
    BY <2>1, <2>2 DEF CloseIsReadable, Open, Peer
<1> QED
  BY <1>1, HandshakeInvariant, PTL

\* Until both ends have confirmed the handshake and no data is outstanding, some frame that
\* an end would send again can be read by the other and brings it forward, whatever was lost
\* and however few undecryptable packets are kept.
THEOREM StaysUnstuck == HandshakeSpec => []NeverStuck
<1>1. HInv => NeverStuck
  <2> SUFFICES ASSUME HInv, Ready("client"), Ready("server"),
                      ~\A e \in Ends : c[e].confirmed /\ c[e].out \cap AppFrames = {}
               PROVE  \E e \in Ends, f \in Frames, l \in Levels : Advances(e, f, l)
    BY DEF NeverStuck, Ends
  <2> DEFINE k == c["client"]
             v == c["server"]
  <2>1. k.status = "open" /\ v.status = "open"
    BY DEF Ready, Open
  <2>2. /\ LocalClient(k) /\ ClientOut(k) /\ ClientKeys(k)
        /\ LocalServer(v) /\ ServerOut(v) /\ ServerKeys(v) /\ Together(k, v)
    BY Zenon DEF HInv, CInv, SInv
  <2>3. ASSUME NEW f \in {"CH1", "CH2", "CFIN"}, f \in k.out, Chunk[f].lvl \in k.sealers, Chunk[f].lvl \in v.openers,
               Chunk[f].i \notin v.crypto[Chunk[f].lvl]
        PROVE  \E e \in Ends, ff \in Frames, l \in Levels : Advances(e, ff, l)
    <3>1. f \in DOMAIN Chunk /\ f \in Frames /\ Chunk[f].lvl \in Levels
      BY ChunkIs DEF Frames, Levels
    <3>2. Advances("client", f, Chunk[f].lvl)
      BY <2>3, <3>1 DEF Advances, Peer
    <3> QED
      BY <3>1, <3>2 DEF Ends
  <2>4. ASSUME NEW f \in {"SH", "EE", "SFIN"}, f \in v.out, Chunk[f].lvl \in v.sealers, Chunk[f].lvl \in k.openers,
               Chunk[f].i \notin k.crypto[Chunk[f].lvl]
        PROVE  \E e \in Ends, ff \in Frames, l \in Levels : Advances(e, ff, l)
    <3>1. f \in DOMAIN Chunk /\ f \in Frames /\ Chunk[f].lvl \in Levels
      BY ChunkIs DEF Frames, Levels
    <3>2. Advances("server", f, Chunk[f].lvl)
      BY <2>4, <3>1 DEF Advances, Peer
    <3> QED
      BY <3>1, <3>2 DEF Ends
  <2>5. CASE v.tls = "start"
    <3>1. k.tls = "start" /\ "initial" \notin k.finished /\ "initial" \notin v.finished
      BY ZenonT(30), <2>2, <2>5 DEF LocalClient, LocalServer, Together
    <3>2. {"CH1", "CH2"} \subseteq k.out /\ "initial" \in k.sealers /\ "initial" \in v.openers
      BY Zenon, <2>1, <2>2, <3>1 DEF ClientKeys, ClientOut, ServerKeys
    <3>3. 1 \notin v.crypto["initial"] \/ 2 \notin v.crypto["initial"]
      BY <2>2, <2>5 DEF LocalServer
    <3> QED
      BY <2>3, <3>2, <3>3, ChunkIs
  <2>6. CASE v.tls = "flight"
    <3>0. ~k.confirmed
      BY <2>2, <2>6 DEF Together
    <3>1. CASE k.tls = "start"
      <4>1. "initial" \notin k.finished /\ "initial" \notin v.finished /\ k.crypto["initial"] = {}
        BY Zenon, <2>2, <3>1 DEF LocalClient, Together
      <4>2. "SH" \in v.out /\ "initial" \in v.sealers /\ "initial" \in k.openers
        BY Zenon, <2>1, <2>2, <2>6, <4>1 DEF ClientKeys, ServerOut, ServerKeys
      <4> QED
        BY <2>4, <4>1, <4>2, ChunkIs
    <3>2. CASE k.tls \in {"hello", "extensions"}
      <4>1. "EE" \in v.out /\ "SFIN" \in v.out /\ "handshake" \in v.sealers
        BY <2>1, <2>2, <2>6 DEF ServerOut, ServerKeys
      <4>2. "handshake" \in k.openers
        BY <2>1, <2>2, <3>0, <3>2 DEF ClientKeys, LocalClient
      <4>3. 1 \notin k.crypto["handshake"] \/ 2 \notin k.crypto["handshake"]
        BY SMTT(30), <2>2, <3>2 DEF LocalClient
      <4> QED
        BY <2>4, <4>1, <4>2, <4>3, ChunkIs
    <3>3. CASE k.tls = "done"
      <4>1. "CFIN" \in k.out /\ "handshake" \in k.sealers
        BY <2>1, <2>2, <3>0, <3>3 DEF ClientOut, ClientKeys, LocalClient
      <4>2. "handshake" \in v.openers /\ v.crypto["handshake"] = {}
        BY <2>1, <2>2, <2>6 DEF ServerKeys, LocalServer
      <4> QED
        BY <2>3, <4>1, <4>2, ChunkIs
    <3> QED
      BY <2>2, <3>1, <3>2, <3>3 DEF LocalClient
  <2>7. CASE v.tls = "done"
    <3>1. k.tls = "done" /\ v.confirmed
      BY Zenon, <2>2, <2>7 DEF LocalServer, Together
    <3>2. "oneRTT" \in k.openers /\ "oneRTT" \in k.sealers /\ "oneRTT" \in v.openers /\ "oneRTT" \in v.sealers
      BY <2>1, <2>2, <2>7, <3>1 DEF ClientKeys, ServerKeys
    <3>3. PICK e \in Ends, f \in AppFrames : f \in c[e].out
      <4>1. CASE k.confirmed
        BY <3>1, <4>1 DEF Ends
      <4>2. CASE ~k.confirmed
        BY <2>1, <2>2, <2>7, <4>2 DEF Together, AppFrames, Ends
      <4> QED
        BY <4>1, <4>2
    <3>4. f \notin DOMAIN Chunk /\ f \in Frames /\ "oneRTT" \in Levels /\ "oneRTT" \notin CryptoLevels
      BY ChunkIs DEF Frames, AppFrames, Levels, CryptoLevels
    <3>5. Advances(e, f, "oneRTT")
      <4>1. "oneRTT" \in c[e].sealers \cap c[Peer(e)].openers /\ "oneRTT" \in c[e].openers \cap c[Peer(e)].sealers
        BY <3>2 DEF Ends, Peer
      <4> QED
        BY <3>3, <3>4, <4>1 DEF Advances
    <3> QED
      BY <3>4, <3>5
  <2> QED
    BY <2>2, <2>5, <2>6, <2>7 DEF LocalServer
<1> QED
  BY <1>1, HandshakeInvariant, PTL
====
