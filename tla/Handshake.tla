------------------------------ MODULE Handshake ------------------------------
(***************************************************************************)
(* Two connections (connection.go) establishing keys over a network that   *)
(* loses, duplicates and reorders packets: the packet handlers with the    *)
(* keys of cryptoSetup (server) and uCryptoSetup (client), the crypto      *)
(* streams, the queue of undecryptable packets, handshake completion and   *)
(* confirmation, the dropping of encryption levels, 0-RTT, and the levels  *)
(* at which a CONNECTION_CLOSE is sent.                                    *)
(*                                                                         *)
(* The TLS stack is external: it turns the complete ClientHello into the   *)
(* server's flight, and so on.  A crypto stream is a sequence of chunks    *)
(* (the ClientHello of a parroted browser needs two packets), a packet     *)
(* carries one frame.  A crypto chunk may be sent again until its level is *)
(* dropped: the ACK of an Initial or Handshake packet only ends that       *)
(* earlier.  Packet numbers are the subject of SentPackets and             *)
(* ReceivedPackets.                                                        *)
(***************************************************************************)
EXTENDS Naturals, FiniteSets

CONSTANTS
    MaxInFlight,        \* bound on the different packets in the network
    MaxUndecryptable    \* protocol.MaxUndecryptablePackets

Levels == {"initial", "zeroRTT", "handshake", "oneRTT"}
CryptoLevels == {"initial", "handshake"}
Peer(e) == IF e = "client" THEN "server" ELSE "client"

\* The CRYPTO frames: who sends them, on which stream, and their place there.
Chunk == [CH1  |-> [by |-> "client", lvl |-> "initial",   i |-> 1],
          CH2  |-> [by |-> "client", lvl |-> "initial",   i |-> 2],
          SH   |-> [by |-> "server", lvl |-> "initial",   i |-> 1],
          EE   |-> [by |-> "server", lvl |-> "handshake", i |-> 1],
          SFIN |-> [by |-> "server", lvl |-> "handshake", i |-> 2],
          CFIN |-> [by |-> "client", lvl |-> "handshake", i |-> 1]]
\* Retransmitted 1-RTT frames: the client's first data, the server's data sent
\* before it knows the client's Finished, and HANDSHAKE_DONE.
AppFrames == {"EARLY", "DATA", "HSD"}

NoAck == [f |-> "none", lvl |-> "none"]
Packet(e, l, f) == [to |-> Peer(e), lvls |-> {l}, f |-> f, of |-> NoAck]
AckPacket(e, a) == [to |-> Peer(e), lvls |-> {"oneRTT"}, f |-> "ACK", of |-> a]

Acks == {[f |-> f, lvl |-> "oneRTT"] : f \in AppFrames} \cup {[f |-> "EARLY", lvl |-> "zeroRTT"]}

VARIABLES
    c,          \* the two connections
    net,        \* the packets in the network
    early       \* "none", "accepted" or "rejected": what becomes of 0-RTT

handshakeVars == <<c, net, early>>

-----------------------------------------------------------------------------
(* Crypto streams: the chunks received on each level. *)

NumRead(chunks) == CHOOSE n \in 0..2 : 1..n \subseteq chunks /\ n + 1 \notin chunks
HasMoreData(chunks) == chunks # 1..NumRead(chunks)

\* What is left of a closed connection: the keys of its CONNECTION_CLOSE.
Closed(s, how) ==
    [s EXCEPT !.status = how, !.openers = {}, !.out = {}, !.owed = {}, !.got = {},
              !.undecryptable = {}, !.todo = {}]
Fail(s, why) == [Closed(s, "failed") EXCEPT !.why = why]

\* dropEncryptionLevel for Initial and Handshake: sent packets and queued
\* retransmissions are forgotten, the keys discarded, the crypto stream finished.
DropEncryptionLevel(s, l) ==
    LET d == [s EXCEPT !.openers = @ \ {l}, !.sealers = @ \ {l}, !.finished = @ \cup {l},
                       !.out = {f \in @ : f \in DOMAIN Chunk => Chunk[f].lvl # l}]
    IN  IF HasMoreData(s.crypto[l]) THEN Fail(d, "more crypto data") ELSE d

\* dropEncryptionLevel for 0-RTT: the streams and the framer are reset.
Reject0RTT(s) == [s EXCEPT !.sealers = @ \ {"zeroRTT"}, !.out = @ \ {"EARLY"}]

\* Keys of the server.
SetReadKey(s, l) == [s EXCEPT !.openers = @ \cup {l}]
SetWriteKey(s, l) == [s EXCEPT !.sealers = @ \cup {l}]
\* Keys of the client; its 1-RTT write key replaces the 0-RTT key.
USetReadKey(s, l) == [s EXCEPT !.openers = @ \cup {l}]
USetWriteKey(s, l) == [s EXCEPT !.sealers = (IF l = "oneRTT" THEN @ \ {"zeroRTT"} ELSE @) \cup {l}]
WriteRecord(s, fs) == [s EXCEPT !.out = @ \cup fs]

\* EventReceivedReadKeys: packets that could not be decrypted are tried again.
ReceivedReadKeys(s) == [s EXCEPT !.todo = @ \cup s.undecryptable, !.undecryptable = {}]

\* The server's TLS stack and cryptoSetup: the whole ClientHello yields the
\* server's flight; the client's Finished yields the 1-RTT read key.
ServerMessage(s) ==
    CASE s.tls = "start" /\ NumRead(s.crypto["initial"]) = 2 ->
           LET k == SetWriteKey(SetWriteKey(SetReadKey(s, "handshake"), "handshake"), "oneRTT")
               z == IF early = "accepted" THEN SetReadKey(k, "zeroRTT") ELSE k
           IN  ReceivedReadKeys(WriteRecord([z EXCEPT !.tls = "flight"], {"SH", "EE", "SFIN", "DATA"}))
      [] s.tls = "flight" /\ NumRead(s.crypto["handshake"]) = 1 ->
           ReceivedReadKeys([SetReadKey(s, "oneRTT") EXCEPT !.tls = "done", !.complete = TRUE])
      [] OTHER -> s

\* The client's TLS stack and uCryptoSetup: ServerHello, EncryptedExtensions
\* (which say whether 0-RTT was rejected), and the server's Finished.
ClientHello1(s) ==
    IF s.tls = "start" /\ NumRead(s.crypto["initial"]) = 1
    THEN ReceivedReadKeys([USetWriteKey(USetReadKey(s, "handshake"), "handshake") EXCEPT !.tls = "hello"])
    ELSE s

ClientExtensions(s) ==
    IF s.tls = "hello" /\ NumRead(s.crypto["handshake"]) >= 1
    THEN LET x == [s EXCEPT !.tls = "extensions"]
         IN  IF early = "rejected" THEN Reject0RTT(x) ELSE x
    ELSE s

ClientFinished(s) ==
    IF s.tls = "extensions" /\ NumRead(s.crypto["handshake"]) = 2
    THEN ReceivedReadKeys([WriteRecord(USetWriteKey(USetReadKey(s, "oneRTT"), "oneRTT"), {"CFIN"})
                             EXCEPT !.tls = "done", !.complete = TRUE])
    ELSE s

HandleMessage(e, s) ==
    IF e = "server" THEN ServerMessage(s) ELSE ClientFinished(ClientExtensions(ClientHello1(s)))

\* cryptoStream.HandleCryptoFrame, then the TLS stack reads what is in order.
HandleCryptoFrame(e, s, l, i) ==
    IF l \in s.finished
    THEN IF \A j \in s.crypto[l] : j < i THEN Fail(s, "crypto data after level change") ELSE s
    ELSE HandleMessage(e, [s EXCEPT !.crypto[l] = @ \cup {i}])

-----------------------------------------------------------------------------
(* Handling of packets *)

HandshakeConfirmed(s) == [DropEncryptionLevel(s, "handshake") EXCEPT !.confirmed = TRUE]

\* handleHandshakeComplete: the server confirms the handshake at once.
HandleHandshakeComplete(e, s) ==
    LET d == [s EXCEPT !.undecryptable = {}]
    IN  IF e = "client" THEN d ELSE [HandshakeConfirmed(d) EXCEPT !.out = @ \cup {"HSD"}]

\* Mutant: an acknowledged 0-RTT packet confirms the handshake as well.
ConfirmedByAnyAck(e, s, a) ==
    LET d == [s EXCEPT !.out = @ \ {a.f}]
    IN  IF e = "client" /\ ~s.confirmed THEN HandshakeConfirmed(d) ELSE d

\* handleAckFrame: the client's handshake is confirmed by an acknowledged 1-RTT packet.
HandleAckFrame(e, s, a) ==
    LET d == [s EXCEPT !.out = @ \ {a.f}]
    IN  IF e = "client" /\ a.lvl = "oneRTT" /\ ~s.confirmed THEN HandshakeConfirmed(d) ELSE d

HandleFrame(e, s, p, l) ==
    CASE p.f \in DOMAIN Chunk -> HandleCryptoFrame(e, s, l, Chunk[p.f].i)
      [] p.f = "ACK"   -> HandleAckFrame(e, s, p.of)
      [] p.f = "HSD"   -> IF s.confirmed THEN s ELSE HandshakeConfirmed(s)
      [] p.f = "CLOSE" -> Closed(s, "remote")
      [] OTHER         -> [s EXCEPT !.got = @ \cup ({p.f} \cap AppFrames)]

\* handleFrames: the completion of the handshake is handled after all frames.
HandleFrames(e, s, p, l) ==
    LET f == HandleFrame(e, s, p, l)
    IN  IF ~s.complete /\ f.complete THEN HandleHandshakeComplete(e, f) ELSE f

\* handleUnpackedLongHeaderPacket and handleUnpackedShortHeaderPacket: the server
\* drops the Initial keys with the first Handshake packet.
HandleUnpacked(e, s, p, l) ==
    LET d == IF e = "server" /\ l = "handshake" /\ "initial" \in s.openers
             THEN DropEncryptionLevel(s, "initial") ELSE s
    IN  [HandleFrames(e, d, p, l) EXCEPT !.owed = @ \cup ({[f |-> p.f, lvl |-> l]} \cap Acks)]

\* GetInitialOpener .. Get1RTTOpener return ErrKeysNotYetAvailable (and not ErrKeysDropped).
KeysNotYetAvailable(e, s, l) ==
    /\ l \notin s.openers
    /\ \/ l = "oneRTT"
       \/ l = "handshake" /\ "initial" \in s.openers
       \/ l = "zeroRTT" /\ e = "server" /\ "initial" \in s.openers

\* The unpacker finds a key for some part of the datagram.
Unpackable(s, p) == p.lvls \cap s.openers

TryQueueingUndecryptable(s, p) ==
    IF s.complete THEN Fail(s, "queueing after completion")
    ELSE IF Cardinality(s.undecryptable) + 1 > MaxUndecryptable THEN s
    ELSE [s EXCEPT !.undecryptable = @ \cup {p}]

HandleUnpackError(e, s, p) ==
    IF \E l \in p.lvls : KeysNotYetAvailable(e, s, l) THEN TryQueueingUndecryptable(s, p) ELSE s

\* Get1RTTOpener: the server drops its 0-RTT key with a 1-RTT packet, some time after
\* the handshake completed and, as handshakeCompleteTime is still zero, before.
Get1RTTOpener(s, p) ==
    IF p.lvls = {"oneRTT"} /\ ~s.complete THEN [s EXCEPT !.openers = @ \ {"zeroRTT"}] ELSE s

\* handleOnePacket.  Only a CONNECTION_CLOSE spans several levels; its first
\* readable part closes the connection.
HandleOnePacket(e, s, p) ==
    LET d == Get1RTTOpener(s, p)
        open == Unpackable(d, p)
    IN  IF open # {} THEN HandleUnpacked(e, d, p, CHOOSE l \in open : TRUE) ELSE HandleUnpackError(e, d, p)

-----------------------------------------------------------------------------
NewConnection(e, zero) ==
    [status |-> "open", why |-> "none", tls |-> "start",
     openers |-> {"initial"},
     sealers |-> {"initial"} \cup (IF e = "client" /\ zero # "none" THEN {"zeroRTT"} ELSE {}),
     crypto |-> [l \in CryptoLevels |-> {}], finished |-> {},
     out |-> IF e = "client" THEN {"CH1", "CH2", "EARLY"} ELSE {},
     owed |-> {}, got |-> {}, complete |-> FALSE, confirmed |-> FALSE,
     undecryptable |-> {}, todo |-> {}]

HandshakeInit ==
    /\ early \in {"none", "accepted", "rejected"}
    /\ c = [e \in {"client", "server"} |-> NewConnection(e, early)]
    /\ net = {}

Open(e) == c[e].status = "open"
\* The run loop handles packets that became decryptable before anything else.
Ready(e) == Open(e) /\ c[e].todo = {}
Room == Cardinality(net) < MaxInFlight

SendPacket(p) == p \notin net /\ Room /\ net' = net \cup {p} /\ UNCHANGED early

\* Mutant: the server drops the Initial keys with its first Handshake packet, too.
BothDropInitial(e, l) ==
    c' = IF l = "handshake" /\ "initial" \in c[e].openers
         THEN [c EXCEPT ![e] = DropEncryptionLevel(@, "initial")] ELSE c

\* sendPackedCoalescedPacket: the client drops the Initial keys with its first Handshake packet.
Sent(e, l) ==
    c' = IF e = "client" /\ l = "handshake" /\ "initial" \in c[e].openers
         THEN [c EXCEPT ![e] = DropEncryptionLevel(@, "initial")] ELSE c

\* Frames are sent, and sent again, for as long as they are outstanding.
SendFrame(e, f, l) ==
    /\ Ready(e)
    /\ f \in c[e].out
    /\ l \in c[e].sealers
    /\ IF f \in DOMAIN Chunk THEN l = Chunk[f].lvl ELSE l \in {"zeroRTT", "oneRTT"}
    /\ SendPacket(Packet(e, l, f))
    /\ Sent(e, l)

\* A probe, or a packet that carries only an ACK.
SendPing(e, l) ==
    /\ Ready(e)
    /\ l \in c[e].sealers \cap CryptoLevels
    /\ SendPacket(Packet(e, l, "PING"))
    /\ Sent(e, l)

SendAck(e, a) ==
    /\ Ready(e)
    /\ a \in c[e].owed
    /\ "oneRTT" \in c[e].sealers
    /\ SendPacket(AckPacket(e, a))
    /\ c' = [c EXCEPT ![e].owed = @ \ {a}]

\* Mutant: the CONNECTION_CLOSE is sent with the newest keys only.
CloseAtNewestLevel(e) ==
    /\ Ready(e)
    /\ e = "server" => c[e].tls # "start"
    /\ \E ls \in {IF "oneRTT" \in c[e].sealers THEN {"oneRTT"} ELSE c[e].sealers} :
         /\ c' = [c EXCEPT ![e] = Closed([@ EXCEPT !.sealers = ls], "closed")]
         /\ net' = net \cup {[to |-> Peer(e), lvls |-> ls, f |-> "CLOSE", of |-> NoAck]}
    /\ UNCHANGED early

\* closeLocal and packConnectionClose: one datagram with a packet for each level that has keys.
CloseLocal(e) ==
    /\ Ready(e)
    /\ e = "server" => c[e].tls # "start"
    /\ c' = [c EXCEPT ![e] = Closed(@, "closed")]
    /\ net' = net \cup {[to |-> Peer(e), lvls |-> c[e].sealers, f |-> "CLOSE", of |-> NoAck]}
    /\ UNCHANGED early

\* A packet arrives; the network may keep a copy.  A closed connection ignores
\* it.  The server may forget the 0-RTT keys with a 1-RTT packet after completion.
Deliver(p, keep, forget) ==
    /\ p \in net
    /\ Open(p.to) => Ready(p.to)
    /\ forget => p.to = "server" /\ c["server"].complete /\ p.lvls = {"oneRTT"}
                 /\ "zeroRTT" \in c["server"].openers
    /\ net' = IF keep THEN net ELSE net \ {p}
    /\ c' = IF Open(p.to)
            THEN [c EXCEPT ![p.to] =
                    HandleOnePacket(p.to, IF forget THEN [c[p.to] EXCEPT !.openers = @ \ {"zeroRTT"}] ELSE c[p.to], p)]
            ELSE c
    /\ UNCHANGED early

\* The run loop retries a packet from undecryptablePacketsToProcess.
ProcessUndecryptable(e, p) ==
    /\ Open(e)
    /\ p \in c[e].todo
    /\ c' = [c EXCEPT ![e] = HandleOnePacket(e, [c[e] EXCEPT !.todo = @ \ {p}], p)]
    /\ UNCHANGED <<net, early>>

Lose(p) ==
    /\ p \in net
    /\ net' = net \ {p}
    /\ UNCHANGED <<c, early>>

Frames == DOMAIN Chunk \cup AppFrames

HandshakeNext ==
    \/ \E e \in {"client", "server"} :
         \/ \E f \in Frames, l \in Levels : SendFrame(e, f, l)
         \/ \E l \in CryptoLevels : SendPing(e, l)
         \/ \E a \in Acks : SendAck(e, a)
         \/ \E p \in c[e].todo : ProcessUndecryptable(e, p)
         \/ CloseLocal(e)
    \/ \E p \in net, keep \in BOOLEAN, forget \in BOOLEAN : Deliver(p, keep, forget)
    \/ \E p \in net : Lose(p)

HandshakeSpec == HandshakeInit /\ [][HandshakeNext]_handshakeVars

-----------------------------------------------------------------------------
(* Properties *)

\* Between two connections that follow the protocol no order of losses, copies
\* and delays makes either close with an error: no crypto stream is finished with
\* data left, no crypto data comes after its level, and the panic of
\* tryQueueingUndecryptablePacket is never reached (connection.go:2484).
NoSpuriousFailure == \A e \in {"client", "server"} : c[e].status # "failed"

\* A level is dropped only when the peer has everything that was sent on it:
\* what is forgotten with the level is never needed again (connection.go:1862).
DroppedLevelNotNeeded ==
    \A f \in DOMAIN Chunk :
        LET s == c[Chunk[f].by]  r == c[Peer(Chunk[f].by)]
        IN  Chunk[f].lvl \in s.finished => Chunk[f].i \in r.crypto[Chunk[f].lvl]

\* No order of losses, copies and delays makes the handshake fail, and no encryption level
\* is dropped while it is needed.
HandshakeSound == NoSpuriousFailure /\ DroppedLevelNotNeeded

\* Each end can read a CONNECTION_CLOSE that the other sends at this point: the
\* levels with sealers always meet the peer's openers (packet_packer.go:188).
CloseIsReadable ==
    \A e \in {"client", "server"} :
        c[e].status = "closed" /\ Open(Peer(e)) => c[e].sealers \cap c[Peer(e)].openers # {}

\* The delivery of frame f of end e, sent at level l, moves the handshake or the
\* transfer forward: it can be read, and is new or gets an ACK that can be read.
Advances(e, f, l) ==
    LET s == c[e]  r == c[Peer(e)]
    IN  /\ f \in s.out /\ l \in s.sealers \cap r.openers
        /\ IF f \in DOMAIN Chunk
           THEN l = Chunk[f].lvl /\ Chunk[f].i \notin r.crypto[l]
           ELSE l \notin CryptoLevels /\ (f \notin r.got \cup {"HSD"} \/ "oneRTT" \in s.openers \cap r.sealers)

\* Whatever was lost, delayed or dropped for want of a key or of room, until both
\* ends have confirmed the handshake and no data is outstanding some outstanding
\* frame, sent again and delivered, makes progress: neither end waits for
\* something that the other has forgotten (connection.go:1862, 2482).
NeverStuck ==
    \/ \E e \in {"client", "server"} : ~Ready(e)
    \/ \A e \in {"client", "server"} : c[e].confirmed /\ c[e].out \cap AppFrames = {}
    \/ \E e \in {"client", "server"}, f \in Frames, l \in Levels : Advances(e, f, l)

=============================================================================
