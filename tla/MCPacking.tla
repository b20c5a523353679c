----------------------------- MODULE MCPacking -----------------------------
(***************************************************************************)
(* The parts of packing that share no state, checked side by side: a       *)
(* behaviour chooses one of them and only that part moves.                 *)
(***************************************************************************)
EXTENDS Integers

CONSTANTS Streams, Control, MaxRoom, MaxBlocked, MaxCancels, MaxLost, MaxPathResponses,
    MaxBytes, MaxPayload, MaxRequeued, MaxPings,
    Adders, Receivers, Limits, MaxDatagramSendQueueLen, MaxDatagramRcvQueueLen, MaxArrivals,
    LongHeader, ShortHeader, Overhead, AckLength, MinCoalescedPacketSize, MinInitialPacketSize, MaxNonAckElicitingAcks,
    MaxSizes, PnLens, Contents, KeySets, Layouts, ProbeSizes,
    Window2, Window3, Window4, MaxPN, MaxAcked, MaxAckFrameSize, ShortVarint

VARIABLES focus, f, c, d, y, z

Framing == INSTANCE Framing WITH MaxWrites <- [s |-> 2, t |-> 1]
Crypto == INSTANCE CryptoPacking
Datagrams == INSTANCE DatagramQueue WITH SizeOf <- [a |-> 1, b |-> 1, e |-> 2]
Layout == INSTANCE PacketLayout
Wire == INSTANCE WireFormat

\* The levels with a sealer as the handshake proceeds; two frame layouts of a QUICSpec.
Sealers == {{"initial"}, {"initial", "zeroRTT"}, {"initial", "handshake"}, {"initial", "handshake", "oneRTT"},
            {"handshake", "oneRTT"}, {"oneRTT"}}
SpecLayouts == {[extra |-> 0, min |-> 1200], [extra |-> 700, min |-> 1250]}

Init ==
    /\ focus \in {"framing", "crypto", "datagrams", "layout", "wire"}
    /\ Framing!FramingInit /\ Layout!LayoutInit /\ Wire!WireInit
    /\ Crypto!CryptoInit /\ (focus # "crypto" => ~c.spec)
    /\ Datagrams!DatagramInit /\ (focus # "datagrams" => d.limit = 1)

Next ==
    \/ focus = "framing" /\ Framing!FramingNext /\ UNCHANGED <<focus, c, d, y, z>>
    \/ focus = "crypto" /\ Crypto!CryptoNext /\ UNCHANGED <<focus, f, d, y, z>>
    \/ focus = "datagrams" /\ Datagrams!DatagramNext /\ UNCHANGED <<focus, f, c, y, z>>
    \/ focus = "layout" /\ Layout!LayoutNext /\ UNCHANGED <<focus, f, c, d, z>>
    \/ focus = "wire" /\ Wire!WireNext /\ UNCHANGED <<focus, f, c, d, y>>

Spec == Init /\ [][Next]_<<focus, f, c, d, y, z>>

\* A queued control frame is in one place until it is acknowledged, and a stream with data
\* waits in the framer exactly once (Framing).
FramesConserved == focus = "framing" => Framing!FramesConserved /\ Framing!StreamScheduled
\* Every byte of the TLS handshake is unsent, queued, in flight or acknowledged, in one of
\* them, also with the layout of a QUICSpec (CryptoPacking).
CryptoConserved == focus = "crypto" => Crypto!CryptoConserved
\* Neither Add nor Receive sleeps while it could return (DatagramQueue).
DatagramsServed == focus = "datagrams" => Datagrams!DatagramsServed
\* The receiver finds the packets that were coalesced, padded as they must be (PacketLayout).
DatagramWellFormed == focus = "layout" => Layout!DatagramWellFormed
\* Truncated packet numbers and ACK frames decode to what was encoded (WireFormat).
DecodesAsSent == focus = "wire" => Wire!DecodesAsSent
\* No RESET_STREAM of a rejected 0-RTT attempt is sent afterwards (Framing).
NoStaleReset == Framing!NoStaleReset
=============================================================================
