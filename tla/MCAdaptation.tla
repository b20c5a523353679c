---------------------------- MODULE MCAdaptation ----------------------------
(***************************************************************************)
(* The parts with which a connection adapts to its path (its MTU, its      *)
(* addresses, its congestion, its round-trip time), its connection IDs and *)
(* the tokens a client keeps, checked side by side: a behaviour chooses    *)
(* one of them and only that part moves.                                   *)
(***************************************************************************)
EXTENDS ConnIDManager, PathManager

CONSTANTS Start, Max, PathMTUs, MaxMTUDiff, MaxLostMTUProbes, MaxResets,
    Spaces, AppData, DatagramSizes, InitialWindow, MinWindow, MaxWindow, MaxBurst, LowWindow, MinSamples, RTTs, MaxPackets,
    InitialDatagramSize, ConfigSize, DiscoveredSize, MaxBurstPackets, Second, MinPacingDelay, TimerGranularity,
    Windows, Samples, AckDelays, PacketSizes, MaxTime,
    Origins, MaxOrigins, TokensPerOrigin, MaxTokens,
    MaxIssued,
    Focus                   \* the parts that may move

VARIABLES focus, m, c, b, k,
    activeSrcConnIDs, highestSeq, retirePackets, genFailed

genVars == <<activeSrcConnIDs, highestSeq, retirePackets, genFailed>>

MTU == INSTANCE MTUDiscovery
Sender == INSTANCE Congestion
Pacer == INSTANCE Pacing
Tokens == INSTANCE TokenStore
\* A client whose frames arrive more than once, and its peer.  The manager of this module
\* is that of a server that probes paths.
Pair == INSTANCE ConnIDs WITH Client <- TRUE, Paths <- {}, Duplicates <- TRUE

Sizes == <<10, 13>>

AdaptationInit ==
    /\ focus \in Focus
    /\ MTU!MTUInit /\ PathInit /\ Sender!CongestionInit /\ Pacer!PacingInit /\ Tokens!TokenInit
    /\ Init /\ Pair!GenInit
    /\ focus # "server" => rpt = Pair!NoRPT
    /\ focus # "mtu" => m.mtu = Start
    /\ focus # "paths" => g.at = {Home}
    /\ focus # "pacer" => \A cwnd \in Windows : b.cwnd <= cwnd

AdaptationNext ==
    /\ UNCHANGED focus
    /\ \/ focus = "mtu" /\ MTU!MTUNext /\ UNCHANGED <<g, c, b, k, vars, genVars>>
       \/ focus = "paths" /\ PathNext /\ UNCHANGED <<m, c, b, k, vars, genVars>>
       \/ focus = "sender" /\ Sender!CongestionNext /\ UNCHANGED <<m, g, b, k, vars, genVars>>
       \/ focus = "pacer" /\ Pacer!PacingNext /\ UNCHANGED <<m, g, c, k, vars, genVars>>
       \/ focus = "tokens" /\ Tokens!TokenNext /\ UNCHANGED <<m, g, c, b, vars, genVars>>
       \/ focus = "server" /\ Next /\ UNCHANGED <<m, g, c, b, k, genVars>>
       \/ focus = "pair" /\ Pair!ConnIDsNext /\ UNCHANGED <<m, g, c, b, k>>

AdaptationSpec == AdaptationInit /\ [][AdaptationNext]_<<focus, m, g, c, b, k, vars, genVars>>

\* The MTU that is settled on is supported, and close to what the path supports (MTUDiscovery).
MTUFound == focus = "mtu" => MTU!MTUFound
\* The window is reduced once for the packets of one flight and keeps its bounds; the pacer
\* allows a packet at the time it announced (Congestion, Pacing).
RateSound == Sender!OneReductionPerFlight /\ Pacer!PacingExact
\* The peers agree on the connection IDs: what one uses the other routes, neither sees an
\* error, and the connection ID of the handshake is left behind (ConnIDs).
ConnIDsAgree == focus = "pair" => Pair!PeersAgree /\ Pair!HandshakeConnIDAbandoned
\* A connection takes the newest unused token of its origin, each token once (TokenStore).
TokensExact == focus = "tokens" => Tokens!TokensExact
=============================================================================
