---------------------------- MODULE MCConnection ----------------------------
(***************************************************************************)
(* The handshake of two connections (Handshake), and the run loop of one   *)
(* with its goroutines (ConnectionLoop), checked side by side: focus names *)
(* the one that moves.                                                     *)
(***************************************************************************)
EXTENDS Handshake, ConnectionLoop

VARIABLE focus

Init ==
    /\ focus \in {"handshake", "loop"}
    /\ HandshakeInit /\ LoopInit
    /\ focus = "loop" => early = "none"

Next ==
    \/ focus = "handshake" /\ HandshakeNext /\ UNCHANGED <<focus, s>>
    \/ focus = "loop" /\ LoopNext /\ UNCHANGED <<focus, c, net, early>>

Spec == Init /\ [][Next]_<<focus, c, net, early, s>>
=============================================================================
