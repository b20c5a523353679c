------------------------------ MODULE MCHTTP3 ------------------------------
(***************************************************************************)
(* The parts of HTTP/3 that share no state, checked side by side: a        *)
(* behaviour chooses one of them and only that part moves.                 *)
(***************************************************************************)
EXTENDS H3Server, H3Pool, H3Request, H3Conn, H3Response

VARIABLE focus      \* the part that moves

Init ==
    /\ focus \in {"server", "pool", "request", "conn", "response"}
    /\ ServerInit /\ PoolInit /\ RequestInit /\ ConnInit /\ ResponseInit
    /\ focus # "request" => ~q.zeroRTT /\ ~q.extended /\ ~q.hasBody /\ q.complete
    /\ focus # "conn" => ~n.enable /\ ~n.supported
    /\ focus # "response" => ~x.head

Next ==
    \/ focus = "server" /\ ServerNext /\ UNCHANGED <<focus, p, q, n, x>>
    \/ focus = "pool" /\ PoolNext /\ UNCHANGED <<focus, s, q, n, x>>
    \/ focus = "request" /\ RequestNext /\ UNCHANGED <<focus, s, p, n, x>>
    \/ focus = "conn" /\ ConnNext /\ UNCHANGED <<focus, s, p, q, x>>
    \/ focus = "response" /\ ResponseNext /\ UNCHANGED <<focus, s, p, q, n>>

Spec == Init /\ [][Next]_<<focus, s, p, q, n, x>>

=============================================================================
