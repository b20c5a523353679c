---------------------------- MODULE PathManager ----------------------------
(***************************************************************************)
(* path_manager.go: a server's view of a client that changes its address.  *)
(* g is the pathManager with the address the connection sends to, and what *)
(* it depends on: the connection IDs the peer has issued, the probe packets *)
(* the sent packet handler tracks, PATH_RESPONSEs on their way back.       *)
(***************************************************************************)
EXTENDS Naturals, FiniteSets

CONSTANTS
    Addrs, Home,            \* the client's addresses, the one of the handshake
    MaxPaths,               \* maxPaths
    MaxPathIDs              \* bound: paths ever probed

ASSUME PathAssumption == MaxPaths \in Nat

VARIABLE g
pathVars == <<g>>

NoPath == [i \in {} |-> {}]

\* The client is really at the addresses in g.at.
PathInit ==
    \E at \in SUBSET (Addrs \ {Home}) :
        g = [paths |-> NoPath, next |-> 0, addr |-> Home, connIDs |-> MaxPaths, retired |-> {}, current |-> {}, twice |-> FALSE,
             at |-> at \cup {Home}, target |-> NoPath, probes |-> {}, challenges |-> {}, responses |-> {}]

\* retireConnID: the peer answers each retirement with a new connection ID.
RetireConnIDs(t, ids) ==
    [t EXCEPT !.retired = @ \cup ids, !.twice = @ \/ ids \cap t.retired # {}, !.connIDs = @ + Cardinality(ids)]

Without(f, id) == [i \in DOMAIN f \ {id} |-> f[i]]

\* A PATH_CHALLENGE carries 8 random bytes, here the number of its path.
HandlePathResponseFrame(t, id) ==
    IF id \in DOMAIN t.paths THEN [t EXCEPT !.paths[id].validated = TRUE] ELSE t

\* Mutant: the other paths are dropped with their connection IDs.
SwitchForgets(t, addr) ==
    LET kept == {id \in DOMAIN t.paths : t.paths[id].addr = addr}
    IN  [t EXCEPT !.paths = NoPath, !.current = @ \cup kept, !.addr = addr, !.probes = {}]

\* SwitchToPath and MigratedPath, which forgets the probes it tracks.
SwitchToPath(t, addr) ==
    LET kept == {id \in DOMAIN t.paths : t.paths[id].addr = addr}
    IN  [RetireConnIDs(t, DOMAIN t.paths \ kept)
         EXCEPT !.paths = NoPath, !.current = @ \cup kept, !.addr = addr, !.probes = {}]

\* The probe of a new path: getConnID, the entry and the PATH_CHALLENGE sent.
ProbePath(t, addr, nonProbing) ==
    LET id == t.next
    IN  [t EXCEPT !.next = id + 1, !.connIDs = @ - 1, !.probes = @ \cup {id}, !.challenges = @ \cup {id},
                  !.target = [i \in DOMAIN @ \cup {id} |-> IF i = id THEN addr ELSE @[i]],
                  !.paths = [i \in DOMAIN @ \cup {id} |-> IF i = id THEN [addr |-> addr, validated |-> FALSE, rcvdNonProbing |-> nonProbing]
                                                          ELSE @[i]]]

\* HandlePacket, with the switch that the connection makes on its result.
HandlePacket(t, addr, nonProbing) ==
    LET known == {id \in DOMAIN t.paths : t.paths[id].addr = addr}
    IN  IF known # {}
        THEN LET id == CHOOSE i \in known : TRUE
                 u == [t EXCEPT !.paths[id].rcvdNonProbing = @ \/ nonProbing]
             IN  IF u.paths[id].validated /\ u.paths[id].rcvdNonProbing THEN SwitchToPath(u, addr) ELSE u
        ELSE IF Cardinality(DOMAIN t.paths) >= MaxPaths \/ t.connIDs = 0 THEN t
        ELSE ProbePath(t, addr, nonProbing)

\* handleShortHeaderPacket: the frames of the packet first, then its address
\* if no packet with a larger number was received.
ReceivePacket(addr, nonProbing, response, largest) ==
    /\ response # {} => addr \in g.at
    /\ ~largest => response # {}
    /\ LET t == [IF response = {} THEN g ELSE HandlePathResponseFrame(g, CHOOSE id \in response : TRUE)
                 EXCEPT !.responses = @ \ response]
           moved == largest /\ addr # g.addr
       IN  /\ moved /\ ~(\E id \in DOMAIN g.paths : g.paths[id].addr = addr) => g.next < MaxPathIDs
           /\ g' = IF moved THEN HandlePacket(t, addr, nonProbing) ELSE t

\* The client answers a challenge that was sent to where it is.
AnswerChallenge(id) ==
    g' = [g EXCEPT !.challenges = @ \ {id}, !.responses = IF g.target[id] \in g.at THEN @ \cup {id} ELSE @]

\* pathManagerAckHandler.OnAcked
OnAcked(id) == g' = [g EXCEPT !.probes = @ \ {id}]

\* pathManagerAckHandler.OnLost; the challenge may have arrived all the same.
OnLost(id) ==
    LET t == [g EXCEPT !.probes = @ \ {id}]
    IN  g' = IF id \in DOMAIN t.paths THEN RetireConnIDs([t EXCEPT !.paths = Without(@, id)], {id}) ELSE t

PathNext ==
    \/ \E addr \in Addrs, nonProbing, largest \in BOOLEAN, response \in {{}} \cup {{id} : id \in g.responses} :
           ReceivePacket(addr, nonProbing, response, largest)
    \/ \E id \in g.challenges : AnswerChallenge(id)
    \/ \E id \in g.probes : OnAcked(id) \/ OnLost(id)

PathSpec == PathInit /\ [][PathNext]_pathVars

(***************************************************************************)
(* The connection only ever moves to an address at which the client        *)
(* answered a challenge, whatever packets arrive from other addresses and  *)
(* however late a PATH_RESPONSE is; at most maxPaths are probed at a time; *)
(* and the connection ID of every path ever probed is held by that path,   *)
(* or by the path the connection moved to, or was retired, exactly once.   *)
(* (HandlePacket, HandlePathResponseFrame, SwitchToPath, OnLost)           *)
(***************************************************************************)
PathsSound ==
    /\ g.addr \in g.at
    /\ Cardinality(DOMAIN g.paths) <= MaxPaths
    /\ ~g.twice
    /\ \A id \in 0..(g.next - 1) :
           Cardinality({S \in {<<"path", DOMAIN g.paths>>, <<"current", g.current>>, <<"retired", g.retired>>} : id \in S[2]}) = 1
=============================================================================
