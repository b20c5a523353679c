-------------------------------- MODULE ConnIDs --------------------------------
(* Both ends of connection ID management: the generator of the peer              *)
(* (conn_id_generator.go) issues connection IDs and withdraws the ones that are   *)
(* retired; the manager of this endpoint (ConnIDManager) uses them.  Frames are   *)
(* delayed and reordered, and arrive more than once when Duplicates is TRUE.  The *)
(* generator never asks to retire connection IDs: Retire Prior To is zero.        *)
EXTENDS ConnIDManager

CONSTANT MaxIssued \* protocol.MaxIssuedConnectionIDs

VARIABLES
  activeSrcConnIDs, \* the generator's connection IDs, all in the packet handler map
  highestSeq,
  retirePackets,    \* packets with a RETIRE_CONNECTION_ID frame: <<seq, destination>>
  genFailed         \* Retire returned an error

genVars == <<activeSrcConnIDs, highestSeq, retirePackets, genFailed>>
allVars == <<vars, genVars>>

NoRPT == [s \in 1..MaxSeq |-> 0]

GenInit ==
  /\ activeSrcConnIDs = {0} /\ highestSeq = 0
  /\ retirePackets = {} /\ genFailed = FALSE

ConnIDsInit == rpt = NoRPT /\ InitManager /\ GenInit

IssueLimit == IF ConnIDLimit < MaxIssued THEN ConnIDLimit ELSE MaxIssued

\* The transport parameters of the manager's endpoint arrive: connection IDs are
\* issued up to its active_connection_id_limit.
SetMaxActiveConnIDs ==
  /\ highestSeq = 0
  /\ IssueLimit - 1 \in 1..MaxSeq
  /\ highestSeq' = IssueLimit - 1
  /\ activeSrcConnIDs' = activeSrcConnIDs \cup 1..(IssueLimit - 1)
  /\ UNCHANGED <<vars, retirePackets, genFailed>>

\* The packer puts a queued RETIRE_CONNECTION_ID frame into a packet, or sends the
\* frame again after a loss.  The packet goes to the connection ID that is active now.
SendRetire(seq) ==
  /\ ~failed /\ ~closed /\ seq \in retired
  /\ retirePackets' = retirePackets \cup {<<seq, active>>}
  /\ UNCHANGED <<vars, activeSrcConnIDs, highestSeq, genFailed>>

\* The connection ID of the handshake is not replaced.
Replaced(seq) == seq # 0 /\ highestSeq < MaxSeq

NextSeq == highestSeq + 1

Known(seq) == seq \in activeSrcConnIDs

Retire(seq, destination) ==
  /\ ~genFailed
  /\ <<seq, destination>> \in retirePackets
  /\ \/ /\ seq > highestSeq \/ (Known(seq) /\ seq = destination)
        /\ genFailed' = TRUE
        /\ UNCHANGED <<activeSrcConnIDs, highestSeq>>
     \/ /\ seq <= highestSeq /\ Known(seq) /\ seq # destination
        /\ IF Replaced(seq)
           THEN /\ highestSeq' = NextSeq
                /\ activeSrcConnIDs' = (activeSrcConnIDs \ {seq}) \cup {NextSeq}
           ELSE /\ activeSrcConnIDs' = activeSrcConnIDs \ {seq}
                /\ UNCHANGED highestSeq
        /\ UNCHANGED genFailed
  /\ UNCHANGED <<vars, retirePackets>>

\* A NEW_CONNECTION_ID frame arrives.
ReceiveNewConnectionID(seq) == seq <= highestSeq /\ Add(seq, FALSE) /\ UNCHANGED genVars

UseConnIDs == ManagerStep /\ received' = received /\ UNCHANGED genVars

ConnIDsNext ==
  \/ SetMaxActiveConnIDs
  \/ \E seq \in 0..MaxSeq : SendRetire(seq)
  \/ \E seq, destination \in 0..MaxSeq : Retire(seq, destination)
  \/ \E seq \in 1..MaxSeq : ReceiveNewConnectionID(seq)
  \/ UseConnIDs

ConnIDsSpec == ConnIDsInit /\ [][ConnIDsNext]_allVars

\* Frames that are sent arrive, the handshake completes and packets keep being packed.
SureStep ==
  \/ SetMaxActiveConnIDs
  \/ \E seq \in (1..MaxSeq) \ received : ReceiveNewConnectionID(seq)
  \/ (Get(TRUE) \/ \E token \in BOOLEAN : SetHandshakeComplete(token, FALSE)) /\ UNCHANGED genVars

--------------------------------------------------------------------------------
\* Whatever this endpoint sends to, the peer still has in its packet handler map:
\* the connection ID of the connection, of every probed path, and the ones waiting
\* to be used.
InUseIsRoutable == InUse \subseteq activeSrcConnIDs

\* The generator never meets a RETIRE_CONNECTION_ID frame that it answers with
\* PROTOCOL_VIOLATION: for a connection ID that was not issued, or for the one the
\* packet was sent to, also when the frame is sent again much later.
RetireNeverRejected == ~genFailed

\* The generator issues a replacement for each retired connection ID as soon as it
\* learns of it; the manager never has more than its limit and never closes the
\* connection with CONNECTION_ID_LIMIT_ERROR.
LimitNeverExceeded == ~failed /\ Cardinality(activeSrcConnIDs) <= IssueLimit

\* The peers agree on the connection IDs: what one uses the other routes, neither sees an
\* error, and the reset token that is registered is the one of the connection ID in use.
PeersAgree == InUseIsRoutable /\ RetireNeverRejected /\ LimitNeverExceeded /\ ResetTokenOfActive

\* The connection ID of the handshake is abandoned once a fresh one can be had: when
\* nothing more is sure to happen, the connection has moved away from it.
HandshakeConnIDAbandoned == ~ENABLED SureStep => active # 0 \/ closed \/ IssueLimit = 1
================================================================================
