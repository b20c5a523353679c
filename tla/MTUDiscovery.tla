---------------------------- MODULE MTUDiscovery ----------------------------
(***************************************************************************)
(* mtu_discoverer.go: the search for the path MTU by probe packets.  m is  *)
(* the mtuFinder, with the probes in the network (m.probes, by generation) *)
(* and the path they take: its MTU, and how often it may still lose a      *)
(* packet that would fit.                                                  *)
(***************************************************************************)
EXTENDS Integers, Sequences, FiniteSets

CONSTANTS
    Start, Max,             \* the search interval
    PathMTUs,               \* the MTUs a path may have
    MaxMTUDiff,             \* maxMTUDiff
    MaxLostMTUProbes,       \* maxLostMTUProbes
    MaxResets               \* bound: migrations

VARIABLE m

Invalid == 0                \* protocol.InvalidByteCount

\* init of the finder: the maximum is the first lost size.
Interval == [i \in 1..MaxLostMTUProbes |-> IF i = 1 THEN Max ELSE Invalid]

MTUInit ==
    \E mtu \in PathMTUs :
        m = [started |-> FALSE, inFlight |-> Invalid, min |-> Start, lost |-> Interval, lastProbeWasLost |-> FALSE,
             generation |-> 0, probes |-> {}, mtu |-> mtu, spare |-> MaxLostMTUProbes - 1, panicked |-> FALSE]

\* max: the last valid entry of lost.
MaxSize == m.lost[CHOOSE i \in 1..MaxLostMTUProbes :
                     m.lost[i] # Invalid /\ (i = MaxLostMTUProbes \/ m.lost[i + 1] = Invalid)]

Done == MaxSize - m.min <= MaxMTUDiff + 1

StartDiscovery == ~m.started /\ m' = [m EXCEPT !.started = TRUE]

\* ShouldSendProbe and GetPing; the delay between probes is a matter of time.
SendProbe ==
    /\ m.started /\ m.inFlight = Invalid /\ ~Done
    /\ LET size == IF m.lastProbeWasLost THEN (m.min + m.lost[1]) \div 2 ELSE (m.min + MaxSize) \div 2
       IN  m' = [m EXCEPT !.inFlight = size, !.probes = @ \cup {<<m.generation, size>>}]

\* Reset, on migration to a path with an MTU of its own.
Reset(mtu) ==
    /\ m.generation < MaxResets /\ m.started
    /\ m' = [m EXCEPT !.generation = @ + 1, !.lastProbeWasLost = FALSE, !.inFlight = Invalid,
                      !.min = Start, !.lost = Interval, !.mtu = mtu, !.spare = MaxLostMTUProbes - 1]

\* OnAcked: the sizes not above the acknowledged one are removed from lost.
OnAcked(t, g) ==
    IF g # t.generation THEN t
    ELSE IF t.inFlight = Invalid THEN [t EXCEPT !.panicked = TRUE]
    ELSE LET size == t.inFlight
             above == {i \in 1..MaxLostMTUProbes : size < t.lost[i]}
             j == IF above = {} THEN 0 ELSE (CHOOSE i \in above : \A k \in above : i <= k) - 1
         IN  [t EXCEPT !.inFlight = Invalid, !.min = size, !.lastProbeWasLost = FALSE,
                       !.lost = [i \in 1..MaxLostMTUProbes |-> IF i + j <= MaxLostMTUProbes THEN @[i + j] ELSE Invalid]]

\* Mutant: the new loss replaces the next larger one instead of moving it up.
OnLostReplace(t, g) ==
    IF g # t.generation THEN t
    ELSE IF t.inFlight = Invalid THEN [t EXCEPT !.panicked = TRUE]
    ELSE LET size == t.inFlight
             above == {i \in 1..MaxLostMTUProbes : size < t.lost[i]}
             at == CHOOSE i \in above : \A k \in above : i <= k
         IN  [t EXCEPT !.inFlight = Invalid, !.lastProbeWasLost = TRUE, !.lost = IF above = {} THEN @ ELSE [@ EXCEPT ![at] = size]]

\* OnLost: the size is inserted into lost, which forgets its largest entry when full.
OnLost(t, g) ==
    IF g # t.generation THEN t
    ELSE IF t.inFlight = Invalid THEN [t EXCEPT !.panicked = TRUE]
    ELSE LET size == t.inFlight
             above == {i \in 1..MaxLostMTUProbes : size < t.lost[i]}
             at == CHOOSE i \in above : \A k \in above : i <= k
         IN  [t EXCEPT !.inFlight = Invalid, !.lastProbeWasLost = TRUE,
                       !.lost = IF above = {} THEN @
                                ELSE [i \in 1..MaxLostMTUProbes |-> IF i < at THEN @[i] ELSE IF i = at THEN size ELSE @[i - 1]]]

\* The network: a probe that fits arrives or, a limited number of times, is
\* lost; one that does not fit is lost.
ProbeFate(probe) ==
    LET t == [m EXCEPT !.probes = @ \ {probe}]
        current == probe[1] = m.generation
    IN  \/ current /\ probe[2] <= m.mtu /\ m' = OnAcked(t, probe[1])
        \/ current /\ probe[2] <= m.mtu /\ m.spare > 0 /\ m' = [OnLost(t, probe[1]) EXCEPT !.spare = @ - 1]
        \/ current /\ probe[2] > m.mtu /\ m' = OnLost(t, probe[1])
        \/ ~current /\ (m' = OnAcked(t, probe[1]) \/ m' = OnLost(t, probe[1]))

MTUNext == StartDiscovery \/ SendProbe \/ (\E mtu \in PathMTUs : Reset(mtu)) \/ (\E probe \in m.probes : ProbeFate(probe))

(***************************************************************************)
(* The MTU that discovery settles on is supported by the path and, as long *)
(* as the path loses at most maxLostMTUProbes - 1 probes that would have   *)
(* fit, at most maxMTUDiff + 1 below what it supports: the "resilient to   *)
(* packet loss" of mtu_discoverer.go.  The answers to probes of an earlier *)
(* path change nothing, and the sizes in lost stay above the minimum and   *)
(* sorted.  (GetPing, OnAcked, OnLost, Reset)                             *)
(***************************************************************************)
MTUFound ==
    /\ ~m.panicked
    /\ m.min <= m.mtu
    /\ MaxSize >= (IF m.mtu < Max THEN m.mtu ELSE Max)
    /\ \A i \in 1..MaxLostMTUProbes : m.lost[i] # Invalid => m.lost[i] > m.min /\ (i > 1 => m.lost[i] >= m.lost[i - 1])
=============================================================================
