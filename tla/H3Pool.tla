------------------------------- MODULE H3Pool -------------------------------
(***************************************************************************)
(* http3/transport.go: the pool of connections of an HTTP/3 client for one *)
(* host.  Requests share the pool's entry, dial it when there is none,     *)
(* remove it when it failed and are retried on a new one; CloseIdle-       *)
(* Connections and Close run beside them.                                  *)
(*                                                                         *)
(* An entry (roundTripperWithCount) is a number; p.entry is the one in     *)
(* t.clients, 0 when there is none.  p.held[r] are the entries whose count *)
(* request r will decrease when its calls of roundTripOpt return: a retry  *)
(* runs inside the call it retries.  The mutex is held for one step,       *)
(* except by Close, which waits for the dial with it.                      *)
(***************************************************************************)
EXTENDS Naturals, FiniteSets

CONSTANTS
    Requests,       \* the requests of the application
    OnlyCached,     \* those with RoundTripOpt.OnlyCachedConn
    MaxEntries,     \* bound: entries made
    MaxIdleCalls    \* bound: calls of CloseIdleConnections

VARIABLE p

Entries == 1..MaxEntries

PoolInit ==
    p = [entry |-> 0, made |-> 0, locked |-> FALSE, idleCalls |-> 0, closer |-> "idle",
         dial |-> [e \in Entries |-> "none"],
         complete |-> [e \in Entries |-> FALSE], conn |-> [e \in Entries |-> "open"],
         use |-> [e \in Entries |-> 0],
         pc |-> [r \in Requests |-> "new"], on |-> [r \in Requests |-> 0], reused |-> [r \in Requests |-> FALSE],
         held |-> [r \in Requests |-> {}], cancelled |-> [r \in Requests |-> FALSE]]

\* roundTripOpt returns: the deferred decrements run.
Returned(t, r, how) ==
    [t EXCEPT !.pc[r] = how, !.held[r] = {}, !.on[r] = 0, !.reused[r] = FALSE,
              !.use = [e \in Entries |-> IF e \in t.held[r] THEN @[e] - 1 ELSE @[e]]]

\* getClient, no entry: one is made and its dial started with the context of r.
NewEntry(t) == [t EXCEPT !.made = @ + 1, !.entry = t.made + 1, !.dial[t.made + 1] = "dialing"]

\* getClient, the end of it: r uses the entry.
Use(t, r) ==
    [t EXCEPT !.pc[r] = "dialing", !.on[r] = t.entry, !.use[t.entry] = @ + 1,
              !.reused[r] = t.dial[t.entry] = "ok" /\ t.complete[t.entry]]

\* Mutant: the use is not counted for an entry that was dialled before.
UseUncounted(r) ==
    /\ p.pc[r] = "new" /\ ~p.locked
    /\ \/ p.entry = 0 /\ r \in OnlyCached /\ p' = Returned(p, r, "failed")
       \/ p.entry = 0 /\ r \notin OnlyCached /\ p.made < MaxEntries /\ p' = Use(NewEntry(p), r)
       \/ p.entry # 0 /\ p.dial[p.entry] = "failed" /\ p' = [Returned(p, r, "failed") EXCEPT !.entry = 0]
       \/ p.entry # 0 /\ p.dial[p.entry] # "failed" /\ p' = [Use(p, r) EXCEPT !.use = p.use]

\* getClient.
GetClient(r) ==
    /\ p.pc[r] = "new" /\ ~p.locked
    /\ \/ p.entry = 0 /\ r \in OnlyCached /\ p' = Returned(p, r, "failed")
       \/ p.entry = 0 /\ r \notin OnlyCached /\ p.made < MaxEntries /\ p' = Use(NewEntry(p), r)
       \/ p.entry # 0 /\ p.dial[p.entry] = "failed" /\ p' = [Returned(p, r, "failed") EXCEPT !.entry = 0]
       \/ p.entry # 0 /\ p.dial[p.entry] # "failed" /\ p' = Use(p, r)

(***************************************************************************)
(* The dialling goroutine.  The dial's context is that of the request that *)
(* made the entry: a cancelled one makes it fail, unless it was done.      *)
(***************************************************************************)
DialReturns(e) ==
    /\ p.dial[e] = "dialing"
    /\ \E result \in {"ok", "failed"} : p' = [p EXCEPT !.dial[e] = result]

EntryHandshakeCompletes(e) ==
    /\ p.dial[e] = "ok" /\ ~p.complete[e]
    /\ p' = [p EXCEPT !.complete[e] = TRUE]

\* The connection times out, or is closed by the peer.
ConnDies(e) ==
    /\ p.dial[e] = "ok" /\ p.conn[e] = "open"
    /\ p' = [p EXCEPT !.conn[e] = "closed"]

Cancel(r) ==
    /\ p.pc[r] \in {"dialing", "trip"} /\ ~p.cancelled[r]
    /\ p' = [p EXCEPT !.cancelled[r] = TRUE]

\* roundTripOpt: the select on the dial and on the request's context, then the
\* dial's error.
DialAwaited(r) ==
    /\ p.pc[r] = "dialing"
    /\ \/ p.cancelled[r] /\ p' = Returned(p, r, "failed")
       \/ p.dial[p.on[r]] = "failed" /\ p' = [p EXCEPT !.pc[r] = "removeFailed"]
       \/ p.dial[p.on[r]] = "ok" /\ p' = [p EXCEPT !.pc[r] = "trip", !.held[r] = @ \cup {p.on[r]}]

\* roundTripOpt: the round trip returned a response or an error; the connection
\* is looked at after the error.
TripReturns(r) ==
    /\ p.pc[r] = "trip"
    /\ \/ p.complete[p.on[r]] /\ p.conn[p.on[r]] = "open" /\ p' = [Returned(p, r, "body") EXCEPT !.on[r] = p.on[r]]
       \/ p.cancelled[r] /\ p' = Returned(p, r, "failed")
       \/ ~p.cancelled[r] /\ p.conn[p.on[r]] = "open" /\ p' = Returned(p, r, "failed")
       \/ ~p.cancelled[r] /\ p.conn[p.on[r]] # "open" /\ \E timeout \in BOOLEAN :
             p' = [p EXCEPT !.pc[r] = IF timeout /\ p.reused[r] THEN "removeRetry" ELSE "removeFailed"]

\* removeClient, which deletes the entry of the host whichever it is; then
\* roundTripOpt returns or calls itself.
RemoveClient(r) ==
    /\ ~p.locked
    /\ \/ p.pc[r] = "removeFailed" /\ p' = [Returned(p, r, "failed") EXCEPT !.entry = 0]
       \/ p.pc[r] = "removeRetry" /\ p' = [p EXCEPT !.pc[r] = "new", !.reused[r] = FALSE, !.on[r] = 0, !.entry = 0]

BodyClosed(r) ==
    /\ p.pc[r] = "body"
    /\ p' = [p EXCEPT !.pc[r] = "done", !.on[r] = 0]

\* CloseIdleConnections: an entry that is not in use is closed and deleted.
CloseIdleConnections ==
    /\ ~p.locked /\ p.idleCalls < MaxIdleCalls /\ p.entry # 0
    /\ IF p.use[p.entry] = 0
       THEN p' = [p EXCEPT !.idleCalls = @ + 1, !.conn[p.entry] = "idleClosed", !.entry = 0]
       ELSE p' = [p EXCEPT !.idleCalls = @ + 1]

\* Close: the dial is cancelled and awaited with the mutex held, then the
\* connection is closed and the pool emptied.
ClosePool ==
    \/ /\ p.closer = "idle" /\ ~p.locked
       /\ p' = [p EXCEPT !.locked = TRUE, !.closer = "waiting"]
    \/ /\ p.closer = "waiting" /\ (p.entry # 0 => p.dial[p.entry] # "dialing")
       /\ p' = [p EXCEPT !.locked = FALSE, !.closer = "done", !.entry = 0,
                         !.conn = [e \in Entries |-> IF e = p.entry /\ p.dial[e] = "ok" THEN "closed" ELSE @[e]]]

PoolNext ==
    \/ \E r \in Requests : GetClient(r) \/ Cancel(r) \/ DialAwaited(r) \/ TripReturns(r) \/ RemoveClient(r) \/ BodyClosed(r)
    \/ \E e \in Entries : DialReturns(e) \/ EntryHandshakeCompletes(e) \/ ConnDies(e)
    \/ CloseIdleConnections \/ ClosePool

PoolSpec == PoolInit /\ [][PoolNext]_p

(***************************************************************************)
(* CloseIdleConnections closes no connection on which a request waits for  *)
(* the dial or for its response: the use is counted under the mutex before *)
(* the request lets the entry out of its hands, and given back only when   *)
(* roundTripOpt returns.  (getClient, roundTripOpt, CloseIdleConnections)  *)
(***************************************************************************)
IdleClosesIdle ==
    \A r \in Requests : p.pc[r] \in {"dialing", "trip"} => p.conn[p.on[r]] # "idleClosed" /\ p.use[p.on[r]] > 0

(***************************************************************************)
(* A request that found the pooled connection dead does not meet the same  *)
(* connection again when it is retried.  (removeClient, roundTripOpt)      *)
(***************************************************************************)
RetryIsFresh ==
    \A r \in Requests : p.pc[r] \in {"dialing", "trip"} => p.on[r] \notin (p.held[r] \ (IF p.pc[r] = "trip" THEN {p.on[r]} ELSE {}))

\* The pool neither closes a connection in use nor hands out a dead one twice (transport.go).
PoolSound == IdleClosesIdle /\ RetryIsFresh
=============================================================================
