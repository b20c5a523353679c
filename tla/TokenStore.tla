----------------------------- MODULE TokenStore -----------------------------
(***************************************************************************)
(* token_store.go: the client's cache of address validation tokens, a ring *)
(* buffer per origin in a list ordered by use.  k.cache is the map from    *)
(* origins to their rings, k.order the list.  k.tokens is the reference:   *)
(* every token put and not taken, newest first.                            *)
(***************************************************************************)
EXTENDS Naturals, Sequences, FiniteSets

CONSTANTS
    Origins,
    MaxOrigins, TokensPerOrigin,    \* the parameters of NewLRUTokenStore
    MaxTokens                       \* bound: tokens received

VARIABLE k

NoToken == 0

TokenInit == k = [cache |-> [o \in {} |-> 0], order |-> <<>>, n |-> 0, tokens |-> [o \in Origins |-> <<>>],
                   popped |-> NoToken, expected |-> NoToken]

\* newSingleOriginTokenStore
NewRing == [tokens |-> [i \in 0..(TokensPerOrigin - 1) |-> NoToken], len |-> 0, p |-> 0]

\* index
Index(i) == (i + TokensPerOrigin) % TokensPerOrigin

\* singleOriginTokenStore.Add
Add(r, token) ==
    [tokens |-> [r.tokens EXCEPT ![r.p] = token], p |-> Index(r.p + 1),
     len |-> IF r.len < TokensPerOrigin THEN r.len + 1 ELSE r.len]

\* Mutant: the slot is read before the position moves back.
PopAtPosition(r) ==
    [ring |-> [tokens |-> [r.tokens EXCEPT ![r.p] = NoToken], p |-> Index(r.p + TokensPerOrigin - 1), len |-> IF r.len > 0 THEN r.len - 1 ELSE 0],
     token |-> r.tokens[r.p]]

\* singleOriginTokenStore.Pop
PopRing(r) ==
    LET p == Index(r.p + TokensPerOrigin - 1)
    IN  [ring |-> [tokens |-> [r.tokens EXCEPT ![p] = NoToken], p |-> p, len |-> IF r.len > 0 THEN r.len - 1 ELSE 0],
         token |-> r.tokens[p]]

MoveToFront(order, o) == <<o>> \o SelectSeq(order, LAMBDA x : x # o)

\* lruTokenStore.Put: of a full cache the origin used least recently goes.
Put(o) ==
    LET token == k.n + 1
        last == k.order[Len(k.order)]
        known == o \in DOMAIN k.cache
        full == ~known /\ Len(k.order) >= MaxOrigins
        kept == (DOMAIN k.cache \ IF full THEN {last} ELSE {}) \cup {o}
        recent == SubSeq(<<token>> \o k.tokens[o], 1, IF Len(k.tokens[o]) < TokensPerOrigin THEN Len(k.tokens[o]) + 1 ELSE TokensPerOrigin)
    IN  /\ k.n < MaxTokens
        /\ k' = [k EXCEPT
                   !.n = token, !.popped = NoToken, !.expected = NoToken,
                   !.cache = [x \in kept |-> IF x = o THEN Add(IF known THEN @[o] ELSE NewRing, token) ELSE @[x]],
                   !.order = MoveToFront(IF full THEN SubSeq(@, 1, Len(@) - 1) ELSE @, o),
                   !.tokens = [x \in Origins |-> IF x = o THEN recent ELSE IF full /\ x = last THEN <<>> ELSE @[x]]]

Newest(o) == IF k.tokens[o] = <<>> THEN NoToken ELSE Head(k.tokens[o])

\* lruTokenStore.Pop
Pop(o) ==
    IF o \notin DOMAIN k.cache THEN k' = [k EXCEPT !.popped = NoToken, !.expected = Newest(o)]
    ELSE LET r == PopRing(k.cache[o])
             empty == r.ring.len = 0
         IN  k' = [k EXCEPT !.popped = r.token, !.expected = Newest(o),
                            !.tokens[o] = IF @ = <<>> THEN @ ELSE Tail(@),
                            !.cache = [x \in DOMAIN @ \ (IF empty THEN {o} ELSE {}) |-> IF x = o THEN r.ring ELSE @[x]],
                            !.order = IF empty THEN SelectSeq(@, LAMBDA x : x # o) ELSE MoveToFront(@, o)]

TokenNext == \E o \in Origins : Put(o) \/ Pop(o)

(***************************************************************************)
(* A new connection takes the newest token of its origin that was not used *)
(* before and not pushed out, each token once; the list and the map hold   *)
(* the same origins, at most maxOrigins, each with a token.  (Put, Pop)    *)
(***************************************************************************)
TokensExact ==
    /\ k.popped = k.expected
    /\ DOMAIN k.cache = {k.order[i] : i \in 1..Len(k.order)}
    /\ Cardinality(DOMAIN k.cache) = Len(k.order) /\ Len(k.order) <= MaxOrigins
    /\ \A o \in Origins : (o \in DOMAIN k.cache) = (k.tokens[o] # <<>>)
=============================================================================
