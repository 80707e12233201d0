----------------------------- MODULE JwksCache -----------------------------
(***************************************************************************)
(* The Validator's key cache (validator.go: parseAndVerifyJWT, fetchJWKS): *)
(* concurrent validations share one cached key set of the upstream IdP,    *)
(* which rotates its keys.  The lock is held only to read or to write the  *)
(* cache, never across the HTTP request or between the invalidation after  *)
(* a kid miss and the second lookup, so other validations come in between. *)
(***************************************************************************)
EXTENDS Integers

CONSTANTS
    Kids,           \* signing keys, each under its own kid
    Calls,          \* concurrent validations
    CacheTTL,       \* defaultJWKSCacheTTL
    FetchTimeout,   \* defaultHTTPTimeout
    MaxRotations,   \* bound: changes of the IdP's key set
    MaxClock        \* bound: the clock

ASSUME JwksAssumption ==
    /\ CacheTTL \in Nat \ {0}
    /\ FetchTimeout \in Nat

VARIABLES
    now,            \* time.Now()
    jwks,           \* v.jwks: the cached keys; no keys before the first fetch
    jwksTime,       \* v.jwksTime
    idpKeys,        \* the keys the IdP publishes
    check,          \* the validations, by call
    withdrawn,      \* history: when the IdP last withdrew a key
    publishedAt,    \* history: when the IdP last began to publish it
    rotations       \* history: the number of rotations

vars == <<now, jwks, jwksTime, idpKeys, check, withdrawn, publishedAt, rotations>>

\* time.Time{}: longer ago than any time to live.
ZeroTime == -(CacheTTL + 1)

Init ==
    /\ now = 0
    /\ jwks = {}
    /\ jwksTime = ZeroTime
    /\ idpKeys \in SUBSET Kids
    /\ check = [c \in Calls |-> [phase |-> "idle"]]
    /\ withdrawn = [k \in Kids |-> ZeroTime]
    /\ publishedAt = [k \in Kids |-> ZeroTime]
    /\ rotations = 0
-----------------------------------------------------------------------------
\* Fault: the cache answers for a moment too long.
UsableThroughTTL == jwks # {} /\ jwksTime + CacheTTL >= now

\* The cache of fetchJWKS answers.
usable == jwks # {} /\ jwksTime + CacheTTL > now

\* The validation ends; what is left of it is its verdict.
conclude(k, verdict) ==
    [k EXCEPT !.phase = "done", !.verdict = verdict,
              !.hasKid = FALSE, !.attempt = 1, !.start = 0, !.keys = {}]

\* parseAndVerifyJWT once it has a key set: a kid that is not there is looked
\* up once more; a token without a kid is tried with every key.
judge(k, keys) ==
    IF k.key \in keys THEN conclude(k, "accepted")
    ELSE IF ~k.hasKid THEN conclude(k, "bad_signature")
    ELSE IF k.attempt = 1 THEN [k EXCEPT !.phase = "miss", !.start = 0, !.keys = {}]
    ELSE conclude(k, "no_key")

\* fetchJWKS up to its HTTP request.
fetchJWKS(k) ==
    IF usable THEN judge(k, jwks) ELSE [k EXCEPT !.phase = "fetching", !.start = now]

\* A token signed with `key' arrives.  The history: begun, whether the IdP
\* has failed to publish the key at some time of the call, and whether
\* another call stored its keys after this one invalidated the cache.
Begin(c, key, hasKid) ==
    /\ check[c].phase \in {"idle", "done"}
    /\ check' = [check EXCEPT ![c] = fetchJWKS(
          [phase |-> "begin", key |-> key, hasKid |-> hasKid, attempt |-> 1,
           start |-> 0, keys |-> {}, verdict |-> "none",
           begun |-> now, missing |-> key \notin idpKeys, overtaken |-> FALSE])]
    /\ UNCHANGED <<now, jwks, jwksTime, idpKeys, withdrawn, publishedAt, rotations>>

\* Fault: a kid miss looks again without invalidating.
KeepCache(c) ==
    /\ check[c].phase = "miss"
    /\ check' = [check EXCEPT ![c].phase = "retry", ![c].attempt = 2]
    /\ UNCHANGED <<now, jwks, jwksTime, idpKeys, withdrawn, publishedAt, rotations>>

\* Fault: the retry does not count as the second attempt.
RetryAgain(c) ==
    /\ check[c].phase = "miss"
    /\ jwksTime' = ZeroTime
    /\ check' = [check EXCEPT ![c].phase = "retry"]
    /\ UNCHANGED <<now, jwks, idpKeys, withdrawn, publishedAt, rotations>>

\* A kid miss: the cache is invalidated under the lock ...
Invalidate(c) ==
    /\ check[c].phase = "miss"
    /\ jwksTime' = ZeroTime
    /\ check' = [check EXCEPT ![c].phase = "retry", ![c].attempt = 2]
    /\ UNCHANGED <<now, jwks, idpKeys, withdrawn, publishedAt, rotations>>

\* ... and read again, under another one.
Refetch(c) ==
    /\ check[c].phase = "retry"
    /\ check' = [check EXCEPT ![c] = fetchJWKS(check[c])]
    /\ UNCHANGED <<now, jwks, jwksTime, idpKeys, withdrawn, publishedAt, rotations>>

\* The IdP answers a fetch with the keys it publishes now.
ServerAnswers(c) ==
    /\ check[c].phase = "fetching"
    /\ check' = [check EXCEPT ![c].phase = "fetched", ![c].keys = idpKeys]
    /\ UNCHANGED <<now, jwks, jwksTime, idpKeys, withdrawn, publishedAt, rotations>>

overtake(c, d) ==
    IF d # c /\ check[d].phase = "retry" THEN [check[d] EXCEPT !.overtaken = TRUE] ELSE check[d]

\* Fault: the cached keys count as fresh from the time they are stored.
StoreAtArrival(c) ==
    /\ check[c].phase = "fetched"
    /\ jwks' = check[c].keys
    /\ jwksTime' = now
    /\ check' = [d \in Calls |-> IF d = c THEN judge(check[c], check[c].keys) ELSE overtake(c, d)]
    /\ UNCHANGED <<now, idpKeys, withdrawn, publishedAt, rotations>>

\* The answer arrives: it is stored with the time the fetch began, whatever
\* the cache holds by now.
Store(c) ==
    /\ check[c].phase = "fetched"
    /\ jwks' = check[c].keys
    /\ jwksTime' = check[c].start
    /\ check' = [d \in Calls |-> IF d = c THEN judge(check[c], check[c].keys) ELSE overtake(c, d)]
    /\ UNCHANGED <<now, idpKeys, withdrawn, publishedAt, rotations>>

\* The fetch fails, times out, or returns something that is not a key set.
FetchFails(c) ==
    /\ check[c].phase \in {"fetching", "fetched"}
    /\ check' = [check EXCEPT ![c] = conclude(check[c], "unavailable")]
    /\ UNCHANGED <<now, jwks, jwksTime, idpKeys, withdrawn, publishedAt, rotations>>

\* The IdP publishes other keys.
Rotate(keys) ==
    /\ rotations < MaxRotations
    /\ keys # idpKeys
    /\ rotations' = rotations + 1
    /\ idpKeys' = keys
    /\ withdrawn' = [k \in Kids |-> IF k \in idpKeys \ keys THEN now ELSE withdrawn[k]]
    /\ publishedAt' = [k \in Kids |-> IF k \in keys \ idpKeys THEN now ELSE publishedAt[k]]
    /\ check' = [c \in Calls |->
          IF check[c].phase \in {"idle", "done"} \/ check[c].key \in keys THEN check[c]
          ELSE [check[c] EXCEPT !.missing = TRUE]]
    /\ UNCHANGED <<now, jwks, jwksTime>>

\* An HTTP request lives as long as its client's timeout.
Tick ==
    /\ now < MaxClock
    /\ \A c \in Calls : check[c].phase \in {"fetching", "fetched"}
                           => now < check[c].start + FetchTimeout
    /\ now' = now + 1
    /\ UNCHANGED <<jwks, jwksTime, idpKeys, check, withdrawn, publishedAt, rotations>>

Step(c) ==
    \/ Invalidate(c)
    \/ Refetch(c)
    \/ ServerAnswers(c)
    \/ Store(c)
    \/ FetchFails(c)

Next ==
    \/ \E c \in Calls, key \in Kids, hasKid \in BOOLEAN : Begin(c, key, hasKid)
    \/ \E c \in Calls : Step(c)
    \/ \E keys \in SUBSET Kids : Rotate(keys)
    \/ Tick

\* A validation runs on: the HTTP client's timeout ends a fetch that the IdP
\* does not answer.
Fairness == \A c \in Calls : WF_vars(Step(c))

Spec == Init /\ [][Next]_vars /\ Fairness
-----------------------------------------------------------------------------
Validations ==
    [phase : {"miss", "retry", "fetching", "fetched", "done"},
     key : Kids, hasKid : BOOLEAN, attempt : {1, 2}, start : Nat,
     keys : SUBSET Kids,
     verdict : {"none", "accepted", "bad_signature", "no_key", "unavailable"},
     begun : Nat, missing : BOOLEAN, overtaken : BOOLEAN]

\* The shape of the cache and of the validations.
TypeOK ==
    /\ now \in Nat
    /\ jwks \in SUBSET Kids
    /\ jwksTime \in Nat \union {ZeroTime}
    /\ idpKeys \in SUBSET Kids
    /\ rotations \in Nat
    /\ withdrawn \in [Kids -> Nat \union {ZeroTime}]
    /\ publishedAt \in [Kids -> Nat \union {ZeroTime}]
    /\ check \in [Calls -> Validations \union {[phase |-> "idle"]}]

\* A key that validates a token is one the IdP publishes, or withdrew less
\* than CacheTTL before the validation began: neither a slow fetch nor other
\* validations keep a withdrawn key alive longer (fetchJWKS reads the clock
\* before it sends the request and stores that time).
AcceptedKeyFresh ==
    \A c \in Calls :
        check[c].phase = "done" /\ check[c].verdict = "accepted" =>
            \/ check[c].key \in idpKeys
            \/ withdrawn[check[c].key] > check[c].begun - CacheTTL

\* A token whose key the IdP publishes all along is never turned away for its
\* kid unless another validation stored an older answer between this one's
\* invalidation and its second lookup (the retry of parseAndVerifyJWT).
RetryCoversRotationAlone ==
    \A c \in Calls :
        check[c].phase = "done" /\ check[c].verdict = "no_key" =>
            check[c].missing \/ check[c].overtaken

\* The race has a window: a token whose key was published longer than a fetch
\* may take before its validation began, and stays so, is never turned away
\* for its kid, whoever stores what meanwhile (fetchJWKS and the timeout of
\* its HTTP client).
SettledKeyFound ==
    \A c \in Calls :
        check[c].phase = "done" /\ check[c].verdict = "no_key" =>
            check[c].missing \/ check[c].begun <= publishedAt[check[c].key] + FetchTimeout

\* KNOWN_ISSUES.md, 7: "The retry covers rotation today".
RetryCoversRotation ==
    \A c \in Calls :
        check[c].phase = "done" /\ check[c].verdict = "no_key" => check[c].missing

\* A validation comes to a verdict.
ValidationsEnd ==
    \A c \in Calls : check[c].phase \notin {"idle", "done"} ~> check[c].phase = "done"
-----------------------------------------------------------------------------
(* The inductive invariant.                                                *)

\* The validation of call c is under way.
Active(c) == check[c].phase \notin {"idle", "done"}

\* Nothing is dated in the future, no fetch before its call, and none is older
\* than its timeout.
Dated ==
    /\ jwksTime <= now
    /\ \A k \in Kids : withdrawn[k] <= now
    /\ \A c \in Calls :
        /\ check[c].phase # "idle" => check[c].begun <= now
        /\ check[c].phase \in {"fetching", "fetched"} =>
              /\ check[c].begun <= check[c].start
              /\ check[c].start <= now /\ now <= check[c].start + FetchTimeout

\* The IdP has published `keys' at `time' or later.
PublishedSince(keys, time) ==
    \A k \in keys : k \in idpKeys \/ withdrawn[k] >= time

\* What is cached, and what is about to be, is no older than its date says.
KeysFresh ==
    /\ PublishedSince(jwks, jwksTime)
    /\ \A c \in Calls :
        check[c].phase = "fetched" => PublishedSince(check[c].keys, check[c].start)

\* The IdP's answer shows a key that it publishes all along.
MissNoticed ==
    \A c \in Calls :
        /\ Active(c) /\ check[c].key \notin idpKeys => check[c].missing
        /\ check[c].phase = "fetched" /\ check[c].key \notin check[c].keys => check[c].missing

\* A key that an answer does not show was published after the fetch began.
LaterPublished ==
    \A c \in Calls : check[c].phase = "fetched" =>
        \A k \in idpKeys \ check[c].keys : publishedAt[k] >= check[c].start

\* The cache shows a key that was published long enough before the call.
SettledKeyCached ==
    \A c \in Calls : check[c].phase = "retry" =>
        \/ jwksTime = ZeroTime
        \/ check[c].key \in jwks
        \/ check[c].missing
        \/ check[c].begun <= publishedAt[check[c].key] + FetchTimeout

\* Between its invalidation and its second lookup a validation finds the
\* cache invalid, unless another one has stored its answer.
Invalidated ==
    \A c \in Calls :
        check[c].phase = "retry" => jwksTime = ZeroTime \/ check[c].overtaken

IInv ==
    /\ TypeOK /\ Dated /\ KeysFresh /\ MissNoticed /\ Invalidated
    /\ LaterPublished /\ SettledKeyCached
    /\ AcceptedKeyFresh /\ RetryCoversRotationAlone /\ SettledKeyFound
=============================================================================
