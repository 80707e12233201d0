-------------------------- MODULE ClientAssertion --------------------------
(***************************************************************************)
(* private_key_jwt at /oauth/token (client_assertion.go): concurrent       *)
(* verifications share a cache of the key sets that clients publish under  *)
(* their jwks_uri.  The cache is a FIFO like cimdCache, and its mutex is   *)
(* free during a fetch and between the invalidation after a missing key    *)
(* and the second lookup.                                                  *)
(***************************************************************************)
EXTENDS CimdCache

CONSTANTS
    URIs,           \* jwks_uri values of client documents
    KeySets,        \* by jwks_uri, the key sets the client may publish: sequences
                    \* of [key, kid, alg, use], not empty
    Assertions,     \* parsed assertions, each with the client_id it comes with and
                    \* the jwks_uri of the client's document, which has one if it
                    \* says private_key_jwt (parseCIMDMetadata)
    Calls,          \* the verifications; all of them may be under way at once
    TTLs,           \* what cacheTTLFromHeader may return
    MaxTTL,         \* cimdMaxCacheTTL
    FetchTimeout,   \* cimdFetchTimeout
    ClockSkew,      \* clientAssertionClockSkew
    MaxLifetime,    \* clientAssertionMaxLifetime
    TokenEndpoint,  \* expectedAud
    MaxRotations,   \* bound: changes of key sets
    MaxClock        \* bound: the clock

\* A time claim that is absent.
NoTime == -1

ASSUME ClientAssertionAssumption ==
    /\ MaxTTL \in Nat /\ FetchTimeout \in Nat /\ ClockSkew \in Nat /\ MaxLifetime \in Nat
    /\ TTLs \subseteq 0 .. MaxTTL
    /\ \A uri \in URIs : \A set \in KeySets[uri] : set \in Seq(Seqs!Range(set))
    /\ \A a \in Assertions :
        /\ a.uri \in URIs
        /\ {a.iat, a.nbf, a.exp} \subseteq Nat \union {NoTime}

VARIABLES
    now,            \* r.now()
    jwksCache,      \* r.jwksCache
    call,           \* the calls of verifyClientAssertion
    published,      \* the key set behind each jwks_uri
    withdrawn,      \* history: when a key was last withdrawn
    offeredAt,      \* history: when a key that was wanted was last published anew
    rotations       \* history: the number of changes

vars == <<now, jwksCache, call, published, withdrawn, offeredAt, rotations>>

keysOf(set) == {set[i].key : i \in DOMAIN set}

AllKeySets == UNION {KeySets[u] : u \in URIs}

AllKeys == UNION {keysOf(set) : set \in AllKeySets}

\* The key that an assertion asks for, and where.
want(a) == [uri |-> a.uri, kid |-> a.kid, alg |-> a.alg]

Wants == {want(a) : a \in Assertions}

\* Longer ago than anything the cache remembers.
Never == -(FetchTimeout + MaxTTL + 1)

Init ==
    /\ now = 0
    /\ jwksCache = newCIMDCache
    /\ call = [c \in Calls |-> [phase |-> "idle"]]
    /\ published \in {p \in [URIs -> AllKeySets] : \A u \in URIs : p[u] \in KeySets[u]}
    /\ withdrawn = [u \in URIs |-> [k \in AllKeys |-> Never]]
    /\ offeredAt = [w \in Wants |-> Never]
    /\ rotations = 0
-----------------------------------------------------------------------------
(* cimdJWKSCache                                                           *)

jwksHit(c, uri) == hit(c, uri, now)

jwksAfterGet(c, uri) == afterGet(c, uri, now)

\* put of this cache replaces whatever is there.
jwksPut(c, uri, e) == insert(c, uri, e)

\* Fault: the entry goes, its place in the order stays.
InvalidateEntryOnly(c, uri) == DeleteEntryOnly(c, uri)

invalidate(c, uri) == IF present(c, uri) THEN evictLocked(c, uri) ELSE c
-----------------------------------------------------------------------------
(* verifyClientAssertion                                                   *)

isSigKey(k) == k.use \in {"", "sig"}

\* The first signing key with the kid or, without one, for the algorithm: its
\* place in the set, 0 for none.
selectJWK(set, kid, alg) ==
    Seqs!SelectInSeq(set, LAMBDA k :
        isSigKey(k) /\ IF kid # "" THEN k.kid = kid ELSE k.alg \in {alg, ""})

\* jwt.Claims.ValidateWithLeeway: a claim that is absent is no objection.
timeClaimsValid(a, t) ==
    /\ a.nbf = NoTime \/ t + ClockSkew >= a.nbf
    /\ a.exp = NoTime \/ t - ClockSkew <= a.exp
    /\ a.iat = NoTime \/ t + ClockSkew >= a.iat

lifetimeValid(a) == a.iat = NoTime \/ a.exp = NoTime \/ a.exp - a.iat <= MaxLifetime

\* The claims of a signed assertion, in the order they are looked at.
claimsVerdict(a, t) ==
    IF a.iss # a.client \/ a.sub # a.client THEN "other_client"
    ELSE IF ~timeClaimsValid(a, t) THEN "time_claims"
    ELSE IF TokenEndpoint \notin a.aud THEN "other_audience"
    ELSE IF ~lifetimeValid(a) THEN "too_long"
    ELSE "accepted"

\* The verification ends; what is left of it is its verdict.
conclude(k, verdict) ==
    [k EXCEPT !.phase = "done", !.verdict = verdict, !.at = now,
              !.attempt = 1, !.start = 0, !.keys = <<>>, !.ttl = 0]

\* Fault: the time claims are compared with the time the request came in.
ClaimsAtArrival(k, keys) ==
    LET a == k.assertion
        i == selectJWK(keys, a.kid, a.alg)
    IN  IF i # 0 THEN conclude(k, IF keys[i].key # a.key THEN "bad_signature"
                                  ELSE claimsVerdict(a, k.begun))
        ELSE IF k.attempt = 1 THEN [k EXCEPT !.phase = "miss", !.start = 0, !.keys = <<>>, !.ttl = 0]
        ELSE conclude(k, "no_key")

\* verifyClientAssertion once it has a key set: a missing key is looked up
\* once more, a wrong signature is not.
judge(k, keys) ==
    LET a == k.assertion
        i == selectJWK(keys, a.kid, a.alg)
    IN  IF i # 0 THEN conclude(k, IF keys[i].key # a.key THEN "bad_signature"
                                  ELSE claimsVerdict(a, now))
        ELSE IF k.attempt = 1 THEN [k EXCEPT !.phase = "miss", !.start = 0, !.keys = <<>>, !.ttl = 0]
        ELSE conclude(k, "no_key")

\* fetchJWKS up to its HTTP request.
lookup(k) ==
    IF jwksHit(jwksCache, k.assertion.uri)
    THEN judge(k, jwksCache.entries[k.assertion.uri].keys)
    ELSE [k EXCEPT !.phase = "fetching", !.start = now]

\* Does the client publish a key for the assertion?
offered(a, set) == selectJWK(set, a.kid, a.alg) # 0

\* An assertion arrives.  The history: begun, whether the client has failed to
\* publish a key for it at some time of the call, and whether another call
\* stored its keys after this one invalidated the entry.
Verify(c, a) ==
    LET k == [phase |-> "begin", assertion |-> a, attempt |-> 1, start |-> 0, keys |-> <<>>,
              ttl |-> 0, verdict |-> "none", begun |-> now, at |-> 0,
              missing |-> ~offered(a, published[a.uri]), overtaken |-> FALSE]
    IN  /\ call[c].phase = "idle"
        /\ call' = [call EXCEPT ![c] = lookup(k)]
        /\ jwksCache' = jwksAfterGet(jwksCache, a.uri)
        /\ UNCHANGED <<now, published, withdrawn, offeredAt, rotations>>

\* Fault: the retry does not count as the second attempt.
RetryAgain(c) ==
    /\ call[c].phase = "miss"
    /\ jwksCache' = invalidate(jwksCache, call[c].assertion.uri)
    /\ call' = [call EXCEPT ![c].phase = "retry"]
    /\ UNCHANGED <<now, published, withdrawn, offeredAt, rotations>>

\* Fault: a missing key is looked up again without invalidating.
KeepEntry(c) ==
    /\ call[c].phase = "miss"
    /\ call' = [call EXCEPT ![c].phase = "retry", ![c].attempt = 2]
    /\ UNCHANGED <<now, jwksCache, published, withdrawn, offeredAt, rotations>>

\* A missing key: the entry is invalidated under the mutex ...
Invalidate(c) ==
    /\ call[c].phase = "miss"
    /\ jwksCache' = invalidate(jwksCache, call[c].assertion.uri)
    /\ call' = [call EXCEPT ![c].phase = "retry", ![c].attempt = 2]
    /\ UNCHANGED <<now, published, withdrawn, offeredAt, rotations>>

\* ... and the cache read again.
Refetch(c) ==
    /\ call[c].phase = "retry"
    /\ call' = [call EXCEPT ![c] = lookup(call[c])]
    /\ jwksCache' = jwksAfterGet(jwksCache, call[c].assertion.uri)
    /\ UNCHANGED <<now, published, withdrawn, offeredAt, rotations>>

\* The client's server answers with the keys it publishes now.
ServerAnswers(c) ==
    /\ call[c].phase = "fetching"
    /\ \E ttl \in TTLs :
        call' = [call EXCEPT ![c].phase = "fetched", ![c].ttl = ttl,
                             ![c].keys = published[call[c].assertion.uri]]
    /\ UNCHANGED <<now, jwksCache, published, withdrawn, offeredAt, rotations>>

\* The history of another call d: its entry is there again, and not by itself.
overtake(c, d, uri) ==
    IF /\ d # c /\ call[c].ttl > 0
       /\ call[d].phase = "retry" /\ call[d].assertion.uri = uri
    THEN [call[d] EXCEPT !.overtaken = TRUE]
    ELSE call[d]

\* The rest of fetchJWKS: the answer is kept for its time to live, counted
\* from now, unless that is zero.
Store(c) ==
    /\ call[c].phase = "fetched"
    /\ LET uri == call[c].assertion.uri
           keys == call[c].keys
       IN  /\ jwksCache' = IF call[c].ttl > 0
                           THEN jwksPut(jwksCache, uri, [keys |-> keys,
                                                         expiresAt |-> now + call[c].ttl])
                           ELSE jwksCache
           /\ call' = [d \in Calls |-> IF d = c THEN judge(call[c], keys)
                                       ELSE overtake(c, d, uri)]
    /\ UNCHANGED <<now, published, withdrawn, offeredAt, rotations>>

\* The fetch fails, times out, or returns no key set: nothing is cached.
FetchFails(c) ==
    /\ call[c].phase \in {"fetching", "fetched"}
    /\ call' = [call EXCEPT ![c] = conclude(call[c], "unavailable")]
    /\ UNCHANGED <<now, jwksCache, published, withdrawn, offeredAt, rotations>>

\* A client publishes other keys.
Rotate(uri, set) ==
    /\ rotations < MaxRotations
    /\ set # published[uri]
    /\ rotations' = rotations + 1
    /\ published' = [published EXCEPT ![uri] = set]
    /\ withdrawn' = [withdrawn EXCEPT ![uri] = [k \in AllKeys |->
          IF k \in keysOf(published[uri]) \ keysOf(set) THEN now ELSE withdrawn[uri][k]]]
    /\ offeredAt' = [w \in Wants |->
          IF /\ w.uri = uri
             /\ selectJWK(published[uri], w.kid, w.alg) = 0
             /\ selectJWK(set, w.kid, w.alg) # 0
          THEN now ELSE offeredAt[w]]
    /\ call' = [c \in Calls |->
          IF /\ call[c].phase \notin {"idle", "done"}
             /\ call[c].assertion.uri = uri
             /\ ~offered(call[c].assertion, set)
          THEN [call[c] EXCEPT !.missing = TRUE] ELSE call[c]]
    /\ UNCHANGED <<now, jwksCache>>

\* A fetch lives as long as its context.
Tick ==
    /\ now < MaxClock
    /\ \A c \in Calls : call[c].phase \in {"fetching", "fetched"}
                           => now < call[c].start + FetchTimeout
    /\ now' = now + 1
    /\ UNCHANGED <<jwksCache, call, published, withdrawn, offeredAt, rotations>>

Step(c) ==
    \/ FetchFails(c)
    \/ Invalidate(c)
    \/ Refetch(c)
    \/ ServerAnswers(c)
    \/ Store(c)

Next ==
    \/ \E c \in Calls, a \in Assertions : Verify(c, a)
    \/ \E c \in Calls : Step(c)
    \/ \E uri \in URIs : \E set \in KeySets[uri] : Rotate(uri, set)
    \/ Tick

\* A verification runs on: the fetch's context ends a request that the
\* client's server does not answer.  Each of its steps changes its call.
Fairness == \A c \in Calls : WF_call(Step(c))

Spec == Init /\ [][Next]_vars /\ Fairness
-----------------------------------------------------------------------------
Verifications ==
    [phase : {"miss", "retry", "fetching", "fetched", "done"},
     assertion : Assertions, attempt : {1, 2}, start : Nat,
     keys : AllKeySets \union {<<>>}, ttl : TTLs \union {0},
     verdict : {"none", "unavailable", "no_key", "bad_signature", "other_client",
                "time_claims", "other_audience", "too_long", "accepted"},
     begun : Nat, at : Nat, missing : BOOLEAN, overtaken : BOOLEAN]

\* The shape of the cache and of the verifications: the map and the FIFO order
\* of the key cache never come apart, though an invalidation takes a key out
\* from in front of another request's, and its second fetch puts it back behind
\* (cimdJWKSCache.get, put, invalidate).
TypeOK ==
    /\ now \in Nat
    /\ CacheWF(jwksCache)
    /\ DOMAIN jwksCache.entries \subseteq URIs
    /\ \A u \in DOMAIN jwksCache.entries :
        jwksCache.entries[u] \in [keys : AllKeySets, expiresAt : Nat]
    /\ published \in [URIs -> AllKeySets]
    /\ withdrawn \in [URIs -> [AllKeys -> Nat \union {Never}]]
    /\ offeredAt \in [Wants -> Nat \union {Never}]
    /\ call \in [Calls -> Verifications \union {[phase |-> "idle"]}]

\* A key that authenticates a client is one the client publishes, or withdrew
\* no longer than a fetch and a time to live before the request came in,
\* whatever other requests fetch, store and invalidate meanwhile.
AcceptedKeyFresh ==
    \A c \in Calls :
        call[c].phase = "done" /\ call[c].verdict = "accepted" =>
            LET a == call[c].assertion
            IN  \/ a.key \in keysOf(published[a.uri])
                \/ call[c].begun <= withdrawn[a.uri][a.key] + FetchTimeout + MaxTTL

\* An assertion for which the client publishes a key all along is never turned
\* away for want of one, unless another verification stored an older answer
\* between this one's invalidation and its second lookup
\* (verifyClientAssertion: invalidate, then fetchJWKS).
RetryCoversRotationAlone ==
    \A c \in Calls :
        call[c].phase = "done" /\ call[c].verdict = "no_key" =>
            call[c].missing \/ call[c].overtaken

\* The race has a window: an assertion whose key was published longer than a
\* fetch may take before its verification began, and stays so, is never turned
\* away for want of it, whoever stores what meanwhile (fetchJWKS and the
\* timeout of its context).
SettledKeyFound ==
    \A c \in Calls :
        call[c].phase = "done" /\ call[c].verdict = "no_key" =>
            call[c].missing \/ call[c].begun <= offeredAt[want(call[c].assertion)] + FetchTimeout

\* An assertion that says when it was issued and when it expires authenticates
\* its client from ClockSkew before the one to ClockSkew after the other, at
\* most MaxLifetime apart, and not later even when the verification had to
\* wait for two key sets: the clock is read after the fetches.
AcceptedWithinLifetime ==
    \A c \in Calls :
        LET a == call[c].assertion
        IN  /\ call[c].phase = "done"
            /\ call[c].verdict = "accepted"
            /\ a.iat # NoTime /\ a.exp # NoTime
            => /\ call[c].at >= a.iat - ClockSkew
               /\ call[c].at <= a.exp + ClockSkew
               /\ call[c].at <= a.iat + MaxLifetime + ClockSkew

\* A verification comes to a verdict.
VerificationsEnd ==
    \A c \in Calls : call[c].phase \notin {"idle", "done"} ~> call[c].phase = "done"
=============================================================================
