----------------------- MODULE ClientAssertionProofs -----------------------
(***************************************************************************)
(* The safety properties of ClientAssertion for every set of clients, keys *)
(* and assertions, every capacity of the key cache, every time to live,    *)
(* timeout and skew, any number of rotations and any clock, and a bound on *)
(* the steps of a verification.                                            *)
(***************************************************************************)
EXTENDS ClientAssertion, CimdCacheProofs

\* The client publishes the key, or withdrew it at most `span' before the time.
KeySince(uri, key, time, span) ==
    key \in keysOf(published[uri]) \/ time <= withdrawn[uri][key] + span

KeysSince(uri, keys, time, span) == \A key \in keysOf(keys) : KeySince(uri, key, time, span)

HistoryOK ==
    /\ now \in Nat
    /\ published \in [URIs -> AllKeySets]
    /\ \A u \in URIs : published[u] \in KeySets[u]
    /\ withdrawn \in [URIs -> [AllKeys -> Nat \union {Never}]]
    /\ \A u \in URIs, key \in AllKeys : withdrawn[u][key] <= now

\* An entry is gone before its keys are older than a fetch and a time to live.
EntryOK(uri, e) ==
    /\ uri \in URIs
    /\ e \in [keys : AllKeySets, expiresAt : Nat]
    /\ e.expiresAt <= now + MaxTTL
    /\ KeysSince(uri, e.keys, e.expiresAt, FetchTimeout + MaxTTL)

CacheOK ==
    /\ CacheWF(jwksCache)
    /\ \A uri \in DOMAIN jwksCache.entries : EntryOK(uri, jwksCache.entries[uri])

\* A verdict says what the key set and the clock said when it was reached.
VerdictOK(k) ==
    /\ k.verdict = "accepted" =>
        /\ claimsVerdict(k.assertion, k.at) = "accepted"
        /\ k.assertion.key \in AllKeys
        /\ KeySince(k.assertion.uri, k.assertion.key, k.begun, FetchTimeout + MaxTTL)
    /\ k.verdict = "no_key" => k.missing \/ k.overtaken

\* A fetch is no older than its context and its keys were published at some
\* time of it; a key that is missing from them, or from the client's set, is
\* noted; and an entry that this verification invalidated is not among the
\* cached ones, unless another one stored its own.
CallOK(k, cached) ==
    /\ k \in Verifications
    /\ k.begun <= now
    /\ k.phase \in {"fetching", "fetched"} => k.start <= now /\ now <= k.start + FetchTimeout
    /\ k.phase = "fetched" =>
        /\ k.keys \in AllKeySets
        /\ k.ttl \in TTLs
        /\ KeysSince(k.assertion.uri, k.keys, k.start, 0)
        /\ offered(k.assertion, k.keys) \/ k.missing
    /\ k.phase # "done" => offered(k.assertion, published[k.assertion.uri]) \/ k.missing
    /\ k.phase = "retry" =>
        k.overtaken \/ k.assertion.uri \notin cached
    /\ k.phase = "done" => VerdictOK(k)

CallsOK ==
    /\ call = [c \in Calls |-> call[c]]
    /\ \A c \in Calls :
        call[c] = [phase |-> "idle"] \/ CallOK(call[c], DOMAIN jwksCache.entries)

\* The inductive invariant.
IInv == HistoryOK /\ CacheOK /\ CallsOK
-----------------------------------------------------------------------------
\* The lifetimes are numbers.
LEMMA Times ==
    /\ MaxTTL \in Nat /\ FetchTimeout \in Nat /\ ClockSkew \in Nat /\ MaxLifetime \in Nat
    /\ FetchTimeout + MaxTTL \in Nat
    /\ Never \in Int /\ Never <= 0
    /\ \A ttl \in TTLs : ttl \in Nat /\ ttl <= MaxTTL
    /\ \A a \in Assertions : a.uri \in URIs
  BY ClientAssertionAssumption DEF Never

\* A key set is a sequence of keys that are known.
LEMMA KeySetFacts ==
    ASSUME NEW set \in AllKeySets
    PROVE  set \in Seq(Seqs!Range(set)) /\ keysOf(set) \subseteq AllKeys
  BY ClientAssertionAssumption DEF AllKeySets, AllKeys

\* A set of numbers with a member has a smallest one.
LEMMA MinIn ==
    ASSUME NEW I, I \subseteq Nat, I # {}
    PROVE  Seqs!Min(I) \in I
<1>1. PICK x \in I : \A y \in I : ~(<<y, x>> \in OpToRel(<, Nat))
  BY NatLessThanWellFounded, WFMin
<1>2. ASSUME NEW y \in I
      PROVE  x <= y
  <2>1. x \in Nat /\ y \in Nat
    OBVIOUS
  <2>2. ~(y < x)
    BY <1>1, <2>1, Zenon DEF OpToRel
  <2> QED
    BY <2>1, <2>2
<1> QED
  BY <1>2 DEF Seqs!Min

\* The key that selectJWK finds is one of the set.
LEMMA SelectedInSet ==
    ASSUME NEW set \in AllKeySets, NEW kid, NEW alg, selectJWK(set, kid, alg) # 0
    PROVE  set[selectJWK(set, kid, alg)].key \in keysOf(set)
<1> DEFINE Test(k) == isSigKey(k) /\ IF kid # "" THEN k.kid = kid ELSE k.alg \in {alg, ""}
           I == {i \in 1 .. Len(set) : Test(set[i])}
<1>1. DOMAIN set = 1 .. Len(set) /\ Len(set) \in Nat
  BY KeySetFacts, LenProperties
<1>2. selectJWK(set, kid, alg) = IF I # {} THEN Seqs!Min(I) ELSE 0
  BY DEF selectJWK, Seqs!SelectInSeq
<1> HIDE DEF Test
<1>3. I \subseteq Nat
  OBVIOUS
<1> HIDE DEF I
<1>4. I # {} /\ selectJWK(set, kid, alg) \in I
  BY <1>2, <1>3, MinIn
<1>5. selectJWK(set, kid, alg) \in DOMAIN set
  BY <1>1, <1>4 DEF I
<1> QED
  BY <1>5 DEF keysOf

Verdicts == {"unavailable", "no_key", "bad_signature", "other_client", "time_claims",
             "other_audience", "too_long", "accepted"}

\* A verification in whatever phase, as judge and lookup take it.
Draft ==
    [phase : {"begin", "miss", "retry", "fetching", "fetched", "done"},
     assertion : Assertions, attempt : {1, 2}, start : Nat,
     keys : AllKeySets \union {<<>>}, ttl : TTLs \union {0},
     verdict : Verdicts \union {"none"},
     begun : Nat, at : Nat, missing : BOOLEAN, overtaken : BOOLEAN]

\* The verification l is k, further on: the same assertion in the same call.
SameCall(k, l) ==
    /\ l.assertion = k.assertion
    /\ l.begun = k.begun
    /\ l.missing = k.missing
    /\ l.overtaken = k.overtaken

\* A verification between two steps is one of them.
LEMMA VerificationIsDraft ==
    ASSUME NEW k \in Verifications
    PROVE  k \in Draft
  BY DEF Verifications, Draft, Verdicts

\* What conclude leaves of a verification.
LEMMA ConcludeFacts ==
    ASSUME NEW k \in Draft, NEW verdict \in Verdicts, now \in Nat
    PROVE  LET l == conclude(k, verdict)
           IN  /\ l \in Verifications /\ SameCall(k, l)
               /\ l.phase = "done" /\ l.verdict = verdict /\ l.at = now
<1> DEFINE l == conclude(k, verdict)
<1>1. l = [k EXCEPT !.phase = "done", !.verdict = verdict, !.at = now,
                    !.attempt = 1, !.start = 0, !.keys = <<>>, !.ttl = 0]
  BY DEF conclude
<1>2. l = [phase |-> "done", assertion |-> k.assertion, attempt |-> 1, start |-> 0,
           keys |-> <<>>, ttl |-> 0, verdict |-> verdict, begun |-> k.begun, at |-> now,
           missing |-> k.missing, overtaken |-> k.overtaken]
  BY <1>1 DEF Draft
<1> HIDE DEF l
<1>3. l \in Verifications
  BY <1>2 DEF Draft, Verdicts, Verifications
<1> QED
  BY <1>2, <1>3 DEF SameCall, l

\* What judge says: "accepted" of an assertion whose key is in the set and
\* whose claims hold now, "no_key" at the second attempt without a key.
LEMMA JudgeFacts ==
    ASSUME NEW k \in Draft, NEW keys \in AllKeySets, now \in Nat
    PROVE  LET l == judge(k, keys)
           IN  /\ l \in Verifications /\ SameCall(k, l)
               /\ l.phase \in {"done", "miss"}
               /\ l.phase = "done" =>
                    /\ l.verdict = "accepted" =>
                         /\ k.assertion.key \in keysOf(keys)
                         /\ l.at = now /\ claimsVerdict(k.assertion, now) = "accepted"
                    /\ l.verdict = "no_key" => k.attempt = 2 /\ ~offered(k.assertion, keys)
<1> DEFINE a == k.assertion
           i == selectJWK(keys, a.kid, a.alg)
           v == IF keys[i].key # a.key THEN "bad_signature" ELSE claimsVerdict(a, now)
           l == judge(k, keys)
<1>1. CASE i # 0
  <2>1. l = conclude(k, v)
    BY <1>1 DEF judge
  <2>2. /\ v \in Verdicts /\ v # "no_key"
        /\ v = "accepted" => keys[i].key = a.key /\ claimsVerdict(a, now) = "accepted"
    BY DEF Verdicts, claimsVerdict
  <2>3. keys[i].key \in keysOf(keys)
    BY <1>1, SelectedInSet
  <2> HIDE DEF l, v, i
  <2>4. l \in Verifications /\ SameCall(k, l) /\ l.phase = "done" /\ l.verdict = v /\ l.at = now
    BY <2>1, <2>2, ConcludeFacts
  <2>5. l.verdict = "accepted" => a.key \in keysOf(keys)
    BY <2>2, <2>3, <2>4
  <2> QED
    BY <2>2, <2>4, <2>5 DEF l
<1>2. CASE i = 0 /\ k.attempt = 1
  <2>1. l = [k EXCEPT !.phase = "miss", !.start = 0, !.keys = <<>>, !.ttl = 0]
    BY <1>2 DEF judge
  <2>2. l = [phase |-> "miss", assertion |-> k.assertion, attempt |-> k.attempt, start |-> 0,
             keys |-> <<>>, ttl |-> 0, verdict |-> k.verdict, begun |-> k.begun, at |-> k.at,
             missing |-> k.missing, overtaken |-> k.overtaken]
    BY <2>1 DEF Draft
  <2> HIDE DEF l
  <2>3. l \in Verifications
    BY <2>2 DEF Draft, Verdicts, Verifications
  <2> QED
    BY <2>2, <2>3 DEF SameCall, l
<1>3. CASE i = 0 /\ k.attempt # 1
  <2>1. l = conclude(k, "no_key") /\ k.attempt = 2
    BY <1>3 DEF judge, Draft
  <2>2. ~offered(a, keys)
    BY <1>3 DEF offered
  <2> HIDE DEF l
  <2>3. l \in Verifications /\ SameCall(k, l) /\ l.phase = "done" /\ l.verdict = "no_key"
    BY <2>1, ConcludeFacts DEF Verdicts
  <2> QED
    BY <2>1, <2>2, <2>3 DEF l
<1> QED
  BY <1>1, <1>2, <1>3
-----------------------------------------------------------------------------
\* fetchJWKS up to its request: an entry that has not expired holds keys that
\* are no older than a fetch and a time to live.
LEMMA LookupKeeps ==
    ASSUME IInv, NEW k \in Draft, k.begun <= now,
           offered(k.assertion, published[k.assertion.uri]) \/ k.missing,
           \/ k.attempt = 1
           \/ k.overtaken
           \/ k.assertion.uri \notin DOMAIN jwksCache.entries,
           NEW cached
    PROVE  CallOK(lookup(k), cached)
<1> DEFINE uri == k.assertion.uri
           key == k.assertion.key
           e == jwksCache.entries[uri]
           l == lookup(k)
<1>1. now \in Nat /\ uri \in URIs /\ k.begun \in Nat
  BY Times DEF IInv, HistoryOK, Draft
<1>2. CASE jwksHit(jwksCache, uri)
  <2>1. /\ uri \in DOMAIN jwksCache.entries
        /\ EntryOK(uri, e)
        /\ ~(now > e.expiresAt)
    BY <1>2 DEF jwksHit, hit, present, expired, IInv, CacheOK
  <2>2. /\ e.keys \in AllKeySets /\ e.expiresAt \in Nat /\ now <= e.expiresAt
        /\ KeysSince(uri, e.keys, e.expiresAt, FetchTimeout + MaxTTL)
    BY <1>1, <2>1 DEF EntryOK
  <2>3. l = judge(k, e.keys)
    BY <1>2 DEF lookup
  <2> HIDE DEF l, e
  <2>4. /\ l \in Verifications /\ SameCall(k, l)
        /\ l.phase \in {"done", "miss"}
        /\ l.phase = "done" =>
             /\ l.verdict = "accepted" =>
                  /\ key \in keysOf(e.keys)
                  /\ l.at = now /\ claimsVerdict(k.assertion, now) = "accepted"
             /\ l.verdict = "no_key" => k.attempt = 2
    BY <1>1, <2>2, <2>3, JudgeFacts
  <2>5. ASSUME key \in keysOf(e.keys)
        PROVE  key \in AllKeys /\ KeySince(uri, key, k.begun, FetchTimeout + MaxTTL)
    <3>1. key \in AllKeys
      BY <2>2, <2>5, KeySetFacts
    <3>2. KeySince(uri, key, e.expiresAt, FetchTimeout + MaxTTL)
      BY <2>2, <2>5 DEF KeysSince
    <3>3. withdrawn[uri][key] \in Int
      BY <1>1, <3>1, Times DEF IInv, HistoryOK
    <3>4. KeySince(uri, key, k.begun, FetchTimeout + MaxTTL)
      BY <1>1, <2>2, <3>2, <3>3, Times DEF KeySince
    <3> QED
      BY <3>1, <3>4
  <2>6. l.phase = "done" => VerdictOK(l)
    BY <2>1, <2>4, <2>5 DEF VerdictOK, SameCall
  <2>7. CallOK(l, cached)
    BY <2>4, <2>6 DEF CallOK, SameCall
  <2> QED
    BY <2>7 DEF l
<1>3. CASE ~jwksHit(jwksCache, uri)
  <2>1. l = [k EXCEPT !.phase = "fetching", !.start = now]
    BY <1>3 DEF lookup
  <2>2. l = [phase |-> "fetching", assertion |-> k.assertion, attempt |-> k.attempt,
             start |-> now, keys |-> k.keys, ttl |-> k.ttl, verdict |-> k.verdict,
             begun |-> k.begun, at |-> k.at, missing |-> k.missing, overtaken |-> k.overtaken]
    BY <2>1 DEF Draft
  <2> HIDE DEF l
  <2>3. l \in Verifications
    BY <1>1, <2>2 DEF Draft, Verdicts, Verifications
  <2>4. CallOK(l, cached)
    BY <1>1, <2>2, <2>3, Times DEF CallOK
  <2> QED
    BY <2>4 DEF l
<1> QED
  BY <1>2, <1>3

\* What a key set offers an assertion does not change with time.
LEMMA OfferedFixed == \A a, set : offered(a, set)' <=> offered(a, set)
  BY DEF offered, selectJWK, isSigKey, Seqs!SelectInSeq, Seqs!Min

\* The steps of a verification leave the clients' keys and the clock alone.
LEMMA StillOK ==
    ASSUME UNCHANGED <<now, published, withdrawn>>, HistoryOK
    PROVE  /\ HistoryOK'
           /\ \A uri, e : EntryOK(uri, e) => EntryOK(uri, e)'
           /\ \A k, cached : CallOK(k, cached) => CallOK(k, cached)'
<1>1. \A uri, key, time, span :
        KeySince(uri, key, time, span) => KeySince(uri, key, time, span)'
  BY DEF KeySince, keysOf
<1>2. \A uri, keys, time, span :
        KeysSince(uri, keys, time, span) => KeysSince(uri, keys, time, span)'
  BY <1>1 DEF KeysSince, keysOf
<1>3. HistoryOK'
  BY DEF HistoryOK
<1>4. \A uri, e : EntryOK(uri, e) => EntryOK(uri, e)'
  BY <1>2 DEF EntryOK
<1>5. \A k : VerdictOK(k) => VerdictOK(k)'
  BY <1>1 DEF VerdictOK, claimsVerdict, timeClaimsValid, lifetimeValid
<1>6. \A k, cached : CallOK(k, cached) => CallOK(k, cached)'
  <2>1. \A k : (k \in Verifications)' <=> k \in Verifications
    BY DEF Verifications, AllKeySets
  <2> SUFFICES ASSUME NEW k, NEW cached, CallOK(k, cached)
               PROVE  CallOK(k, cached)'
    OBVIOUS
  <2> QED
    BY <1>2, <1>5, <2>1, OfferedFixed DEF CallOK
<1> QED
  BY <1>3, <1>4, <1>6

\* An entry less in the cache is no harm to a verification.
LEMMA FewerCached ==
    ASSUME NEW k, NEW cached, CallOK(k, cached), NEW C, C \subseteq cached
    PROVE  CallOK(k, C)
  BY DEF CallOK

\* A step of one verification, which leaves its own state and the cache in
\* order and puts nothing in, keeps the invariant.
LEMMA OneCallMoves ==
    ASSUME IInv, NEW c \in Calls, NEW k,
           call' = [call EXCEPT ![c] = k], CallOK(k, DOMAIN jwksCache'.entries),
           CacheOK', DOMAIN jwksCache'.entries \subseteq DOMAIN jwksCache.entries,
           UNCHANGED <<now, published, withdrawn>>
    PROVE  IInv'
<1> DEFINE C == DOMAIN jwksCache'.entries
<1>1. HistoryOK'
  BY StillOK DEF IInv
<1>2. ASSUME NEW d \in Calls
      PROVE  call'[d] = [phase |-> "idle"] \/ CallOK(call'[d], C)
  <2>1. CASE d = c
    BY <2>1 DEF IInv, CallsOK
  <2>2. CASE d # c
    <3>1. call'[d] = call[d]
      BY <2>2 DEF IInv, CallsOK
    <3>2. call[d] = [phase |-> "idle"] \/ CallOK(call[d], DOMAIN jwksCache.entries)
      BY DEF IInv, CallsOK
    <3> QED
      BY <3>1, <3>2, FewerCached
  <2> QED
    BY <2>1, <2>2
<1> HIDE DEF C
<1>3. \A d \in Calls : call'[d] = [phase |-> "idle"] \/ CallOK(call[d], DOMAIN jwksCache.entries)'
  BY <1>2, StillOK DEF IInv, C
<1>4. CallsOK'
  BY <1>3 DEF IInv, CallsOK
<1> QED
  BY <1>1, <1>4 DEF IInv

\* Reading the cache and invalidating an entry leave the others as they are.
LEMMA ShrinkKeeps ==
    ASSUME IInv, UNCHANGED <<now, published, withdrawn>>, NEW uri,
           \/ jwksCache' = jwksCache
           \/ jwksCache' = jwksAfterGet(jwksCache, uri)
           \/ jwksCache' = invalidate(jwksCache, uri)
    PROVE  /\ CacheOK' /\ DOMAIN jwksCache'.entries \subseteq DOMAIN jwksCache.entries
           /\ \A u \in DOMAIN jwksCache'.entries :
                jwksCache'.entries[u] = jwksCache.entries[u]
<1>1. /\ CacheWF(jwksCache')
      /\ DOMAIN jwksCache'.entries \subseteq DOMAIN jwksCache.entries
      /\ \A u \in DOMAIN jwksCache'.entries : jwksCache'.entries[u] = jwksCache.entries[u]
  <2>1. CacheWF(jwksCache)
    BY DEF IInv, CacheOK
  <2>2. CASE jwksCache' = jwksCache
    BY <2>1, <2>2
  <2>3. CASE jwksCache' = afterGet(jwksCache, uri, now)
    BY <2>1, <2>3, GetKeeps
  <2>4. CASE uri \in DOMAIN jwksCache.entries /\ jwksCache' = evictLocked(jwksCache, uri)
    BY <2>1, <2>4, EvictKeeps
  <2> QED
    BY <2>2, <2>3, <2>4 DEF jwksAfterGet, invalidate, present
<1>2. \A u \in DOMAIN jwksCache'.entries : EntryOK(u, jwksCache'.entries[u])
  BY <1>1 DEF IInv, CacheOK
<1>3. \A u \in DOMAIN jwksCache'.entries : EntryOK(u, jwksCache.entries[u])'
  BY <1>2, StillOK DEF IInv
<1> QED
  BY <1>1, <1>3 DEF CacheOK

\* A new verification reads the cache.
LEMMA VerifyKeeps ==
    ASSUME IInv, NEW c \in Calls, NEW a \in Assertions, Verify(c, a)
    PROVE  IInv'
<1> DEFINE k == [phase |-> "begin", assertion |-> a, attempt |-> 1, start |-> 0, keys |-> <<>>,
                 ttl |-> 0, verdict |-> "none", begun |-> now, at |-> 0,
                 missing |-> ~offered(a, published[a.uri]), overtaken |-> FALSE]
<1>1. now \in Nat
  BY DEF IInv, HistoryOK
<1>2. k \in Draft
  BY <1>1, Zenon DEF Draft
<1>3. /\ k.assertion = a /\ k.begun = now /\ k.attempt = 1
      /\ offered(a, published[a.uri]) \/ k.missing
  BY Zenon
<1>4. call' = [call EXCEPT ![c] = lookup(k)]
  BY DEF Verify
<1> HIDE DEF k
<1>5. \A cached : CallOK(lookup(k), cached)
  BY <1>1, <1>2, <1>3, LookupKeeps
<1>6. CacheOK' /\ DOMAIN jwksCache'.entries \subseteq DOMAIN jwksCache.entries
  BY ShrinkKeeps DEF Verify
<1> QED
  BY <1>4, <1>5, <1>6, OneCallMoves DEF Verify

\* The state of a verification that is under way.
LEMMA Underway ==
    ASSUME IInv, NEW c \in Calls, call[c].phase # "idle"
    PROVE  /\ CallOK(call[c], DOMAIN jwksCache.entries)
           /\ call[c] \in Verifications /\ call[c] \in Draft
           /\ now \in Nat /\ call[c].assertion.uri \in URIs
<1>1. CallOK(call[c], DOMAIN jwksCache.entries)
  BY DEF IInv, CallsOK
<1>2. call[c] \in Verifications
  BY <1>1 DEF CallOK
<1> QED
  BY <1>1, <1>2, VerificationIsDraft, Times DEF IInv, HistoryOK, Verifications

\* A verification that misses its key takes the entry out.
LEMMA InvalidateKeeps ==
    ASSUME IInv, NEW c \in Calls, Invalidate(c)
    PROVE  IInv'
<1> DEFINE x == call[c]
           k == [x EXCEPT !.phase = "retry", !.attempt = 2]
<1>1. /\ x.phase = "miss" /\ call' = [call EXCEPT ![c] = k]
      /\ jwksCache' = invalidate(jwksCache, x.assertion.uri)
      /\ UNCHANGED <<now, published, withdrawn>>
  BY DEF Invalidate
<1>2. CacheOK' /\ DOMAIN jwksCache'.entries \subseteq DOMAIN jwksCache.entries
  BY <1>1, ShrinkKeeps
<1>3. x.assertion.uri \notin DOMAIN jwksCache'.entries
  BY <1>1, EvictKeeps DEF invalidate, present, IInv, CacheOK
<1>4. CallOK(x, DOMAIN jwksCache.entries) /\ x \in Verifications
  BY <1>1, Underway
<1> HIDE DEF x
<1>5. k \in Verifications /\ SameCall(x, k) /\ k.phase = "retry"
  BY <1>4 DEF Verifications, SameCall
<1> HIDE DEF k
<1>6. CallOK(k, DOMAIN jwksCache'.entries)
  BY <1>1, <1>3, <1>4, <1>5 DEF CallOK, SameCall
<1> QED
  BY <1>1, <1>2, <1>6, OneCallMoves

\* The second lookup.
LEMMA RefetchKeeps ==
    ASSUME IInv, NEW c \in Calls, Refetch(c)
    PROVE  IInv'
<1>1. call[c].phase = "retry" /\ call' = [call EXCEPT ![c] = lookup(call[c])]
  BY DEF Refetch
<1>2. /\ CallOK(call[c], DOMAIN jwksCache.entries) /\ call[c] \in Draft
  BY <1>1, Underway
<1>3. \A cached : CallOK(lookup(call[c]), cached)
  BY <1>1, <1>2, LookupKeeps DEF CallOK
<1>4. CacheOK' /\ DOMAIN jwksCache'.entries \subseteq DOMAIN jwksCache.entries
  BY ShrinkKeeps DEF Refetch
<1> QED
  BY <1>1, <1>3, <1>4, OneCallMoves DEF Refetch

\* The keys that the client publishes now arrive.
LEMMA ServerAnswersKeeps ==
    ASSUME IInv, NEW c \in Calls, ServerAnswers(c)
    PROVE  IInv'
<1> DEFINE x == call[c]
           keys == published[x.assertion.uri]
<1>1. PICK ttl \in TTLs :
        call' = [call EXCEPT ![c].phase = "fetched", ![c].ttl = ttl, ![c].keys = keys]
  BY DEF ServerAnswers
<1> DEFINE k == [x EXCEPT !.phase = "fetched", !.ttl = ttl, !.keys = keys]
<1>2. x.phase = "fetching" /\ call' = [call EXCEPT ![c] = k]
  BY <1>1 DEF ServerAnswers
<1>3. CallOK(x, DOMAIN jwksCache.entries) /\ x \in Verifications /\ x.assertion.uri \in URIs
  BY <1>2, Underway
<1>4. keys \in AllKeySets
  BY <1>3 DEF IInv, HistoryOK
<1>5. KeysSince(x.assertion.uri, keys, x.start, 0)
  BY DEF KeysSince, KeySince
<1>6. offered(x.assertion, keys) \/ x.missing
  BY <1>2, <1>3 DEF CallOK
<1>7. CacheOK' /\ DOMAIN jwksCache'.entries \subseteq DOMAIN jwksCache.entries
  BY ShrinkKeeps DEF ServerAnswers
<1>8. keys = published[x.assertion.uri]
  OBVIOUS
<1> HIDE DEF x, keys
<1>9. /\ k \in Verifications /\ SameCall(x, k)
      /\ k.phase = "fetched" /\ k.ttl = ttl /\ k.keys = keys /\ k.start = x.start
  BY <1>3, <1>4 DEF Verifications, SameCall
<1> HIDE DEF k
<1>10. CallOK(k, DOMAIN jwksCache'.entries)
  BY <1>2, <1>3, <1>4, <1>5, <1>6, <1>8, <1>9 DEF CallOK, SameCall
<1> QED
  BY <1>2, <1>7, <1>10, OneCallMoves DEF ServerAnswers

\* A fetch that fails ends the verification.
LEMMA FetchFailsKeeps ==
    ASSUME IInv, NEW c \in Calls, FetchFails(c)
    PROVE  IInv'
<1> DEFINE k == conclude(call[c], "unavailable")
<1>1. call[c].phase \in {"fetching", "fetched"} /\ call' = [call EXCEPT ![c] = k]
  BY DEF FetchFails
<1>2. CallOK(call[c], DOMAIN jwksCache.entries) /\ call[c] \in Draft /\ now \in Nat
  BY <1>1, Underway
<1> HIDE DEF k
<1>3. k \in Verifications /\ SameCall(call[c], k) /\ k.phase = "done" /\ k.verdict = "unavailable"
  BY <1>2, ConcludeFacts DEF k, Verdicts
<1>4. CallOK(k, DOMAIN jwksCache'.entries)
  BY <1>2, <1>3 DEF CallOK, VerdictOK, SameCall
<1>5. CacheOK' /\ DOMAIN jwksCache'.entries \subseteq DOMAIN jwksCache.entries
  BY ShrinkKeeps DEF FetchFails
<1> QED
  BY <1>1, <1>4, <1>5, OneCallMoves DEF FetchFails

\* The answer is stored and judged; a verification that has just invalidated
\* the same entry is overtaken.
LEMMA StoreKeeps ==
    ASSUME IInv, NEW c \in Calls, Store(c)
    PROVE  IInv'
<1> DEFINE x == call[c]
           uri == x.assertion.uri
           keys == x.keys
           e == [keys |-> keys, expiresAt |-> now + x.ttl]
           C == DOMAIN jwksCache'.entries
<1>1. /\ x.phase = "fetched"
      /\ jwksCache' = IF x.ttl > 0 THEN insert(jwksCache, uri, e) ELSE jwksCache
      /\ call' = [d \in Calls |-> IF d = c THEN judge(x, keys) ELSE overtake(c, d, uri)]
      /\ UNCHANGED <<now, published, withdrawn>>
  BY DEF Store, jwksPut
<1>2. CallOK(x, DOMAIN jwksCache.entries) /\ x \in Draft /\ now \in Nat /\ uri \in URIs
  BY <1>1, Underway
<1>3. /\ keys \in AllKeySets /\ x.ttl \in Nat /\ x.ttl <= MaxTTL /\ x.start \in Nat
      /\ now <= x.start + FetchTimeout /\ KeysSince(uri, keys, x.start, 0)
      /\ offered(x.assertion, keys) \/ x.missing
      /\ x.begun \in Nat /\ x.begun <= now
  BY <1>1, <1>2, Times DEF CallOK, Draft
<1> HIDE DEF x, uri, keys
<1>4. /\ e.keys = keys /\ e.expiresAt = now + x.ttl
      /\ e \in [keys : AllKeySets, expiresAt : Nat]
  BY <1>2, <1>3
<1> HIDE DEF e
<1>5. ASSUME NEW key \in keysOf(keys), NEW time \in Int, time <= now + MaxTTL
      PROVE  KeySince(uri, key, time, FetchTimeout + MaxTTL)
  <2>1. key \in AllKeys /\ KeySince(uri, key, x.start, 0)
    BY <1>3, KeySetFacts DEF KeysSince
  <2>2. withdrawn[uri][key] \in Int
    BY <1>2, <2>1, Times DEF IInv, HistoryOK
  <2> QED
    BY <1>2, <1>3, <1>5, <2>1, <2>2, Times DEF KeySince
<1>6. EntryOK(uri, e)
  <2>1. e.expiresAt \in Int /\ e.expiresAt <= now + MaxTTL
    BY <1>2, <1>3, <1>4, Times
  <2>2. KeysSince(uri, e.keys, e.expiresAt, FetchTimeout + MaxTTL)
    BY <1>4, <1>5, <2>1 DEF KeysSince
  <2> QED
    BY <1>2, <1>4, <2>1, <2>2 DEF EntryOK
<1>7. CacheOK' /\ C \subseteq DOMAIN jwksCache.entries \union {uri}
  <2>1. CASE jwksCache' = jwksCache
    BY <1>1, <2>1, ShrinkKeeps
  <2>2. CASE jwksCache' = insert(jwksCache, uri, e)
    <3>1. /\ CacheWF(jwksCache')
          /\ jwksCache'.entries[uri] = e
          /\ \A u \in DOMAIN jwksCache'.entries \ {uri} :
               u \in DOMAIN jwksCache.entries /\ jwksCache'.entries[u] = jwksCache.entries[u]
      BY <2>2, InsertKeeps DEF IInv, CacheOK
    <3>2. \A u \in DOMAIN jwksCache'.entries : EntryOK(u, jwksCache'.entries[u])
      BY <1>6, <3>1 DEF IInv, CacheOK
    <3>3. \A u \in DOMAIN jwksCache'.entries : EntryOK(u, jwksCache.entries[u])'
      BY <1>1, <3>2, StillOK DEF IInv
    <3> QED
      BY <3>1, <3>3 DEF CacheOK
  <2> QED
    BY <1>1, <2>1, <2>2
<1> DEFINE l == judge(x, keys)
<1>8. CallOK(l, C)
  <2>1. /\ l \in Verifications /\ SameCall(x, l)
        /\ l.phase \in {"done", "miss"}
        /\ l.phase = "done" =>
             /\ l.verdict = "accepted" =>
                  /\ x.assertion.key \in keysOf(keys)
                  /\ l.at = now /\ claimsVerdict(x.assertion, now) = "accepted"
             /\ l.verdict = "no_key" => ~offered(x.assertion, keys)
    BY <1>2, <1>3, JudgeFacts
  <2> HIDE DEF l
  <2>2. ASSUME x.assertion.key \in keysOf(keys)
        PROVE  /\ x.assertion.key \in AllKeys
               /\ KeySince(uri, x.assertion.key, x.begun, FetchTimeout + MaxTTL)
    <3>1. x.begun \in Int /\ x.begun <= now + MaxTTL
      BY <1>2, <1>3, Times
    <3> QED
      BY <1>3, <1>5, <2>2, <3>1, KeySetFacts
  <2>3. l.phase = "done" => VerdictOK(l)
    BY <1>3, <2>1, <2>2 DEF VerdictOK, SameCall, uri
  <2> QED
    BY <1>1, <1>2, <2>1, <2>3 DEF CallOK, SameCall
<1>9. ASSUME NEW d \in Calls, d # c
      PROVE  overtake(c, d, uri) = [phase |-> "idle"] \/ CallOK(overtake(c, d, uri), C)
  <2> DEFINE y == call[d]
  <2>1. y = [phase |-> "idle"] \/ CallOK(y, DOMAIN jwksCache.entries)
    BY DEF IInv, CallsOK
  <2>2. CASE x.ttl > 0 /\ y.phase = "retry" /\ y.assertion.uri = uri
    <3> DEFINE z == [y EXCEPT !.overtaken = TRUE]
    <3>1. overtake(c, d, uri) = z
      BY <1>9, <2>2 DEF overtake, x
    <3>2. CallOK(y, DOMAIN jwksCache.entries) /\ y \in Verifications
      BY <2>1, <2>2 DEF CallOK
    <3> HIDE DEF y
    <3>3. /\ z \in Verifications /\ z.phase = "retry" /\ z.overtaken
          /\ z.assertion = y.assertion /\ z.begun = y.begun /\ z.missing = y.missing
      BY <2>2, <3>2 DEF Verifications
    <3> HIDE DEF z
    <3>4. CallOK(z, C)
      BY <2>2, <3>2, <3>3 DEF CallOK
    <3> QED
      BY <3>1, <3>4
  <2>3. CASE ~(x.ttl > 0 /\ y.phase = "retry" /\ y.assertion.uri = uri)
    <3>1. overtake(c, d, uri) = y
      BY <2>3 DEF overtake, x
    <3>2. CASE y = [phase |-> "idle"]
      BY <3>1, <3>2
    <3>3. CASE CallOK(y, DOMAIN jwksCache.entries)
      <4>1. x.ttl > 0 \/ C = DOMAIN jwksCache.entries
        BY <1>1
      <4>2. CallOK(y, C)
        BY <1>7, <2>3, <3>3, <4>1 DEF CallOK
      <4> QED
        BY <3>1, <4>2
    <3> QED
      BY <2>1, <3>2, <3>3
  <2> QED
    BY <2>2, <2>3
<1>10. CallsOK'
  <2>1. \A d \in Calls : call'[d] = [phase |-> "idle"] \/ CallOK(call'[d], C)
    BY <1>1, <1>8, <1>9
  <2> HIDE DEF C
  <2>2. \A d \in Calls : call'[d] = [phase |-> "idle"] \/ CallOK(call[d], DOMAIN jwksCache.entries)'
    BY <1>1, <2>1, StillOK DEF IInv, C
  <2>3. call' = [d \in Calls |-> call'[d]]
    BY <1>1
  <2> QED
    BY <2>2, <2>3 DEF CallsOK
<1> QED
  BY <1>1, <1>7, <1>10, StillOK DEF IInv

\* A rotation: what was known of the old keys held until now, and whoever waits
\* for a key that is gone takes note.
LEMMA RotateKeeps ==
    ASSUME IInv, NEW uri \in URIs, NEW set \in KeySets[uri], Rotate(uri, set)
    PROVE  IInv'
<1> DEFINE C == DOMAIN jwksCache.entries
<1>1. /\ published' = [published EXCEPT ![uri] = set]
      /\ withdrawn' = [withdrawn EXCEPT ![uri] = [k \in AllKeys |->
            IF k \in keysOf(published[uri]) \ keysOf(set) THEN now ELSE withdrawn[uri][k]]]
      /\ UNCHANGED <<now, jwksCache>> /\ now \in Nat /\ set \in AllKeySets
  BY DEF Rotate, IInv, HistoryOK, AllKeySets
<1>2. ASSUME NEW u \in URIs, NEW key \in AllKeys
      PROVE  /\ withdrawn[u][key] \in Int /\ withdrawn[u][key] <= now
             /\ withdrawn'[u][key] = IF u = uri /\ key \in keysOf(published[uri]) \ keysOf(set)
                                     THEN now ELSE withdrawn[u][key]
  BY <1>1, Times DEF IInv, HistoryOK
<1>3. HistoryOK'
  <2>1. \A u \in URIs, key \in AllKeys : withdrawn'[u][key] <= now'
    BY <1>1, <1>2
  <2>2. /\ published' \in [URIs -> AllKeySets]
        /\ \A u \in URIs : published'[u] \in KeySets[u]
    BY <1>1 DEF IInv, HistoryOK
  <2>3. withdrawn' \in [URIs -> [AllKeys -> Nat \union {Never}]]
    BY <1>1 DEF IInv, HistoryOK
  <2> QED
    BY <1>1, <2>1, <2>2, <2>3 DEF HistoryOK, AllKeys, AllKeySets
<1>4. ASSUME NEW u \in URIs, NEW key \in AllKeys, NEW time \in Int, NEW span \in Nat,
             KeySince(u, key, time, span), time <= now + span
      PROVE  KeySince(u, key, time, span)'
  <2>1. CASE u = uri /\ key \in keysOf(published[uri]) \ keysOf(set)
    BY <1>1, <1>2, <1>4, <2>1 DEF KeySince
  <2>2. CASE ~(u = uri /\ key \in keysOf(published[uri]) \ keysOf(set))
    <3>1. withdrawn'[u][key] = withdrawn[u][key]
      BY <1>2, <2>2
    <3>2. key \in keysOf(published[u]) => key \in keysOf(published'[u])
      BY <1>1, <2>2 DEF IInv, HistoryOK
    <3> QED
      BY <1>4, <3>1, <3>2 DEF KeySince, keysOf
  <2> QED
    BY <2>1, <2>2
<1>5. ASSUME NEW u \in URIs, NEW keys \in AllKeySets, NEW time \in Int, NEW span \in Nat,
             KeysSince(u, keys, time, span), time <= now + span
      PROVE  KeysSince(u, keys, time, span)'
  <2>1. \A key \in keysOf(keys) : KeySince(u, key, time, span)'
    BY <1>4, <1>5, KeySetFacts DEF KeysSince
  <2> QED
    BY <2>1 DEF KeysSince, keysOf
<1>6. CacheOK'
  <2>1. ASSUME NEW u, NEW e, EntryOK(u, e)
        PROVE  EntryOK(u, e)'
    <3>1. /\ u \in URIs /\ e.keys \in AllKeySets /\ e.expiresAt \in Int
          /\ e.expiresAt <= now + (FetchTimeout + MaxTTL)
      BY <1>1, <2>1, Times DEF EntryOK
    <3>2. KeysSince(u, e.keys, e.expiresAt, FetchTimeout + MaxTTL)'
      BY <1>5, <2>1, <3>1, Times DEF EntryOK
    <3> QED
      BY <1>1, <2>1, <3>2 DEF EntryOK, AllKeySets
  <2> QED
    BY <1>1, <2>1 DEF IInv, CacheOK
<1>7. ASSUME NEW k, CallOK(k, C),
             k.phase # "done" => offered(k.assertion, published'[k.assertion.uri]) \/ k.missing
      PROVE  CallOK(k, C)'
  <2>1. /\ k \in Verifications /\ k.assertion.uri \in URIs /\ k.begun \in Nat /\ k.begun <= now
    BY <1>7, Times DEF CallOK, Verifications
  <2>2. k.phase = "fetched" => KeysSince(k.assertion.uri, k.keys, k.start, 0)'
    <3> SUFFICES ASSUME k.phase = "fetched"
                 PROVE  KeysSince(k.assertion.uri, k.keys, k.start, 0)'
      OBVIOUS
    <3>1. /\ k.keys \in AllKeySets /\ k.start \in Int /\ k.start <= now + 0
          /\ KeysSince(k.assertion.uri, k.keys, k.start, 0)
      BY <1>1, <1>7, <2>1 DEF CallOK, Verifications
    <3> QED
      BY <1>5, <2>1, <3>1
  <2>3. k.phase = "done" => VerdictOK(k)'
    <3>1. k.phase = "done" => VerdictOK(k)
      BY <1>7 DEF CallOK
    <3>2. k.begun \in Int /\ k.begun <= now + (FetchTimeout + MaxTTL)
      BY <1>1, <2>1, Times
    <3>3. k.phase = "done" /\ k.verdict = "accepted" =>
            KeySince(k.assertion.uri, k.assertion.key, k.begun, FetchTimeout + MaxTTL)'
      BY <1>4, <2>1, <3>1, <3>2, Times DEF VerdictOK
    <3> QED
      BY <3>1, <3>3
         DEF VerdictOK, claimsVerdict, timeClaimsValid, lifetimeValid, AllKeys, AllKeySets
  <2>4. (k \in Verifications)'
    BY <2>1 DEF Verifications, AllKeySets
  <2> QED
    BY <1>1, <1>7, <2>2, <2>3, <2>4, OfferedFixed DEF CallOK, AllKeySets
<1>8. ASSUME NEW c \in Calls
      PROVE  call'[c] = [phase |-> "idle"] \/ CallOK(call[c], C)'
  <2> DEFINE x == call[c]
             gone == /\ x.phase \notin {"idle", "done"}
                     /\ x.assertion.uri = uri
                     /\ ~offered(x.assertion, set)
  <2>1. call'[c] = IF gone THEN [x EXCEPT !.missing = TRUE] ELSE x
    BY DEF Rotate
  <2>2. x = [phase |-> "idle"] \/ CallOK(x, C)
    BY DEF IInv, CallsOK
  <2>3. CASE x.phase = "idle"
    BY <2>1, <2>2, <2>3 DEF CallOK, Verifications
  <2>4. CASE x.phase # "idle" /\ gone
    <3> DEFINE z == [x EXCEPT !.missing = TRUE]
    <3>1. CallOK(x, C) /\ x \in Verifications
      BY <2>2, <2>4 DEF CallOK
    <3>2. call'[c] = z
      BY <2>1, <2>4
    <3> HIDE DEF x
    <3>3. /\ z \in Verifications /\ z.missing
          /\ z.phase = x.phase /\ z.assertion = x.assertion /\ z.begun = x.begun
          /\ z.start = x.start /\ z.keys = x.keys /\ z.ttl = x.ttl
          /\ z.overtaken = x.overtaken
      BY <3>1 DEF Verifications
    <3>4. x.phase # "done"
      BY <2>4
    <3> HIDE DEF z, gone
    <3>5. CallOK(z, C)
      BY <3>1, <3>3, <3>4 DEF CallOK
    <3> QED
      BY <1>7, <3>2, <3>3, <3>5
  <2>5. CASE x.phase # "idle" /\ ~gone
    <3>1. CallOK(x, C) /\ call'[c] = x
      BY <2>1, <2>2, <2>5
    <3>2. x.assertion.uri \in URIs
      BY <2>5, Underway
    <3>3. x.phase # "done" => offered(x.assertion, published'[x.assertion.uri]) \/ x.missing
      BY <1>1, <2>5, <3>1, <3>2 DEF CallOK, IInv, HistoryOK
    <3> HIDE DEF x
    <3> QED
      BY <1>7, <3>1, <3>3 DEF x
  <2> QED
    BY <2>3, <2>4, <2>5
<1>9. CallsOK'
  <2>1. call' = [c \in Calls |-> call'[c]]
    BY DEF Rotate
  <2> QED
    BY <1>1, <1>8, <2>1 DEF CallsOK
<1> QED
  BY <1>3, <1>6, <1>9 DEF IInv

\* Time passes, but no further than the context of a fetch.
LEMMA TickKeeps ==
    ASSUME IInv, Tick
    PROVE  IInv'
<1>1. /\ now' = now + 1 /\ now \in Nat
      /\ UNCHANGED <<jwksCache, call, published, withdrawn>>
  BY DEF Tick, IInv, HistoryOK
<1>2. HistoryOK'
  <2>1. \A u \in URIs, key \in AllKeys : withdrawn[u][key] \in Int /\ withdrawn[u][key] <= now
    BY Times DEF IInv, HistoryOK
  <2> QED
    BY <1>1, <2>1 DEF IInv, HistoryOK
<1>3. \A u, key, time, span : KeySince(u, key, time, span) => KeySince(u, key, time, span)'
  BY <1>1 DEF KeySince, keysOf
<1>4. \A u, keys, time, span : KeysSince(u, keys, time, span) => KeysSince(u, keys, time, span)'
  BY <1>3 DEF KeysSince, keysOf
<1>5. CacheOK'
  <2>1. ASSUME NEW u, NEW e, EntryOK(u, e)
        PROVE  EntryOK(u, e)'
    <3>1. e.expiresAt \in Nat /\ e.expiresAt <= now' + MaxTTL
      BY <1>1, <2>1, Times DEF EntryOK
    <3> QED
      BY <1>4, <2>1, <3>1 DEF EntryOK
  <2> QED
    BY <1>1, <2>1 DEF IInv, CacheOK
<1>6. CallsOK'
  <2>1. ASSUME NEW c \in Calls
        PROVE  call[c] = [phase |-> "idle"] \/ CallOK(call[c], DOMAIN jwksCache.entries)'
    <3> DEFINE k == call[c]
               C == DOMAIN jwksCache.entries
    <3>1. k = [phase |-> "idle"] \/ CallOK(k, C)
      BY DEF IInv, CallsOK
    <3>2. CASE CallOK(k, C)
      <4>1. k \in Verifications /\ k.begun \in Nat /\ k.start \in Nat
        BY <3>2 DEF CallOK, Verifications
      <4>2. /\ k.begun <= now'
            /\ k.phase \in {"fetching", "fetched"} =>
                 k.start <= now' /\ now' <= k.start + FetchTimeout
        BY <1>1, <3>2, <4>1, Times DEF CallOK, Tick
      <4>3. k.phase = "done" => VerdictOK(k)'
        <5>1. k.phase = "done" => VerdictOK(k)
          BY <3>2 DEF CallOK
        <5> QED
          BY <1>1, <1>3, <5>1 DEF VerdictOK, claimsVerdict, timeClaimsValid, lifetimeValid
      <4>4. (k \in Verifications)'
        BY <1>1, <4>1 DEF Verifications, AllKeySets
      <4> QED
        BY <1>1, <1>4, <3>2, <4>2, <4>3, <4>4, OfferedFixed DEF CallOK
    <3> QED
      BY <3>1, <3>2
  <2> QED
    BY <1>1, <2>1 DEF IInv, CallsOK
<1> QED
  BY <1>2, <1>5, <1>6 DEF IInv

\* The invariant holds initially.
LEMMA InitIInv == Init => IInv
<1> SUFFICES ASSUME Init PROVE IInv
  OBVIOUS
<1>1. HistoryOK
  BY Times DEF Init, HistoryOK
<1>2. CacheOK
  BY NewCacheWF DEF Init, CacheOK
<1>3. CallsOK
  BY DEF Init, CallsOK
<1> QED
  BY <1>1, <1>2, <1>3 DEF IInv

\* Every step keeps the invariant.
LEMMA NextIInv == IInv /\ [Next]_vars => IInv'
<1> SUFFICES ASSUME IInv, [Next]_vars PROVE IInv'
  OBVIOUS
<1>1. ASSUME NEW c \in Calls, NEW a \in Assertions, Verify(c, a) PROVE IInv'
  BY <1>1, VerifyKeeps
<1>2. ASSUME NEW c \in Calls, Step(c) PROVE IInv'
  BY <1>2, InvalidateKeeps, RefetchKeeps, ServerAnswersKeeps, StoreKeeps, FetchFailsKeeps DEF Step
<1>3. ASSUME NEW uri \in URIs, NEW set \in KeySets[uri], Rotate(uri, set) PROVE IInv'
  BY <1>3, RotateKeeps
<1>4. CASE Tick
  BY <1>4, TickKeeps
<1>5. CASE UNCHANGED vars
  <2>1. HistoryOK' /\ CacheOK'
    BY <1>5, ShrinkKeeps, StillOK DEF IInv, vars
  <2>2. CallsOK'
    BY <1>5, StillOK DEF IInv, CallsOK, vars
  <2> QED
    BY <2>1, <2>2 DEF IInv
<1> QED
  BY <1>1, <1>2, <1>3, <1>4, <1>5 DEF Next

\* The invariant the theorems rest on holds in every state.
THEOREM Inductive == Spec => []IInv
  BY InitIInv, NextIInv, PTL DEF Spec
-----------------------------------------------------------------------------
(* A second invariant, on top of the first: why the race has a window.     *)

\* The key has not been published all along and since long before the call.
Unsettled(k) == k.missing \/ k.begun <= offeredAt[want(k.assertion)] + FetchTimeout

\* What a fetched set does not offer was published after the fetch began; the
\* entry that a second lookup finds offers the key, if it is settled.
SettledOK(k, entries) ==
    LET uri == k.assertion.uri
    IN  /\ k.phase = "fetched" =>
             \A a \in Assertions :
                 a.uri = uri /\ offered(a, published[uri]) /\ ~offered(a, k.keys)
                 => offeredAt[want(a)] >= k.start
        /\ k.phase = "retry" =>
             \/ uri \notin DOMAIN entries
             \/ offered(k.assertion, entries[uri].keys)
             \/ Unsettled(k)
        /\ k.phase = "done" /\ k.verdict = "no_key" => Unsettled(k)

Settled ==
    /\ offeredAt \in [Wants -> Nat \union {Never}]
    /\ \A w \in Wants : offeredAt[w] <= now
    /\ \A c \in Calls : call[c].phase # "idle" => SettledOK(call[c], jwksCache.entries)

\* A lookup turns an assertion away only at the second attempt, for an entry
\* that does not offer its key.
LEMMA LookupSettled ==
    ASSUME IInv, NEW k \in Draft, k.attempt = 1 \/ SettledOK(k, jwksCache.entries),
           k.attempt = 2 => k.phase = "retry", NEW entries
    PROVE  SettledOK(lookup(k), entries)
<1> DEFINE uri == k.assertion.uri
           e == jwksCache.entries[uri]
           l == lookup(k)
<1>1. now \in Nat
  BY DEF IInv, HistoryOK
<1>2. CASE jwksHit(jwksCache, uri)
  <2>1. uri \in DOMAIN jwksCache.entries /\ e.keys \in AllKeySets
    BY <1>2 DEF jwksHit, hit, present, IInv, CacheOK, EntryOK
  <2>2. l = judge(k, e.keys)
    BY <1>2 DEF lookup
  <2> HIDE DEF l
  <2>3. /\ SameCall(k, l) /\ l.phase \in {"done", "miss"}
        /\ l.phase = "done" /\ l.verdict = "no_key" =>
             k.attempt = 2 /\ ~offered(k.assertion, e.keys)
    BY <1>1, <2>1, <2>2, JudgeFacts
  <2>4. l.phase = "done" /\ l.verdict = "no_key" => Unsettled(k)
    BY <2>1, <2>3 DEF SettledOK
  <2> QED
    BY <2>3, <2>4 DEF SettledOK, Unsettled, SameCall, l
<1>3. CASE ~jwksHit(jwksCache, uri)
  <2>1. l = [k EXCEPT !.phase = "fetching", !.start = now]
    BY <1>3 DEF lookup
  <2>2. l.phase = "fetching"
    BY <2>1 DEF Draft
  <2> QED
    BY <2>2 DEF SettledOK
<1> QED
  BY <1>2, <1>3

\* The steps of a verification leave the clients' keys and their history alone.
LEMMA StaysSettled ==
    ASSUME UNCHANGED <<published, offeredAt>>
    PROVE  \A k, E : SettledOK(k, E) => SettledOK(k, E)'
  BY OfferedFixed DEF SettledOK, Unsettled, want

\* Another entry than the one a verification depends on may go or come.
LEMMA OtherEntries ==
    ASSUME NEW k, NEW E, NEW F, SettledOK(k, E),
           k.phase = "retry" /\ k.assertion.uri \in DOMAIN F =>
             \/ offered(k.assertion, F[k.assertion.uri].keys)
             \/ Unsettled(k)
             \/ k.assertion.uri \in DOMAIN E /\ F[k.assertion.uri] = E[k.assertion.uri]
    PROVE  SettledOK(k, F)
  BY DEF SettledOK

\* A step of one verification, which puts nothing into the cache.
LEMMA OneCallSettles ==
    ASSUME IInv, Settled, NEW c \in Calls, NEW k,
           call' = [call EXCEPT ![c] = k], SettledOK(k, jwksCache'.entries), NEW uri,
           \/ jwksCache' = jwksCache
           \/ jwksCache' = jwksAfterGet(jwksCache, uri)
           \/ jwksCache' = invalidate(jwksCache, uri),
           UNCHANGED <<now, published, withdrawn, offeredAt>>
    PROVE  Settled'
<1> DEFINE E == jwksCache.entries
           F == jwksCache'.entries
<1>1. /\ DOMAIN F \subseteq DOMAIN E
      /\ \A u \in DOMAIN F : F[u] = E[u]
  BY ShrinkKeeps
<1>2. \A d \in Calls : call'[d] = IF d = c THEN k ELSE call[d]
  BY DEF IInv, CallsOK
<1>3. \A d \in Calls : call'[d].phase # "idle" => SettledOK(call'[d], F)
  BY <1>1, <1>2, OtherEntries DEF Settled
<1> HIDE DEF F
<1>4. \A d \in Calls : call'[d].phase # "idle" => SettledOK(call[d], jwksCache.entries)'
  BY <1>3, StaysSettled DEF F
<1>5. offeredAt' \in [Wants -> Nat \union {Never}] /\ \A w \in Wants : offeredAt'[w] <= now'
  BY DEF Settled
<1> QED
  BY <1>4, <1>5 DEF Settled, Wants, Never

\* The steps of one verification on its own.
LEMMA VerifySettles ==
    ASSUME IInv, Settled, NEW c \in Calls, NEW a \in Assertions, Verify(c, a)
    PROVE  Settled'
<1> DEFINE k == [phase |-> "begin", assertion |-> a, attempt |-> 1, start |-> 0, keys |-> <<>>,
                 ttl |-> 0, verdict |-> "none", begun |-> now, at |-> 0,
                 missing |-> ~offered(a, published[a.uri]), overtaken |-> FALSE]
<1>1. now \in Nat
  BY DEF IInv, HistoryOK
<1>2. k \in Draft
  BY <1>1, Zenon DEF Draft
<1>3. k.attempt = 1
  BY Zenon
<1>4. call' = [call EXCEPT ![c] = lookup(k)]
  BY DEF Verify
<1> HIDE DEF k
<1>5. \A entries : SettledOK(lookup(k), entries)
  BY <1>2, <1>3, LookupSettled
<1> QED
  BY <1>4, <1>5, OneCallSettles DEF Verify

\* The entry that was invalidated is gone.
LEMMA InvalidateSettles ==
    ASSUME IInv, Settled, NEW c \in Calls, Invalidate(c)
    PROVE  Settled'
<1> DEFINE k == [call[c] EXCEPT !.phase = "retry", !.attempt = 2]
<1>1. /\ call[c].phase = "miss" /\ call' = [call EXCEPT ![c] = k]
      /\ jwksCache' = invalidate(jwksCache, call[c].assertion.uri)
  BY DEF Invalidate
<1>2. call[c].assertion.uri \notin DOMAIN jwksCache'.entries
  BY <1>1, EvictKeeps DEF invalidate, present, IInv, CacheOK
<1>3. k.phase = "retry" /\ k.assertion = call[c].assertion
  BY <1>1, Underway DEF Verifications
<1> HIDE DEF k
<1>4. SettledOK(k, jwksCache'.entries)
  BY <1>2, <1>3 DEF SettledOK
<1> QED
  BY <1>1, <1>4, OneCallSettles DEF Invalidate

\* The second lookup finds no entry, or one that offers a settled key.
LEMMA RefetchSettles ==
    ASSUME IInv, Settled, NEW c \in Calls, Refetch(c)
    PROVE  Settled'
<1>1. call[c].phase = "retry" /\ call' = [call EXCEPT ![c] = lookup(call[c])]
  BY DEF Refetch
<1>2. call[c] \in Draft /\ SettledOK(call[c], jwksCache.entries)
  BY <1>1, Underway DEF Settled
<1>3. \A entries : SettledOK(lookup(call[c]), entries)
  BY <1>1, <1>2, LookupSettled
<1> QED
  BY <1>1, <1>3, OneCallSettles DEF Refetch

\* The server offers what is published.
LEMMA ServerAnswersSettles ==
    ASSUME IInv, Settled, NEW c \in Calls, ServerAnswers(c)
    PROVE  Settled'
<1> DEFINE keys == published[call[c].assertion.uri]
<1>1. PICK ttl \in TTLs :
        call' = [call EXCEPT ![c].phase = "fetched", ![c].ttl = ttl, ![c].keys = keys]
  BY DEF ServerAnswers
<1> DEFINE k == [call[c] EXCEPT !.phase = "fetched", !.ttl = ttl, !.keys = keys]
<1>2. call[c].phase = "fetching" /\ call' = [call EXCEPT ![c] = k]
  BY <1>1 DEF ServerAnswers
<1>3. k.phase = "fetched" /\ k.assertion = call[c].assertion /\ k.keys = keys
  BY <1>2, Underway DEF Verifications
<1> HIDE DEF k
<1>4. SettledOK(k, jwksCache'.entries)
  BY <1>3 DEF SettledOK
<1> QED
  BY <1>2, <1>4, OneCallSettles DEF ServerAnswers

\* A fetch that fails is another verdict.
LEMMA FetchFailsSettles ==
    ASSUME IInv, Settled, NEW c \in Calls, FetchFails(c)
    PROVE  Settled'
<1> DEFINE k == conclude(call[c], "unavailable")
<1>1. call[c].phase \in {"fetching", "fetched"} /\ call' = [call EXCEPT ![c] = k]
  BY DEF FetchFails
<1> HIDE DEF k
<1>2. k.phase = "done" /\ k.verdict = "unavailable"
  BY <1>1, Underway, ConcludeFacts DEF k, Verdicts
<1>3. SettledOK(k, jwksCache'.entries)
  BY <1>2 DEF SettledOK
<1> QED
  BY <1>1, <1>3, OneCallSettles DEF FetchFails

\* An answer that does not offer a key was fetched before the key was published,
\* and is no older than its context: whoever waits for that key has just come.
LEMMA StoreSettles ==
    ASSUME IInv, Settled, NEW c \in Calls, Store(c)
    PROVE  Settled'
<1> DEFINE x == call[c]
           uri == x.assertion.uri
           keys == x.keys
           e == [keys |-> keys, expiresAt |-> now + x.ttl]
           F == jwksCache'.entries
<1>1. /\ x.phase = "fetched"
      /\ jwksCache' = IF x.ttl > 0 THEN insert(jwksCache, uri, e) ELSE jwksCache
      /\ \A d \in Calls : call'[d] = IF d = c THEN judge(x, keys) ELSE overtake(c, d, uri)
      /\ UNCHANGED <<now, published, withdrawn, offeredAt>>
  BY DEF Store, jwksPut
<1>2. /\ x \in Draft /\ now \in Nat /\ keys \in AllKeySets /\ x.start \in Nat
      /\ now <= x.start + FetchTimeout
      /\ offered(x.assertion, keys) \/ x.missing
  BY <1>1, Underway DEF CallOK, Draft
<1>3. \A u \in DOMAIN F :
        \/ u = uri /\ F[u].keys = keys
        \/ u \in DOMAIN jwksCache.entries /\ F[u] = jwksCache.entries[u]
  <2>1. CASE jwksCache' = jwksCache
    BY <2>1
  <2>2. CASE jwksCache' = insert(jwksCache, uri, e)
    <3>1. e.keys = keys
      OBVIOUS
    <3> HIDE DEF e, uri, keys
    <3>2. /\ F[uri] = e
          /\ \A u \in DOMAIN F \ {uri} :
               u \in DOMAIN jwksCache.entries /\ F[u] = jwksCache.entries[u]
      BY <2>2, InsertKeeps DEF IInv, CacheOK
    <3> QED
      BY <3>1, <3>2
  <2> QED
    BY <1>1, <2>1, <2>2
<1>4. \A a \in Assertions :
        a.uri = uri /\ offered(a, published[uri]) /\ ~offered(a, keys)
        => offeredAt[want(a)] >= x.start
  BY <1>1 DEF Settled, SettledOK
<1> HIDE DEF x, uri, keys, F
<1>5. ASSUME NEW d \in Calls, d # c, call[d].phase # "idle"
      PROVE  SettledOK(overtake(c, d, uri), F)
  <2> DEFINE y == call[d]
             z == overtake(c, d, uri)
  <2>1. /\ CallOK(y, DOMAIN jwksCache.entries) /\ y \in Verifications
        /\ SettledOK(y, jwksCache.entries)
    BY <1>5, Underway DEF Settled
  <2>2. /\ z.phase = y.phase /\ z.assertion = y.assertion /\ z.begun = y.begun
        /\ z.missing = y.missing /\ z.keys = y.keys /\ z.start = y.start
        /\ z.verdict = y.verdict
    BY <2>1 DEF overtake, Verifications
  <2>3. y.phase = "retry" /\ y.assertion.uri = uri /\ ~offered(y.assertion, keys) => Unsettled(y)
    <3> SUFFICES ASSUME y.phase = "retry", y.assertion.uri = uri, ~offered(y.assertion, keys)
                 PROVE  Unsettled(y)
      OBVIOUS
    <3>1. y.assertion \in Assertions /\ y.begun \in Nat /\ y.begun <= now
      BY <2>1 DEF CallOK, Verifications
    <3>2. CASE offered(y.assertion, published[uri])
      <4>1. offeredAt[want(y.assertion)] >= x.start
        BY <1>4, <3>1, <3>2
      <4>2. offeredAt[want(y.assertion)] \in Int
        BY <3>1, Times DEF Settled, Wants
      <4> QED
        BY <1>2, <3>1, <4>1, <4>2, Times DEF Unsettled
    <3>3. CASE ~offered(y.assertion, published[uri])
      BY <2>1, <3>3 DEF CallOK, Unsettled
    <3> QED
      BY <3>2, <3>3
  <2> HIDE DEF y, z
  <2>4. SettledOK(z, jwksCache.entries)
    BY <2>1, <2>2 DEF SettledOK, Unsettled
  <2>5. z.phase = "retry" /\ z.assertion.uri \in DOMAIN F =>
          \/ offered(z.assertion, F[z.assertion.uri].keys)
          \/ Unsettled(z)
          \/ /\ z.assertion.uri \in DOMAIN jwksCache.entries
             /\ F[z.assertion.uri] = jwksCache.entries[z.assertion.uri]
    BY <1>3, <2>2, <2>3 DEF Unsettled
  <2>6. SettledOK(z, F)
    BY <2>4, <2>5, OtherEntries
  <2> QED
    BY <2>6 DEF z
<1>6. SettledOK(judge(x, keys), F)
  <2> DEFINE l == judge(x, keys)
  <2>1. /\ SameCall(x, l) /\ l.phase \in {"done", "miss"}
        /\ l.phase = "done" /\ l.verdict = "no_key" => ~offered(x.assertion, keys)
    BY <1>2, JudgeFacts
  <2> HIDE DEF l
  <2>2. SettledOK(l, F)
    BY <1>2, <2>1 DEF SettledOK, Unsettled, SameCall
  <2> QED
    BY <2>2 DEF l
<1>7. ASSUME NEW d \in Calls, call'[d].phase # "idle"
      PROVE  SettledOK(call'[d], F)
  <2>1. CASE d = c
    BY <1>1, <1>6, <2>1
  <2>2. CASE d # c
    <3>1. call'[d] = overtake(c, d, uri)
      BY <1>1, <2>2
    <3>2. call[d].phase # "idle"
      BY <1>7, <3>1 DEF overtake
    <3> QED
      BY <1>5, <2>2, <3>1, <3>2
  <2> QED
    BY <2>1, <2>2
<1>8. \A d \in Calls : call'[d].phase # "idle" => SettledOK(call[d], jwksCache.entries)'
  BY <1>1, <1>7, StaysSettled DEF F
<1>9. offeredAt' \in [Wants -> Nat \union {Never}] /\ \A w \in Wants : offeredAt'[w] <= now'
  BY <1>1 DEF Settled
<1> QED
  BY <1>8, <1>9 DEF Settled, Wants, Never

\* A rotation dates what it offers anew, and nothing gets an earlier date.
LEMMA RotateSettles ==
    ASSUME IInv, Settled, NEW uri \in URIs, NEW set \in KeySets[uri], Rotate(uri, set)
    PROVE  Settled'
<1> DEFINE anew(w) == /\ w.uri = uri
                      /\ selectJWK(published[uri], w.kid, w.alg) = 0
                      /\ selectJWK(set, w.kid, w.alg) # 0
<1>1. /\ offeredAt' = [w \in Wants |-> IF anew(w) THEN now ELSE offeredAt[w]]
      /\ published' = [published EXCEPT ![uri] = set]
      /\ UNCHANGED <<now, jwksCache>> /\ now \in Nat
  BY DEF Rotate, IInv, HistoryOK
<1>2. ASSUME NEW a \in Assertions
      PROVE  /\ want(a) \in Wants
             /\ anew(want(a)) <=> /\ a.uri = uri /\ ~offered(a, published[uri])
                                  /\ offered(a, set)
  BY DEF Wants, want, offered
<1> HIDE DEF anew
<1>3. \A w \in Wants :
        /\ offeredAt[w] \in Int /\ offeredAt[w] <= now
        /\ offeredAt'[w] = IF anew(w) THEN now ELSE offeredAt[w]
  BY <1>1, Times DEF Settled
<1>4. \A w \in Wants : offeredAt'[w] \in Int /\ offeredAt[w] <= offeredAt'[w]
  BY <1>1, <1>3
<1>5. offeredAt' \in [Wants -> Nat \union {Never}] /\ \A w \in Wants : offeredAt'[w] <= now'
  BY <1>1, <1>3 DEF Settled
<1>6. ASSUME NEW c \in Calls, call'[c].phase # "idle"
      PROVE  SettledOK(call[c], jwksCache.entries)'
  <2> DEFINE y == call[c]
             z == call'[c]
             a == y.assertion
             E == jwksCache.entries
  <2>1. z = y \/ (y.phase \notin {"idle", "done"} /\ z = [y EXCEPT !.missing = TRUE])
    BY DEF Rotate
  <2>2. y.phase # "idle"
    BY <1>6, <2>1
  <2>3. y \in Verifications /\ CallOK(y, DOMAIN E) /\ SettledOK(y, E) /\ a.uri \in URIs
    BY <2>2, Underway DEF Settled
  <2>4. /\ z.phase = y.phase /\ z.assertion = a /\ z.begun = y.begun /\ z.start = y.start
        /\ z.keys = y.keys /\ z.verdict = y.verdict
        /\ z.missing = y.missing \/ z.missing = TRUE
    BY <2>1, <2>3 DEF Verifications
  <2>5. a \in Assertions /\ y.begun \in Nat /\ y.start \in Nat /\ y.keys = y.keys
        /\ (y.phase = "fetched" => y.start <= now)
    BY <2>3 DEF Verifications, CallOK
  <2> HIDE DEF y, z, a
  <2>6. Unsettled(y) => z.missing \/ z.begun <= offeredAt'[want(z.assertion)] + FetchTimeout
    <3>1. want(a) \in Wants
      BY <1>2, <2>5
    <3>2. offeredAt[want(a)] \in Int /\ offeredAt'[want(a)] \in Int
          /\ offeredAt[want(a)] <= offeredAt'[want(a)]
      BY <1>3, <1>4, <3>1
    <3> QED
      BY <2>4, <2>5, <3>2, Times DEF Unsettled, a
  <2>7. ASSUME y.phase = "fetched", NEW b \in Assertions, b.uri = a.uri,
               offered(b, published'[a.uri]), ~offered(b, y.keys)
        PROVE  offeredAt'[want(b)] >= y.start
    <3>1. CASE offered(b, published[a.uri])
      <4>1. offeredAt[want(b)] >= y.start
        BY <2>3, <2>7, <3>1 DEF SettledOK, a
      <4> QED
        BY <1>2, <1>3, <1>4, <2>5, <4>1
    <3>2. CASE ~offered(b, published[a.uri])
      <4>1. a.uri = uri /\ published'[uri] = set
        BY <1>1, <2>3, <2>7, <3>2 DEF IInv, HistoryOK
      <4>2. anew(want(b)) /\ want(b) \in Wants
        BY <1>2, <2>7, <3>2, <4>1
      <4> QED
        BY <1>3, <2>5, <2>7, <4>2
    <3> QED
      BY <3>1, <3>2
  <2>8. /\ y.phase = "retry" =>
             a.uri \notin DOMAIN E \/ offered(a, E[a.uri].keys) \/ Unsettled(y)
        /\ y.phase = "done" /\ y.verdict = "no_key" => Unsettled(y)
    BY <2>3 DEF SettledOK, a
  <2> QED
    BY <1>1, <2>4, <2>6, <2>7, <2>8, OfferedFixed DEF SettledOK, Unsettled, want, z
<1> QED
  BY <1>5, <1>6 DEF Settled, Wants, Never

\* Initially nothing is under way.
LEMMA InitSettled == Init => Settled
  BY Times DEF Init, Settled

\* Every step keeps the second invariant.
LEMMA NextSettled == IInv /\ Settled /\ [Next]_vars => Settled'
<1> SUFFICES ASSUME IInv, Settled, [Next]_vars PROVE Settled'
  OBVIOUS
<1>1. ASSUME NEW c \in Calls, NEW a \in Assertions, Verify(c, a) PROVE Settled'
  BY <1>1, VerifySettles
<1>2. ASSUME NEW c \in Calls, Step(c) PROVE Settled'
  BY <1>2, InvalidateSettles, RefetchSettles, ServerAnswersSettles, StoreSettles,
     FetchFailsSettles DEF Step
<1>3. ASSUME NEW uri \in URIs, NEW set \in KeySets[uri], Rotate(uri, set) PROVE Settled'
  BY <1>3, RotateSettles
<1>4. ASSUME UNCHANGED <<call, jwksCache, published, offeredAt>>, now' \in Int, now <= now'
      PROVE  Settled'
  <2>1. \A w \in Wants : offeredAt'[w] <= now'
    BY <1>4, Times DEF Settled, IInv, HistoryOK
  <2> QED
    BY <1>4, <2>1, StaysSettled DEF Settled, Wants, Never
<1>5. CASE Tick \/ UNCHANGED vars
  BY <1>4, <1>5 DEF Tick, vars, IInv, HistoryOK
<1> QED
  BY <1>1, <1>2, <1>3, <1>5 DEF Next

\* Settled holds in every state.
THEOREM SettledInductive == Spec => []Settled
  BY Inductive, InitSettled, NextSettled, PTL DEF Spec

-----------------------------------------------------------------------------
\* The map and the FIFO order of the key cache stay together though gets, puts
\* and invalidations of concurrent requests take entries out of the middle
\* (cimdJWKSCache.get, put, invalidate).
THEOREM TypeCorrect == Spec => []TypeOK
<1>1. IInv /\ Settled => TypeOK
  BY DEF IInv, HistoryOK, CacheOK, EntryOK, CallsOK, CallOK, Settled, TypeOK
<1> QED
  BY <1>1, Inductive, SettledInductive, PTL

\* No client is authenticated with a key that it withdrew more than a fetch and
\* a time to live before the request came in, whatever other requests fetch,
\* store and invalidate meanwhile (verifyClientAssertion, fetchJWKS).
THEOREM AcceptedKeyFreshHolds == Spec => []AcceptedKeyFresh
<1>1. IInv => AcceptedKeyFresh
  <2> SUFFICES ASSUME IInv, NEW c \in Calls,
                      call[c].phase = "done", call[c].verdict = "accepted"
               PROVE  LET a == call[c].assertion
                      IN  \/ a.key \in keysOf(published[a.uri])
                          \/ call[c].begun <= withdrawn[a.uri][a.key] + FetchTimeout + MaxTTL
    BY DEF AcceptedKeyFresh
  <2> DEFINE a == call[c].assertion
  <2>1. VerdictOK(call[c]) /\ a.uri \in URIs
    BY Underway DEF CallOK
  <2>2. a.key \in AllKeys /\ KeySince(a.uri, a.key, call[c].begun, FetchTimeout + MaxTTL)
    BY <2>1 DEF VerdictOK
  <2>3. withdrawn[a.uri][a.key] \in Int
    BY <2>1, <2>2, Times DEF IInv, HistoryOK
  <2> QED
    BY <2>2, <2>3, Times DEF KeySince
<1> QED
  BY <1>1, Inductive, PTL

\* A client that publishes a key for its assertion throughout is not turned
\* away for want of one, unless another verification stored an older key set
\* between the invalidation and the second lookup (verifyClientAssertion).
THEOREM RetryCoversRotationAloneHolds == Spec => []RetryCoversRotationAlone
<1>1. IInv => RetryCoversRotationAlone
  BY DEF IInv, CallsOK, CallOK, VerdictOK, RetryCoversRotationAlone
<1> QED
  BY <1>1, Inductive, PTL

\* And that race is over once a fetch that began before the key was published
\* has ended: an assertion whose key was published longer than a fetch may take
\* before its verification began, and stays so, is never turned away for want
\* of it (verifyClientAssertion, fetchJWKS).
THEOREM SettledKeyFoundHolds == Spec => []SettledKeyFound
<1>1. Settled => SettledKeyFound
  BY DEF Settled, SettledOK, Unsettled, SettledKeyFound
<1> QED
  BY <1>1, SettledInductive, PTL

\* However long the key sets take to arrive, an assertion is accepted only
\* between its iat and exp, with the skew, and within MaxLifetime of its iat:
\* the claims are compared with the clock as it is after the fetches
\* (verifyClientAssertion).
THEOREM AcceptedWithinLifetimeHolds == Spec => []AcceptedWithinLifetime
<1>1. IInv => AcceptedWithinLifetime
  <2> SUFFICES ASSUME IInv, NEW c \in Calls,
                      call[c].phase = "done", call[c].verdict = "accepted",
                      call[c].assertion.iat # NoTime, call[c].assertion.exp # NoTime
               PROVE  /\ call[c].at >= call[c].assertion.iat - ClockSkew
                      /\ call[c].at <= call[c].assertion.exp + ClockSkew
                      /\ call[c].at <= call[c].assertion.iat + MaxLifetime + ClockSkew
    BY DEF AcceptedWithinLifetime
  <2> DEFINE a == call[c].assertion
             at == call[c].at
  <2>1. VerdictOK(call[c]) /\ call[c] \in Verifications
    BY Underway DEF CallOK
  <2>2. claimsVerdict(a, at) = "accepted"
    BY <2>1 DEF VerdictOK
  <2>3. timeClaimsValid(a, at) /\ lifetimeValid(a)
    BY <2>2 DEF claimsVerdict
  <2>4. at \in Nat /\ a.iat \in Nat /\ a.exp \in Nat
    BY <2>1, ClientAssertionAssumption DEF Verifications
  <2> QED
    BY <2>3, <2>4, Times DEF timeClaimsValid, lifetimeValid
<1> QED
  BY <1>1, Inductive, PTL
-----------------------------------------------------------------------------
(* How far a verification can still go.                                    *)

\* The steps before its verdict: a fetch and its answer, a missing key, the
\* invalidation, and the same once more.
stepsLeft(x) ==
    IF x.phase \in {"idle", "done"} THEN 0
    ELSE IF x.phase = "miss" THEN 4
    ELSE IF x.phase = "retry" THEN 3
    ELSE (IF x.phase = "fetching" THEN 2 ELSE 1) + (IF x.attempt = 1 THEN 4 ELSE 0)

Active(c) == call[c].phase \notin {"idle", "done"}

\* A verification that goes on has one step less to go, and nobody else's step,
\* no rotation, no eviction and no time that passes gives it more.
GoesOn ==
    \A c \in Calls :
        /\ Step(c) => stepsLeft(call[c])' < stepsLeft(call[c])
        /\ Active(c) => stepsLeft(call[c])' <= stepsLeft(call[c])

\* The retry counts as the second attempt.
SecondAttempt == \A c \in Calls : call[c].phase = "retry" => call[c].attempt = 2

\* Only a first attempt misses (judge).
LEMMA JudgeLeaves ==
    ASSUME NEW k \in Draft, NEW keys
    PROVE  judge(k, keys).phase = "done" \/ (judge(k, keys).phase = "miss" /\ k.attempt = 1)
<1>1. \A verdict : conclude(k, verdict).phase = "done"
  BY DEF conclude, Draft
<1>2. [k EXCEPT !.phase = "miss", !.start = 0, !.keys = <<>>, !.ttl = 0].phase = "miss"
  BY DEF Draft
<1> QED
  BY <1>1, <1>2 DEF judge

\* Where fetchJWKS leaves a verification.
LEMMA LookupLeaves ==
    ASSUME NEW k \in Draft
    PROVE  \/ lookup(k).phase = "done"
           \/ lookup(k).phase = "miss" /\ k.attempt = 1
           \/ lookup(k).phase = "fetching" /\ lookup(k).attempt = k.attempt
<1>1. CASE jwksHit(jwksCache, k.assertion.uri)
  BY <1>1, JudgeLeaves DEF lookup
<1>2. CASE ~jwksHit(jwksCache, k.assertion.uri)
  BY <1>2 DEF lookup, Draft
<1> QED
  BY <1>1, <1>2

\* What a verification's step makes of it.
LEMMA StepLeaves ==
    ASSUME IInv, SecondAttempt, NEW c \in Calls, Step(c)
    PROVE  /\ stepsLeft(call'[c]) < stepsLeft(call[c])
           /\ call'[c].phase = "retry" => call'[c].attempt = 2
<1>1. DOMAIN call = Calls
  BY DEF IInv, CallsOK
<1>2. call[c].phase # "idle"
  BY DEF Step, Invalidate, Refetch, ServerAnswers, Store, FetchFails
<1>3. call[c] \in Draft
  BY <1>2, Underway
<1>4. CASE Invalidate(c)
  <2>1. call'[c] = [call[c] EXCEPT !.phase = "retry", !.attempt = 2] /\ call[c].phase = "miss"
    BY <1>1, <1>4 DEF Invalidate
  <2> QED
    BY <1>3, <2>1 DEF stepsLeft, Draft
<1>5. CASE Refetch(c)
  <2>1. call'[c] = lookup(call[c]) /\ call[c].phase = "retry" /\ call[c].attempt = 2
    BY <1>1, <1>5 DEF Refetch, SecondAttempt
  <2> QED
    BY <1>3, <2>1, LookupLeaves DEF stepsLeft
<1>6. CASE ServerAnswers(c)
  <2>1. PICK ttl \in TTLs :
          call'[c] = [call[c] EXCEPT !.phase = "fetched", !.ttl = ttl,
                                     !.keys = published[call[c].assertion.uri]]
    BY <1>1, <1>6 DEF ServerAnswers
  <2>2. call[c].phase = "fetching"
    BY <1>6 DEF ServerAnswers
  <2> QED
    BY <1>3, <2>1, <2>2 DEF stepsLeft, Draft
<1>7. CASE Store(c)
  <2>1. call'[c] = judge(call[c], call[c].keys) /\ call[c].phase = "fetched"
    BY <1>7 DEF Store
  <2> QED
    BY <1>3, <2>1, JudgeLeaves DEF stepsLeft
<1>8. CASE FetchFails(c)
  <2>1. call'[c] = conclude(call[c], "unavailable") /\ call[c].phase \in {"fetching", "fetched"}
    BY <1>1, <1>8 DEF FetchFails
  <2>2. call'[c].phase = "done"
    BY <1>3, <2>1 DEF conclude, Draft
  <2> QED
    BY <1>3, <2>1, <2>2 DEF stepsLeft
<1> QED
  BY <1>4, <1>5, <1>6, <1>7, <1>8 DEF Step

\* What every other step leaves of a verification that is under way.
LEMMA OthersLeave ==
    ASSUME IInv, NEW c \in Calls, [Next]_vars, ~Step(c)
    PROVE  /\ Active(c) => /\ call'[c].phase = call[c].phase
                           /\ call'[c].attempt = call[c].attempt
           /\ call'[c].phase = "retry" => call[c].phase = "retry"
<1>1. DOMAIN call = Calls
  BY DEF IInv, CallsOK
<1>2. ASSUME NEW d \in Calls, NEW a \in Assertions, Verify(d, a)
      PROVE  /\ Active(c) => call'[c] = call[c]
             /\ call'[c].phase = "retry" => call[c].phase = "retry"
  <2>1. CASE d # c
    BY <1>1, <1>2, <2>1 DEF Verify
  <2>2. CASE d = c
    <3> DEFINE k == [phase |-> "begin", assertion |-> a, attempt |-> 1, start |-> 0,
                     keys |-> <<>>, ttl |-> 0, verdict |-> "none", begun |-> now, at |-> 0,
                     missing |-> ~offered(a, published[a.uri]), overtaken |-> FALSE]
    <3>1. call'[c] = lookup(k) /\ ~Active(c)
      BY <1>1, <1>2, <2>2 DEF Verify, Active
    <3>2. k \in Draft
      BY DEF IInv, HistoryOK, Draft
    <3> HIDE DEF k
    <3> QED
      BY <3>1, <3>2, LookupLeaves
  <2> QED
    BY <2>1, <2>2
<1>3. ASSUME NEW d \in Calls, Step(d), d # c
      PROVE  /\ call'[c].phase = call[c].phase
             /\ Active(c) => call'[c].attempt = call[c].attempt
  <2>1. CASE Store(d)
    <3>1. call'[c] = overtake(d, c, call[d].assertion.uri)
      BY <1>3, <2>1 DEF Store
    <3>2. CASE call[c].phase = "retry"
      BY <3>1, <3>2, Underway DEF overtake, Draft
    <3>3. CASE call[c].phase # "retry"
      BY <3>1, <3>3 DEF overtake
    <3> QED
      BY <3>2, <3>3
  <2>2. CASE Invalidate(d) \/ Refetch(d) \/ ServerAnswers(d) \/ FetchFails(d)
    BY <1>1, <1>3, <2>2 DEF Invalidate, Refetch, ServerAnswers, FetchFails
  <2> QED
    BY <1>3, <2>1, <2>2 DEF Step
<1>4. ASSUME NEW uri \in URIs, NEW set \in KeySets[uri], Rotate(uri, set)
      PROVE  /\ call'[c].phase = call[c].phase
             /\ Active(c) => call'[c].attempt = call[c].attempt
  <2>1. CASE call'[c] = call[c]
    BY <2>1
  <2>2. CASE call'[c] # call[c]
    <3>1. call[c].phase # "idle" /\ call'[c] = [call[c] EXCEPT !.missing = TRUE]
      BY <1>4, <2>2 DEF Rotate
    <3> QED
      BY <3>1, Underway DEF Draft
  <2> QED
    BY <2>1, <2>2
<1>5. CASE Tick \/ UNCHANGED vars
  BY <1>5 DEF Tick, vars
<1> QED
  BY <1>2, <1>3, <1>4, <1>5 DEF Next

\* Every step, from where the retries are the second attempt.
LEMMA EveryStepGoesOn ==
    ASSUME IInv, SecondAttempt, [Next]_vars
    PROVE  SecondAttempt' /\ GoesOn
<1>1. ASSUME NEW c \in Calls
      PROVE  /\ (call[c].phase = "retry" => call[c].attempt = 2)'
             /\ Step(c) => (stepsLeft(call[c]))' < stepsLeft(call[c])
             /\ Active(c) => (stepsLeft(call[c]))' <= stepsLeft(call[c])
  <2>1. /\ stepsLeft(call[c]) \in Nat
        /\ (stepsLeft(call[c]))' = stepsLeft(call'[c])
        /\ stepsLeft(call'[c]) \in Nat
    BY DEF stepsLeft
  <2>2. CASE Step(c)
    BY <2>1, <2>2, StepLeaves
  <2>3. CASE ~Step(c)
    BY <2>1, <2>3, OthersLeave DEF stepsLeft, SecondAttempt, Active
  <2> QED
    BY <2>2, <2>3
<1> QED
  BY <1>1 DEF SecondAttempt, GoesOn

\* The work of a verification is bounded, whatever the cache, the clients and
\* the others do meanwhile: at most two lookups, at most six steps to a verdict,
\* and each of its steps is one less (verifyClientAssertion).  With the fairness
\* of Spec this is why a verification ends.
THEOREM VerificationsGoOn == Spec => []SecondAttempt /\ [][GoesOn]_vars
<1>1. Init => SecondAttempt
  BY DEF Init, SecondAttempt
<1>2. IInv /\ SecondAttempt /\ [Next]_vars => SecondAttempt' /\ GoesOn
  BY EveryStepGoesOn
<1> QED
  BY <1>1, <1>2, Inductive, PTL DEF Spec
=============================================================================
