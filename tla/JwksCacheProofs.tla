-------------------------- MODULE JwksCacheProofs --------------------------
(***************************************************************************)
(* The safety properties of JwksCache for every set of keys and calls,     *)
(* every time to live and timeout, any number of rotations and any clock,  *)
(* and a bound on the steps of a validation.                               *)
(***************************************************************************)
EXTENDS JwksCache, TLAPS

\* A validation in whatever phase, as judge and fetchJWKS take it.
Draft ==
    [phase : {"begin", "miss", "retry", "fetching", "fetched", "done"},
     key : Kids, hasKid : BOOLEAN, attempt : {1, 2}, start : Nat, keys : SUBSET Kids,
     verdict : {"none", "accepted", "bad_signature", "no_key", "unavailable"},
     begun : Nat, missing : BOOLEAN, overtaken : BOOLEAN]

\* The validation l is k, further on: the same token in the same call.
SameCall(k, l) ==
    /\ l.key = k.key
    /\ l.begun = k.begun
    /\ l.missing = k.missing
    /\ l.overtaken = k.overtaken

\* A validation under way is a Draft.
LEMMA ValidationIsDraft ==
    ASSUME TypeOK, NEW c \in Calls, check[c].phase # "idle"
    PROVE  check[c] \in Draft /\ check[c] \in Validations
<1>1. check[c] \in Validations \union {[phase |-> "idle"]}
  BY DEF TypeOK
<1>2. check[c] # [phase |-> "idle"]
  OBVIOUS
<1>3. check[c] \in Validations
  BY <1>1, <1>2
<1>4. QED
  BY <1>3 DEF Validations, Draft

\* What conclude leaves of a validation.
LEMMA ConcludeFacts ==
    ASSUME NEW k \in Draft,
           NEW verdict \in {"accepted", "bad_signature", "no_key", "unavailable"}
    PROVE  /\ conclude(k, verdict) \in Validations
           /\ SameCall(k, conclude(k, verdict))
           /\ conclude(k, verdict).phase = "done"
           /\ conclude(k, verdict).verdict = verdict
  BY DEF Draft, Validations, conclude, SameCall

\* The verdict of judge: "accepted" for a key that is there, "no_key" at the
\* second attempt for one that is not.
LEMMA JudgeFacts ==
    ASSUME NEW k \in Draft, NEW keys \in SUBSET Kids
    PROVE  /\ judge(k, keys) \in Validations
           /\ SameCall(k, judge(k, keys))
           /\ judge(k, keys).phase \in {"done", "miss"}
           /\ judge(k, keys).phase = "done" =>
                /\ judge(k, keys).verdict = "accepted" => k.key \in keys
                /\ judge(k, keys).verdict = "no_key" => k.attempt = 2 /\ k.key \notin keys
<1>1. CASE k.key \in keys
  BY <1>1, ConcludeFacts DEF judge
<1>2. CASE k.key \notin keys /\ ~k.hasKid
  BY <1>2, ConcludeFacts DEF judge
<1>3. CASE k.key \notin keys /\ k.hasKid /\ k.attempt = 1
  BY <1>3 DEF judge, Draft, Validations, SameCall
<1>4. CASE k.key \notin keys /\ k.hasKid /\ k.attempt = 2
  BY <1>4, ConcludeFacts DEF judge
<1>5. QED
  BY <1>1, <1>2, <1>3, <1>4 DEF Draft

\* fetchJWKS asks the cache, or goes to the IdP.
LEMMA FetchFacts ==
    ASSUME NEW k \in Draft, TypeOK
    PROVE  /\ fetchJWKS(k) \in Validations
           /\ SameCall(k, fetchJWKS(k))
           /\ fetchJWKS(k).phase \in {"done", "miss", "fetching"}
           /\ fetchJWKS(k).phase = "fetching" => fetchJWKS(k).start = now
           /\ fetchJWKS(k).phase = "done" =>
                /\ usable
                /\ fetchJWKS(k).verdict = "accepted" => k.key \in jwks
                /\ fetchJWKS(k).verdict = "no_key" => k.attempt = 2 /\ k.key \notin jwks
<1>1. CASE usable
  BY <1>1, JudgeFacts DEF fetchJWKS, TypeOK
<1>2. CASE ~usable
  BY <1>2 DEF fetchJWKS, TypeOK, Draft, Validations, SameCall
<1>3. QED
  BY <1>1, <1>2

\* A key that the cache yields was published late enough for any call that
\* has begun.
LEMMA CachedKeyFresh ==
    ASSUME IInv, usable, NEW k \in jwks, NEW begun \in Nat, begun <= now
    PROVE  k \in idpKeys \/ withdrawn[k] > begun - CacheTTL
  BY JwksAssumption
     DEF IInv, TypeOK, Dated, KeysFresh, PublishedSince, usable, ZeroTime

\* An invalidated cache does not answer.
LEMMA ZeroTimeUnusable ==
    ASSUME TypeOK, usable
    PROVE  jwksTime # ZeroTime
  BY JwksAssumption DEF TypeOK, usable, ZeroTime
-----------------------------------------------------------------------------
\* The IdP has not published the key all along and since long before the call.
Unsettled(x) == x.missing \/ x.begun <= publishedAt[x.key] + FetchTimeout

\* The invariant of one validation.
CallOK(x) ==
    /\ x \in Validations
    /\ x.begun <= now
    /\ x.phase \in {"fetching", "fetched"} =>
          x.begun <= x.start /\ x.start <= now /\ now <= x.start + FetchTimeout
    /\ x.phase = "fetched" => PublishedSince(x.keys, x.start)
    /\ x.phase # "done" /\ x.key \notin idpKeys => x.missing
    /\ x.phase = "fetched" /\ x.key \notin x.keys => x.missing
    /\ x.phase = "fetched" => \A k \in idpKeys \ x.keys : publishedAt[k] >= x.start
    /\ x.phase = "retry" =>
          /\ jwksTime = ZeroTime \/ x.overtaken
          /\ jwksTime = ZeroTime \/ x.key \in jwks \/ Unsettled(x)
    /\ x.phase = "done" /\ x.verdict = "accepted" =>
          x.key \in idpKeys \/ withdrawn[x.key] > x.begun - CacheTTL
    /\ x.phase = "done" /\ x.verdict = "no_key" =>
          (x.missing \/ x.overtaken) /\ Unsettled(x)

\* The invariant of the cache.
CacheOK ==
    /\ now \in Nat
    /\ jwks \in SUBSET Kids
    /\ jwksTime \in Nat \union {ZeroTime}
    /\ idpKeys \in SUBSET Kids
    /\ rotations \in Nat
    /\ withdrawn \in [Kids -> Nat \union {ZeroTime}]
    /\ publishedAt \in [Kids -> Nat \union {ZeroTime}]
    /\ jwksTime <= now
    /\ \A k \in Kids : withdrawn[k] <= now
    /\ PublishedSince(jwks, jwksTime)

CallsOK ==
    /\ check = [c \in Calls |-> check[c]]
    /\ \A c \in Calls : check[c] = [phase |-> "idle"] \/ CallOK(check[c])

\* IInv, call by call.
LEMMA ByCall == IInv <=> CacheOK /\ CallsOK
<1>1. IInv => CacheOK /\ CallsOK
  BY ValidationIsDraft DEF IInv, TypeOK, Dated, KeysFresh, MissNoticed, Invalidated, AcceptedKeyFresh,
         RetryCoversRotationAlone, LaterPublished, SettledKeyCached, SettledKeyFound,
         Unsettled, Active, CallOK, CacheOK, CallsOK, Validations
<1>2. CacheOK /\ CallsOK => IInv
  BY DEF IInv, TypeOK, Dated, KeysFresh, MissNoticed, Invalidated, AcceptedKeyFresh,
         RetryCoversRotationAlone, LaterPublished, SettledKeyCached, SettledKeyFound,
         Unsettled, Active, CallOK, CacheOK, CallsOK, Validations
<1>3. QED
  BY <1>1, <1>2

-----------------------------------------------------------------------------
\* A step that changes one validation, and nothing that the others depend on.
LEMMA OneCallMoves ==
    ASSUME CacheOK, CallsOK, NEW c \in Calls, NEW x,
           check' = [check EXCEPT ![c] = x],
           UNCHANGED <<now, jwks, jwksTime, idpKeys, withdrawn, publishedAt, rotations>>,
           CallOK(x)
    PROVE  IInv'
<1>1. CacheOK'
  BY DEF CacheOK, PublishedSince, ZeroTime
<1>2. CallsOK'
  BY DEF CallsOK, CallOK, Unsettled, PublishedSince, ZeroTime, Validations
<1>3. QED
  BY <1>1, <1>2, ByCall, PTL

\* fetchJWKS keeps the invariant, for a call that has noticed what is missing
\* and has invalidated the cache before it comes to its second attempt.
LEMMA FetchJWKSKeeps ==
    ASSUME CacheOK, CallsOK, NEW k \in Draft,
           k.begun <= now,
           k.key \notin idpKeys => k.missing,
           k.attempt = 2 =>
             /\ jwksTime = ZeroTime \/ k.overtaken
             /\ jwksTime = ZeroTime \/ k.key \in jwks \/ Unsettled(k)
    PROVE  CallOK(fetchJWKS(k))
<1> DEFINE x == fetchJWKS(k)
<1>1. IInv /\ TypeOK
  BY ByCall DEF IInv
<1>2. /\ x \in Validations
      /\ SameCall(k, x)
      /\ x.phase \in {"done", "miss", "fetching"}
      /\ x.phase = "fetching" => x.start = now
      /\ x.phase = "done" =>
           /\ usable
           /\ x.verdict = "accepted" => k.key \in jwks
           /\ x.verdict = "no_key" => k.attempt = 2 /\ k.key \notin jwks
  BY <1>1, FetchFacts
<1>3. now \in Nat /\ k.begun \in Nat /\ k.overtaken \in BOOLEAN /\ k.missing \in BOOLEAN
  BY DEF CacheOK, Draft
<1>4. x.phase = "done" /\ x.verdict = "accepted" =>
        x.key \in idpKeys \/ withdrawn[x.key] > x.begun - CacheTTL
  BY <1>1, <1>2, <1>3, CachedKeyFresh DEF SameCall
<1>5. x.phase = "done" /\ x.verdict = "no_key" => (x.missing \/ x.overtaken) /\ Unsettled(x)
  BY <1>1, <1>2, ZeroTimeUnusable DEF SameCall, Unsettled
<1> HIDE DEF x
<1>6. QED
  BY <1>2, <1>3, <1>4, <1>5, JwksAssumption DEF CallOK, SameCall, x

\* The start of a validation keeps the invariant: its first lookup is a fetch or
\* a fresh enough key.
LEMMA BeginKeeps ==
    ASSUME IInv, NEW c \in Calls, NEW key \in Kids, NEW hasKid \in BOOLEAN,
           Begin(c, key, hasKid)
    PROVE  IInv'
<1> DEFINE k == [phase |-> "begin", key |-> key, hasKid |-> hasKid, attempt |-> 1,
                 start |-> 0, keys |-> {}, verdict |-> "none",
                 begun |-> now, missing |-> key \notin idpKeys, overtaken |-> FALSE]
<1>1. CacheOK /\ CallsOK
  BY ByCall
<1>2. k \in Draft
  BY <1>1 DEF CacheOK, Draft
<1>3. k.begun <= now /\ k.attempt = 1
  BY <1>1 DEF CacheOK
<1>4. k.key \notin idpKeys => k.missing
  BY Zenon
<1>5. check' = [check EXCEPT ![c] = fetchJWKS(k)]
  BY DEF Begin
<1> HIDE DEF k
<1>6. CallOK(fetchJWKS(k))
  BY <1>1, <1>2, <1>3, <1>4, FetchJWKSKeeps
<1>7. QED
  BY <1>1, <1>5, <1>6, OneCallMoves DEF Begin

\* So does the second lookup: an invalidated cache does not answer it.
LEMMA RefetchKeeps ==
    ASSUME IInv, NEW c \in Calls, Refetch(c)
    PROVE  IInv'
<1>1. CacheOK /\ CallsOK
  BY ByCall
<1>2. check[c] \in Draft /\ check[c].phase = "retry"
  BY ValidationIsDraft DEF IInv, Refetch
<1>3. /\ check[c].begun <= now
      /\ check[c].key \notin idpKeys => check[c].missing
      /\ jwksTime = ZeroTime \/ check[c].overtaken
      /\ jwksTime = ZeroTime \/ check[c].key \in jwks \/ Unsettled(check[c])
  BY <1>2 DEF IInv, Dated, MissNoticed, Active, Invalidated, SettledKeyCached, Unsettled
<1>4. CallOK(fetchJWKS(check[c]))
  BY <1>1, <1>2, <1>3, FetchJWKSKeeps
<1>5. QED
  BY <1>1, <1>4, OneCallMoves DEF Refetch

\* The answer of the IdP is what it publishes now.
LEMMA ServerAnswersKeeps ==
    ASSUME IInv, NEW c \in Calls, ServerAnswers(c)
    PROVE  IInv'
<1> DEFINE x == [check[c] EXCEPT !.phase = "fetched", !.keys = idpKeys]
<1>1. CacheOK /\ CallsOK
  BY ByCall
<1>2. check[c] \in Validations /\ CallOK(check[c]) /\ check[c].phase = "fetching"
  BY <1>1, ValidationIsDraft DEF IInv, ServerAnswers, CallsOK
<1>3. CallOK(x)
  BY <1>1, <1>2 DEF CacheOK, CallOK, Unsettled, Validations, PublishedSince
<1>4. check' = [check EXCEPT ![c] = x]
  BY DEF ServerAnswers
<1>5. QED
  BY <1>1, <1>3, <1>4, OneCallMoves DEF ServerAnswers

\* A fetch that fails leaves the cache alone.
LEMMA FetchFailsKeeps ==
    ASSUME IInv, NEW c \in Calls, FetchFails(c)
    PROVE  IInv'
<1>1. CacheOK /\ CallsOK
  BY ByCall
<1>2. check[c] \in Draft /\ CallOK(check[c])
  BY <1>1, ValidationIsDraft DEF IInv, FetchFails, CallsOK
<1>3. CallOK(conclude(check[c], "unavailable"))
  BY <1>2, ConcludeFacts DEF CallOK, Unsettled, SameCall
<1>4. QED
  BY <1>1, <1>3, OneCallMoves DEF FetchFails


\* The invalidation makes the cache older, never newer.
LEMMA InvalidateKeeps ==
    ASSUME IInv, NEW c \in Calls, Invalidate(c)
    PROVE  IInv'
<1> DEFINE x == [check[c] EXCEPT !.phase = "retry", !.attempt = 2]
<1>1. CacheOK /\ CallsOK
  BY ByCall
<1>2. check[c] \in Validations /\ CallOK(check[c]) /\ check[c].phase = "miss"
  BY <1>1, ValidationIsDraft DEF IInv, Invalidate, CallsOK
<1>3. check' = [check EXCEPT ![c] = x]
  BY DEF Invalidate
<1>4. CallOK(check[c])'
  <2>1. check'[c] = x
    BY <1>1, <1>3 DEF CallsOK
  <2>2. x \in Validations /\ SameCall(check[c], x) /\ x.phase = "retry"
    BY <1>2 DEF Validations, SameCall
  <2> HIDE DEF x
  <2>3. QED
    BY <1>2, <2>1, <2>2 DEF CallOK, Unsettled, SameCall, Invalidate
<1>5. CacheOK'
  BY <1>1, JwksAssumption DEF CacheOK, Invalidate, PublishedSince, ZeroTime
<1>6. CallsOK'
  BY <1>1, <1>3, <1>4 DEF CallsOK, CallOK, Unsettled, PublishedSince, Invalidate, Validations
<1>7. QED
  BY <1>5, <1>6, ByCall, PTL

\* The answer is stored with the time its fetch began, and the calls it
\* overtakes are marked.
LEMMA StoreKeeps ==
    ASSUME IInv, NEW c \in Calls, Store(c)
    PROVE  IInv'
<1> DEFINE x == judge(check[c], check[c].keys)
<1>1. CacheOK /\ CallsOK
  BY ByCall
<1>2. check[c] \in Draft /\ CallOK(check[c]) /\ check[c].phase = "fetched"
  BY <1>1, ValidationIsDraft DEF IInv, Store, CallsOK
<1>3. check[c].keys \in SUBSET Kids /\ check[c].start \in Nat /\ check[c].key \in Kids
      /\ check[c].begun \in Nat
  BY <1>2 DEF Draft
<1>4. /\ x \in Validations
      /\ SameCall(check[c], x)
      /\ x.phase \in {"done", "miss"}
      /\ x.phase = "done" =>
           /\ x.verdict = "accepted" => check[c].key \in check[c].keys
           /\ x.verdict = "no_key" => check[c].attempt = 2 /\ check[c].key \notin check[c].keys
  BY <1>2, <1>3, JudgeFacts
<1>5. CacheOK'
  BY <1>1, <1>2, <1>3 DEF CacheOK, CallOK, Unsettled, Store, PublishedSince
<1> HIDE DEF x
<1>6. x.phase = "done" /\ x.verdict = "accepted" =>
        x.key \in idpKeys \/ withdrawn[x.key] > x.begun - CacheTTL
  BY <1>1, <1>2, <1>3, <1>4, JwksAssumption
     DEF CacheOK, CallOK, Unsettled, SameCall, PublishedSince, ZeroTime
<1>7. CallOK(check[c])'
  <2>1. check'[c] = x
    BY DEF Store, x
  <2>2. QED
    BY <1>1, <1>2, <1>4, <1>6, <2>1 DEF CacheOK, CallOK, Unsettled, SameCall, Store, PublishedSince
<1>8. ASSUME NEW d \in Calls, d # c
      PROVE  (check[d] = [phase |-> "idle"] \/ CallOK(check[d]))'
  <2>1. check'[d] = overtake(c, d)
    BY <1>8 DEF Store
  <2>2. check[d] = [phase |-> "idle"] \/ CallOK(check[d])
    BY <1>1 DEF CallsOK
  <2>3. CASE check[d].phase # "retry"
    BY <1>8, <2>1, <2>2, <2>3 DEF overtake, CallOK, Unsettled, Store, PublishedSince
  <2>4. CASE check[d].phase = "retry"
    <3> DEFINE y == check[d]
               z == [y EXCEPT !.overtaken = TRUE]
    <3>1. CallOK(y) /\ y \in Validations /\ y.phase = "retry"
      BY <2>2, <2>4 DEF CallOK
    <3>2. check'[d] = z
      BY <1>8, <2>1, <2>4 DEF overtake
    <3>3. /\ z \in Validations /\ z.phase = "retry" /\ z.overtaken
          /\ z.key = y.key /\ z.begun = y.begun /\ z.missing = y.missing
      BY <2>4, <3>1 DEF Validations, y
    <3>4. y.key \notin check[c].keys => Unsettled(y)
      \* The answer was fetched before the key was published, and is not older
      \* than its timeout.
      <4>1. y.key \in Kids /\ y.begun \in Nat /\ y.begun <= now /\ now \in Nat
        BY <1>1, <3>1 DEF CacheOK, CallOK, Validations
      <4>2. publishedAt[y.key] \in Int
        BY <1>1, <4>1, JwksAssumption DEF CacheOK, ZeroTime
      <4>3. CASE y.key \notin idpKeys
        BY <2>4, <3>1, <4>3 DEF CallOK, Unsettled
      <4>4. CASE y.key \in idpKeys \ check[c].keys
        BY <1>2, <1>3, <4>1, <4>2, <4>4, JwksAssumption DEF CallOK, Unsettled
      <4>5. QED
        BY <4>3, <4>4
    <3> HIDE DEF y, z
    <3>5. jwks' = check[c].keys /\ UNCHANGED <<now, idpKeys, withdrawn, publishedAt>>
      BY DEF Store
    <3>6. CallOK(check[d])'
      <4>1. (check[d] \in Validations)'
        BY <3>2, <3>3 DEF Validations
      <4>2. z.key \notin idpKeys => z.missing
        BY <3>1, <3>3 DEF CallOK
      <4>3. QED
        BY <3>2, <3>3, <3>4, <3>5, <4>1, <4>2, <3>1 DEF CallOK, Unsettled
    <3>7. QED
      BY <3>6
  <2>5. QED
    BY <2>3, <2>4
<1>9. CallsOK'
  BY <1>7, <1>8 DEF CallsOK, Store
<1>10. QED
  BY <1>5, <1>9, ByCall, PTL

\* A rotation dates what it withdraws.
LEMMA RotateKeeps ==
    ASSUME IInv, NEW keys \in SUBSET Kids, Rotate(keys)
    PROVE  IInv'
<1>1. CacheOK /\ CallsOK
  BY ByCall
<1>2. CacheOK'
  BY <1>1 DEF CacheOK, Rotate, PublishedSince
<1>3. ASSUME NEW c \in Calls
      PROVE  (check[c] = [phase |-> "idle"] \/ CallOK(check[c]))'
  <2>1. check[c] = [phase |-> "idle"] \/ CallOK(check[c])
    BY <1>1 DEF CallsOK
  <2>2. CASE check[c].phase \in {"idle", "done"} \/ check[c].key \in keys
    <3>1. check'[c] = check[c]
      BY <2>2 DEF Rotate
    <3>2. QED
      BY <1>1, <2>1, <2>2, <3>1, JwksAssumption
         DEF CacheOK, CallOK, Unsettled, Rotate, PublishedSince, Validations, ZeroTime
  <2>3. CASE ~(check[c].phase \in {"idle", "done"} \/ check[c].key \in keys)
    <3>1. check'[c] = [check[c] EXCEPT !.missing = TRUE]
      BY <2>3 DEF Rotate
    <3>2. QED
      BY <1>1, <2>1, <2>3, <3>1, JwksAssumption
         DEF CacheOK, CallOK, Unsettled, Rotate, PublishedSince, Validations, ZeroTime
  <2>4. QED
    BY <2>2, <2>3
<1>4. CallsOK'
  BY <1>3 DEF CallsOK, Rotate
<1>5. QED
  BY <1>2, <1>4, ByCall, PTL

\* Time alone makes nothing fresher.
LEMMA TickKeeps ==
    ASSUME IInv, Tick
    PROVE  IInv'
<1>1. CacheOK /\ CallsOK
  BY ByCall
<1>2. CacheOK'
  BY <1>1, JwksAssumption DEF CacheOK, Tick, PublishedSince, ZeroTime
<1>3. ASSUME NEW c \in Calls
      PROVE  (check[c] = [phase |-> "idle"] \/ CallOK(check[c]))'
  <2>1. check[c] = [phase |-> "idle"] \/ CallOK(check[c])
    BY <1>1 DEF CallsOK
  <2>2. check[c].phase \in {"fetching", "fetched"} => now' <= check[c].start + FetchTimeout
    BY <1>1, <2>1, JwksAssumption DEF CacheOK, CallOK, Tick, Validations
  <2>3. QED
    BY <1>1, <2>1, <2>2 DEF CacheOK, CallOK, Unsettled, Tick, PublishedSince, Validations
<1>4. CallsOK'
  BY <1>1, <1>3 DEF CallsOK, Tick
<1>5. QED
  BY <1>2, <1>4, ByCall, PTL

-----------------------------------------------------------------------------
\* The invariant holds at the start.
LEMMA InitIInv == Init => IInv
<1> SUFFICES ASSUME Init
             PROVE  IInv
  OBVIOUS
<1>1. CacheOK
  BY JwksAssumption DEF Init, CacheOK, PublishedSince, ZeroTime
<1>2. CallsOK
  BY DEF Init, CallsOK
<1>3. QED
  BY <1>1, <1>2, ByCall

\* Every step keeps it.
LEMMA NextIInv == IInv /\ [Next]_vars => IInv'
<1> SUFFICES ASSUME IInv, [Next]_vars
             PROVE  IInv'
  OBVIOUS
<1>1. ASSUME NEW c \in Calls, NEW key \in Kids, NEW hasKid \in BOOLEAN,
             Begin(c, key, hasKid)
      PROVE  IInv'
  BY <1>1, BeginKeeps
<1>2. ASSUME NEW c \in Calls, Step(c)
      PROVE  IInv'
  BY <1>2, InvalidateKeeps, RefetchKeeps, ServerAnswersKeeps, StoreKeeps,
     FetchFailsKeeps DEF Step
<1>3. ASSUME NEW keys \in SUBSET Kids, Rotate(keys)
      PROVE  IInv'
  BY <1>3, RotateKeeps
<1>4. ASSUME Tick
      PROVE  IInv'
  BY <1>4, TickKeeps
<1>5. ASSUME UNCHANGED vars
      PROVE  IInv'
  <2>1. CacheOK /\ CallsOK
    BY ByCall
  <2>2. CacheOK' /\ CallsOK'
    BY <1>5, <2>1 DEF vars, CacheOK, CallsOK, CallOK, Unsettled, PublishedSince
  <2>3. QED
    BY <2>2, ByCall, PTL
<1>6. QED
  BY <1>1, <1>2, <1>3, <1>4, <1>5 DEF Next

\* IInv is an invariant of the key cache: every cached or fetched key set is
\* no older than its date, and an invalidated cache stays invalid until
\* somebody stores an answer (fetchJWKS and the retry of parseAndVerifyJWT).
THEOREM Inductive == Spec => []IInv
  BY InitIInv, NextIInv, PTL DEF Spec

\* However validations, rotations and slow fetches interleave, a withdrawn key
\* validates nothing that begins CacheTTL or more after its withdrawal
\* (fetchJWKS).
THEOREM AcceptedKeyFreshHolds == Spec => []AcceptedKeyFresh
<1>1. IInv => AcceptedKeyFresh
  BY DEF IInv
<1>2. QED
  BY <1>1, Inductive, PTL

\* A kid that the IdP publishes all along is turned away only in the race
\* with another validation's older answer (parseAndVerifyJWT's retry).
THEOREM RetryCoversRotationAloneHolds == Spec => []RetryCoversRotationAlone
<1>1. IInv => RetryCoversRotationAlone
  BY DEF IInv
<1>2. QED
  BY <1>1, Inductive, PTL

\* And that race is over once a fetch that began before the key was published
\* has ended: whoever stores what meanwhile, a token whose key was published
\* longer than the HTTP client's timeout before its validation began, and
\* stays so, is never turned away for its kid (fetchJWKS, parseAndVerifyJWT).
THEOREM SettledKeyFoundHolds == Spec => []SettledKeyFound
<1>1. IInv => SettledKeyFound
  BY DEF IInv
<1>2. QED
  BY <1>1, Inductive, PTL
-----------------------------------------------------------------------------
(* How far a validation can still go.                                      *)

\* The steps before its verdict: a fetch and its answer, a miss, the
\* invalidation, and the same once more.
stepsLeft(x) ==
    IF x.phase \in {"idle", "done"} THEN 0
    ELSE IF x.phase = "miss" THEN 4
    ELSE IF x.phase = "retry" THEN 3
    ELSE (IF x.phase = "fetching" THEN 2 ELSE 1) + (IF x.attempt = 1 THEN 4 ELSE 0)

\* A validation that goes on has one step less to go, and nobody else's step,
\* no rotation and no time that passes gives it more.
GoesOn ==
    \A c \in Calls :
        /\ Step(c) => stepsLeft(check[c])' < stepsLeft(check[c])
        /\ Active(c) => stepsLeft(check[c])' <= stepsLeft(check[c])

\* The retry counts as the second attempt.
SecondAttempt == \A c \in Calls : check[c].phase = "retry" => check[c].attempt = 2

\* Only a first attempt misses (judge).
LEMMA JudgeLeaves ==
    ASSUME NEW k \in Draft, NEW keys
    PROVE  judge(k, keys).phase = "done" \/ (judge(k, keys).phase = "miss" /\ k.attempt = 1)
BY DEF judge, conclude, Draft

\* Where fetchJWKS leaves a validation.
LEMMA FetchLeaves ==
    ASSUME NEW k \in Draft
    PROVE  \/ fetchJWKS(k).phase = "done"
           \/ fetchJWKS(k).phase = "miss" /\ k.attempt = 1
           \/ fetchJWKS(k).phase = "fetching" /\ fetchJWKS(k).attempt = k.attempt
<1>1. CASE usable
  BY <1>1, JudgeLeaves DEF fetchJWKS
<1>2. CASE ~usable
  BY <1>2 DEF fetchJWKS, Draft
<1>3. QED
  BY <1>1, <1>2

\* What a validation's step makes of it.
LEMMA StepLeaves ==
    ASSUME IInv, SecondAttempt, NEW c \in Calls, Step(c)
    PROVE  /\ stepsLeft(check'[c]) < stepsLeft(check[c])
           /\ check'[c].phase = "retry" => check'[c].attempt = 2
<1>1. check \in [Calls -> Validations \union {[phase |-> "idle"]}] /\ TypeOK
  BY DEF IInv, TypeOK
<1>2. check[c].phase # "idle"
  BY DEF Step, Invalidate, Refetch, ServerAnswers, Store, FetchFails
<1>3. check[c] \in Draft
  BY <1>1, <1>2, ValidationIsDraft
<1>4. CASE Invalidate(c)
  <2>1. check'[c] = [check[c] EXCEPT !.phase = "retry", !.attempt = 2] /\ check[c].phase = "miss"
    BY <1>1, <1>4 DEF Invalidate
  <2>2. QED
    BY <1>3, <2>1 DEF stepsLeft, Draft
<1>5. CASE Refetch(c)
  <2>1. check'[c] = fetchJWKS(check[c]) /\ check[c].phase = "retry" /\ check[c].attempt = 2
    BY <1>1, <1>5 DEF Refetch, SecondAttempt
  <2>2. QED
    BY <1>3, <2>1, FetchLeaves DEF stepsLeft
<1>6. CASE ServerAnswers(c)
  <2>1. check'[c] = [check[c] EXCEPT !.phase = "fetched", !.keys = idpKeys] /\ check[c].phase = "fetching"
    BY <1>1, <1>6 DEF ServerAnswers
  <2>2. QED
    BY <1>3, <2>1 DEF stepsLeft, Draft
<1>7. CASE Store(c)
  <2>1. check'[c] = judge(check[c], check[c].keys) /\ check[c].phase = "fetched"
    BY <1>7 DEF Store
  <2>2. QED
    BY <1>3, <2>1, JudgeLeaves DEF stepsLeft
<1>8. CASE FetchFails(c)
  <2>1. check'[c] = conclude(check[c], "unavailable") /\ check[c].phase \in {"fetching", "fetched"}
    BY <1>1, <1>8 DEF FetchFails
  <2>2. check'[c].phase = "done"
    BY <1>3, <2>1 DEF conclude, Draft
  <2>3. QED
    BY <1>3, <2>1, <2>2 DEF stepsLeft
<1>9. QED
  BY <1>4, <1>5, <1>6, <1>7, <1>8 DEF Step

\* What every other step leaves of a validation that is under way.
LEMMA OthersLeave ==
    ASSUME IInv, NEW c \in Calls, [Next]_vars, ~Step(c)
    PROVE  /\ Active(c) => /\ check'[c].phase = check[c].phase
                           /\ check'[c].attempt = check[c].attempt
           /\ check'[c].phase = "retry" => check[c].phase = "retry"
<1>1. check \in [Calls -> Validations \union {[phase |-> "idle"]}] /\ TypeOK
  BY DEF IInv, TypeOK
<1>2. ASSUME NEW d \in Calls, NEW key \in Kids, NEW hasKid \in BOOLEAN, Begin(d, key, hasKid)
      PROVE  /\ Active(c) => check'[c] = check[c]
             /\ check'[c].phase = "retry" => check[c].phase = "retry"
  <2>1. CASE d # c
    BY <1>1, <1>2, <2>1 DEF Begin
  <2>2. CASE d = c
    <3> DEFINE k == [phase |-> "begin", key |-> key, hasKid |-> hasKid, attempt |-> 1,
                     start |-> 0, keys |-> {}, verdict |-> "none",
                     begun |-> now, missing |-> key \notin idpKeys, overtaken |-> FALSE]
    <3>1. check'[c] = fetchJWKS(k) /\ ~Active(c)
      BY <1>1, <1>2, <2>2 DEF Begin, Active
    <3>2. k \in Draft
      BY <1>1 DEF TypeOK, Draft
    <3> HIDE DEF k
    <3>3. QED
      BY <3>1, <3>2, FetchLeaves
  <2>3. QED
    BY <2>1, <2>2
<1>3. ASSUME NEW d \in Calls, Step(d), d # c
      PROVE  /\ check'[c].phase = check[c].phase
             /\ Active(c) => check'[c].attempt = check[c].attempt
  <2>1. CASE Store(d)
    <3>1. check'[c] = overtake(d, c)
      BY <1>3, <2>1 DEF Store
    <3>2. CASE check[c].phase = "retry"
      BY <1>1, <1>3, <3>1, <3>2, ValidationIsDraft DEF overtake, Draft
    <3>3. QED
      BY <3>1, <3>2 DEF overtake
  <2>2. CASE Invalidate(d) \/ Refetch(d) \/ ServerAnswers(d) \/ FetchFails(d)
    BY <1>1, <1>3, <2>2 DEF Invalidate, Refetch, ServerAnswers, FetchFails
  <2>3. QED
    BY <1>3, <2>1, <2>2 DEF Step
<1>4. ASSUME NEW keys \in SUBSET Kids, Rotate(keys)
      PROVE  /\ check'[c].phase = check[c].phase
             /\ Active(c) => check'[c].attempt = check[c].attempt
  <2>1. CASE check'[c] = check[c]
    BY <2>1
  <2>2. CASE check'[c] # check[c]
    <3>1. check[c].phase # "idle" /\ check'[c] = [check[c] EXCEPT !.missing = TRUE]
      BY <1>4, <2>2 DEF Rotate
    <3>2. QED
      BY <1>1, <3>1, ValidationIsDraft DEF Draft
  <2>3. QED
    BY <2>1, <2>2
<1>5. CASE Tick \/ UNCHANGED vars
  BY <1>5 DEF Tick, vars
<1>6. QED
  BY <1>2, <1>3, <1>4, <1>5 DEF Next

\* Every step, from where the retries are the second attempt.
LEMMA EveryStepGoesOn ==
    ASSUME IInv, SecondAttempt, [Next]_vars
    PROVE  SecondAttempt' /\ GoesOn
<1>1. ASSUME NEW c \in Calls
      PROVE  /\ (check[c].phase = "retry" => check[c].attempt = 2)'
             /\ Step(c) => (stepsLeft(check[c]))' < stepsLeft(check[c])
             /\ Active(c) => (stepsLeft(check[c]))' <= stepsLeft(check[c])
  <2>0. /\ stepsLeft(check[c]) \in Nat
        /\ (stepsLeft(check[c]))' = stepsLeft(check'[c])
        /\ stepsLeft(check'[c]) \in Nat
    BY DEF stepsLeft
  <2>1. CASE Step(c)
    BY <2>0, <2>1, StepLeaves
  <2>2. CASE ~Step(c)
    BY <2>0, <2>2, OthersLeave DEF stepsLeft, SecondAttempt, Active
  <2>3. QED
    BY <2>1, <2>2
<1>2. QED
  BY <1>1 DEF SecondAttempt, GoesOn

\* The work of a validation is bounded, whatever the cache, the IdP and the
\* others do meanwhile: at most two lookups, at most six steps to a verdict,
\* and each of its steps is one less (the loop of parseAndVerifyJWT).  With the
\* fairness of Spec this is why a validation ends.
THEOREM ValidationsGoOn == Spec => []SecondAttempt /\ [][GoesOn]_vars
<1>1. Init => SecondAttempt
  BY DEF Init, SecondAttempt
<1>2. IInv /\ SecondAttempt /\ [Next]_vars => SecondAttempt' /\ GoesOn
  BY EveryStepGoesOn
<1>3. QED
  BY <1>1, <1>2, Inductive, PTL DEF Spec

=============================================================================
