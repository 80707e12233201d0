------------------------ MODULE CimdResolverProofs ------------------------
(***************************************************************************)
(* The resolver's properties for every set of clients, documents and       *)
(* requests, every capacity and every time to live.                        *)
(***************************************************************************)
EXTENDS CimdResolver, CimdCacheProofs

\* How long an answer may be kept.
keptFor(client) == IF client = NoClient THEN NegativeTTL ELSE MaxTTL

\* The answer is what some document of the URL says, published or withdrawn at
\* most `span' before the time.
FromDocument(url, client, time, span) ==
    \E doc \in Documents : client = validated(url, doc) /\ Since(url, doc, time, span)

HistoryOK ==
    /\ now \in Nat
    /\ published \in [URLs -> Published]
    /\ withdrawn \in [URLs -> [Published -> Nat \union {Never}]]
    /\ \A u \in URLs, doc \in Published : withdrawn[u][doc] <= now

\* An entry is gone before it is older than a fetch and its time to live.
EntryOK(key, e) ==
    /\ key \in ClientIDs
    /\ e \in Entries
    /\ e.expiresAt <= now + keptFor(e.client)
    /\ key \notin URLs => e.client = NoClient
    /\ key \in URLs => FromDocument(key, e.client, e.expiresAt, FetchTimeout + keptFor(e.client))

CacheOK ==
    /\ CacheWF(cache)
    /\ \A key \in DOMAIN cache.entries : EntryOK(key, cache.entries[key])

AnswerOK(k) ==
    /\ k.url \in ClientIDs /\ k.at \in Nat /\ k.at <= now
    /\ k.url \notin URLs => k.client = NoClient
    /\ k.url \in URLs /\ k.client # Unreachable =>
        FromDocument(k.url, k.client, k.at, FetchTimeout + keptFor(k.client))

\* A fetch is no older than its context, and its document was published at some
\* time of it.
CallOK(k) ==
    /\ k.phase \in {"idle", "fetching", "fetched", "done"}
    /\ k.phase \in {"fetching", "fetched"} =>
        /\ k.url \in URLs /\ k.start \in Nat
        /\ k.start <= now /\ now <= k.start + FetchTimeout
    /\ k.phase = "fetched" =>
        k.doc \in Documents /\ k.ttl \in TTLs /\ Since(k.url, k.doc, k.start, 0)
    /\ k.phase = "done" => AnswerOK(k)

CallsOK == DOMAIN call = Requests /\ \A r \in Requests : CallOK(call[r])

\* The inductive invariant.
IInv == HistoryOK /\ CacheOK /\ CallsOK
-----------------------------------------------------------------------------
\* The lifetimes are numbers.
LEMMA Times ==
    /\ MaxTTL \in Nat /\ NegativeTTL \in Nat /\ FetchTimeout \in Nat
    /\ Never \in Int /\ Never <= 0
    /\ \A client : keptFor(client) \in Nat
    /\ \A ttl \in TTLs : ttl \in Nat /\ ttl <= MaxTTL
  BY ResolverAssumption DEF Never, keptFor

\* The two kinds of entries.
LEMMA EntryKinds ==
    ASSUME NEW e \in Entries
    PROVE  /\ e.expiresAt \in Nat /\ e.err \in BOOLEAN
           /\ e.err => e.client = NoClient
           /\ ~e.err => e.client \in Clients
  BY Zenon DEF Entries

\* What parseCIMDMetadata accepts is a client, never nil.
LEMMA ValidatedKinds ==
    ASSUME NEW url, NEW doc \in Documents
    PROVE  \/ validated(url, doc) = NoClient
           \/ /\ parseCIMDMetadata(url, doc)
              /\ validated(url, doc) = registeredClient(doc)
              /\ validated(url, doc) \in Clients \ {NoClient, Unreachable}
<1>1. registeredClient(doc) \in Clients \ {NoClient, Unreachable}
  <2>1. registeredClient(doc) \in Clients
    BY DEF Clients
  <2> QED
    BY <2>1, ResolverAssumption
<1> QED
  BY <1>1 DEF validated

\* A withdrawal is recorded when it happens: what held of a document up to now
\* holds after it.
LEMMA SinceKept ==
    ASSUME HistoryOK, NEW url \in URLs, NEW doc \in Published, Publish(url, doc)
    PROVE  /\ HistoryOK'
           /\ \A u \in URLs, d \in Published, time \in Int, span \in Nat :
                Since(u, d, time, span) /\ time <= now + span => Since(u, d, time, span)'
<1>1. /\ published' = [published EXCEPT ![url] = doc]
      /\ withdrawn' = [withdrawn EXCEPT ![url][published[url]] = now]
      /\ now' = now /\ now \in Nat /\ published[url] \in Published
  BY DEF Publish, HistoryOK
<1>2. \A u \in URLs, d \in Published :
        /\ withdrawn[u][d] \in Int /\ withdrawn[u][d] <= now
        /\ withdrawn'[u][d] = IF u = url /\ d = published[url] THEN now ELSE withdrawn[u][d]
  BY <1>1, Times DEF HistoryOK
<1>3. HistoryOK'
  <2>1. \A u \in URLs, d \in Published : (withdrawn[u][d] <= now)'
    BY <1>1, <1>2
  <2> QED
    BY <1>1, <2>1 DEF HistoryOK
<1>4. ASSUME NEW u \in URLs, NEW d \in Published, NEW time \in Int, NEW span \in Nat,
             Since(u, d, time, span), time <= now + span
      PROVE  Since(u, d, time, span)'
  <2>1. CASE u = url /\ d = published[url]
    BY <1>1, <1>2, <1>4, <2>1 DEF Since
  <2>2. CASE ~(u = url /\ d = published[url])
    <3>1. withdrawn'[u][d] = withdrawn[u][d]
      BY <1>2, <2>2
    <3>2. published[u] = d => published'[u] = d
      BY <1>1, <2>2 DEF HistoryOK
    <3> QED
      BY <1>4, <3>1, <3>2 DEF Since
  <2> QED
    BY <2>1, <2>2
<1> QED
  BY <1>3, <1>4

\* The steps of resolve leave the documents and the clock alone.
LEMMA StillOK ==
    ASSUME UNCHANGED <<now, published, withdrawn>>, HistoryOK
    PROVE  /\ HistoryOK'
           /\ \A key, e : EntryOK(key, e) => EntryOK(key, e)'
           /\ \A k : CallOK(k) => CallOK(k)'
  BY DEF HistoryOK, EntryOK, CallOK, AnswerOK, FromDocument, Since, validated

\* A step of one call that leaves the cache well formed and the call's own
\* state in order keeps the invariant.
LEMMA OneCallMoves ==
    ASSUME IInv, NEW r \in Requests, NEW k,
           call' = [call EXCEPT ![r] = k], CallOK(k),
           CacheOK', UNCHANGED <<now, published, withdrawn>>
    PROVE  IInv'
<1>1. HistoryOK'
  BY StillOK DEF IInv
<1>2. \A q \in Requests : CallOK(call'[q])
  BY DEF IInv, CallsOK
<1>3. \A q \in Requests : CallOK(call[q])'
  BY <1>2, StillOK DEF IInv
<1>4. CallsOK'
  BY <1>3 DEF IInv, CallsOK
<1> QED
  BY <1>1, <1>4 DEF IInv

\* put keeps the cache in order when its new entry is.
LEMMA PutKeeps ==
    ASSUME IInv, NEW key, NEW e, EntryOK(key, e), cache' = put(cache, key, e, now),
           UNCHANGED <<now, published, withdrawn>>
    PROVE  CacheOK'
<1>1. CASE cache' = cache
  BY <1>1, StillOK DEF IInv, CacheOK
<1>2. CASE cache' = insert(cache, key, e)
  <2>1. /\ CacheWF(cache')
        /\ cache'.entries[key] = e
        /\ \A k \in DOMAIN cache'.entries \ {key} :
             k \in DOMAIN cache.entries /\ cache'.entries[k] = cache.entries[k]
    BY <1>2, InsertKeeps DEF IInv, CacheOK
  <2>2. \A k \in DOMAIN cache'.entries : EntryOK(k, cache'.entries[k])
    BY <2>1 DEF IInv, CacheOK
  <2>3. \A k \in DOMAIN cache'.entries : EntryOK(k, cache.entries[k])'
    BY <2>2, StillOK DEF IInv
  <2> QED
    BY <2>1, <2>3 DEF CacheOK
<1> QED
  BY <1>1, <1>2 DEF put

\* A URL that is not acceptable is answered and remembered as an error.
LEMMA ResolveBadURLKeeps ==
    ASSUME IInv, NEW r \in Requests, NEW url \in ClientIDs \ URLs, ResolveBadURL(r, url)
    PROVE  IInv'
<1> DEFINE e == [err |-> TRUE, client |-> NoClient, expiresAt |-> now + NegativeTTL]
<1>1. EntryOK(url, e)
  BY Times DEF EntryOK, Entries, keptFor, IInv, HistoryOK
<1>2. CallOK(answered(url, NoClient))
  BY DEF CallOK, AnswerOK, answered, IInv, HistoryOK
<1>3. CacheOK'
  BY <1>1, PutKeeps DEF ResolveBadURL
<1> QED
  BY <1>2, <1>3, OneCallMoves DEF ResolveBadURL

\* resolve up to its fetch: an entry that has not expired answers, so the
\* document was there no longer than a fetch and a time to live ago.
LEMMA ResolveKeeps ==
    ASSUME IInv, NEW r \in Requests, NEW url \in URLs, Resolve(r, url)
    PROVE  IInv'
<1>1. /\ CacheWF(cache') /\ DOMAIN cache'.entries \subseteq DOMAIN cache.entries
      /\ \A key \in DOMAIN cache'.entries : cache'.entries[key] = cache.entries[key]
  BY GetKeeps DEF IInv, CacheOK, Resolve
<1>2. CacheOK'
  <2>1. \A key \in DOMAIN cache'.entries : EntryOK(key, cache'.entries[key])
    BY <1>1 DEF IInv, CacheOK
  <2>2. \A key \in DOMAIN cache'.entries : EntryOK(key, cache.entries[key])'
    BY <2>1, StillOK DEF IInv, Resolve
  <2> QED
    BY <1>1, <2>2 DEF CacheOK
<1>3. now \in Nat /\ url \in ClientIDs
  BY DEF IInv, HistoryOK, URLs
<1>4. CASE hit(cache, url, now)
  <2> DEFINE e == cache.entries[url]
             client == e.client
  <2>1. /\ EntryOK(url, e)
        /\ ~(now > e.expiresAt)
    BY <1>4 DEF IInv, CacheOK, hit, present, expired
  <2>2. /\ e.expiresAt \in Nat /\ now <= e.expiresAt
        /\ FromDocument(url, client, e.expiresAt, FetchTimeout + keptFor(client))
    <3>1. e.expiresAt \in Nat
      BY <2>1, EntryKinds DEF EntryOK
    <3> QED
      BY <1>3, <2>1, <3>1 DEF EntryOK
  <2> HIDE DEF e, client
  <2>3. FromDocument(url, client, now, FetchTimeout + keptFor(client))
    <3>1. PICK doc \in Documents : /\ client = validated(url, doc)
                                   /\ Since(url, doc, e.expiresAt, FetchTimeout + keptFor(client))
      BY <2>2 DEF FromDocument
    <3>2. withdrawn[url][doc] \in Int
      BY Times DEF IInv, HistoryOK, Published
    <3>3. Since(url, doc, now, FetchTimeout + keptFor(client))
      BY <1>3, <2>2, <3>1, <3>2, Times DEF Since
    <3> QED
      BY <3>1, <3>3 DEF FromDocument
  <2>4. CallOK(answered(url, client))
    BY <1>3, <2>3 DEF CallOK, AnswerOK, answered
  <2>5. call' = [call EXCEPT ![r] = answered(url, client)]
    BY <1>4 DEF Resolve, client, e
  <2> QED
    BY <1>2, <2>4, <2>5, OneCallMoves DEF Resolve
<1>5. CASE ~hit(cache, url, now)
  <2> DEFINE k == [phase |-> "fetching", url |-> url, start |-> now]
  <2>1. CallOK(k)
    BY <1>3, Times DEF CallOK
  <2>2. call' = [call EXCEPT ![r] = k]
    BY <1>5 DEF Resolve
  <2> HIDE DEF k
  <2> QED
    BY <1>2, <2>1, <2>2, OneCallMoves DEF Resolve
<1> QED
  BY <1>4, <1>5

\* The server answers with the document it publishes.
LEMMA ServerAnswersKeeps ==
    ASSUME IInv, NEW r \in Requests, ServerAnswers(r)
    PROVE  IInv'
<1>1. PICK ttl \in TTLs :
        call' = [call EXCEPT ![r] =
            [phase |-> "fetched", url |-> call[r].url, start |-> call[r].start,
             doc |-> published[call[r].url], ttl |-> ttl]]
  BY DEF ServerAnswers
<1> DEFINE k == [phase |-> "fetched", url |-> call[r].url, start |-> call[r].start,
                 doc |-> published[call[r].url], ttl |-> ttl]
<1>2. /\ call[r].phase = "fetching" /\ CallOK(call[r])
      /\ published[call[r].url] # Unreachable
      /\ UNCHANGED <<now, cache, published, withdrawn>>
  BY DEF ServerAnswers, IInv, CallsOK
<1>3. CallOK(k)
  BY <1>2 DEF CallOK, Since, IInv, HistoryOK, Published
<1>4. CacheOK'
  BY <1>2, StillOK DEF IInv, CacheOK
<1>5. call' = [call EXCEPT ![r] = k]
  BY <1>1
<1> HIDE DEF k
<1> QED
  BY <1>2, <1>3, <1>4, <1>5, OneCallMoves

\* An accepted document is kept for its time to live, a rejected one for
\* NegativeTTL, both counted from the end of the fetch.
LEMMA FetchReturnsKeeps ==
    ASSUME IInv, NEW r \in Requests, FetchReturns(r)
    PROVE  IInv'
<1> DEFINE url == call[r].url
           doc == call[r].doc
           ttl == call[r].ttl
           start == call[r].start
           client == validated(url, doc)
           e == fetchedEntry(client, ttl)
<1>1. /\ url \in URLs /\ url \in ClientIDs
      /\ doc \in Documents /\ ttl \in TTLs /\ start \in Nat
      /\ now <= start + FetchTimeout /\ Since(url, doc, start, 0)
  BY DEF IInv, CallsOK, CallOK, FetchReturns, URLs
<1>2. /\ cache' = IF client = NoClient \/ ttl > 0 THEN put(cache, url, e, now) ELSE cache
      /\ call' = [call EXCEPT ![r] = answered(url, client)]
      /\ UNCHANGED <<now, published, withdrawn>>
  BY DEF FetchReturns
<1>3. now \in Nat /\ withdrawn[url][doc] \in Int
  BY <1>1, Times DEF IInv, HistoryOK, Published
<1>4. client = NoClient \/ client \in Clients \ {NoClient}
  <2> HIDE DEF url, doc
  <2> QED
    BY <1>1, ValidatedKinds
<1>5. client = validated(url, doc)
  OBVIOUS
<1>6. /\ e.client = client /\ e \in Entries /\ e.expiresAt \in Nat
      /\ e.expiresAt <= now + keptFor(client)
  <2>1. ttl \in Nat /\ ttl <= MaxTTL
    BY <1>1, Times
  <2> HIDE DEF ttl, client
  <2>2. CASE client = NoClient
    <3>1. e = [err |-> TRUE, client |-> NoClient, expiresAt |-> now + NegativeTTL]
      BY <2>2, Zenon DEF fetchedEntry
    <3> QED
      BY <1>3, <2>2, <3>1, Times DEF Entries, keptFor
  <2>3. CASE client \in Clients \ {NoClient}
    <3>1. e = [err |-> FALSE, client |-> client, expiresAt |-> now + ttl]
      BY <2>3, Zenon DEF fetchedEntry
    <3> HIDE DEF e
    <3>2. e.client = client /\ e.expiresAt = now + ttl /\ now + ttl \in Nat
      BY <1>3, <2>1, <3>1
    <3>3. e \in Entries
      BY <2>3, <3>1, <3>2, Zenon DEF Entries
    <3> QED
      BY <1>3, <2>1, <2>3, <3>2, <3>3, Times DEF keptFor
  <2> QED
    BY <1>4, <2>2, <2>3
<1> HIDE DEF url, doc, ttl, start, client, e
<1>7. /\ Since(url, doc, now, FetchTimeout + keptFor(client))
      /\ Since(url, doc, e.expiresAt, FetchTimeout + keptFor(client))
  BY <1>1, <1>3, <1>6, Times DEF Since
<1>8. EntryOK(url, e)
  BY <1>1, <1>5, <1>6, <1>7 DEF EntryOK, FromDocument
<1>9. CallOK(answered(url, client))
  BY <1>1, <1>3, <1>5, <1>7 DEF CallOK, AnswerOK, FromDocument, answered
<1>10. CacheOK'
  <2>1. CASE cache' = cache
    BY <1>2, <2>1, StillOK DEF IInv, CacheOK
  <2>2. CASE cache' = put(cache, url, e, now)
    BY <1>2, <1>8, <2>2, PutKeeps
  <2> QED
    BY <1>2, <2>1, <2>2
<1> QED
  BY <1>2, <1>9, <1>10, OneCallMoves

\* A failed fetch is answered and not remembered.
LEMMA FetchFailsKeeps ==
    ASSUME IInv, NEW r \in Requests, FetchFails(r)
    PROVE  IInv'
<1>1. call[r].url \in URLs /\ call[r].url \in ClientIDs /\ now \in Nat
  BY DEF IInv, HistoryOK, CallsOK, CallOK, FetchFails, URLs
<1>2. CallOK(answered(call[r].url, Unreachable))
  BY <1>1 DEF CallOK, AnswerOK, answered
<1>3. CacheOK'
  BY StillOK DEF IInv, CacheOK, FetchFails
<1> QED
  BY <1>2, <1>3, OneCallMoves DEF FetchFails

\* A client that changes its document: what the cache and the calls know of the
\* old one was right until now.
LEMMA PublishKeeps ==
    ASSUME IInv, NEW url \in URLs, NEW doc \in Published, Publish(url, doc)
    PROVE  IInv'
<1>1. /\ UNCHANGED <<now, cache, call>> /\ now \in Nat
      /\ Documents \subseteq Published
  BY DEF Publish, IInv, HistoryOK, Published
<1>2. /\ HistoryOK'
      /\ \A u \in URLs, d \in Published, time \in Int, span \in Nat :
           Since(u, d, time, span) /\ time <= now + span => Since(u, d, time, span)'
  BY SinceKept DEF IInv
<1>3. ASSUME NEW u \in URLs, NEW client, NEW time \in Int, NEW span \in Nat,
             FromDocument(u, client, time, span), time <= now + span
      PROVE  FromDocument(u, client, time, span)'
  <2>1. PICK d \in Documents : client = validated(u, d) /\ Since(u, d, time, span)
    BY <1>3 DEF FromDocument
  <2>2. Since(u, d, time, span)'
    BY <1>1, <1>2, <1>3, <2>1
  <2> QED
    BY <2>1, <2>2 DEF FromDocument, validated
<1>4. ASSUME NEW key, NEW e, EntryOK(key, e)
      PROVE  EntryOK(key, e)'
  <2>1. e.expiresAt \in Nat /\ e.expiresAt <= now + keptFor(e.client)
    BY <1>4 DEF EntryOK, Entries
  <2>2. /\ FetchTimeout + keptFor(e.client) \in Nat
        /\ e.expiresAt <= now + (FetchTimeout + keptFor(e.client))
    BY <1>1, <2>1, Times
  <2>3. key \in URLs =>
          FromDocument(key, e.client, e.expiresAt, FetchTimeout + keptFor(e.client))'
    BY <1>3, <1>4, <2>1, <2>2 DEF EntryOK
  <2> QED
    BY <1>1, <1>4, <2>3 DEF EntryOK, keptFor
<1>5. ASSUME NEW k, CallOK(k)
      PROVE  CallOK(k)'
  <2>1. k.phase = "fetched" => Since(k.url, k.doc, k.start, 0)'
    BY <1>1, <1>2, <1>5 DEF CallOK
  <2>2. ASSUME k.phase = "done"
        PROVE  AnswerOK(k)'
    <3>1. AnswerOK(k)
      BY <1>5, <2>2 DEF CallOK
    <3>2. /\ k.at \in Int /\ FetchTimeout + keptFor(k.client) \in Nat
          /\ k.at <= now + (FetchTimeout + keptFor(k.client))
      BY <1>1, <3>1, Times DEF AnswerOK
    <3>3. k.url \in URLs /\ k.client # Unreachable =>
            FromDocument(k.url, k.client, k.at, FetchTimeout + keptFor(k.client))'
      BY <1>3, <3>1, <3>2 DEF AnswerOK
    <3> QED
      BY <1>1, <3>1, <3>3 DEF AnswerOK, keptFor
  <2> QED
    BY <1>1, <1>5, <2>1, <2>2 DEF CallOK
<1>6. CacheOK'
  BY <1>1, <1>4 DEF IInv, CacheOK
<1>7. CallsOK'
  BY <1>1, <1>5 DEF IInv, CallsOK
<1> QED
  BY <1>2, <1>6, <1>7 DEF IInv

\* Time passes, but no further than the context of a fetch.
LEMMA TickKeeps ==
    ASSUME IInv, Tick
    PROVE  IInv'
<1>1. /\ now' = now + 1 /\ now \in Nat
      /\ UNCHANGED <<cache, call, published, withdrawn>>
  BY DEF Tick, IInv, HistoryOK
<1>2. HistoryOK'
  <2>1. \A u \in URLs, doc \in Published : withdrawn[u][doc] \in Int /\ withdrawn[u][doc] <= now
    BY Times DEF IInv, HistoryOK
  <2> QED
    BY <1>1, <2>1 DEF IInv, HistoryOK
<1>3. CacheOK'
  <2>1. ASSUME NEW key, NEW e, EntryOK(key, e)
        PROVE  EntryOK(key, e)'
    <3>1. e.expiresAt \in Nat /\ e.expiresAt <= now' + keptFor(e.client)
      <4>1. e.expiresAt \in Nat /\ e.expiresAt <= now + keptFor(e.client)
        BY <2>1, EntryKinds DEF EntryOK
      <4> QED
        BY <1>1, <4>1, Times
    <3> QED
      BY <1>1, <2>1, <3>1 DEF EntryOK, FromDocument, Since, validated, keptFor
  <2> QED
    BY <1>1, <2>1 DEF IInv, CacheOK
<1>4. CallsOK'
  <2>1. ASSUME NEW r \in Requests
        PROVE  CallOK(call[r])'
    <3>1. CallOK(call[r])
      BY DEF IInv, CallsOK
    <3>2. call[r].phase \in {"fetching", "fetched"} =>
            call[r].start <= now' /\ now' <= call[r].start + FetchTimeout
      BY <1>1, <3>1, Times DEF CallOK, Tick
    <3>3. call[r].phase = "done" => AnswerOK(call[r])'
      BY <1>1, <3>1 DEF CallOK, AnswerOK, FromDocument, Since, validated, keptFor
    <3> QED
      BY <1>1, <3>1, <3>2, <3>3 DEF CallOK, Since
  <2> QED
    BY <1>1, <2>1 DEF IInv, CallsOK
<1> QED
  BY <1>2, <1>3, <1>4 DEF IInv

\* The invariant holds initially.
LEMMA InitIInv == Init => IInv
<1> SUFFICES ASSUME Init PROVE IInv
  OBVIOUS
<1>1. HistoryOK
  BY Times DEF Init, HistoryOK, Published
<1>2. CacheOK
  BY NewCacheWF DEF Init, CacheOK
<1>3. CallsOK
  BY DEF Init, CallsOK, CallOK
<1> QED
  BY <1>1, <1>2, <1>3 DEF IInv

\* Every step keeps the invariant.
LEMMA NextIInv == IInv /\ [Next]_vars => IInv'
<1> SUFFICES ASSUME IInv, [Next]_vars PROVE IInv'
  OBVIOUS
<1>1. ASSUME NEW r \in Requests, NEW url \in ClientIDs \ URLs, ResolveBadURL(r, url) PROVE IInv'
  BY <1>1, ResolveBadURLKeeps
<1>2. ASSUME NEW r \in Requests, NEW url \in URLs, Resolve(r, url) PROVE IInv'
  BY <1>2, ResolveKeeps
<1>3. ASSUME NEW r \in Requests, ServerAnswers(r) PROVE IInv'
  BY <1>3, ServerAnswersKeeps
<1>4. ASSUME NEW r \in Requests, FetchReturns(r) PROVE IInv'
  BY <1>4, FetchReturnsKeeps
<1>5. ASSUME NEW r \in Requests, FetchFails(r) PROVE IInv'
  BY <1>5, FetchFailsKeeps
<1>6. ASSUME NEW url \in URLs, NEW doc \in Published, Publish(url, doc) PROVE IInv'
  BY <1>6, PublishKeeps
<1>7. CASE Tick
  BY <1>7, TickKeeps
<1>8. CASE UNCHANGED vars
  <2>1. HistoryOK' /\ CacheOK'
    BY <1>8, StillOK DEF IInv, CacheOK, vars
  <2>2. CallsOK'
    BY <1>8, StillOK DEF IInv, CallsOK, vars
  <2> QED
    BY <2>1, <2>2 DEF IInv
<1> QED
  BY <1>1, <1>2, <1>3, <1>4, <1>5, <1>6, <1>7, <1>8 DEF Next

\* The invariant the theorems rest on holds in every state.
THEOREM Inductive == Spec => []IInv
  BY InitIInv, NextIInv, PTL DEF Spec
-----------------------------------------------------------------------------
\* The cache holds clients and rejections under client_ids of requests, and
\* nothing that a failed fetch left (resolve).
THEOREM TypeCorrect == Spec => []TypeOK
<1>1. IInv => TypeOK
  BY DEF IInv, HistoryOK, CacheOK, EntryOK, CallsOK, CallOK, TypeOK
<1> QED
  BY <1>1, Inductive, PTL

\* However gets and puts of concurrent requests follow each other, the map and
\* the FIFO order list the same keys, none twice, never more than the capacity
\* (cimdCache.get, put, evictLocked).
THEOREM CacheConsistentHolds == Spec => []CacheConsistent
<1>1. IInv => CacheConsistent
  BY DEF IInv, CacheOK, CacheConsistent
<1> QED
  BY <1>1, Inductive, PTL

\* An answer is never older than a fetch and a time to live, a rejection never
\* older than a fetch and the negative one, though documents change and other
\* requests fill the cache while a fetch is under way (resolve).
THEOREM BoundedStalenessHolds == Spec => []BoundedStaleness
<1>1. IInv => BoundedStaleness
  BY DEF IInv, CallsOK, CallOK, AnswerOK, FromDocument, BoundedStaleness, keptFor
<1> QED
  BY <1>1, Inductive, PTL

\* A client that parseCIMDMetadata accepts under a URL has the properties that
\* SpeaksForItself asks for.
LEMMA AcceptedSpeaks ==
    ASSUME NEW url, NEW doc \in Documents, NEW client, client \in Clients,
           client = validated(url, doc)
    PROVE  /\ doc.client_id = url /\ client = registeredClient(doc)
           /\ client.RedirectURIs # <<>>
           /\ \A i \in DOMAIN client.RedirectURIs : client.RedirectURIs[i].scheme = "https"
           /\ client.TokenEndpointAuthMethod = "private_key_jwt" =>
                client.JWKSURI.scheme = "https"
<1>1. client # NoClient
  BY ResolverAssumption DEF Clients
<1>2. parseCIMDMetadata(url, doc) /\ client = registeredClient(doc)
  BY <1>1, ValidatedKinds
<1>3. doc.client_id = url /\ validAuthMethod(doc) /\ validRedirectURIs(doc.redirect_uris)
  BY <1>2 DEF parseCIMDMetadata, acceptable
<1>4. /\ client.RedirectURIs = doc.redirect_uris /\ client.JWKSURI = doc.jwks_uri
      /\ client.TokenEndpointAuthMethod = doc.token_endpoint_auth_method
  BY <1>2 DEF registeredClient
<1>5. /\ doc.redirect_uris # <<>>
      /\ \A i \in DOMAIN doc.redirect_uris : doc.redirect_uris[i].scheme = "https"
  <2>1. Len(doc.redirect_uris) # 0
    BY <1>3, DocumentAssumption DEF validRedirectURIs
  <2>2. \A i \in DOMAIN doc.redirect_uris : doc.redirect_uris[i].scheme = "https"
    BY <1>3 DEF validRedirectURIs, validateCIMDRedirectURI
  <2>3. doc.redirect_uris # <<>>
    BY <2>1, EmptySeq
  <2> QED
    BY <2>2, <2>3
<1>6. doc.token_endpoint_auth_method = "private_key_jwt" => doc.jwks_uri.scheme = "https"
  BY <1>3 DEF validAuthMethod, validateJWKSURI, plainHTTPS
<1> QED
  BY <1>2, <1>3, <1>4, <1>5, <1>6

\* resolve never returns a client that another URL's document describes, nor
\* one with a redirect or a key URL that is not https (parseCIMDMetadata).
THEOREM SpeaksForItselfHolds == Spec => []SpeaksForItself
<1>1. IInv => SpeaksForItself
  <2> SUFFICES ASSUME IInv, NEW r \in Requests, call[r].phase = "done",
                      call[r].client \in Clients
               PROVE  /\ \E doc \in Documents : /\ doc.client_id = call[r].url
                                                /\ call[r].client = registeredClient(doc)
                      /\ call[r].client.RedirectURIs # <<>>
                      /\ \A i \in DOMAIN call[r].client.RedirectURIs :
                           call[r].client.RedirectURIs[i].scheme = "https"
                      /\ call[r].client.TokenEndpointAuthMethod = "private_key_jwt" =>
                           call[r].client.JWKSURI.scheme = "https"
    BY DEF SpeaksForItself
  <2>1. call[r].client \notin {NoClient, Unreachable}
    BY ResolverAssumption DEF Clients
  <2>2. PICK doc \in Documents : call[r].client = validated(call[r].url, doc)
    BY <2>1 DEF IInv, CallsOK, CallOK, AnswerOK, FromDocument
  <2> QED
    BY <2>2, AcceptedSpeaks
<1> QED
  BY <1>1, Inductive, PTL

\* A step leaves the cache alone, reads it, or puts one entry.
LEMMA CacheSteps ==
    ASSUME IInv, [Next]_vars
    PROVE  \/ cache' = cache
           \/ \E url \in URLs : cache' = afterGet(cache, url, now)
           \/ \E key, e : cache' = put(cache, key, e, now)
<1>1. ASSUME NEW r \in Requests, NEW url, ResolveBadURL(r, url)
      PROVE  \E key, e : cache' = put(cache, key, e, now)
  BY <1>1 DEF ResolveBadURL
<1>2. ASSUME NEW r \in Requests, FetchReturns(r)
      PROVE  \/ cache' = cache
             \/ \E key, e : cache' = put(cache, key, e, now)
  BY <1>2 DEF FetchReturns
<1>3. CASE UNCHANGED cache
  BY <1>3
<1> QED
  BY <1>1, <1>2, <1>3
     DEF Next, Resolve, ServerAnswers, FetchFails, Publish, Tick, vars

\* No step replaces a client that is still good by an error: an error that
\* arrives late, or of a document that was bad for a while, is dropped
\* (cimdCache.put).
THEOREM PositiveSurvives == Spec => PositiveSurvivesNegative
<1>1. ASSUME IInv, [Next]_vars, NEW k \in DOMAIN cache.entries,
             ~cache.entries[k].err, cache.entries[k].expiresAt > now,
             k \in DOMAIN cache'.entries
      PROVE  ~cache'.entries[k].err
  <2>1. CASE cache' = cache
    BY <1>1, <2>1
  <2>2. ASSUME NEW url \in URLs, cache' = afterGet(cache, url, now)
        PROVE  ~cache'.entries[k].err
    BY <1>1, <2>2, GetKeeps DEF IInv, CacheOK
  <2>3. ASSUME NEW key, NEW e, cache' = put(cache, key, e, now)
        PROVE  ~cache'.entries[k].err
    <3>1. CASE keepsPositive(cache, key, e, now)
      BY <1>1, <2>3, <3>1 DEF put
    <3>2. CASE ~keepsPositive(cache, key, e, now)
      <4>1. cache' = insert(cache, key, e) /\ CacheWF(cache)
        BY <1>1, <2>3, <3>2 DEF put, IInv, CacheOK
      <4>2. CASE k = key
        <5>1. cache'.entries[k] = e
          BY <4>1, <4>2, InsertKeeps
        <5>2. ~e.err
          BY <1>1, <3>2, <4>2 DEF keepsPositive, present
        <5> QED
          BY <5>1, <5>2
      <4>3. CASE k # key
        BY <1>1, <4>1, <4>3, InsertKeeps
      <4> QED
        BY <4>2, <4>3
    <3> QED
      BY <3>1, <3>2
  <2> QED
    BY <1>1, <2>1, <2>2, <2>3, CacheSteps
<1>2. IInv /\ [Next]_vars =>
        [\A k \in DOMAIN cache.entries :
            /\ ~cache.entries[k].err
            /\ cache.entries[k].expiresAt > now
            /\ k \in DOMAIN cache'.entries
            => ~cache'.entries[k].err]_vars
  BY <1>1
<1> QED
  BY <1>2, Inductive, PTL DEF Spec, PositiveSurvivesNegative

\* A live entry gives way only as the oldest of a full cache, and only to a key
\* that comes in: neither get nor a put for a key that has a place takes one
\* out (cimdCache.get, put).
THEOREM OldestEvicted == Spec => OnlyOldestEvicted
<1>1. ASSUME IInv, [Next]_vars, NEW k \in DOMAIN cache.entries,
             k \notin DOMAIN cache'.entries, cache.entries[k].expiresAt >= now
      PROVE  /\ Cardinality(DOMAIN cache.entries) = Capacity
             /\ k = Head(cache.order)
             /\ \E new \in DOMAIN cache'.entries : new \notin DOMAIN cache.entries
  <2>1. CASE cache' = cache
    BY <1>1, <2>1
  <2>2. ASSUME NEW url \in URLs, cache' = afterGet(cache, url, now)
        PROVE  FALSE
    <3>1. now > cache.entries[k].expiresAt
      BY <1>1, <2>2, GetKeeps DEF IInv, CacheOK, expired
    <3>2. cache.entries[k].expiresAt \in Nat /\ now \in Nat
      BY <1>1, EntryKinds DEF IInv, HistoryOK, CacheOK, EntryOK
    <3> QED
      BY <1>1, <3>1, <3>2
  <2>3. ASSUME NEW key, NEW e, cache' = put(cache, key, e, now)
        PROVE  /\ Cardinality(DOMAIN cache.entries) = Capacity
               /\ k = Head(cache.order)
               /\ \E new \in DOMAIN cache'.entries : new \notin DOMAIN cache.entries
    <3>1. cache' = insert(cache, key, e) /\ CacheWF(cache)
      BY <1>1, <2>3 DEF put, IInv, CacheOK
    <3> QED
      BY <1>1, <3>1, InsertKeeps
  <2> QED
    BY <1>1, <2>1, <2>2, <2>3, CacheSteps
<1>2. IInv /\ [Next]_vars =>
        [\A k \in DOMAIN cache.entries :
            k \notin DOMAIN cache'.entries /\ cache.entries[k].expiresAt >= now =>
                /\ Cardinality(DOMAIN cache.entries) = Capacity
                /\ k = Head(cache.order)
                /\ \E new \in DOMAIN cache'.entries : new \notin DOMAIN cache.entries]_vars
  BY <1>1
<1> QED
  BY <1>2, Inductive, PTL DEF Spec, OnlyOldestEvicted
=============================================================================
