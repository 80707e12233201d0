---------------------------- MODULE CimdResolver ----------------------------
(***************************************************************************)
(* cimdResolver.resolve of cimd.go: concurrent requests look up the        *)
(* metadata document a client publishes under its client_id URL.  An       *)
(* answer is cached; between the lookup and the put the resolver waits for *)
(* the client's server without the mutex, so documents may change and      *)
(* other requests may finish in between.                                   *)
(***************************************************************************)
EXTENDS CimdCache, CimdDocument

CONSTANTS
    ClientIDs,      \* the client_id URLs of requests
    Documents,      \* the metadata documents that servers publish
    Requests,       \* concurrent calls of resolve
    TTLs,           \* what cacheTTLFromHeader may return
    MaxTTL,         \* cimdMaxCacheTTL
    NegativeTTL,    \* cimdNegativeCacheTTL
    FetchTimeout,   \* cimdFetchTimeout
    NoClient,       \* the nil *registeredClient that comes with an error
    Unreachable,    \* no document: a bad status, type or size, a refused
                    \* address, a broken connection
    MaxPublications,\* bound: changes of documents
    MaxClock        \* bound: the clock

ASSUME ResolverAssumption ==
    /\ MaxTTL \in Nat /\ NegativeTTL \in Nat /\ FetchTimeout \in Nat
    /\ TTLs \subseteq 0 .. MaxTTL
    /\ Unreachable \notin Documents \union {NoClient}
    /\ \A doc \in Documents : registeredClient(doc) \notin {NoClient, Unreachable}

VARIABLES
    now,            \* r.now()
    cache,          \* r.cache
    call,           \* the calls of resolve
    published,      \* the document behind each URL
    withdrawn,      \* history: when a document was last replaced
    publications    \* history: the number of changes

vars == <<now, cache, call, published, withdrawn, publications>>

URLs == {u \in ClientIDs : validateCIMDClientIDURL(u)}

Published == Documents \union {Unreachable}

\* Longer ago than anything the cache remembers.
Never == -(FetchTimeout + MaxTTL + NegativeTTL + 1)

Init ==
    /\ now = 0
    /\ cache = newCIMDCache
    /\ call = [r \in Requests |-> [phase |-> "idle"]]
    /\ published \in [URLs -> Documents]
    /\ withdrawn = [u \in URLs |-> [d \in Published |-> Never]]
    /\ publications = 0
-----------------------------------------------------------------------------
\* What resolve returns: a client, or an error.
answered(url, client) == [phase |-> "done", url |-> url, client |-> client, at |-> now]

\* resolve of a URL that is not acceptable: the error is cached.
ResolveBadURL(r, url) ==
    /\ call[r].phase \in {"idle", "done"}
    /\ cache' = put(cache, url, [err |-> TRUE, client |-> NoClient,
                                 expiresAt |-> now + NegativeTTL], now)
    /\ call' = [call EXCEPT ![r] = answered(url, NoClient)]
    /\ UNCHANGED <<now, published, withdrawn, publications>>

\* resolve up to its fetch: the cached answer, or a request to the server.
Resolve(r, url) ==
    /\ call[r].phase \in {"idle", "done"}
    /\ cache' = afterGet(cache, url, now)
    /\ call' = [call EXCEPT ![r] =
          IF hit(cache, url, now)
          THEN answered(url, cache.entries[url].client)
          ELSE [phase |-> "fetching", url |-> url, start |-> now]]
    /\ UNCHANGED <<now, published, withdrawn, publications>>

\* The client's server answers with what it publishes now.
ServerAnswers(r) ==
    /\ call[r].phase = "fetching"
    /\ published[call[r].url] # Unreachable
    /\ \E ttl \in TTLs :
        call' = [call EXCEPT ![r] =
            [phase |-> "fetched", url |-> call[r].url, start |-> call[r].start,
             doc |-> published[call[r].url], ttl |-> ttl]]
    /\ UNCHANGED <<now, cache, published, withdrawn, publications>>

\* What fetchAndValidate makes of a document.
validated(url, doc) == IF parseCIMDMetadata(url, doc) THEN registeredClient(doc) ELSE NoClient

\* The entry for what fetchAndValidate returned.
fetchedEntry(client, ttl) ==
    [err |-> client = NoClient, client |-> client,
     expiresAt |-> IF client = NoClient THEN now + NegativeTTL ELSE now + ttl]

\* The rest of resolve: the answer arrives, is validated, and cached unless
\* its time to live is zero.
FetchReturns(r) ==
    /\ call[r].phase = "fetched"
    /\ LET client == validated(call[r].url, call[r].doc)
       IN  /\ cache' = IF client = NoClient \/ call[r].ttl > 0
                       THEN put(cache, call[r].url, fetchedEntry(client, call[r].ttl), now)
                       ELSE cache
           /\ call' = [call EXCEPT ![r] = answered(call[r].url, client)]
    /\ UNCHANGED <<now, published, withdrawn, publications>>

\* Fault: a failed fetch is held against the client as well.
CacheFailure(r) ==
    /\ call[r].phase \in {"fetching", "fetched"}
    /\ cache' = put(cache, call[r].url, [err |-> TRUE, client |-> Unreachable,
                                         expiresAt |-> now + NegativeTTL], now)
    /\ call' = [call EXCEPT ![r] = answered(call[r].url, Unreachable)]
    /\ UNCHANGED <<now, published, withdrawn, publications>>

\* The fetch fails or its context times out: nothing is cached.
FetchFails(r) ==
    /\ call[r].phase \in {"fetching", "fetched"}
    /\ call' = [call EXCEPT ![r] = answered(call[r].url, Unreachable)]
    /\ UNCHANGED <<now, cache, published, withdrawn, publications>>

\* The client replaces its document.
Publish(url, doc) ==
    /\ published[url] # doc
    /\ publications < MaxPublications
    /\ publications' = publications + 1
    /\ withdrawn' = [withdrawn EXCEPT ![url][published[url]] = now]
    /\ published' = [published EXCEPT ![url] = doc]
    /\ UNCHANGED <<now, cache, call>>

\* A fetch lives as long as its context.
Tick ==
    /\ now < MaxClock
    /\ \A r \in Requests : call[r].phase \in {"fetching", "fetched"}
                              => now < call[r].start + FetchTimeout
    /\ now' = now + 1
    /\ UNCHANGED <<cache, call, published, withdrawn, publications>>

Next ==
    \/ \E r \in Requests, url \in ClientIDs \ URLs : ResolveBadURL(r, url)
    \/ \E r \in Requests, url \in URLs : Resolve(r, url)
    \/ \E r \in Requests : ServerAnswers(r)
    \/ \E r \in Requests : FetchReturns(r)
    \/ \E r \in Requests : FetchFails(r)
    \/ \E url \in URLs, doc \in Published : Publish(url, doc)
    \/ Tick

Spec == Init /\ [][Next]_vars
-----------------------------------------------------------------------------
Clients == {registeredClient(d) : d \in Documents}

Entries == [err : {FALSE}, client : Clients, expiresAt : Nat]
              \union [err : {TRUE}, client : {NoClient}, expiresAt : Nat]

\* The shape of the resolver's state; no entry of the cache stands for a fetch
\* that failed.
TypeOK ==
    /\ now \in Nat
    /\ DOMAIN cache.entries \subseteq ClientIDs
    /\ \A k \in DOMAIN cache.entries : cache.entries[k] \in Entries
    /\ published \in [URLs -> Published]
    /\ withdrawn \in [URLs -> [Published -> Nat \union {Never}]]
    /\ DOMAIN call = Requests
    /\ \A r \in Requests :
        call[r].phase \in {"idle", "fetching", "fetched", "done"}

\* The map and the FIFO order of the cache never come apart, whatever order
\* the gets and puts of concurrent requests take (cimdCache.get, put,
\* evictLocked): put never takes order[0] of an empty order.
CacheConsistent == CacheWF(cache)

\* The client's server publishes the document, or did at most `span' before
\* the time.
Since(url, doc, time, span) == published[url] = doc \/ time <= withdrawn[url][doc] + span

\* A client is served from a document that its own server published and that
\* was withdrawn at most a fetch and a time to live ago; a document that was
\* rejected and is repaired is held against the client no longer than a fetch
\* and the negative time to live.
BoundedStaleness ==
    \A r \in Requests :
        call[r].phase = "done" /\ call[r].url \in URLs /\ call[r].client # Unreachable =>
            \E doc \in Documents :
                /\ call[r].client = validated(call[r].url, doc)
                /\ Since(call[r].url, doc, call[r].at,
                         FetchTimeout + IF call[r].client = NoClient THEN NegativeTTL ELSE MaxTTL)

\* A client that resolve returns, now or from the cache, is one that a document
\* with this client_id describes; the URIs it is redirected to are https, and
\* so is the key URL that /token will ask for if the client signs assertions.
SpeaksForItself ==
    \A r \in Requests :
        call[r].phase = "done" /\ call[r].client \in Clients =>
            /\ \E doc \in Documents :
                doc.client_id = call[r].url /\ call[r].client = registeredClient(doc)
            /\ call[r].client.RedirectURIs # <<>>
            /\ \A i \in DOMAIN call[r].client.RedirectURIs :
                call[r].client.RedirectURIs[i].scheme = "https"
            /\ call[r].client.TokenEndpointAuthMethod = "private_key_jwt" =>
                call[r].client.JWKSURI.scheme = "https"

\* No request that saw an invalid document, or lost a race against one that
\* saw a good one, replaces a client that is still good (put's first check).
PositiveSurvivesNegative ==
    [][\A k \in DOMAIN cache.entries :
        /\ ~cache.entries[k].err
        /\ cache.entries[k].expiresAt > now
        /\ k \in DOMAIN cache'.entries
        => ~cache'.entries[k].err]_vars

\* A live entry leaves the cache only as the oldest key of a full cache, and
\* only when another key comes in.
OnlyOldestEvicted ==
    [][\A k \in DOMAIN cache.entries :
        k \notin DOMAIN cache'.entries /\ cache.entries[k].expiresAt >= now =>
            /\ Cardinality(DOMAIN cache.entries) = Capacity
            /\ k = Head(cache.order)
            /\ \E new \in DOMAIN cache'.entries : new \notin DOMAIN cache.entries]_vars
=============================================================================
