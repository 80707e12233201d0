-------------------------- MODULE DeploymentProofs --------------------------
(***************************************************************************)
(* The safety properties of OidcDiscovery for every Config, every set of   *)
(* discovery documents, every time to live and timeout, any number of      *)
(* lookups and of changes at the IdP, and a bound on the steps of one.     *)
(***************************************************************************)
EXTENDS Deployment, TLAPS

HistoryOK ==
    /\ cfg \in Configs /\ Validate(cfg)
    /\ now \in Nat
    /\ idp \in [{1, 2} -> Documents \union {Down}]
    /\ withdrawn \in [Documents -> Nat \union {ZeroTime}]
    /\ \A d \in Documents : withdrawn[d] <= now

\* A cached document that may be served was there when its request was under
\* way, at most a timeout before it arrived.
CachesOK ==
    /\ oidc \in [doc : Documents \union {NoDocument}, time : Nat \union {ZeroTime}]
    /\ jwks.time \in Nat \union {ZeroTime}
    /\ oidc.time <= now
    /\ oidc.doc.issuer # "" =>
        oidc.doc \in Documents /\ ServedSince(oidc.doc, oidc.time - FetchTimeout)

\* How old the document of a lookup may be.
oldest(k) == IF k.doc.issuer = "" THEN k.begun ELSE k.begun - CacheTTL - FetchTimeout + 1

\* The fields of a lookup.
Shape(k) ==
    /\ DOMAIN k = {"phase", "purpose", "candidate", "start", "begun", "doc", "discovered",
                   "url", "verdict"}
    /\ k.purpose \in Purposes
    /\ k.candidate \in candidates \union {0}
    /\ k.doc \in Documents \union {NoDocument}
    /\ k.start \in Nat /\ k.begun \in Nat /\ k.begun <= now
    /\ k.discovered \in BOOLEAN
    /\ k.purpose \in {"authorize", "token"} => brokerActive(cfg)

\* A document that a lookup goes by is fresh, and the URL of its keys is the
\* document's.
DocumentOK(k) == k.discovered => k.doc \in Documents /\ ServedSince(k.doc, oldest(k))

KeysURL(k) == IF k.discovered THEN k.doc.jwks_uri ELSE cfg.JWKSURL

CallOK(k) ==
    /\ Shape(k)
    /\ DocumentOK(k)
    /\ k.phase \in {"request", "answer", "located", "keys", "done"}
    /\ k.phase \in {"request", "answer", "keys"} =>
        k.begun <= k.start /\ k.start <= now /\ now <= k.start + FetchTimeout
    /\ k.phase # "done" => k.verdict = "none"
    /\ k.phase \in {"request", "answer"} => ~k.discovered /\ k.candidate \in candidates
    /\ k.phase = "answer" => k.doc \in Documents /\ ServedSince(k.doc, k.start)
    /\ k.phase \in {"located", "keys"} => k.purpose = "validate" /\ k.url = KeysURL(k)
    /\ k.phase = "done" =>
        /\ k.verdict \in {"found", "not_discoverable", "no_issuer", "unavailable"}
        /\ k.purpose = "validate" /\ k.verdict = "found" => k.url = KeysURL(k)
        /\ k.purpose \in {"authorize", "token"} => k.verdict # "no_issuer"

CallsOK ==
    /\ DOMAIN call = Calls
    /\ \A c \in Calls : call[c] = [phase |-> "idle"] \/ CallOK(call[c])

\* The inductive invariant.
IInv == HistoryOK /\ CachesOK /\ CallsOK
-----------------------------------------------------------------------------
\* The lifetimes are numbers.
LEMMA Times ==
    /\ CacheTTL \in Nat \ {0} /\ FetchTimeout \in Nat
    /\ ZeroTime \in Int /\ ZeroTime <= 0
  BY DiscoveryAssumption DEF ZeroTime

\* The first candidate is always asked.
LEMMA Candidates == 1 \in candidates /\ candidates \subseteq {1, 2}
  BY DEF candidates

\* A lookup with the document of another is as fresh, and has the same keys.
LEMMA SameDocument ==
    ASSUME NEW k, NEW l, l.doc = k.doc, l.begun = k.begun, l.discovered = k.discovered
    PROVE  (DocumentOK(k) => DocumentOK(l)) /\ KeysURL(l) = KeysURL(k)
<1>1. oldest(l) = oldest(k)
  BY DEF oldest
<1> QED
  BY <1>1, Zenon DEF DocumentOK, KeysURL

\* What the histories and the caches hold are times.
LEMMA StoredTimes ==
    ASSUME IInv
    PROVE  /\ now \in Int /\ oidc.time \in Int /\ oidc.time <= now
           /\ \A d \in Documents : withdrawn[d] \in Int /\ withdrawn[d] <= now
<1>1. now \in Nat /\ withdrawn \in [Documents -> Nat \union {ZeroTime}]
      /\ \A d \in Documents : withdrawn[d] <= now
  BY DEF IInv, HistoryOK
<1>2. oidc.time \in Nat \union {ZeroTime} /\ oidc.time <= now
  BY DEF IInv, CachesOK
<1> QED
  BY <1>1, <1>2, Times

\* Served at a time or later, it was served at any earlier time or later.
LEMMA ServedEarlier ==
    ASSUME NEW doc, NEW t \in Int, NEW u \in Int, u <= t, withdrawn[doc] \in Int,
           ServedSince(doc, t)
    PROVE  ServedSince(doc, u)
  BY DEF ServedSince

\* A lookup that ends.
LEMMA ConcludeKeeps ==
    ASSUME NEW k, Shape(k), DocumentOK(k),
           NEW verdict \in {"found", "not_discoverable", "no_issuer", "unavailable"},
           k.purpose = "validate" /\ verdict = "found" => k.url = KeysURL(k),
           k.purpose \in {"authorize", "token"} => verdict # "no_issuer"
    PROVE  CallOK(conclude(k, verdict))
<1> DEFINE l == conclude(k, verdict)
<1>1. /\ DOMAIN l = DOMAIN k
      /\ l.phase = "done" /\ l.verdict = verdict /\ l.start = 0 /\ l.candidate = 0
      /\ l.purpose = k.purpose /\ l.begun = k.begun /\ l.doc = k.doc
      /\ l.discovered = k.discovered /\ l.url = k.url
  BY DEF conclude, Shape
<1> HIDE DEF l
<1>2. Shape(l) /\ DocumentOK(l) /\ KeysURL(l) = KeysURL(k)
  <2>1. Shape(l)
    BY <1>1 DEF Shape
  <2> QED
    BY <1>1, <2>1, SameDocument
<1>3. CallOK(l)
  BY <1>1, <1>2 DEF CallOK
<1> QED
  BY <1>3 DEF l

\* A lookup that has its URL ends, or is to go on to the keys behind that URL.
LEMMA FoundKeeps ==
    ASSUME HistoryOK, NEW k, Shape(k), DocumentOK(k), k.verdict = "none",
           NEW url, k.purpose = "validate" => url = KeysURL(k)
    PROVE  CallOK(found(k, url))
<1>1. CASE url = ""
  BY <1>1, ConcludeKeeps DEF found
<1> DEFINE l == [k EXCEPT !.url = url]
<1>2. /\ DOMAIN l = DOMAIN k
      /\ l.url = url /\ l.phase = k.phase /\ l.verdict = k.verdict
      /\ l.start = k.start /\ l.candidate = k.candidate
      /\ l.purpose = k.purpose /\ l.begun = k.begun /\ l.doc = k.doc
      /\ l.discovered = k.discovered
  BY DEF Shape
<1>3. Shape(l) /\ DocumentOK(l) /\ KeysURL(l) = KeysURL(k)
  <2> HIDE DEF l
  <2> QED
    BY <1>2, SameDocument DEF Shape
<1>4. CASE url # "" /\ k.purpose # "validate"
  <2>1. found(k, url) = conclude(l, "found")
    BY <1>4 DEF found
  <2> HIDE DEF l
  <2> QED
    BY <1>2, <1>3, <1>4, <2>1, ConcludeKeeps
<1>5. CASE url # "" /\ k.purpose = "validate"
  <2> DEFINE m == [k EXCEPT !.phase = "located", !.url = url, !.start = 0, !.candidate = 0]
  <2>1. found(k, url) = m
    BY <1>5 DEF found
  <2>2. /\ DOMAIN m = DOMAIN k
        /\ m.url = url /\ m.phase = "located" /\ m.verdict = k.verdict
        /\ m.start = 0 /\ m.candidate = 0
        /\ m.purpose = k.purpose /\ m.begun = k.begun /\ m.doc = k.doc
        /\ m.discovered = k.discovered
    BY DEF Shape
  <2> HIDE DEF m
  <2>3. Shape(m) /\ DocumentOK(m) /\ KeysURL(m) = KeysURL(k)
    BY <2>2, SameDocument DEF Shape, HistoryOK
  <2>4. CallOK(m)
    BY <1>5, <2>2, <2>3 DEF CallOK
  <2> QED
    BY <2>1, <2>4
<1> QED
  BY <1>1, <1>4, <1>5

\* A lookup with a document goes by what the document says.
LEMMA WithDocumentKeeps ==
    ASSUME HistoryOK, NEW k, Shape(k), k.verdict = "none", NEW doc \in Documents,
           ServedSince(doc, IF doc.issuer = "" THEN k.begun
                            ELSE k.begun - CacheTTL - FetchTimeout + 1)
    PROVE  CallOK(withDocument(k, doc))
<1> DEFINE l == [k EXCEPT !.doc = doc, !.discovered = TRUE]
<1>1. /\ DOMAIN l = DOMAIN k
      /\ l.url = k.url /\ l.phase = k.phase /\ l.verdict = k.verdict
      /\ l.start = k.start /\ l.candidate = k.candidate
      /\ l.purpose = k.purpose /\ l.begun = k.begun /\ l.doc = doc
      /\ l.discovered = TRUE
  BY DEF Shape
<1>2. withDocument(k, doc) = found(l, endpoint(k.purpose, doc))
  BY DEF withDocument
<1> HIDE DEF l
<1>3. Shape(l) /\ DocumentOK(l)
  BY <1>1 DEF Shape, DocumentOK, oldest
<1>4. l.purpose = "validate" => endpoint(k.purpose, doc) = KeysURL(l)
  BY <1>1 DEF endpoint, KeysURL
<1> QED
  BY <1>1, <1>2, <1>3, <1>4, FoundKeeps

\* A request to a candidate.
LEMMA RequestKeeps ==
    ASSUME HistoryOK, NEW k, Shape(k), ~k.discovered, k.verdict = "none",
           NEW candidate \in candidates
    PROVE  CallOK(request(k, candidate))
<1> DEFINE l == request(k, candidate)
<1>1. /\ DOMAIN l = DOMAIN k
      /\ l.url = k.url /\ l.phase = "request" /\ l.verdict = k.verdict
      /\ l.start = now /\ l.candidate = candidate
      /\ l.purpose = k.purpose /\ l.begun = k.begun /\ l.doc = k.doc
      /\ l.discovered = k.discovered
  BY DEF Shape, request
<1> HIDE DEF l
<1>2. Shape(l) /\ DocumentOK(l)
  BY <1>1 DEF Shape, DocumentOK, HistoryOK
<1>3. CallOK(l)
  BY <1>1, <1>2, Times DEF CallOK, Shape, HistoryOK
<1> QED
  BY <1>3 DEF l

\* A cached document that still answers is fresh enough for a lookup that
\* begins.
LEMMA CachedFresh ==
    ASSUME IInv, cached
    PROVE  /\ oidc.doc \in Documents /\ oidc.doc.issuer # ""
           /\ ServedSince(oidc.doc, now - CacheTTL - FetchTimeout + 1)
<1>1. /\ oidc.doc.issuer # "" /\ oidc.doc \in Documents
      /\ ServedSince(oidc.doc, oidc.time - FetchTimeout)
  BY DEF cached, IInv, CachesOK
<1>2. /\ now \in Int /\ oidc.time \in Int /\ oidc.time + CacheTTL > now
      /\ withdrawn[oidc.doc] \in Int
  BY <1>1, StoredTimes DEF cached
<1>3. /\ oidc.time - FetchTimeout \in Int /\ now - CacheTTL - FetchTimeout + 1 \in Int
      /\ now - CacheTTL - FetchTimeout + 1 <= oidc.time - FetchTimeout
  BY <1>2, Times
<1> QED
  BY <1>1, <1>2, <1>3, ServedEarlier

\* The steps of a lookup leave the IdP and the clock alone.
LEMMA StillOK ==
    ASSUME UNCHANGED <<cfg, now, idp, withdrawn>>, HistoryOK
    PROVE  /\ HistoryOK'
           /\ \A k : CallOK(k) => CallOK(k)'
<1>1. HistoryOK'
  BY DEF HistoryOK, Validate, endpointsKnown, brokerActive
<1>2. \A d, t : ServedSince(d, t) => ServedSince(d, t)'
  BY DEF ServedSince
<1>3. candidates' = candidates
  BY DEF candidates
<1>4. \A k : KeysURL(k)' = KeysURL(k)
  BY DEF KeysURL
<1>5. \A k : Shape(k) => Shape(k)'
  BY <1>3 DEF Shape, brokerActive
<1>6. \A k : DocumentOK(k) => DocumentOK(k)'
  BY <1>2 DEF DocumentOK, oldest
<1> QED
  BY <1>1, <1>2, <1>3, <1>4, <1>5, <1>6 DEF CallOK

\* A step of one lookup that keeps its own state and the caches in order keeps
\* the invariant.
LEMMA OneCallMoves ==
    ASSUME IInv, NEW c \in Calls, NEW k,
           call' = [call EXCEPT ![c] = k], CallOK(k),
           CachesOK', UNCHANGED <<cfg, now, idp, withdrawn>>
    PROVE  IInv'
<1>1. HistoryOK'
  BY StillOK DEF IInv
<1>2. \A d \in Calls : call'[d] = [phase |-> "idle"] \/ CallOK(call'[d])
  BY DEF IInv, CallsOK
<1>3. \A d \in Calls : call'[d] = [phase |-> "idle"] \/ CallOK(call[d])'
  BY <1>2, StillOK DEF IInv
<1>4. CallsOK'
  BY <1>3 DEF IInv, CallsOK
<1> QED
  BY <1>1, <1>4 DEF IInv

\* The caches keep when they are left alone.
LEMMA CachesStill ==
    ASSUME IInv, UNCHANGED <<now, idp, withdrawn, oidc>>, jwks'.time = jwks.time
    PROVE  CachesOK'
  BY DEF IInv, CachesOK, ServedSince
-----------------------------------------------------------------------------
\* A lookup begins; one for /authorize or /token has a setting or an issuer to
\* go by.
LEMMA BeginKeeps ==
    ASSUME IInv, NEW c \in Calls, NEW purpose \in Purposes, Begin(c, purpose)
    PROVE  IInv'
<1> DEFINE k == [phase |-> "begin", purpose |-> purpose, candidate |-> 0, start |-> 0,
                 begun |-> now, doc |-> NoDocument, discovered |-> FALSE, url |-> "",
                 verdict |-> "none"]
           l == IF override(purpose) # "" THEN found(k, override(purpose))
                ELSE IF cfg.Issuer = NoURL THEN conclude(k, "no_issuer")
                ELSE IF cached THEN withDocument(k, oidc.doc)
                ELSE request(k, 1)
<1>1. /\ call' = [call EXCEPT ![c] = l]
      /\ purpose # "validate" => brokerActive(cfg)
      /\ UNCHANGED <<cfg, now, oidc, jwks, idp, withdrawn>>
  BY DEF Begin
<1>2. /\ Shape(k) /\ DocumentOK(k) /\ k.verdict = "none" /\ ~k.discovered
      /\ k.purpose = purpose /\ k.begun = now /\ KeysURL(k) = cfg.JWKSURL
  <2>1. Shape(k)
    <3>1. now \in Nat /\ now <= now
      BY DEF IInv, HistoryOK
    <3> QED
      BY <1>1, <3>1 DEF Shape, Purposes
  <2> QED
    BY <2>1 DEF DocumentOK, KeysURL
<1>3. HistoryOK /\ CachesOK
  BY DEF IInv
<1> HIDE DEF k
<1>4. CallOK(l)
  <2>1. CASE override(purpose) # ""
    <3>1. k.purpose = "validate" => override(purpose) = KeysURL(k)
      BY <1>2 DEF override
    <3> QED
      BY <1>2, <1>3, <2>1, <3>1, FoundKeeps
  <2>2. CASE override(purpose) = "" /\ cfg.Issuer = NoURL
    <3>1. purpose \notin {"authorize", "token"}
      <4>1. Validate(cfg)
        BY <1>3 DEF HistoryOK
      <4>2. CASE purpose = "authorize"
        <5>1. brokerActive(cfg) /\ cfg.AuthURL = ""
          BY <1>1, <2>2, <4>2 DEF override
        <5> QED
          BY <2>2, <4>1, <5>1 DEF Validate, endpointsKnown
      <4>3. CASE purpose = "token"
        <5>1. brokerActive(cfg) /\ cfg.TokenURL = ""
          BY <1>1, <2>2, <4>3 DEF override
        <5> QED
          BY <2>2, <4>1, <5>1 DEF Validate, endpointsKnown
      <4> QED
        BY <4>2, <4>3
    <3> QED
      BY <1>2, <2>2, <3>1, ConcludeKeeps
  <2>3. CASE override(purpose) = "" /\ cfg.Issuer # NoURL /\ cached
    <3>1. /\ oidc.doc \in Documents
          /\ ServedSince(oidc.doc, IF oidc.doc.issuer = "" THEN k.begun
                                   ELSE k.begun - CacheTTL - FetchTimeout + 1)
      BY <1>2, <2>3, CachedFresh
    <3> QED
      BY <1>2, <1>3, <2>3, <3>1, WithDocumentKeeps
  <2>4. CASE override(purpose) = "" /\ cfg.Issuer # NoURL /\ ~cached
    BY <1>2, <1>3, <2>4, RequestKeeps, Candidates
  <2> QED
    BY <2>1, <2>2, <2>3, <2>4
<1> HIDE DEF l
<1> QED
  BY <1>1, <1>4, OneCallMoves, CachesStill

\* The state of a lookup that is under way.
LEMMA Underway ==
    ASSUME IInv, NEW c \in Calls, call[c].phase # "idle"
    PROVE  CallOK(call[c])
  BY DEF IInv, CallsOK

\* The IdP answers with the document it serves.
LEMMA ServerAnswersKeeps ==
    ASSUME IInv, NEW c \in Calls, ServerAnswers(c)
    PROVE  IInv'
<1> DEFINE x == call[c]
           doc == idp[x.candidate]
           k == [x EXCEPT !.phase = "answer", !.doc = doc]
<1>1. /\ x.phase = "request" /\ doc # Down /\ call' = [call EXCEPT ![c] = k]
      /\ UNCHANGED <<cfg, now, oidc, jwks, idp, withdrawn>>
  BY DEF ServerAnswers
<1>2. CallOK(x)
  BY <1>1, Underway
<1>3. x.candidate \in {1, 2}
  BY <1>1, <1>2, Candidates DEF CallOK
<1>4. doc \in Documents /\ \A t : ServedSince(doc, t)
  BY <1>1, <1>3 DEF IInv, HistoryOK, ServedSince
<1>5. /\ DOMAIN k = DOMAIN x
      /\ k.url = x.url /\ k.phase = "answer" /\ k.verdict = x.verdict
      /\ k.start = x.start /\ k.candidate = x.candidate
      /\ k.purpose = x.purpose /\ k.begun = x.begun /\ k.doc = doc
      /\ k.discovered = x.discovered
  <2> HIDE DEF x, doc
  <2> QED
    BY <1>2 DEF CallOK, Shape
<1> HIDE DEF x, doc, k
<1>6. Shape(k) /\ DocumentOK(k)
  BY <1>1, <1>2, <1>4, <1>5 DEF CallOK, Shape, DocumentOK
<1>7. CallOK(k)
  BY <1>1, <1>2, <1>4, <1>5, <1>6 DEF CallOK
<1> QED
  BY <1>1, <1>7, OneCallMoves, CachesStill

\* A document arrives: it was served during its request, so it is fresh for the
\* lookup and for whoever finds it in the cache.
LEMMA DocumentArrivesKeeps ==
    ASSUME IInv, NEW c \in Calls, DocumentArrives(c)
    PROVE  IInv'
<1> DEFINE x == call[c]
           doc == x.doc
           k == withDocument(x, doc)
<1>1. /\ x.phase = "answer" /\ call' = [call EXCEPT ![c] = k]
      /\ oidc' = [doc |-> doc, time |-> now]
      /\ UNCHANGED <<cfg, now, jwks, idp, withdrawn>>
  BY DEF DocumentArrives
<1>2. CallOK(x) /\ HistoryOK
  BY <1>1, Underway DEF IInv
<1> HIDE DEF x
<1>3. /\ doc \in Documents /\ ServedSince(doc, x.start) /\ Shape(x) /\ x.verdict = "none"
      /\ x.start \in Nat /\ x.begun \in Nat /\ now \in Nat
      /\ x.begun <= x.start /\ now <= x.start + FetchTimeout /\ x.start <= now
  BY <1>1, <1>2 DEF CallOK, Shape, HistoryOK
<1> HIDE DEF doc, k
<1>4. withdrawn[doc] \in Int
  BY <1>2, <1>3, Times DEF HistoryOK
<1>5. ServedSince(doc, IF doc.issuer = "" THEN x.begun
                       ELSE x.begun - CacheTTL - FetchTimeout + 1)
  <2>1. /\ x.begun \in Int /\ x.start \in Int
        /\ x.begun - CacheTTL - FetchTimeout + 1 \in Int
        /\ x.begun - CacheTTL - FetchTimeout + 1 <= x.start
    BY <1>3, Times
  <2> QED
    BY <1>3, <1>4, <2>1, ServedEarlier
<1>6. CallOK(k)
  BY <1>2, <1>3, <1>5, WithDocumentKeeps DEF k
<1>7. CachesOK'
  <2>1. ServedSince(doc, now - FetchTimeout)
    BY <1>3, <1>4, Times DEF ServedSince
  <2>2. oidc'.doc = doc /\ oidc'.time = now
    BY <1>1
  <2>3. ServedSince(oidc.doc, oidc.time - FetchTimeout)'
    BY <1>1, <2>1, <2>2 DEF ServedSince
  <2>4. oidc' \in [doc : Documents \union {NoDocument}, time : Nat \union {ZeroTime}]
    BY <1>1, <1>3
  <2>5. jwks'.time \in Nat \union {ZeroTime}
    BY <1>1 DEF IInv, CachesOK
  <2>6. oidc'.time <= now' /\ oidc'.doc \in Documents
    BY <1>1, <1>3, <2>2
  <2> QED
    BY <2>3, <2>4, <2>5, <2>6 DEF CachesOK
<1> QED
  BY <1>1, <1>6, <1>7, OneCallMoves

\* A request fails: the next candidate, if there is one.
LEMMA RequestFailsKeeps ==
    ASSUME IInv, NEW c \in Calls, RequestFails(c)
    PROVE  IInv'
<1> DEFINE x == call[c]
           k == [x EXCEPT !.doc = NoDocument]
           l == IF k.candidate + 1 \in candidates THEN request(k, k.candidate + 1)
                ELSE conclude(k, "unavailable")
<1>1. /\ x.phase \in {"request", "answer"} /\ call' = [call EXCEPT ![c] = l]
      /\ UNCHANGED <<cfg, now, oidc, jwks, idp, withdrawn>>
  BY DEF RequestFails
<1>2. CallOK(x) /\ HistoryOK
  BY <1>1, Underway DEF IInv
<1> HIDE DEF x
<1>3. /\ DOMAIN k = DOMAIN x
      /\ k.verdict = x.verdict /\ k.start = x.start /\ k.candidate = x.candidate
      /\ k.purpose = x.purpose /\ k.begun = x.begun /\ k.doc = NoDocument
      /\ k.discovered = x.discovered
  BY <1>2 DEF CallOK, Shape
<1> HIDE DEF k
<1>4. Shape(k) /\ DocumentOK(k) /\ k.verdict = "none" /\ ~k.discovered
  BY <1>1, <1>2, <1>3 DEF CallOK, Shape, DocumentOK
<1>5. CallOK(l)
  BY <1>2, <1>4, RequestKeeps, ConcludeKeeps
<1> HIDE DEF l
<1> QED
  BY <1>1, <1>5, OneCallMoves, CachesStill

\* A validation looks for its keys: cached ones that answer come from its URL,
\* whoever stored them.
LEMMA LookForKeysKeeps ==
    ASSUME IInv, NEW c \in Calls, LookForKeys(c)
    PROVE  IInv'
<1> DEFINE x == call[c]
           k == [x EXCEPT !.url = jwks.url]
           m == [x EXCEPT !.phase = "keys", !.start = now]
           l == IF keysCached(x.url) THEN conclude(k, "found") ELSE m
<1>1. /\ x.phase = "located" /\ call' = [call EXCEPT ![c] = l]
      /\ UNCHANGED <<cfg, now, oidc, jwks, idp, withdrawn>>
  BY DEF LookForKeys
<1>2. CallOK(x) /\ HistoryOK
  BY <1>1, Underway DEF IInv
<1> HIDE DEF x
<1>3. /\ Shape(x) /\ DocumentOK(x) /\ x.verdict = "none"
      /\ x.purpose = "validate" /\ x.url = KeysURL(x)
  BY <1>1, <1>2 DEF CallOK
<1>4. ASSUME keysCached(x.url) PROVE CallOK(l)
  <2>1. /\ DOMAIN k = DOMAIN x
        /\ k.url = jwks.url /\ k.start = x.start /\ k.candidate = x.candidate
        /\ k.purpose = x.purpose /\ k.begun = x.begun /\ k.doc = x.doc
        /\ k.discovered = x.discovered
    BY <1>3 DEF Shape
  <2>2. jwks.url = x.url /\ l = conclude(k, "found")
    BY <1>4 DEF keysCached
  <2> HIDE DEF k
  <2>3. Shape(k) /\ DocumentOK(k) /\ KeysURL(k) = KeysURL(x)
    BY <1>3, <2>1, SameDocument DEF Shape
  <2> QED
    BY <1>3, <2>1, <2>2, <2>3, ConcludeKeeps
<1>5. ASSUME ~keysCached(x.url) PROVE CallOK(l)
  <2>1. /\ DOMAIN m = DOMAIN x
        /\ m.url = x.url /\ m.phase = "keys" /\ m.verdict = x.verdict
        /\ m.start = now /\ m.candidate = x.candidate
        /\ m.purpose = x.purpose /\ m.begun = x.begun /\ m.doc = x.doc
        /\ m.discovered = x.discovered
    BY <1>3 DEF Shape
  <2>2. l = m
    BY <1>5
  <2> HIDE DEF m
  <2>3. Shape(m) /\ DocumentOK(m) /\ KeysURL(m) = KeysURL(x)
    BY <1>2, <1>3, <2>1, SameDocument DEF Shape, HistoryOK
  <2>4. m.begun <= m.start /\ m.start <= now /\ now <= m.start + FetchTimeout
    BY <1>2, <1>3, <2>1, Times DEF Shape, HistoryOK
  <2>5. CallOK(m)
    BY <1>3, <2>1, <2>3, <2>4 DEF CallOK
  <2> QED
    BY <2>2, <2>5
<1>6. CallOK(l)
  BY <1>4, <1>5
<1> HIDE DEF l
<1> QED
  BY <1>1, <1>6, OneCallMoves, CachesStill

\* Keys arrive, or do not.
LEMMA KeysKeep ==
    ASSUME IInv, NEW c \in Calls, KeysArrive(c) \/ KeysFail(c)
    PROVE  IInv'
<1>1. PICK verdict \in {"found", "unavailable"} :
        call' = [call EXCEPT ![c] = conclude(call[c], verdict)]
  BY DEF KeysArrive, KeysFail
<1>2. CallOK(call[c]) /\ call[c].phase = "keys"
  BY Underway DEF KeysArrive, KeysFail
<1>3. CallOK(conclude(call[c], verdict))
  BY <1>2, ConcludeKeeps DEF CallOK
<1>4. /\ UNCHANGED <<cfg, now, oidc, idp, withdrawn>>
      /\ jwks'.time \in Nat \union {ZeroTime}
  <2>1. call[c].start \in Nat /\ jwks.time \in Nat \union {ZeroTime}
    BY <1>2 DEF CallOK, Shape, IInv, CachesOK
  <2>2. CASE KeysArrive(c)
    BY <2>1, <2>2 DEF KeysArrive
  <2>3. CASE KeysFail(c)
    BY <2>1, <2>3 DEF KeysFail
  <2> QED
    BY <2>2, <2>3
<1>5. CachesOK'
  BY <1>4 DEF IInv, CachesOK, ServedSince
<1> QED
  BY <1>1, <1>3, <1>4, <1>5, OneCallMoves

\* The IdP changes a document: whatever was served until now was served now.
LEMMA ChangeKeeps ==
    ASSUME IInv, NEW candidate \in {1, 2}, NEW answer \in Documents \union {Down},
           Change(candidate, answer)
    PROVE  IInv'
<1>1. /\ idp' = [idp EXCEPT ![candidate] = answer]
      /\ withdrawn' = [d \in Documents |-> IF d = idp[candidate] THEN now ELSE withdrawn[d]]
      /\ UNCHANGED <<cfg, now, oidc, jwks, call>> /\ now \in Nat
  BY DEF Change, IInv, HistoryOK
<1>2. \A d \in Documents : withdrawn[d] \in Int /\ withdrawn[d] <= now
  BY StoredTimes
<1>3. HistoryOK'
  <2>1. idp' \in [{1, 2} -> Documents \union {Down}]
    BY <1>1 DEF IInv, HistoryOK
  <2>2. withdrawn' \in [Documents -> Nat \union {ZeroTime}]
    BY <1>1 DEF IInv, HistoryOK
  <2>3. \A d \in Documents : withdrawn'[d] <= now
    BY <1>1, <1>2
  <2>4. cfg' \in Configs /\ Validate(cfg')
    BY <1>1 DEF IInv, HistoryOK
  <2> QED
    BY <1>1, <2>1, <2>2, <2>3, <2>4 DEF HistoryOK
<1>4. ASSUME NEW d \in Documents, NEW t \in Int, ServedSince(d, t), t <= now
      PROVE  ServedSince(d, t)'
  <2>1. CASE d = idp[candidate]
    BY <1>1, <1>4, <2>1 DEF ServedSince
  <2>2. CASE d # idp[candidate]
    BY <1>1, <1>4, <2>2 DEF ServedSince, IInv, HistoryOK
  <2> QED
    BY <2>1, <2>2
<1>5. CachesOK'
  <2>1. oidc.time \in Int /\ oidc.time - FetchTimeout \in Int /\ oidc.time - FetchTimeout <= now
    BY StoredTimes, Times
  <2>2. ASSUME oidc.doc.issuer # ""
        PROVE  ServedSince(oidc.doc, oidc.time - FetchTimeout)'
    <3>1. oidc.doc \in Documents /\ ServedSince(oidc.doc, oidc.time - FetchTimeout)
      BY <2>2 DEF IInv, CachesOK
    <3>2. PICK d, t : d = oidc.doc /\ t = oidc.time - FetchTimeout
      OBVIOUS
    <3>3. ServedSince(d, t)'
      BY <1>4, <2>1, <3>1, <3>2
    <3> QED
      BY <1>1, <3>2, <3>3
  <2> QED
    BY <1>1, <2>2 DEF IInv, CachesOK, ServedSince
<1>6. ASSUME NEW k, CallOK(k)
      PROVE  CallOK(k)'
  <2>1. Shape(k)'
    BY <1>1, <1>6 DEF CallOK, Shape, candidates, brokerActive
  <2>2. DocumentOK(k)'
    <3>1. oldest(k) \in Int /\ oldest(k) <= now
      <4>1. k.begun \in Nat /\ k.begun <= now /\ now \in Nat
        BY <1>1, <1>6 DEF CallOK, Shape
      <4>2. CASE k.doc.issuer = ""
        <5>1. oldest(k) = k.begun
          BY <4>2 DEF oldest
        <5> QED
          BY <4>1, <5>1
      <4>3. CASE k.doc.issuer # ""
        <5>1. oldest(k) = k.begun - CacheTTL - FetchTimeout + 1
          BY <4>3 DEF oldest
        <5> QED
          BY <4>1, <5>1, Times
      <4> QED
        BY <4>2, <4>3
    <3>2. k.discovered => ServedSince(k.doc, oldest(k))'
      BY <1>4, <1>6, <3>1 DEF CallOK, DocumentOK, oldest
    <3> QED
      BY <1>6, <3>2 DEF CallOK, DocumentOK
  <2>3. k.phase = "answer" => ServedSince(k.doc, k.start)'
    BY <1>4, <1>6 DEF CallOK, Shape
  <2> QED
    BY <1>1, <1>6, <2>1, <2>2, <2>3 DEF CallOK, KeysURL, candidates
<1>7. CallsOK'
  BY <1>1, <1>6 DEF IInv, CallsOK
<1> QED
  BY <1>3, <1>5, <1>7 DEF IInv

\* Time passes, but no further than the timeout of a request.
LEMMA TickKeeps ==
    ASSUME IInv, Tick
    PROVE  IInv'
<1>1. /\ now' = now + 1 /\ now \in Nat
      /\ UNCHANGED <<cfg, oidc, jwks, idp, call, withdrawn>>
  BY DEF Tick, IInv, HistoryOK
<1>2. HistoryOK'
  <2>1. \A d \in Documents : withdrawn[d] \in Int /\ withdrawn[d] <= now
    BY StoredTimes
  <2>2. cfg' \in Configs /\ Validate(cfg')
    BY <1>1 DEF IInv, HistoryOK
  <2>3. \A d \in Documents : withdrawn[d] <= now + 1
    BY <1>1, <2>1
  <2> QED
    BY <1>1, <2>2, <2>3 DEF IInv, HistoryOK
<1>3. CachesOK'
  <2>1. oidc.time \in Int /\ oidc.time <= now
    BY StoredTimes
  <2>2. oidc.time <= now + 1
    BY <1>1, <2>1
  <2> QED
    BY <1>1, <2>2 DEF IInv, CachesOK, ServedSince
<1>4. CallsOK'
  <2>1. ASSUME NEW c \in Calls
        PROVE  call[c] = [phase |-> "idle"] \/ CallOK(call[c])'
    <3> DEFINE k == call[c]
    <3>1. k = [phase |-> "idle"] \/ CallOK(k)
      BY DEF IInv, CallsOK
    <3>2. CASE CallOK(k)
      <4>1. k.begun \in Nat /\ k.start \in Nat /\ k.begun <= now
        BY <3>2 DEF CallOK, Shape
      <4>2. /\ k.begun <= now'
            /\ k.phase \in {"request", "answer", "keys"} =>
                 k.start <= now' /\ now' <= k.start + FetchTimeout
        BY <1>1, <3>2, <4>1, Times DEF CallOK, Tick
      <4>3. Shape(k)'
        BY <1>1, <3>2, <4>2 DEF CallOK, Shape, candidates, brokerActive
      <4>4. DocumentOK(k)'
        BY <1>1, <3>2 DEF CallOK, DocumentOK, oldest, ServedSince
      <4> QED
        BY <1>1, <3>2, <4>2, <4>3, <4>4 DEF CallOK, KeysURL, candidates, ServedSince
    <3> QED
      BY <3>1, <3>2
  <2> QED
    BY <1>1, <2>1 DEF IInv, CallsOK
<1> QED
  BY <1>2, <1>3, <1>4 DEF IInv

\* The invariant holds initially.
LEMMA InitIInv == Init => IInv
<1> SUFFICES ASSUME Init PROVE IInv
  OBVIOUS
<1>1. HistoryOK
  BY Times, DiscoveryAssumption DEF Init, HistoryOK
<1>2. CachesOK
  BY Times DEF Init, CachesOK, NoDocument
<1>3. CallsOK
  BY DEF Init, CallsOK
<1> QED
  BY <1>1, <1>2, <1>3 DEF IInv

\* Every step keeps the invariant.
LEMMA NextIInv == IInv /\ [Next]_vars => IInv'
<1> SUFFICES ASSUME IInv, [Next]_vars PROVE IInv'
  OBVIOUS
<1>1. ASSUME NEW c \in Calls, NEW purpose \in Purposes, Begin(c, purpose) PROVE IInv'
  BY <1>1, BeginKeeps
<1>2. ASSUME NEW c \in Calls, Step(c) PROVE IInv'
  BY <1>2, ServerAnswersKeeps, DocumentArrivesKeeps, RequestFailsKeeps,
     LookForKeysKeeps, KeysKeep DEF Step
<1>3. ASSUME NEW candidate \in {1, 2}, NEW answer \in Documents \union {Down},
             Change(candidate, answer)
      PROVE  IInv'
  BY <1>3, ChangeKeeps
<1>4. CASE Tick
  BY <1>4, TickKeeps
<1>5. CASE UNCHANGED vars
  <2>1. HistoryOK' /\ CachesOK'
    BY <1>5, StillOK, CachesStill DEF IInv, vars
  <2>2. CallsOK'
    BY <1>5, StillOK DEF IInv, CallsOK, vars
  <2> QED
    BY <2>1, <2>2 DEF IInv
<1> QED
  BY <1>1, <1>2, <1>3, <1>4, <1>5 DEF Next

\* The invariant the theorems rest on holds in every state.
THEOREM Inductive == Spec => []IInv
  BY InitIInv, NextIInv, PTL DEF Spec
-----------------------------------------------------------------------------
\* Lookups keep their shape, and ask only the candidates that the issuer has
\* (fetchOIDCDiscovery).
THEOREM TypeCorrect == Spec => []TypeOK
<1>1. IInv => TypeOK
  <2> SUFFICES ASSUME IInv PROVE TypeOK
    OBVIOUS
  <2>1. /\ cfg \in Configs /\ now \in Nat
        /\ oidc \in [doc : Documents \union {NoDocument}, time : Nat \union {ZeroTime}]
        /\ jwks.time \in Nat \union {ZeroTime}
    BY DEF IInv, HistoryOK, CachesOK
  <2>2. ASSUME NEW c \in Calls, call[c].phase # "idle"
        PROVE  /\ call[c].phase \in {"request", "answer", "located", "keys", "done"}
               /\ call[c].purpose \in Purposes
               /\ call[c].candidate \in candidates \union {0}
               /\ call[c].doc \in Documents \union {NoDocument}
               /\ call[c].start \in Nat /\ call[c].begun \in Nat
               /\ call[c].verdict \in {"none", "found", "not_discoverable", "no_issuer",
                                       "unavailable"}
    <3>1. CallOK(call[c])
      BY <2>2, Underway
    <3> QED
      BY <3>1 DEF CallOK, Shape
  <2> QED
    BY <2>1, <2>2 DEF TypeOK
<1> QED
  BY <1>1, Inductive, PTL

\* No handler goes by a document that the IdP withdrew more than a time to live
\* and a timeout before the lookup began, and a document without an issuer is
\* never served from the cache (fetchOIDCDiscovery).
THEOREM DiscoveryFreshHolds == Spec => []DiscoveryFresh
<1>1. IInv => DiscoveryFresh
  <2> SUFFICES ASSUME IInv, NEW c \in Calls, Done(c), call[c].discovered
               PROVE  ServedSince(call[c].doc, oldest(call[c]))
    BY DEF DiscoveryFresh, oldest
  <2>1. CallOK(call[c])
    BY Underway DEF Done
  <2> QED
    BY <2>1 DEF CallOK, DocumentOK
<1> QED
  BY <1>1, Inductive, PTL

\* The keys that judge a token are those behind the jwks_uri of the document
\* the validation went by, or of the setting, whatever other validations store
\* in the two caches between its two looks at them (resolveJWKSURL, fetchJWKS).
THEOREM KeysOfTheDocumentHolds == Spec => []KeysOfTheDocument
<1>1. IInv => KeysOfTheDocument
  BY DEF IInv, CallsOK, CallOK, KeysURL, KeysOfTheDocument, Done
<1> QED
  BY <1>1, Inductive, PTL

\* Under every Config that Validate accepts, /authorize and /token have an IdP
\* to ask (Config.Validate, resolveUpstreamAuthURL, resolveUpstreamTokenURL).
THEOREM ValidConfigSufficesHolds == Spec => []ValidConfigSuffices
<1>1. IInv => ValidConfigSuffices
  BY DEF IInv, CallsOK, CallOK, ValidConfigSuffices, Done
<1> QED
  BY <1>1, Inductive, PTL
-----------------------------------------------------------------------------
(* How far a lookup can still go.                                          *)

\* The steps before its verdict: a request and its answer at each candidate,
\* the look at the key cache, and the keys.
stepsLeft(k) ==
    CASE k.phase \in {"idle", "done"} -> 0
      [] k.phase = "keys" -> 1
      [] k.phase = "located" -> 2
      [] OTHER -> (IF k.phase = "request" THEN 4 ELSE 3) + (IF k.candidate = 1 THEN 2 ELSE 0)

Active(c) == call[c].phase \notin {"idle", "done"}

\* A lookup that goes on has one step less to go, and nobody else's step, no
\* change of the IdP and no time that passes gives it more.
GoesOn ==
    \A c \in Calls :
        /\ Step(c) => stepsLeft(call[c])' < stepsLeft(call[c])
        /\ Active(c) => stepsLeft(call[c])' <= stepsLeft(call[c])

\* A lookup that has its document ends or goes on to the keys (found).
LEMMA DocumentLeaves ==
    ASSUME NEW k, Shape(k), NEW doc
    PROVE  withDocument(k, doc).phase \in {"located", "done"}
<1> DEFINE l == [k EXCEPT !.doc = doc, !.discovered = TRUE]
<1>1. DOMAIN l = DOMAIN k
  OBVIOUS
<1>2. "phase" \in DOMAIN l
  BY <1>1 DEF Shape
<1> HIDE DEF l
<1>3. \A url : found(l, url).phase \in {"located", "done"}
  BY <1>2 DEF found, conclude
<1> QED
  BY <1>3 DEF withDocument, l

\* What a lookup's step makes of it.
LEMMA StepLeaves ==
    ASSUME IInv, NEW c \in Calls, Step(c)
    PROVE  stepsLeft(call'[c]) < stepsLeft(call[c])
<1> DEFINE x == call[c]
<1>1. DOMAIN call = Calls /\ x.phase # "idle"
  BY DEF IInv, CallsOK, Step, ServerAnswers, DocumentArrives, RequestFails, LookForKeys,
         KeysArrive, KeysFail
<1>2. /\ Shape(x) /\ "phase" \in DOMAIN x /\ "candidate" \in DOMAIN x
      /\ x.phase \in {"request", "answer"} => x.candidate \in {1, 2}
  BY <1>1, Underway, Candidates DEF CallOK, Shape
<1>3. CASE ServerAnswers(c)
  <2>1. call'[c] = [x EXCEPT !.phase = "answer", !.doc = idp[x.candidate]] /\ x.phase = "request"
    BY <1>1, <1>3 DEF ServerAnswers
  <2>2. call'[c].phase = "answer" /\ call'[c].candidate = x.candidate
    BY <1>2, <2>1
  <2> QED
    BY <2>1, <2>2 DEF stepsLeft
<1>4. CASE DocumentArrives(c)
  <2>1. call'[c] = withDocument(x, x.doc) /\ x.phase = "answer"
    BY <1>1, <1>4 DEF DocumentArrives
  <2>2. call'[c].phase \in {"located", "done"}
    BY <1>2, <2>1, DocumentLeaves
  <2> QED
    BY <2>1, <2>2 DEF stepsLeft
<1>5. CASE RequestFails(c)
  <2> DEFINE k == [x EXCEPT !.doc = NoDocument]
  <2>1. /\ call'[c] = IF k.candidate + 1 \in candidates THEN request(k, k.candidate + 1)
                      ELSE conclude(k, "unavailable")
        /\ x.phase \in {"request", "answer"}
    BY <1>1, <1>5 DEF RequestFails
  <2>2. DOMAIN k = DOMAIN x /\ k.candidate = x.candidate
    BY <1>2
  <2> HIDE DEF k
  <2>3. CASE k.candidate + 1 \in candidates
    <3>1. x.candidate = 1
      BY <1>2, <2>1, <2>2, <2>3, Candidates
    <3>2. call'[c].phase = "request" /\ call'[c].candidate = 2
      BY <1>2, <2>1, <2>2, <2>3, <3>1 DEF request
    <3> QED
      BY <2>1, <3>1, <3>2 DEF stepsLeft
  <2>4. CASE k.candidate + 1 \notin candidates
    <3>1. call'[c].phase = "done"
      BY <1>2, <2>1, <2>2, <2>4 DEF conclude
    <3> QED
      BY <2>1, <3>1 DEF stepsLeft
  <2> QED
    BY <2>3, <2>4
<1>6. CASE LookForKeys(c)
  <2> DEFINE k == [x EXCEPT !.url = jwks.url]
             m == [x EXCEPT !.phase = "keys", !.start = now]
  <2>1. /\ call'[c] = IF keysCached(x.url) THEN conclude(k, "found") ELSE m
        /\ x.phase = "located"
    BY <1>1, <1>6 DEF LookForKeys
  <2>2. DOMAIN k = DOMAIN x /\ m.phase = "keys"
    BY <1>2
  <2>3. conclude(k, "found").phase = "done"
    BY <1>2, <2>2 DEF conclude
  <2>4. call'[c].phase \in {"keys", "done"}
    BY <2>1, <2>2, <2>3
  <2> QED
    BY <2>1, <2>4 DEF stepsLeft
<1>7. CASE KeysArrive(c) \/ KeysFail(c)
  <2>1. PICK verdict : call'[c] = conclude(x, verdict) /\ x.phase = "keys"
    BY <1>1, <1>7 DEF KeysArrive, KeysFail
  <2>2. call'[c].phase = "done"
    BY <1>2, <2>1 DEF conclude
  <2> QED
    BY <2>1, <2>2 DEF stepsLeft
<1> QED
  BY <1>3, <1>4, <1>5, <1>6, <1>7 DEF Step

\* Every other step leaves a lookup that is under way alone.
LEMMA OthersLeave ==
    ASSUME IInv, NEW c \in Calls, Active(c), [Next]_vars, ~Step(c)
    PROVE  call'[c] = call[c]
<1>1. DOMAIN call = Calls /\ call[c].phase # "idle"
  BY DEF IInv, CallsOK, Active
<1>2. ASSUME NEW d \in Calls, NEW purpose \in Purposes, Begin(d, purpose)
      PROVE  call'[c] = call[c]
  BY <1>1, <1>2 DEF Begin
<1>3. ASSUME NEW d \in Calls, Step(d)
      PROVE  call'[c] = call[c]
  BY <1>1, <1>3 DEF Step, ServerAnswers, DocumentArrives, RequestFails, LookForKeys,
                    KeysArrive, KeysFail
<1>4. CASE UNCHANGED call
  BY <1>4
<1> QED
  BY <1>2, <1>3, <1>4 DEF Next, Change, Tick, vars

\* The work of a lookup is bounded, whatever the IdP, the caches and the others
\* do meanwhile: at most a request to each candidate and one for the keys, and
\* each of its steps is one less (fetchOIDCDiscovery).  With the fairness of
\* Spec this is why a lookup ends.
THEOREM LookupsGoOn == Spec => [][GoesOn]_vars
<1>1. ASSUME IInv, [Next]_vars
      PROVE  GoesOn
  <2>1. ASSUME NEW c \in Calls
        PROVE  /\ Step(c) => (stepsLeft(call[c]))' < stepsLeft(call[c])
               /\ Active(c) => (stepsLeft(call[c]))' <= stepsLeft(call[c])
    <3>1. /\ stepsLeft(call[c]) \in Nat
          /\ (stepsLeft(call[c]))' = stepsLeft(call'[c])
          /\ stepsLeft(call'[c]) \in Nat
      BY DEF stepsLeft
    <3>2. CASE Step(c)
      BY <1>1, <3>1, <3>2, StepLeaves
    <3>3. CASE ~Step(c)
      BY <1>1, <3>1, <3>3, OthersLeave
    <3> QED
      BY <3>2, <3>3
  <2> QED
    BY <2>1 DEF GoesOn
<1> QED
  BY <1>1, Inductive, PTL DEF Spec
-----------------------------------------------------------------------------
\* What begins with a well-known path begins with its first pieces, and is
\* longer.
LEMMA PrefixOfPath ==
    ASSUME NEW S, NEW path \in Seq(S), NEW m \in WellKnown, Ext!IsStrictPrefix(m, path)
    PROVE  Len(path) > 4 /\ path[2] = ".well-known"
<1>1. PICK name : m = <<"/", ".well-known", "/", name>>
  BY DEF WellKnown, wellKnownPath, protectedResourcePath, authorizationServerPath,
         openIDConfigurationPath
<1>2. /\ m \in Seq({"/", ".well-known", name}) /\ Len(m) = 4 /\ m[2] = ".well-known"
      /\ Len(m) <= Len(path) /\ SubSeq(m, 1, Len(m)) = SubSeq(path, 1, Len(m)) /\ m # path
  BY <1>1 DEF Ext!IsStrictPrefix, Ext!IsPrefix
<1>3. \A i \in 1 .. 4 : m[i] = path[i]
  <2>1. \A i \in 1 .. 4 : SubSeq(m, 1, 4)[i] = m[i] /\ SubSeq(path, 1, 4)[i] = path[i]
    BY <1>2
  <2> QED
    BY <1>2, <2>1
<1>4. Len(path) # 4
  BY <1>2, <1>3
<1> QED
  BY <1>2, <1>3, <1>4

\* Paths that are short or begin otherwise are plain.
LEMMA PlainPath ==
    ASSUME NEW S, NEW path \in Seq(S), Len(path) <= 4 \/ path[2] # ".well-known"
    PROVE  Plain(path)
  BY PrefixOfPath DEF Plain

\* A plain path holds no prefix.
LEMMA NoSuffix ==
    ASSUME NEW path, Plain(path), NEW markers \in SUBSET WellKnown
    PROVE  suffixPrefix(path, markers) = <<>>
<1>1. {m \in markers : Ext!IsStrictPrefix(m, path)} = {}
  BY DEF Plain
<1> QED
  BY <1>1 DEF suffixPrefix

\* A plain request is answered under a base URL that its path has no part in.
LEMMA BaseOfPlain ==
    ASSUME NEW c, NEW r, Plain(r.path)
    PROVE  /\ authServerPrefix(c, r) = firstPath(c.PublicAuthServerURL.path, c.Issuer.path)
           /\ resourcePrefix(c, r) = firstPath(c.PublicResourceURL.path, c.Audience.path)
<1>1. /\ suffixPrefix(r.path, {authorizationServerPath, openIDConfigurationPath}) = <<>>
      /\ suffixPrefix(r.path, {protectedResourcePath, authorizationServerPath,
                               openIDConfigurationPath}) = <<>>
  BY NoSuffix DEF WellKnown
<1> QED
  BY <1>1 DEF authServerPrefix, resourcePrefix, firstPath, pathFromConfiguredURL

\* Two plain requests to one server are answered under one base URL.
LEMMA BasesAgree ==
    ASSUME NEW c, NEW r1, NEW r2, Plain(r1.path), Plain(r2.path)
    PROVE  /\ SameServer(c.PublicAuthServerURL, r1, r2) =>
                authServerBaseURL(c, r1) = authServerBaseURL(c, r2)
           /\ SameServer(c.PublicResourceURL, r1, r2) =>
                resourceBaseURL(c, r1) = resourceBaseURL(c, r2)
  BY BaseOfPlain DEF SameServer, authServerBaseURL, resourceBaseURL
-----------------------------------------------------------------------------
\* The requests of a handler come in at its routes.
LEMMA ArrivalsAtRoutes ==
    ASSUME NEW handler, NEW r \in Arrivals(handler)
    PROVE  \E route \in RegisterRoutes(cfg) : route.handler = handler /\ r.path = route.path
  BY DEF Arrivals, at

\* Where the handlers are.
LEMMA Routes ==
    ASSUME NEW route \in RegisterRoutes(cfg)
    PROVE  /\ route.handler # "protected_resource" => brokerActive(cfg)
           /\ route.handler = "protected_resource" => route.path = protectedResourcePath
           /\ route.handler = "as_metadata" => route.path \in aliases(authorizationServerPath)
           /\ route.handler = "openid" => route.path \in aliases(openIDConfigurationPath)
           /\ route.handler = "authorize" =>
                route.path \in {authorizationPath(cfg), oauthPath("authorize")}
           /\ route.handler = "token" => route.path \in {tokenPath(cfg), oauthPath("token")}
<1>1. CASE route = [path |-> protectedResourcePath, handler |-> "protected_resource"]
  BY <1>1
<1>2. CASE brokerActive(cfg) /\ \E p \in aliases(authorizationServerPath) :
             route = [path |-> p, handler |-> "as_metadata"]
  BY <1>2
<1>3. CASE brokerActive(cfg) /\ \E p \in aliases(openIDConfigurationPath) :
             route = [path |-> p, handler |-> "openid"]
  BY <1>3
<1>4. CASE brokerActive(cfg) /\ route = [path |-> oauthPath("register"), handler |-> "register"]
  BY <1>4
<1>5. CASE brokerActive(cfg) /\ \E p \in {authorizationPath(cfg), oauthPath("authorize")} :
             route = [path |-> p, handler |-> "authorize"]
  BY <1>5
<1>6. CASE brokerActive(cfg) /\ \E p \in {callbackPath(cfg), oauthPath("callback")} :
             route = [path |-> p, handler |-> "callback"]
  BY <1>6
<1>7. CASE brokerActive(cfg) /\ \E p \in {tokenPath(cfg), oauthPath("token")} :
             route = [path |-> p, handler |-> "token"]
  BY <1>7
<1> QED
  BY <1>1, <1>2, <1>3, <1>4, <1>5, <1>6, <1>7, Zenon DEF RegisterRoutes, endpointRoutes

\* What is mounted, if a broker is active.
LEMMA Mounted ==
    /\ [path |-> protectedResourcePath, handler |-> "protected_resource"] \in RegisterRoutes(cfg)
    /\ brokerActive(cfg) =>
        /\ [path |-> authorizationPath(cfg), handler |-> "authorize"] \in RegisterRoutes(cfg)
        /\ [path |-> callbackPath(cfg), handler |-> "callback"] \in RegisterRoutes(cfg)
        /\ [path |-> tokenPath(cfg), handler |-> "token"] \in RegisterRoutes(cfg)
  BY DEF RegisterRoutes, endpointRoutes

\* The requests of the protected-resource handler, /authorize and /token are
\* plain, those of the metadata handlers are unless they ask for the alias
\* that ends in /oauth.
LEMMA PlainArrivals ==
    ASSUME cfg \in Configs
    PROVE  /\ \A r \in Arrivals("protected_resource") : Plain(r.path)
           /\ \A r \in Metadata : brokerActive(cfg) /\ (Ext!Last(r.path) # "oauth" => Plain(r.path))
           /\ PlainPaths => \A r \in Arrivals("authorize") \union Arrivals("token") : Plain(r.path)
<1>1. ASSUME NEW name
      PROVE  /\ Plain(wellKnownPath(name)) /\ Plain(oauthPath(name))
             /\ Plain(<<"/", "oauth">> \o wellKnownPath(name))
  <2> DEFINE S == {"/", ".well-known", "oauth", name}
  <2>1. /\ wellKnownPath(name) \in Seq(S) /\ Len(wellKnownPath(name)) <= 4
        /\ oauthPath(name) \in Seq(S) /\ Len(oauthPath(name)) <= 4
    BY DEF wellKnownPath, oauthPath
  <2>2. /\ <<"/", "oauth">> \o wellKnownPath(name) \in Seq(S)
        /\ (<<"/", "oauth">> \o wellKnownPath(name))[2] # ".well-known"
    BY DEF wellKnownPath
  <2> HIDE DEF S
  <2> QED
    BY <2>1, <2>2, PlainPath
<1>2. ASSUME NEW r \in Arrivals("protected_resource") PROVE Plain(r.path)
  <2>1. PICK route \in RegisterRoutes(cfg) :
          route.handler = "protected_resource" /\ r.path = route.path
    BY ArrivalsAtRoutes
  <2>2. r.path = protectedResourcePath
    BY <2>1, Routes
  <2> QED
    BY <1>1, <2>2 DEF protectedResourcePath
<1>3. ASSUME NEW r \in Metadata
      PROVE  brokerActive(cfg) /\ (Ext!Last(r.path) # "oauth" => Plain(r.path))
  <2>1. PICK name : brokerActive(cfg) /\ r.path \in aliases(wellKnownPath(name))
    <3>1. CASE r \in Arrivals("as_metadata")
      <4>1. PICK route \in RegisterRoutes(cfg) :
              route.handler = "as_metadata" /\ r.path = route.path
        BY <3>1, ArrivalsAtRoutes
      <4>2. brokerActive(cfg) /\ r.path \in aliases(authorizationServerPath)
        BY <4>1, Routes
      <4> QED
        BY <4>2 DEF authorizationServerPath
    <3>2. CASE r \in Arrivals("openid")
      <4>1. PICK route \in RegisterRoutes(cfg) :
              route.handler = "openid" /\ r.path = route.path
        BY <3>2, ArrivalsAtRoutes
      <4>2. brokerActive(cfg) /\ r.path \in aliases(openIDConfigurationPath)
        BY <4>1, Routes
      <4> QED
        BY <4>2 DEF openIDConfigurationPath
    <3> QED
      BY <3>1, <3>2 DEF Metadata
  <2>2. Ext!Last(wellKnownPath(name) \o <<"/", "oauth">>) = "oauth"
    BY DEF Ext!Last, wellKnownPath
  <2> QED
    BY <1>1, <2>1, <2>2 DEF aliases
<1>4. ASSUME PlainPaths, NEW r \in Arrivals("authorize") \union Arrivals("token")
      PROVE  Plain(r.path)
  <2>1. Plain(authorizationPath(cfg)) /\ Plain(tokenPath(cfg))
    BY <1>4 DEF PlainPaths
  <2>2. CASE r \in Arrivals("authorize")
    <3>1. PICK route \in RegisterRoutes(cfg) :
            route.handler = "authorize" /\ r.path = route.path
      BY <2>2, ArrivalsAtRoutes
    <3>2. r.path \in {authorizationPath(cfg), oauthPath("authorize")}
      BY <3>1, Routes
    <3> QED
      BY <1>1, <2>1, <3>2
  <2>3. CASE r \in Arrivals("token")
    <3>1. PICK route \in RegisterRoutes(cfg) :
            route.handler = "token" /\ r.path = route.path
      BY <2>3, ArrivalsAtRoutes
    <3>2. r.path \in {tokenPath(cfg), oauthPath("token")}
      BY <3>1, Routes
    <3> QED
      BY <1>1, <2>1, <3>2
  <2> QED
    BY <2>2, <2>3
<1> QED
  BY <1>2, <1>3, <1>4

\* The path of a URL below a base.
LEMMA Joined ==
    ASSUME NEW base, "path" \in DOMAIN base, NEW path
    PROVE  joinURLPath(base, path).path = below(base.path, path)
<1>1. DOMAIN normalizeURL(base) = DOMAIN base /\ normalizeURL(base).path = base.path
  BY DEF normalizeURL
<1> QED
  BY <1>1 DEF joinURLPath

\* Base URLs are URLs; public ones are as configured.
LEMMA BaseURLs ==
    ASSUME cfg \in Configs, NEW r
    PROVE  /\ "path" \in DOMAIN authServerBaseURL(cfg, r)
           /\ authServerBaseURL(cfg, r).path =
                IF cfg.PublicAuthServerURL # NoURL THEN cfg.PublicAuthServerURL.path
                ELSE authServerPrefix(cfg, r)
           /\ "path" \in DOMAIN resourceBaseURL(cfg, r)
           /\ resourceBaseURL(cfg, r).path =
                IF cfg.PublicResourceURL # NoURL THEN cfg.PublicResourceURL.path
                ELSE resourcePrefix(cfg, r)
<1>1. cfg.PublicAuthServerURL \in URLs /\ cfg.PublicResourceURL \in URLs
  BY DeploymentAssumption
<1>2. ASSUME NEW u \in URLs
      PROVE  "path" \in DOMAIN normalizeURL(u) /\ normalizeURL(u).path = u.path
  <2>1. DOMAIN u = {"origin", "path", "slash"}
    BY DEF URLs
  <2> QED
    BY <2>1 DEF normalizeURL
<1>3. CASE cfg.PublicAuthServerURL # NoURL /\ cfg.PublicResourceURL # NoURL
  BY <1>1, <1>2, <1>3 DEF authServerBaseURL, resourceBaseURL
<1>4. CASE cfg.PublicAuthServerURL = NoURL \/ cfg.PublicResourceURL = NoURL
  BY <1>1, <1>2, <1>4 DEF authServerBaseURL, resourceBaseURL
<1> QED
  BY <1>3, <1>4
-----------------------------------------------------------------------------
\* Whatever paths are configured, what the metadata, the challenge and the IdP
\* are told leads to a handler (asMetadata, challengeHeader, callbackURL
\* against RegisterRoutes).
THEOREM AdvertisedIsMountedHolds == Spec => []AdvertisedIsMounted
<1>1. IInv => AdvertisedIsMounted
  <2> SUFFICES ASSUME IInv PROVE AdvertisedIsMounted
    OBVIOUS
  <2>1. cfg \in Configs
    BY DEF IInv, HistoryOK
  <2>2. NoURL.path = <<>>
    BY DEF NoURL, URL
  <2>3. ASSUME NEW r \in Metadata, Canonical(r)
        PROVE  /\ brokerActive(cfg)
               /\ \A path : joinURLPath(authServerBaseURL(cfg, r), path).path
                              = below(cfg.PublicAuthServerURL.path, path)
    <3>1. cfg.PublicAuthServerURL # NoURL \/ authServerPrefix(cfg, r) = cfg.PublicAuthServerURL.path
      BY <2>1, <2>2, <2>3, PlainArrivals, BaseOfPlain DEF Canonical, firstPath
    <3>2. /\ "path" \in DOMAIN authServerBaseURL(cfg, r)
          /\ authServerBaseURL(cfg, r).path = cfg.PublicAuthServerURL.path
      BY <2>1, <3>1, BaseURLs
    <3> QED
      BY <2>1, <2>3, <3>2, Joined, PlainArrivals
  <2>4. ASSUME NEW o \in Origins, cfg.PublicResourceURL # NoURL \/ cfg.Audience.path = <<>>
        PROVE  challengeHeader(cfg, at(o, <<"/", "mcp">>)).path
                 = below(cfg.PublicResourceURL.path, protectedResourcePath)
    <3> DEFINE r == at(o, <<"/", "mcp">>)
    <3>1. Plain(r.path)
      <4>1. r.path = <<"/", "mcp">> /\ <<"/", "mcp">> \in Seq({"/", "mcp"}) /\ Len(<<"/", "mcp">>) <= 4
        BY DEF at
      <4> QED
        BY <4>1, PlainPath
    <3> HIDE DEF r
    <3>2. cfg.PublicResourceURL # NoURL \/ resourcePrefix(cfg, r) = cfg.PublicResourceURL.path
      BY <2>2, <2>4, <3>1, BaseOfPlain DEF firstPath
    <3>3. /\ "path" \in DOMAIN resourceBaseURL(cfg, r)
          /\ resourceBaseURL(cfg, r).path = cfg.PublicResourceURL.path
      BY <2>1, <3>2, BaseURLs
    <3>4. challengeHeader(cfg, r).path = below(cfg.PublicResourceURL.path, protectedResourcePath)
      BY <3>3, Joined DEF challengeHeader
    <3> QED
      BY <3>4 DEF r
  <2>5. \A r \in Metadata : Canonical(r) =>
          /\ LeadsTo(asMetadata(cfg, r).authorization_endpoint, cfg.PublicAuthServerURL, "authorize")
          /\ LeadsTo(asMetadata(cfg, r).token_endpoint, cfg.PublicAuthServerURL, "token")
          /\ LeadsTo(callbackURL(cfg, r), cfg.PublicAuthServerURL, "callback")
    BY <2>3, Mounted DEF asMetadata, callbackURL, LeadsTo
  <2>6. \A o \in Origins : cfg.PublicResourceURL # NoURL \/ cfg.Audience.path = <<>> =>
          LeadsTo(challengeHeader(cfg, at(o, <<"/", "mcp">>)), cfg.PublicResourceURL,
                  "protected_resource")
    BY <2>4, Mounted DEF LeadsTo
  <2> QED
    BY <2>5, <2>6 DEF AdvertisedIsMounted
<1> QED
  BY <1>1, Inductive, PTL

\* With plain paths, /authorize, /token and the metadata tell the IdP and the
\* client the same redirect_uri and the same audience (callbackURL,
\* tokenEndpointURL, asMetadata).
THEOREM RequestsAgreeHolds == Spec => []RequestsAgree
<1>1. IInv => RequestsAgree
  <2> SUFFICES ASSUME IInv, PlainPaths PROVE RequestsAgree
    BY DEF RequestsAgree
  <2>1. cfg \in Configs
    BY DEF IInv, HistoryOK
  <2>2. ASSUME NEW r1 \in Arrivals("authorize"), NEW r2 \in Arrivals("token"),
               SameServer(cfg.PublicAuthServerURL, r1, r2)
        PROVE  callbackURL(cfg, r1) = callbackURL(cfg, r2)
    BY <2>1, <2>2, PlainArrivals, BasesAgree DEF callbackURL
  <2>3. ASSUME NEW r1 \in Metadata, NEW r2 \in Arrivals("token"),
               Canonical(r1), SameServer(cfg.PublicAuthServerURL, r1, r2)
        PROVE  asMetadata(cfg, r1).token_endpoint = tokenEndpointURL(cfg, r2)
    <3>1. authServerBaseURL(cfg, r1) = authServerBaseURL(cfg, r2)
      <4>1. CASE cfg.PublicAuthServerURL # NoURL
        BY <4>1 DEF authServerBaseURL
      <4>2. CASE cfg.PublicAuthServerURL = NoURL
        BY <2>1, <2>3, <4>2, PlainArrivals, BasesAgree DEF Canonical
      <4> QED
        BY <4>1, <4>2
    <3> QED
      BY <3>1 DEF asMetadata, tokenEndpointURL
  <2> QED
    BY <2>2, <2>3 DEF RequestsAgree
<1> QED
  BY <1>1, Inductive, PTL

\* With plain paths, the resource of the metadata is the resource that
\* /authorize accepts (handleProtectedResourceMetadata, handleAuthorize).
THEOREM ResourceRoundTripHolds == Spec => []ResourceRoundTrip
<1>1. IInv => ResourceRoundTrip
  <2> SUFFICES ASSUME IInv, PlainPaths,
                      NEW r1 \in Arrivals("protected_resource"), NEW r2 \in Arrivals("authorize"),
                      SameServer(cfg.PublicResourceURL, r1, r2)
               PROVE  resourceIdentifiesServer(cfg, r2,
                          handleProtectedResourceMetadata(cfg, r1).resource)
    BY DEF ResourceRoundTrip
  <2>1. cfg \in Configs
    BY DEF IInv, HistoryOK
  <2> DEFINE base == resourceBaseURL(cfg, r1)
  <2>2. resourceBaseURL(cfg, r2) = base
    BY <2>1, PlainArrivals, BasesAgree
  <2>3. handleProtectedResourceMetadata(cfg, r1).resource = canonicalResourceURL(base)
    BY DEF handleProtectedResourceMetadata
  <2> HIDE DEF base
  <2>4. normalizeURL(canonicalResourceURL(base)) = normalizeURL(base)
    BY DEF canonicalResourceURL, normalizeURL
  <2> QED
    BY <2>2, <2>3, <2>4 DEF resourceIdentifiesServer
<1> QED
  BY <1>1, Inductive, PTL
=============================================================================
