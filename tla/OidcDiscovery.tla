--------------------------- MODULE OidcDiscovery ---------------------------
(***************************************************************************)
(* How the library finds the endpoints of the upstream IdP (validator.go:  *)
(* fetchOIDCDiscovery, resolveJWKSURL; broker.go: resolveUpstreamAuthURL,  *)
(* resolveUpstreamTokenURL, fetchUserInfo).  Concurrent handlers share one *)
(* cached discovery document and, behind it, one cached key set; the locks *)
(* are free during the HTTP requests.  Rotation under one jwks_uri is the  *)
(* subject of JwksCache: here a key set is known by the URI it came from,  *)
(* and none is empty.                                                      *)
(***************************************************************************)
EXTENDS Endpoints

CONSTANTS
    Configs,        \* settings; New refuses those that Validate refuses, and
                    \* RegisterRoutes panics on those that are not mountable
    Documents,      \* discovery documents: [issuer, authorization_endpoint,
                    \* token_endpoint, userinfo_endpoint, jwks_uri]
    Down,           \* no document: an error, a bad status, not JSON
    FirstServed,    \* what the IdP may serve at first, by candidate
    Calls,          \* the lookups; all of them may be under way at once
    CacheTTL,       \* defaultJWKSCacheTTL
    FetchTimeout,   \* defaultHTTPTimeout
    MaxChanges,     \* bound: changes at the IdP
    MaxClock        \* bound: the clock

ASSUME DiscoveryAssumption ==
    /\ CacheTTL \in Nat \ {0} /\ FetchTimeout \in Nat
    /\ Down \notin Documents
    /\ FirstServed \subseteq [{1, 2} -> Documents \union {Down}]

VARIABLES
    cfg,            \* v.cfg, which never changes
    now,            \* time.Now()
    oidc,           \* v.oidcCache and v.oidcTime
    jwks,           \* v.jwksURL and v.jwksTime
    idp,            \* what the IdP serves at the two candidates
    call,           \* the lookups
    withdrawn,      \* history: when a document was last replaced
    changes         \* history: the number of changes

vars == <<cfg, now, oidc, jwks, idp, call, withdrawn, changes>>

\* time.Time{}: longer ago than any time to live.
ZeroTime == -(CacheTTL + FetchTimeout + 1)

NoDocument == [issuer |-> "", authorization_endpoint |-> "", token_endpoint |-> "",
               userinfo_endpoint |-> "", jwks_uri |-> ""]

Init ==
    /\ cfg \in {c \in Configs : Validate(c) /\ mountable(c)}
    /\ now = 0
    /\ oidc = [doc |-> NoDocument, time |-> ZeroTime]
    /\ jwks = [url |-> "", time |-> ZeroTime]
    /\ idp \in FirstServed
    /\ call = [c \in Calls |-> [phase |-> "idle"]]
    /\ withdrawn = [d \in Documents |-> ZeroTime]
    /\ changes = 0
-----------------------------------------------------------------------------
\* What a lookup is for: the setting that makes it unnecessary, and the field
\* of the document it wants.
override(purpose) ==
    CASE purpose = "authorize" -> cfg.AuthURL
      [] purpose = "token"     -> cfg.TokenURL
      [] purpose = "userinfo"  -> cfg.UserInfoURL
      [] purpose = "validate"  -> cfg.JWKSURL

endpoint(purpose, doc) ==
    CASE purpose = "authorize" -> doc.authorization_endpoint
      [] purpose = "token"     -> doc.token_endpoint
      [] purpose = "userinfo"  -> doc.userinfo_endpoint
      [] purpose = "validate"  -> doc.jwks_uri

\* The second candidate is left out for an issuer below /.well-known/.
candidates ==
    IF \E i \in 1 .. Len(cfg.Issuer.path) - 2 :
        SubSeq(cfg.Issuer.path, i, i + 2) = <<"/", ".well-known", "/">>
    THEN {1} ELSE {1, 2}

\* Fault: a cached document answers whether or not it names an issuer.
AnyDocumentAnswers == oidc.time + CacheTTL > now

\* The cache of fetchOIDCDiscovery answers.
cached == oidc.time + CacheTTL > now /\ oidc.doc.issuer # ""

conclude(k, verdict) == [k EXCEPT !.phase = "done", !.verdict = verdict, !.start = 0, !.candidate = 0]

\* The lookup has its URL; a validation goes on to the keys behind it.
found(k, url) ==
    IF url = "" THEN conclude(k, "not_discoverable")
    ELSE IF k.purpose # "validate" THEN conclude([k EXCEPT !.url = url], "found")
    ELSE [k EXCEPT !.phase = "located", !.url = url, !.start = 0, !.candidate = 0]

\* The document is here: from the cache or from the IdP.
withDocument(k, doc) == found([k EXCEPT !.doc = doc, !.discovered = TRUE], endpoint(k.purpose, doc))

request(k, candidate) == [k EXCEPT !.phase = "request", !.candidate = candidate, !.start = now]

\* A handler wants an endpoint: its setting, the cached document, or a request
\* to the first candidate.  Without an issuer there is nothing to ask.
Begin(c, purpose) ==
    LET k == [phase |-> "begin", purpose |-> purpose, candidate |-> 0, start |-> 0, begun |-> now,
              doc |-> NoDocument, discovered |-> FALSE, url |-> "", verdict |-> "none"]
    IN  /\ call[c].phase = "idle"
        /\ purpose # "validate" => brokerActive(cfg)
        /\ call' = [call EXCEPT ![c] =
              IF override(purpose) # "" THEN found(k, override(purpose))
              ELSE IF cfg.Issuer = NoURL THEN conclude(k, "no_issuer")
              ELSE IF cached THEN withDocument(k, oidc.doc)
              ELSE request(k, 1)]
        /\ UNCHANGED <<cfg, now, oidc, jwks, idp, withdrawn, changes>>

\* The IdP answers with the document it serves now.
ServerAnswers(c) ==
    /\ call[c].phase = "request"
    /\ idp[call[c].candidate] # Down
    /\ call' = [call EXCEPT ![c].phase = "answer", ![c].doc = idp[call[c].candidate]]
    /\ UNCHANGED <<cfg, now, oidc, jwks, idp, withdrawn, changes>>

\* The document arrives and is stored, whatever it says, under the time of its
\* arrival.
DocumentArrives(c) ==
    /\ call[c].phase = "answer"
    /\ oidc' = [doc |-> call[c].doc, time |-> now]
    /\ call' = [call EXCEPT ![c] = withDocument(call[c], call[c].doc)]
    /\ UNCHANGED <<cfg, now, jwks, idp, withdrawn, changes>>

\* Fault: a failed request is repeated.
TryAgain(c) ==
    /\ call[c].phase \in {"request", "answer"}
    /\ call' = [call EXCEPT ![c] = request([call[c] EXCEPT !.doc = NoDocument], call[c].candidate)]
    /\ UNCHANGED <<cfg, now, oidc, jwks, idp, withdrawn, changes>>

\* Fault: the second candidate is asked for every issuer.
SecondForEveryIssuer(c) ==
    LET k == [call[c] EXCEPT !.doc = NoDocument]
    IN  /\ call[c].phase \in {"request", "answer"}
        /\ call' = [call EXCEPT ![c] =
              IF k.candidate = 1 THEN request(k, 2) ELSE conclude(k, "unavailable")]
        /\ UNCHANGED <<cfg, now, oidc, jwks, idp, withdrawn, changes>>

\* The request fails or times out: the next candidate, if there is one.
RequestFails(c) ==
    LET k == [call[c] EXCEPT !.doc = NoDocument]
    IN  /\ call[c].phase \in {"request", "answer"}
        /\ call' = [call EXCEPT ![c] =
              IF k.candidate + 1 \in candidates THEN request(k, k.candidate + 1)
              ELSE conclude(k, "unavailable")]
        /\ UNCHANGED <<cfg, now, oidc, jwks, idp, withdrawn, changes>>

\* Fault: the cached keys answer whatever URL they came from.
AnyKeysAnswer(uri) == jwks.time + CacheTTL > now

\* The cache of fetchJWKS answers.
keysCached(uri) == jwks.url = uri /\ jwks.time + CacheTTL > now

\* fetchJWKS up to its request, under the other lock: the key cache is read
\* some time after the document.
LookForKeys(c) ==
    /\ call[c].phase = "located"
    /\ call' = [call EXCEPT ![c] =
          IF keysCached(call[c].url) THEN conclude([call[c] EXCEPT !.url = jwks.url], "found")
          ELSE [call[c] EXCEPT !.phase = "keys", !.start = now]]
    /\ UNCHANGED <<cfg, now, oidc, jwks, idp, withdrawn, changes>>

\* The keys arrive: they are stored with their URL and the time of the request.
KeysArrive(c) ==
    /\ call[c].phase = "keys"
    /\ jwks' = [url |-> call[c].url, time |-> call[c].start]
    /\ call' = [call EXCEPT ![c] = conclude(call[c], "found")]
    /\ UNCHANGED <<cfg, now, oidc, idp, withdrawn, changes>>

KeysFail(c) ==
    /\ call[c].phase = "keys"
    /\ call' = [call EXCEPT ![c] = conclude(call[c], "unavailable")]
    /\ UNCHANGED <<cfg, now, oidc, jwks, idp, withdrawn, changes>>

\* The IdP serves something else at one of the candidates.
Change(candidate, answer) ==
    /\ changes < MaxChanges
    /\ answer # idp[candidate]
    /\ changes' = changes + 1
    /\ idp' = [idp EXCEPT ![candidate] = answer]
    /\ withdrawn' = [d \in Documents |-> IF d = idp[candidate] THEN now ELSE withdrawn[d]]
    /\ UNCHANGED <<cfg, now, oidc, jwks, call>>

\* An HTTP request lives as long as its client's timeout.
Tick ==
    /\ now < MaxClock
    /\ \A c \in Calls : call[c].phase \in {"request", "answer", "keys"}
                           => now < call[c].start + FetchTimeout
    /\ now' = now + 1
    /\ UNCHANGED <<cfg, oidc, jwks, idp, call, withdrawn, changes>>

Step(c) ==
    \/ ServerAnswers(c)
    \/ DocumentArrives(c)
    \/ RequestFails(c)
    \/ LookForKeys(c)
    \/ KeysArrive(c)
    \/ KeysFail(c)

Purposes == {"authorize", "token", "userinfo", "validate"}

Next ==
    \/ \E c \in Calls, purpose \in Purposes : Begin(c, purpose)
    \/ \E c \in Calls : Step(c)
    \/ \E candidate \in {1, 2}, answer \in Documents \union {Down} : Change(candidate, answer)
    \/ Tick

\* A lookup runs on: the HTTP client's timeout ends a request that the IdP
\* does not answer.  Each of its steps changes its call.
Fairness == \A c \in Calls : WF_call(Step(c))

Spec == Init /\ [][Next]_vars /\ Fairness
-----------------------------------------------------------------------------
\* The shape of the state.  Only the candidates of the issuer are asked.
TypeOK ==
    /\ cfg \in Configs
    /\ now \in Nat
    /\ oidc \in [doc : Documents \union {NoDocument}, time : Nat \union {ZeroTime}]
    /\ jwks.time \in Nat \union {ZeroTime}
    /\ \A c \in Calls : call[c].phase # "idle" =>
        /\ call[c].phase \in {"request", "answer", "located", "keys", "done"}
        /\ call[c].purpose \in Purposes
        /\ call[c].candidate \in candidates \union {0}
        /\ call[c].doc \in Documents \union {NoDocument}
        /\ call[c].start \in Nat /\ call[c].begun \in Nat
        /\ call[c].verdict \in {"none", "found", "not_discoverable", "no_issuer", "unavailable"}

Done(c) == call[c].phase = "done"

\* The IdP serves the document, or did at `time' or later.
ServedSince(doc, time) ==
    \/ \E candidate \in {1, 2} : idp[candidate] = doc
    \/ withdrawn[doc] >= time

\* A document that a handler goes by is one the IdP has served within a time to
\* live and a timeout of the beginning of the lookup.  A document without an
\* issuer, which an IdP in trouble may serve, is held against no later lookup:
\* it is stored but not served again (fetchOIDCDiscovery).
DiscoveryFresh ==
    \A c \in Calls : Done(c) /\ call[c].discovered =>
        ServedSince(call[c].doc,
                    IF call[c].doc.issuer = "" THEN call[c].begun
                    ELSE call[c].begun - CacheTTL - FetchTimeout + 1)

\* The two caches never mix: the keys that judge a token come from the jwks_uri
\* of the very document that the validation went by, though it reads the two
\* under different locks, one after the other, and other validations go by
\* another document and store its keys in between (resolveJWKSURL, then
\* fetchJWKS, which compares v.jwksURL).
KeysOfTheDocument ==
    \A c \in Calls :
        Done(c) /\ call[c].purpose = "validate" /\ call[c].verdict = "found" =>
            call[c].url = IF call[c].discovered THEN call[c].doc.jwks_uri ELSE cfg.JWKSURL

\* A Config that New accepts leaves neither /authorize nor /token without an
\* IdP to ask: an endpoint is missing only if the IdP does not tell it
\* (Config.Validate with resolveUpstreamAuthURL, resolveUpstreamTokenURL).
ValidConfigSuffices ==
    \A c \in Calls :
        Done(c) /\ call[c].purpose \in {"authorize", "token"} => call[c].verdict # "no_issuer"

\* A lookup comes to an end.
LookupsEnd ==
    \A c \in Calls : call[c].phase \notin {"idle", "done"} ~> call[c].phase = "done"
=============================================================================
