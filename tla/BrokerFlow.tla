----------------------------- MODULE BrokerFlow -----------------------------
(***************************************************************************)
(* The authorization-code flow of broker.go: an MCP client starts a flow   *)
(* at /oauth/authorize, a user logs in at the upstream IdP, the IdP's      *)
(* redirect reaches /oauth/callback, and the client redeems the resulting  *)
(* code at /oauth/token, which exchanges the wrapped upstream code.        *)
(*                                                                         *)
(* The broker keeps no state between requests: what it knows of a flow     *)
(* travels in JWE artifacts.  Every artifact the broker ever made stays in *)
(* `minted' and may be presented to any endpoint at any time and any       *)
(* number of times, so lost, duplicated, delayed and mixed-up redirects    *)
(* are all behaviours of the model.                                        *)
(***************************************************************************)
EXTENDS Jwe, FiniteSets

CONSTANTS
    ClientIDs,      \* CIMD client_id URLs of MCP clients
    RedirectURIs,   \* redirect_uri values
    Verifiers,      \* PKCE verifiers that MCP clients make up
    Subjects,       \* users of the upstream IdP
    Resources,      \* resource parameters: Empty or [url, slash]
    ThisResource,   \* resourceBaseURL: the url of this MCP server
    Resolutions,    \* what cimdResolver.resolve may answer, by client_id
    Credentials,    \* [posted, grant_type, client_secret, assertion] of /token forms
    Requests,       \* the /token requests of a behaviour
    PendingTTL,     \* defaultPendingAuthTTLSeconds
    CodeTTL,        \* defaultAuthCodeTTLSeconds
    MaxFlows,       \* bound: /authorize requests that start a flow
    MaxLogins,      \* bound: logins at the upstream IdP
    MaxMinted,      \* bound: JWE artifacts made
    MaxClock        \* bound: the clock

ASSUME TTLAssumption ==
    /\ PendingTTL \in Nat
    /\ CodeTTL \in Nat

VARIABLES
    now,            \* time.Now(), in seconds
    minted,         \* every JWE artifact the broker has sent out
    nextVerifier,   \* the upstream PKCE verifier newPKCEVerifier returns next
    challenges,     \* code_challenge values the IdP has been sent users with
    upstreamCodes,  \* authorization codes the IdP has issued
    spent,          \* [code, req]: the exchange for which the IdP took a code
    posts,          \* code exchanges on their way to the IdP
    answers,        \* the IdP's answers on their way back
    token,          \* the /token handlers, by request
    started,        \* history: the flows that /authorize started
    grants          \* history: the token responses sent

vars == <<now, minted, nextVerifier, challenges, upstreamCodes, spent, posts,
          answers, token, started, grants>>
-----------------------------------------------------------------------------
(* PKCE: the S256 challenge is one-way and injective.                      *)
pkceChallenge(verifier) == [s256 |-> verifier]

\* Fault: every flow gets the same verifier.
FixedVerifier == 1

\* 32 random bytes: a verifier that nobody has had before.
newPKCEVerifier == nextVerifier

\* strings.TrimRight(resource, "/")
trimSlash(resource) == IF resource = Empty THEN Empty ELSE resource.url

encodePendingAuth(p) ==
    encodeJWE(hkdfInfoPendingAuth,
        [client_id              |-> p.ClientID,
         redirect_uri           |-> p.RedirectURI,
         code_challenge         |-> p.CodeChallenge,
         resource               |-> p.Resource,
         upstream_pkce_verifier |-> p.UpstreamPKCEVerifier,
         exp                    |-> p.ExpiresAt])

decodePendingAuth(state) ==
    LET claims == state.claims
    IN  [ClientID             |-> stringFromClaims(claims, "client_id"),
         RedirectURI          |-> stringFromClaims(claims, "redirect_uri"),
         CodeChallenge        |-> stringFromClaims(claims, "code_challenge"),
         Resource             |-> stringFromClaims(claims, "resource"),
         UpstreamPKCEVerifier |-> stringFromClaims(claims, "upstream_pkce_verifier"),
         ExpiresAt            |-> claims["exp"]]

encodeAuthCode(c) ==
    encodeJWE(hkdfInfoAuthCode,
        [client_id              |-> c.ClientID,
         redirect_uri           |-> c.RedirectURI,
         code_challenge         |-> c.CodeChallenge,
         resource               |-> c.Resource,
         upstream_auth_code     |-> c.UpstreamAuthCode,
         upstream_pkce_verifier |-> c.UpstreamPKCEVerifier,
         exp                    |-> c.ExpiresAt])

decodeAuthCode(code) ==
    LET claims == code.claims
    IN  [ClientID             |-> stringFromClaims(claims, "client_id"),
         RedirectURI          |-> stringFromClaims(claims, "redirect_uri"),
         CodeChallenge        |-> stringFromClaims(claims, "code_challenge"),
         Resource             |-> stringFromClaims(claims, "resource"),
         UpstreamAuthCode     |-> stringFromClaims(claims, "upstream_auth_code"),
         UpstreamPKCEVerifier |-> stringFromClaims(claims, "upstream_pkce_verifier"),
         ExpiresAt            |-> claims["exp"]]
-----------------------------------------------------------------------------
(* What the IdP is told by requests that do not come from this broker.     *)
ForeignVerifier == 0

Init ==
    /\ now = 0
    /\ minted = {}
    /\ nextVerifier = ForeignVerifier + 1
    /\ challenges = {pkceChallenge(ForeignVerifier)}
    /\ upstreamCodes = {}
    /\ spent = {}
    /\ posts = {}
    /\ answers = {}
    /\ token = [req \in Requests |->
                  [phase |-> "idle", form |-> Empty, at |-> 0, reply |-> Empty]]
    /\ started = {}
    /\ grants = {}
-----------------------------------------------------------------------------
(* Fault: PKCE is optional.                                                *)
AcceptWithoutPKCE(q, client) ==
    /\ ~client.err
    /\ q.redirect_uri \in client.RedirectURIs
    /\ q.resource # Empty => trimSlash(q.resource) = ThisResource

(* GET /oauth/authorize.  A request that fails one of these checks gets an *)
(* error response and leaves nothing behind.                               *)
authorizeAccepts(q, client) ==
    /\ ~client.err
    /\ q.redirect_uri \in client.RedirectURIs
    /\ q.code_challenge # Empty
    /\ q.resource # Empty => trimSlash(q.resource) = ThisResource

\* The flow of an accepted request; its redirect carries the state artifact
\* and the S256 challenge of a fresh verifier to the IdP.
handleAuthorize(q, client) ==
    /\ authorizeAccepts(q, client)
    /\ Cardinality(started) < MaxFlows
    /\ Cardinality(minted) < MaxMinted
    /\ LET pending == [ClientID             |-> q.client_id,
                       RedirectURI          |-> q.redirect_uri,
                       CodeChallenge        |-> q.code_challenge,
                       Resource             |-> q.resource,
                       UpstreamPKCEVerifier |-> newPKCEVerifier,
                       ExpiresAt            |-> now + PendingTTL]
       IN  /\ minted' = minted \union {encodePendingAuth(pending)}
           /\ challenges' = challenges \union {pkceChallenge(newPKCEVerifier)}
           /\ started' = started \union {[pending |-> pending, at |-> now]}
    /\ nextVerifier' = nextVerifier + 1
    /\ UNCHANGED <<now, upstreamCodes, spent, posts, answers, token, grants>>

Authorize ==
    \E client_id \in ClientIDs, redirect_uri \in RedirectURIs, resource \in Resources,
       code_challenge \in {pkceChallenge(v) : v \in Verifiers} \union {Empty} :
        \E client \in Resolutions[client_id] :
            handleAuthorize([client_id      |-> client_id,
                             redirect_uri   |-> redirect_uri,
                             code_challenge |-> code_challenge,
                             resource       |-> resource], client)
-----------------------------------------------------------------------------
(* The upstream IdP, as RFC 7636 has it: a login yields a code bound to    *)
(* the code_challenge of the authorization request that led to it.         *)
UpstreamLogin(code_challenge, subject) ==
    /\ Cardinality(upstreamCodes) < MaxLogins
    /\ upstreamCodes' = upstreamCodes \union
            {[id |-> Cardinality(upstreamCodes) + 1,
              code_challenge |-> code_challenge, subject |-> subject]}
    /\ UNCHANGED <<now, minted, nextVerifier, challenges, spent, posts, answers,
                   token, started, grants>>

\* A code exchange arrives.  The IdP takes a code once, for the verifier of
\* its challenge; it may refuse any exchange, and what it answers to one it
\* took can still be of no use to the broker.
UpstreamExchange(post) ==
    /\ posts' = posts \ {post}
    /\ \/ /\ answers' = answers \union
                 {[req |-> post.req, kind |-> "refused", subject |-> Empty]}
          /\ UNCHANGED spent
       \/ /\ post.code \in upstreamCodes
          /\ \A s \in spent : s.code # post.code
          /\ pkceChallenge(post.code_verifier) = post.code.code_challenge
          /\ spent' = spent \union {[code |-> post.code, req |-> post.req]}
          /\ \E kind \in {"tokens", "not_json", "error_body", "no_token", "bad_identity"} :
                 answers' = answers \union
                     {[req |-> post.req, kind |-> kind, subject |-> post.code.subject]}
    /\ UNCHANGED <<now, minted, nextVerifier, challenges, upstreamCodes, token,
                   started, grants>>
-----------------------------------------------------------------------------
(* GET /oauth/callback: any state with any code of the IdP.                *)
callbackAccepts(state, code) ==
    /\ state # Empty /\ code # Empty
    /\ decodeJWE(hkdfInfoPendingAuth, state, now)

\* The code artifact's fields: the flow's, and the IdP's code.
issuedCode(pending, code, at) ==
    [ClientID             |-> pending.ClientID,
     RedirectURI          |-> pending.RedirectURI,
     CodeChallenge        |-> pending.CodeChallenge,
     Resource             |-> pending.Resource,
     UpstreamAuthCode     |-> code,
     UpstreamPKCEVerifier |-> pending.UpstreamPKCEVerifier,
     ExpiresAt            |-> at + CodeTTL]

handleCallback(state, code) ==
    /\ callbackAccepts(state, code)
    /\ Cardinality(minted) < MaxMinted
    /\ minted' = minted \union
            {encodeAuthCode(issuedCode(decodePendingAuth(state), code, now))}
    /\ UNCHANGED <<now, nextVerifier, challenges, upstreamCodes, spent, posts,
                   answers, token, started, grants>>
-----------------------------------------------------------------------------
(* POST /oauth/token.                                                      *)

\* client_assertion and client_assertion_type, by the client's auth method.
clientAuthenticated(form, client) ==
    \/ client.TokenEndpointAuthMethod = "none" /\ form.assertion = "absent"
    \/ client.TokenEndpointAuthMethod = "private_key_jwt"
          /\ form.assertion \in {"absent", "valid"}

\* Fault: the code_verifier is not compared with the challenge.
BoundWithoutPKCE(form, issued) ==
    /\ issued.ClientID = form.client_id
    /\ issued.RedirectURI = form.redirect_uri

\* Fault: any client may redeem the code.
BoundToAnyClient(form, issued) ==
    /\ issued.RedirectURI = form.redirect_uri
    /\ pkceChallenge(form.code_verifier) = issued.CodeChallenge

\* The code matches the request that redeems it.
codeBound(form, issued) ==
    /\ issued.ClientID = form.client_id
    /\ issued.RedirectURI = form.redirect_uri
    /\ issued.CodeChallenge # Empty
    /\ pkceChallenge(form.code_verifier) = issued.CodeChallenge

\* Fault: the resource of /token is not compared with that of /authorize.
ResourceIgnored(form, issued) == TRUE

resourceMatches(form, issued) ==
    form.resource # Empty /\ issued.Resource # Empty
        => trimSlash(form.resource) = trimSlash(issued.Resource)

\* handleToken and handleTokenAuthCode up to the upstream exchange: the
\* error of the first check that fails, or "exchange".  A request is `posted'
\* if it is a POST whose form can be parsed.
tokenVerdict(form, client, tokenURLKnown) ==
    LET issued == decodeAuthCode(form.code)
    IN  IF ~form.posted THEN "invalid_request"
        ELSE IF form.grant_type # "authorization_code" THEN "unsupported_grant_type"
        ELSE IF \/ form.client_secret # Empty
                \/ client.err
                \/ ~clientAuthenticated(form, client) THEN "invalid_client"
        ELSE IF \/ form.redirect_uri \notin client.RedirectURIs
                \/ ~decodeJWE(hkdfInfoAuthCode, form.code, now)
                \/ ~codeBound(form, issued) THEN "invalid_grant"
        ELSE IF ~resourceMatches(form, issued) THEN "invalid_target"
        ELSE IF \/ issued.UpstreamAuthCode = Empty
                \/ issued.UpstreamPKCEVerifier = Empty THEN "invalid_grant"
        ELSE IF ~tokenURLKnown THEN "server_error"
        ELSE "exchange"

\* The handler up to its PostForm.
StartToken(req, form, client, tokenURLKnown) ==
    /\ token[req].phase = "idle"
    /\ LET verdict == tokenVerdict(form, client, tokenURLKnown)
           issued  == decodeAuthCode(form.code)
       IN  \/ /\ verdict # "exchange"
              /\ token' = [token EXCEPT ![req] =
                    [phase |-> "done", form |-> Empty, at |-> now, reply |-> verdict]]
              /\ UNCHANGED posts
           \/ /\ verdict = "exchange"
              /\ token' = [token EXCEPT ![req] =
                    [phase |-> "upstream", form |-> form, at |-> now, reply |-> Empty]]
              /\ posts' = posts \union {[req           |-> req,
                                         code          |-> issued.UpstreamAuthCode,
                                         code_verifier |-> issued.UpstreamPKCEVerifier]}
    /\ UNCHANGED <<now, minted, nextVerifier, challenges, upstreamCodes, spent,
                   answers, started, grants>>

Token(req) ==
    \E client_id \in ClientIDs, redirect_uri \in RedirectURIs,
       code_verifier \in Verifiers, resource \in Resources,
       code \in minted \union {Unreadable},
       credential \in Credentials, tokenURLKnown \in BOOLEAN :
        \E client \in Resolutions[client_id] :
            StartToken(req, [posted        |-> credential.posted,
                             grant_type    |-> credential.grant_type,
                             client_secret |-> credential.client_secret,
                             client_id     |-> client_id,
                             assertion     |-> credential.assertion,
                             redirect_uri  |-> redirect_uri,
                             code          |-> code,
                             code_verifier |-> code_verifier,
                             resource      |-> resource], client, tokenURLKnown)

\* Fault: the status of the IdP's answer is not looked at.
StatusIgnored(answer) ==
    IF answer.kind \in {"refused", "tokens"} THEN "granted" ELSE "server_error"

\* What the handler makes of the IdP's answer.
exchangeReply(answer) ==
    CASE answer.kind = "refused"      -> "invalid_grant"
      [] answer.kind = "not_json"     -> "server_error"
      [] answer.kind = "error_body"   -> "invalid_grant"
      [] answer.kind = "no_token"     -> "server_error"
      [] answer.kind = "bad_identity" -> "server_error"
      [] answer.kind = "tokens"       -> "granted"

HandleUpstreamAnswer(req) ==
    /\ token[req].phase = "upstream"
    /\ \E answer \in answers :
        /\ answer.req = req
        /\ answers' = answers \ {answer}
        /\ token' = [token EXCEPT ![req].phase = "done",
                                  ![req].reply = exchangeReply(answer)]
        /\ grants' = IF exchangeReply(answer) = "granted"
                     THEN grants \union {[req |-> req, subject |-> answer.subject]}
                     ELSE grants
    /\ UNCHANGED <<now, minted, nextVerifier, challenges, upstreamCodes, spent,
                   posts, started>>

\* PostForm, or reading its body, fails: the connection broke or the client's
\* timeout ran out.  The exchange may have reached the IdP, or reach it later.
TransportError(req) ==
    /\ token[req].phase = "upstream"
    /\ token' = [token EXCEPT ![req].phase = "done", ![req].reply = "server_error"]
    /\ UNCHANGED <<now, minted, nextVerifier, challenges, upstreamCodes, spent,
                   posts, answers, started, grants>>
-----------------------------------------------------------------------------
Tick ==
    /\ now < MaxClock
    /\ now' = now + 1
    /\ UNCHANGED <<minted, nextVerifier, challenges, upstreamCodes, spent, posts,
                   answers, token, started, grants>>

Next ==
    \/ Authorize
    \/ \E code_challenge \in challenges, subject \in Subjects :
           UpstreamLogin(code_challenge, subject)
    \/ \E state \in minted \union {Unreadable}, code \in upstreamCodes :
           handleCallback(state, code)
    \/ \E req \in Requests : Token(req)
    \/ \E post \in posts : UpstreamExchange(post)
    \/ \E req \in Requests : HandleUpstreamAnswer(req)
    \/ \E req \in Requests : TransportError(req)
    \/ Tick

Spec == Init /\ [][Next]_vars
-----------------------------------------------------------------------------
PendingAuths ==
    [ClientID : ClientIDs, RedirectURI : RedirectURIs,
     CodeChallenge : [s256 : Verifiers], Resource : Resources,
     UpstreamPKCEVerifier : Nat, ExpiresAt : Nat]

UpstreamCodes ==
    [id : Nat, code_challenge : [s256 : Nat], subject : Subjects]

Replies ==
    {"invalid_request", "unsupported_grant_type", "invalid_client", "invalid_grant",
     "invalid_target", "server_error", "granted"}

AnswerKinds ==
    {"refused", "tokens", "not_json", "error_body", "no_token", "bad_identity"}

\* The shape of the broker's and the IdP's state.
TypeOK ==
    /\ now \in Nat
    /\ nextVerifier \in Nat \ {ForeignVerifier}
    /\ started \subseteq [pending : PendingAuths, at : Nat]
    /\ challenges \subseteq [s256 : Nat]
    /\ upstreamCodes \subseteq UpstreamCodes /\ IsFiniteSet(upstreamCodes)
    /\ spent \subseteq [code : UpstreamCodes, req : Requests]
    /\ posts \subseteq [req : Requests, code : UpstreamCodes, code_verifier : Nat]
    /\ answers \subseteq
            [req : Requests, kind : AnswerKinds, subject : Subjects \union {Empty}]
    /\ grants \subseteq [req : Requests, subject : Subjects \union {Empty}]
    /\ DOMAIN token = Requests
    /\ \A req \in Requests :
        /\ DOMAIN token[req] = {"phase", "form", "at", "reply"}
        /\ token[req].phase \in {"idle", "upstream", "done"}
        /\ token[req].at \in Nat
        /\ token[req].phase = "done" => token[req].reply \in Replies

\* The IdP was asked for the login behind `code' by `flow'.
LoginFor(code, flow) == code.code_challenge = pkceChallenge(flow.pending.UpstreamPKCEVerifier)

\* The request comes from the client that started `flow', which proves so
\* with its PKCE verifier, for the same redirect.
Redeems(form, flow) ==
    /\ form.client_id = flow.pending.ClientID
    /\ form.redirect_uri = flow.pending.RedirectURI
    /\ pkceChallenge(form.code_verifier) = flow.pending.CodeChallenge

\* However callbacks and codes are mixed up, repeated or delayed, the IdP
\* spends a login only for a /token request that redeems the flow the user
\* logged in for; a request with the wrong client, redirect or verifier never
\* burns somebody's code (the checks of handleTokenAuthCode precede PostForm).
SpentByOwner ==
    \A s \in spent :
        /\ \E flow \in started : LoginFor(s.code, flow)
        /\ \A flow \in started :
            LoginFor(s.code, flow) => Redeems(token[s.req].form, flow)

\* A token response carries the identity of the user who logged in for the
\* one flow that the redeeming client started (handleTokenAuthCode's grant).
GrantBinding ==
    \A g \in grants : \E s \in spent :
        /\ s.req = g.req
        /\ s.code.subject = g.subject
        /\ \E flow \in started : LoginFor(s.code, flow)
        /\ \A flow \in started :
            LoginFor(s.code, flow) => Redeems(token[g.req].form, flow)

\* One login gives at most one token response, although the broker keeps no
\* record of the codes it has redeemed: a replayed code, and the retry of a
\* /token request whose answer was lost, end in an error.
OneGrantPerLogin ==
    \A g, h \in grants :
        decodeAuthCode(token[g.req].form.code).UpstreamAuthCode
            = decodeAuthCode(token[h.req].form.code).UpstreamAuthCode => g = h

\* No grant for a /token request that comes later than the flow's two
\* artifacts live one after the other, the state and then the code
\* (decodePendingAuth and decodeAuthCode both check exp).
GrantWithinLifetime ==
    \A g \in grants : \E s \in spent, flow \in started :
        /\ s.req = g.req
        /\ LoginFor(s.code, flow)
        /\ token[g.req].at <= flow.at + PendingTTL + CodeTTL

\* A client that names a resource at /authorize and at /token gets a grant
\* only if both name this server, whatever the trailing slashes.
ResourceBinding ==
    \A g \in grants : \E s \in spent, flow \in started :
        /\ s.req = g.req
        /\ LoginFor(s.code, flow)
        /\ flow.pending.Resource # Empty => flow.pending.Resource.url = ThisResource
        /\ flow.pending.Resource # Empty /\ token[g.req].form.resource # Empty
             => token[g.req].form.resource.url = ThisResource

-----------------------------------------------------------------------------
(* The inductive invariant: where every artifact, exchange and answer      *)
(* comes from.                                                             *)

\* Every flow has an upstream verifier of its own, and its state artifact
\* lives PendingTTL seconds.
FlowsDistinct ==
    /\ \A flow \in started :
        /\ flow.pending.UpstreamPKCEVerifier < nextVerifier
        /\ flow.pending.ExpiresAt = flow.at + PendingTTL
        /\ flow.pending.Resource # Empty => trimSlash(flow.pending.Resource) = ThisResource
    /\ \A f, g \in started :
        f.pending.UpstreamPKCEVerifier = g.pending.UpstreamPKCEVerifier => f = g

\* Every artifact is the state of a flow, or a code made in time from one.
Provenance ==
    \A m \in minted :
        \/ \E flow \in started : m = encodePendingAuth(flow.pending)
        \/ \E flow \in started, code \in upstreamCodes, t \in 0 .. now :
            /\ t <= flow.pending.ExpiresAt
            /\ m = encodeAuthCode(issuedCode(flow.pending, code, t))

\* The request `req' passed the checks for the flow that `verifier' belongs
\* to, with an artifact that wraps `code'.
Redemption(req, code, verifier) ==
    /\ token[req].phase # "idle"
    /\ \E flow \in started, t \in 0 .. now :
        /\ verifier = flow.pending.UpstreamPKCEVerifier
        /\ Redeems(token[req].form, flow)
        /\ resourceMatches(token[req].form, flow.pending)
        /\ token[req].form.code = encodeAuthCode(issuedCode(flow.pending, code, t))
        /\ t <= flow.pending.ExpiresAt
        /\ token[req].at <= t + CodeTTL

PostsRedeem == \A p \in posts : Redemption(p.req, p.code, p.code_verifier)

SpentRedeem ==
    /\ \A s \in spent : Redemption(s.req, s.code, s.code.code_challenge.s256)
    /\ \A s, r \in spent : s.code = r.code => s = r

AnswersSpent ==
    \A a \in answers :
        a.kind # "refused" =>
            \E s \in spent : s.req = a.req /\ s.code.subject = a.subject

GrantsSpent ==
    \A g \in grants : \E s \in spent : s.req = g.req /\ s.code.subject = g.subject

\* Logins are numbered in the order they are made.
LoginsNumbered == \A code \in upstreamCodes : code.id <= Cardinality(upstreamCodes)

\* A /token request posts one exchange, which the IdP takes once, and is
\* answered with one grant at most.
ExchangedOnce ==
    /\ \A p, q \in posts : p.req = q.req => p = q
    /\ \A p \in posts, s \in spent : p.req # s.req
    /\ \A s, r \in spent : s.req = r.req => s = r
    /\ \A g \in grants : token[g.req].phase = "done"

IInv ==
    /\ TypeOK /\ FlowsDistinct /\ Provenance
    /\ PostsRedeem /\ SpentRedeem /\ AnswersSpent /\ GrantsSpent
    /\ LoginsNumbered /\ ExchangedOnce
=============================================================================
