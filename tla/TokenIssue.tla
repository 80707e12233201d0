----------------------------- MODULE TokenIssue -----------------------------
(***************************************************************************)
(* The second half of /oauth/token (broker.go, refresh.go) and what        *)
(* becomes of the bearer it hands out: the identity check, the refresh of  *)
(* an id_token that is about to expire, the JWE wrapping of gating mode,   *)
(* expires_in, and Middleware with Validator.Validate (middleware.go,      *)
(* downstream_token.go, validator.go) each time the client presents it.    *)
(***************************************************************************)
EXTENDS Jwe, Claims, FiniteSets

C == INSTANCE Config

CONSTANTS
    Configs,            \* the settings of deployments
    Identities,         \* whom the IdP knows: their claims, as JSON
    AuthServer,         \* iss of the IdP's tokens
    DefaultTTL,         \* defaultAccessTokenTTLSeconds
    ClockSkew,          \* defaultClockSkewSeconds
    RefreshThreshold,   \* brokerIDTokenRefreshThresholdSeconds
    Lifetimes,          \* remaining seconds of the id_tokens the IdP returns
    IdPDrift,           \* the IdP's clock minus ours
    Handlers,           \* concurrent /token handlers
    MaxIssued,          \* bound: bearers handed out
    MaxClock            \* bound: the clock

ASSUME TokenIssueAssumption ==
    /\ \A c \in Configs : (C!IsGating(c) \/ C!IsForward(c)) /\ c.AccessTokenTTL \in Nat
    /\ DefaultTTL \in Nat /\ ClockSkew \in Nat /\ RefreshThreshold \in Nat
    /\ Lifetimes \subseteq Nat \ {0}
    /\ IdPDrift \in Int
    /\ \A i \in Identities : "exp" \notin DOMAIN i /\ string(i, "email") \in Seq(STRING)

VARIABLES
    cfg,        \* the Config, which never changes
    now,        \* time.Now()
    handler,    \* /token handlers that have the IdP's answer
    issued,     \* the token responses sent
    last        \* what Middleware made of the last request

vars == <<cfg, now, handler, issued, last>>

Gating == C!IsGating(cfg)

AccessTokenTTL == C!accessTokenTTL(cfg, DefaultTTL)

\* exp of a token, 0 if it has none.
expOf(token) == claimsFromRaw(token).ExpiresAt

\* "" in place of a token.
NoToken == <<>>

\* A bearer is a JWT (two dots), a JWE of ours, or any other string.
jwt(token)    == [form |-> "jwt", token |-> token]
jwe(artifact) == [form |-> "jwe", token |-> artifact]
opaque        == [form |-> "opaque", token |-> NoToken]

Idle == [phase |-> "idle"]

Init ==
    /\ cfg \in Configs
    /\ now = 1
    /\ handler = [h \in Handlers |-> Idle]
    /\ issued = {}
    /\ last = [verdict |-> "none"]
-----------------------------------------------------------------------------
\* The Validator has keys to ask for.
keysKnown == cfg.JWKSURL # <<>> \/ cfg.Issuer # <<>>

\* parseAndVerifyJWT, the keys being in order (JwksCache is about them).
parseAndVerifyJWT(token, expectedAudience) ==
    LET claims == claimsFromRaw(token)
    IN  /\ keysKnown
        /\ issuerAllowed(claims.Issuer, cfg.UpstreamIssuerAllowlist, cfg.Issuer)
        /\ expectedAudience # <<>> => audienceMatchesResource(claims.Audience, expectedAudience)

\* exp is not looked at.
ValidateUpstreamIdentityToken(token, expectedAudience) ==
    /\ parseAndVerifyJWT(token, expectedAudience)
    /\ applyIdentityPolicy(cfg, claimsFromRaw(token)) = "accepted"

\* Fault: whoever the access token is for is let in.
AnyUser(userinfo) == TRUE

\* fetchUserInfo returns: the identity of an answer without an id_token.
fetchUserInfo(userinfo) == applyIdentityPolicy(cfg, claimsFromUserInfo(userinfo)) = "accepted"

encodeDownstreamAccessToken(idToken, exp) ==
    encodeJWE(hkdfInfoDownstreamToken, [upstream_id_token |-> idToken, exp |-> exp])

lesser(a, b) == IF a < b THEN a ELSE b

\* Fault: the wrapped token lives AccessTokenTTL, whatever it wraps.
FullTTL(idToken) == now + AccessTokenTTL

\* exp of the wrapped token: never later than that of the id_token.
expAt(idToken) ==
    IF expOf(idToken) > 0 THEN lesser(now + AccessTokenTTL, expOf(idToken)) ELSE now + AccessTokenTTL

bearerToken(idToken, accessToken) ==
    IF idToken = NoToken THEN accessToken
    ELSE IF Gating THEN jwe(encodeDownstreamAccessToken(idToken, expAt(idToken)))
    ELSE jwt(idToken)

\* Fault: an id_token that expired during the refresh shows.
Unclamped(n) == n

atLeastZero(n) == IF n < 0 THEN 0 ELSE n

\* Fault: gating advertises AccessTokenTTL, whatever the id_token has left.
AdvertiseTTL(idToken, upstreamExpiresIn) == AccessTokenTTL

\* The expires_in of the response.
expiresIn(idToken, upstreamExpiresIn) ==
    IF Gating /\ idToken # NoToken
    THEN atLeastZero(IF expOf(idToken) > 0 THEN lesser(AccessTokenTTL, expOf(idToken) - now)
                     ELSE AccessTokenTTL)
    ELSE IF idToken # NoToken /\ expOf(idToken) > 0 THEN atLeastZero(expOf(idToken) - now)
    ELSE IF upstreamExpiresIn > 0 THEN upstreamExpiresIn
    ELSE DefaultTTL

\* The token response, and the end of the handler.
issue(h, idToken, accessToken, upstreamExpiresIn, identity) ==
    /\ issued' = issued \union
          {[bearer |-> bearerToken(idToken, accessToken), idToken |-> idToken, at |-> now,
            identity |-> identity, expires_in |-> expiresIn(idToken, upstreamExpiresIn)]}
    /\ handler' = [handler EXCEPT ![h] = Idle]
    /\ UNCHANGED <<cfg, now, last>>

\* The handler goes on to wait for `next'.
await(h, next) ==
    /\ handler' = [handler EXCEPT ![h] = next]
    /\ UNCHANGED <<cfg, now, issued, last>>

\* Bound: no handler starts once MaxIssued token responses are sent.
free(h) == handler[h].phase = "idle" /\ Cardinality(issued) < MaxIssued

\* The IdP answers the code exchange with an id_token, new or from a warm
\* session: its keys may have to be fetched.
AnswerWithIDToken(h, idToken, hasRefreshToken, upstreamExpiresIn) ==
    /\ free(h)
    /\ await(h, [phase |-> "validating", idToken |-> idToken,
                 hasRefreshToken |-> hasRefreshToken, expiresIn |-> upstreamExpiresIn])

\* The IdP answers with only an access token: its userinfo endpoint is asked
\* whose it is.
AnswerWithAccessToken(h, accessToken, user, upstreamExpiresIn) ==
    /\ free(h)
    /\ await(h, [phase |-> "userinfo", accessToken |-> accessToken, user |-> user,
                 expiresIn |-> upstreamExpiresIn])

\* maybeRefreshNearExpiredIDToken asks the IdP for a new id_token.
nearExpiry(idToken) == expOf(idToken) > 0 /\ expOf(idToken) - now < RefreshThreshold

\* The id_token validates: it is the bearer's, or is refreshed first.
IDTokenValidates(h) ==
    LET idToken == handler[h].idToken
        refresh == handler[h].hasRefreshToken /\ nearExpiry(idToken)
    IN  /\ handler[h].phase = "validating"
        /\ ValidateUpstreamIdentityToken(idToken, cfg.ClientID)
        /\ \/ /\ refresh
              /\ await(h, [phase |-> "refreshing", idToken |-> idToken,
                           expiresIn |-> handler[h].expiresIn])
           \/ ~refresh /\ issue(h, idToken, NoToken, handler[h].expiresIn, idToken)

\* The userinfo answer is accepted: the access token itself is the bearer.
UserInfoReturns(h) ==
    /\ handler[h].phase = "userinfo"
    /\ fetchUserInfo(handler[h].user)
    /\ issue(h, NoToken, handler[h].accessToken, handler[h].expiresIn, handler[h].user)

\* server_error: the identity is refused, or the keys or the userinfo cannot
\* be had.
IdentityFails(h) ==
    /\ handler[h].phase \in {"validating", "userinfo"}
    /\ await(h, Idle)

\* The refresh is answered with an id_token, whose keys may have to be
\* fetched again ...
RefreshReturns(h, fresh) ==
    /\ handler[h].phase = "refreshing"
    /\ await(h, [phase |-> "revalidating", idToken |-> handler[h].idToken,
                 expiresIn |-> handler[h].expiresIn, fresh |-> fresh])

\* Fault: an id_token that is near expiry again is refreshed again.
RefreshAgain(h) ==
    /\ handler[h].phase = "revalidating"
    /\ ValidateUpstreamIdentityToken(handler[h].fresh, cfg.ClientID)
    /\ IF nearExpiry(handler[h].fresh)
       THEN await(h, [phase |-> "refreshing", idToken |-> handler[h].fresh,
                      expiresIn |-> handler[h].expiresIn])
       ELSE issue(h, handler[h].fresh, NoToken, handler[h].expiresIn, handler[h].fresh)

\* ... and which validates; what is left of it replaces the answer's
\* expires_in ...
FreshValidates(h) ==
    LET fresh == handler[h].fresh
    IN  /\ handler[h].phase = "revalidating"
        /\ ValidateUpstreamIdentityToken(fresh, cfg.ClientID)
        /\ issue(h, fresh, NoToken,
                 IF expOf(fresh) > now THEN expOf(fresh) - now ELSE handler[h].expiresIn, fresh)

\* ... or there is none that does, and the old id_token serves.
RefreshFails(h) ==
    /\ handler[h].phase \in {"refreshing", "revalidating"}
    /\ issue(h, handler[h].idToken, NoToken, handler[h].expiresIn, handler[h].idToken)
-----------------------------------------------------------------------------
\* decodeDownstreamAccessToken: the wrapped id_token, while the JWE lives.
unwrap(bearer) ==
    IF /\ Gating
       /\ bearer.form = "jwe"
       /\ decodeJWE(hkdfInfoDownstreamToken, bearer.token, now)
    THEN jwt(bearer.token.claims["upstream_id_token"])
    ELSE bearer

applyClaimChecks(claims) ==
    IF cfg.Audience # <<>> /\ ~audienceMatchesResource(claims.Audience, cfg.Audience)
    THEN "invalid_token"
    ELSE IF claims.ExpiresAt > 0 /\ now > claims.ExpiresAt + ClockSkew THEN "token_expired"
    ELSE IF claims.NotBefore > now + ClockSkew \/ claims.IssuedAt > now + ClockSkew
    THEN "invalid_token"
    ELSE IF ~hasRequiredScopes(claims.Scopes, cfg.RequiredScopes) THEN "insufficient_scope"
    ELSE applyIdentityPolicy(cfg, claims)

\* What is not a JWT is refused in gating mode and left to the backend in
\* forward mode; so is a JWT if there is nobody to ask for keys.
Validate(bearer) ==
    IF bearer.form # "jwt" THEN IF Gating THEN "invalid_token" ELSE "not_validated"
    ELSE IF ~keysKnown THEN "not_validated"
    ELSE IF ~parseAndVerifyJWT(bearer.token, cfg.Audience) THEN "invalid_token"
    ELSE applyClaimChecks(claimsFromRaw(bearer.token))

\* A request with a bearer that was issued; the backend gets the bearer as
\* the client sent it.
Middleware(response) ==
    /\ last' = [verdict |-> Validate(unwrap(response.bearer)), at |-> now, response |-> response]
    /\ UNCHANGED <<cfg, now, handler, issued>>

\* A request without one.
MissingToken ==
    /\ last' = [verdict |-> "missing_token"]
    /\ UNCHANGED <<cfg, now, handler, issued>>

Tick ==
    /\ now < MaxClock
    /\ now' = now + 1
    /\ UNCHANGED <<cfg, handler, issued, last>>

\* A JSON object with these claims added.
carrying(raw, claims) ==
    [key \in DOMAIN raw \union DOMAIN claims |->
        IF key \in DOMAIN claims THEN claims[key] ELSE raw[key]]

\* A token of the IdP, valid from now on by its clock.
IdPToken(identity, aud) ==
    carrying(identity, [iss |-> text(AuthServer), aud |-> text(aud),
                        iat |-> number(now + IdPDrift), nbf |-> number(now + IdPDrift)])

\* The id_tokens the IdP may return now, without scopes as id_tokens are: for
\* any identity with some lifetime left or without exp, or for another
\* audience.
IdPTokens ==
    {carrying(IdPToken(i, cfg.ClientID), [exp |-> number(now + IdPDrift + d)])
        : i \in Identities, d \in Lifetimes}
    \union {IdPToken(i, cfg.ClientID) : i \in Identities}
    \union {IdPToken(i, <<"other">>) : i \in Identities}

\* Access tokens: opaque, or JWTs for the resource.
AccessTokens(identity) ==
    {opaque, jwt(carrying(IdPToken(identity, cfg.Audience), [scope |-> text(<<"mcp", "openid">>)]))}

\* The rest of /token for one request, once the code exchange is answered.
Handle(h) ==
    \/ IdentityFails(h)
    \/ RefreshFails(h)
    \/ IDTokenValidates(h)
    \/ UserInfoReturns(h)
    \/ \E fresh \in IdPTokens : RefreshReturns(h, fresh)
    \/ FreshValidates(h)

Next ==
    \/ \E h \in Handlers, idToken \in IdPTokens, hasRefreshToken \in BOOLEAN,
          n \in {0} \union Lifetimes : AnswerWithIDToken(h, idToken, hasRefreshToken, n)
    \/ \E h \in Handlers, user \in Identities, n \in {0} \union Lifetimes :
           \E accessToken \in AccessTokens(user) : AnswerWithAccessToken(h, accessToken, user, n)
    \/ \E h \in Handlers : Handle(h)
    \/ \E response \in issued : Middleware(response)
    \/ MissingToken
    \/ Tick

\* Every wait of a handler ends: with the answer or with the time limit of the
\* HTTP client.
Fairness == \A h \in Handlers : WF_vars(Handle(h))

Spec == Init /\ [][Next]_vars /\ Fairness
-----------------------------------------------------------------------------
served  == last.verdict \in {"accepted", "not_validated"}
refused == last.verdict \in {"invalid_token", "token_expired", "email_not_verified",
                             "unauthorized_domain", "insufficient_scope"}

\* The shape of the state.
TypeOK ==
    /\ cfg \in Configs
    /\ now \in Nat
    /\ \A h \in Handlers : handler[h].phase \in {"idle", "validating", "userinfo", "refreshing", "revalidating"}
    /\ \A response \in issued :
        /\ response.at \in 1 .. now
        /\ response.expires_in \in Nat
        /\ response.bearer.form \in {"jwt", "jwe", "opaque"}
    /\ served \/ refused \/ last.verdict \in {"none", "missing_token"}

\* In gating mode a bearer that wraps an id_token is served no longer than
\* AccessTokenTTL after it was issued and not beyond the id_token's exp (the
\* JWE's exp is the earlier of the two); in forward mode an id_token is served
\* no longer than ClockSkew beyond its exp.
ServedWithinLifetime ==
    served /\ last.response.idToken # NoToken =>
        /\ Gating => last.at <= last.response.at + AccessTokenTTL
        /\ expOf(last.response.idToken) > 0 =>
              last.at <= expOf(last.response.idToken) + (IF Gating THEN 0 ELSE ClockSkew)

\* A bearer from an id_token that is presented before the expires_in of its
\* token response has run out is served, even when the refresh in between took
\* its time and the IdP's clock is off by ClockSkew; unless RequiredScopes asks
\* for scopes that the id_token does not have.
AdvertisedLifetimeHonoured ==
    /\ served \/ refused
    /\ last.response.idToken # NoToken
    /\ last.at < last.response.at + last.response.expires_in
    /\ hasRequiredScopes(claimsFromRaw(last.response.idToken).Scopes, cfg.RequiredScopes)
    => served

\* Nobody whom the policy keeps out is given a bearer: not by an id_token, not
\* by a refresh that answers with somebody else's, not by an access token with
\* a userinfo answer, and whatever JSON type email_verified comes in.
IssuedIdentityAllowed ==
    \A response \in issued :
        /\ \/ cfg.AllowUnverifiedEmail
           \/ string(response.identity, "email") = <<>>
           \/ isTrue(response.identity)
           \/ string(response.identity, "email_verified") = <<"true">>
        /\ cfg.AllowedEmailDomains # {} =>
            \E d \in cfg.AllowedEmailDomains :
                Ext!IsSuffix(<<"@">> \o d, string(response.identity, "email"))
        /\ cfg.AllowedHostedDomains # {} =>
            string(response.identity, "hd") \in cfg.AllowedHostedDomains

\* A token request that the IdP has answered is answered, whichever of the
\* keys, the userinfo and the refreshed id_token are late, missing or refused,
\* and however little of its life the refreshed id_token has left.
TokenRequestsAnswered ==
    \A h \in Handlers : handler[h].phase # "idle" ~> handler[h].phase = "idle"

\* config.go, ModeGating: "the backend never sees the upstream token".
BackendNeverSeesUpstreamToken ==
    Gating /\ served => last.response.bearer.form = "jwe"
=============================================================================
