-------------------------- MODULE TokenIssueProofs --------------------------
(***************************************************************************)
(* The safety properties of TokenIssue for every Config, every set of      *)
(* identities, every lifetime, time to live, skew and threshold, any       *)
(* number of handlers and bearers.                                         *)
(***************************************************************************)
EXTENDS TokenIssue, TLAPS

\* Whom the policy lets in.
Allowed(identity) ==
    /\ \/ cfg.AllowUnverifiedEmail
       \/ string(identity, "email") = <<>>
       \/ isTrue(identity)
       \/ string(identity, "email_verified") = <<"true">>
    /\ cfg.AllowedEmailDomains # {} =>
        \E d \in cfg.AllowedEmailDomains :
            Ext!IsSuffix(<<"@">> \o d, string(identity, "email"))
    /\ cfg.AllowedHostedDomains # {} => string(identity, "hd") \in cfg.AllowedHostedDomains

\* An id_token of the IdP's, issued at `time' or before.
FromIdP(token, time) ==
    /\ token # NoToken
    /\ string(token, "email") \in Seq(STRING)
    /\ expOf(token) \in Int
    /\ claimsFromRaw(token).IssuedAt \in Int /\ claimsFromRaw(token).NotBefore \in Int
    /\ claimsFromRaw(token).IssuedAt <= time + IdPDrift
    /\ claimsFromRaw(token).NotBefore <= time + IdPDrift

\* One that passed the identity check.
TokenOK(token, time) ==
    /\ FromIdP(token, time)
    /\ ValidateUpstreamIdentityToken(token, cfg.ClientID)
    /\ Allowed(token)

\* What a handler holds in each of its waits.
WaitOK(k) ==
    \/ k.phase = "idle"
    \/ /\ k.phase = "validating" /\ k.expiresIn \in Nat
       /\ FromIdP(k.idToken, now)
    \/ /\ k.phase = "userinfo" /\ k.expiresIn \in Nat
       /\ k.user \in Identities /\ k.accessToken.form \in {"jwt", "opaque"}
    \/ /\ k.phase = "refreshing" /\ k.expiresIn \in Nat
       /\ TokenOK(k.idToken, now)
    \/ /\ k.phase = "revalidating" /\ k.expiresIn \in Nat
       /\ TokenOK(k.idToken, now) /\ FromIdP(k.fresh, now)

HandlersOK ==
    /\ DOMAIN handler = Handlers
    /\ \A h \in Handlers : WaitOK(handler[h])

\* The exp that the bearer has by itself, after which it is not served.
BearerExp(r, e) ==
    /\ e \in Int
    /\ r.bearer = jwe(encodeDownstreamAccessToken(r.idToken, e))
    /\ e <= r.at + AccessTokenTTL
    /\ expOf(r.idToken) > 0 => e <= expOf(r.idToken)
    /\ r.expires_in > 0 => r.at + r.expires_in <= e

\* A response that was made of an id_token promises no more than the bearer
\* and the id_token have left.
Promise(r) ==
    /\ TokenOK(r.idToken, r.at)
    /\ Gating => \E e : BearerExp(r, e)
    /\ ~Gating =>
        /\ r.bearer = jwt(r.idToken)
        /\ expOf(r.idToken) > 0 /\ r.expires_in > 0 => r.at + r.expires_in <= expOf(r.idToken)

ResponseOK(r) ==
    /\ r.at \in 1 .. now
    /\ r.expires_in \in Nat
    /\ r.bearer.form \in {"jwt", "jwe", "opaque"}
    /\ Allowed(r.identity)
    /\ r.idToken # NoToken => Promise(r)

\* The inductive invariant.
IInv ==
    /\ cfg \in Configs
    /\ now \in Nat \ {0}
    /\ HandlersOK
    /\ \A r \in issued : ResponseOK(r)
    /\ served \/ refused \/ last.verdict \in {"none", "missing_token"}
-----------------------------------------------------------------------------
\* The lifetimes are numbers.
LEMMA Numbers ==
    ASSUME IInv
    PROVE  /\ now \in Nat \ {0} /\ AccessTokenTTL \in Nat /\ DefaultTTL \in Nat
           /\ ClockSkew \in Nat /\ IdPDrift \in Int
  BY TokenIssueAssumption DEF IInv, AccessTokenTTL, C!accessTokenTTL

\* What a token says that carries further claims.
LEMMA Carried ==
    ASSUME NEW raw, NEW claims, NEW key
    PROVE  /\ DOMAIN carrying(raw, claims) = DOMAIN raw \union DOMAIN claims
           /\ key \in DOMAIN claims => carrying(raw, claims)[key] = claims[key]
           /\ key \in DOMAIN raw \ DOMAIN claims => carrying(raw, claims)[key] = raw[key]
  BY DEF carrying

\* A claim that is not among those added reads as before.
LEMMA CarriedString ==
    ASSUME NEW raw, NEW claims, NEW key, key \notin DOMAIN claims
    PROVE  string(carrying(raw, claims), key) = string(raw, key)
<1> DEFINE t == carrying(raw, claims)
<1>1. /\ key \in DOMAIN t <=> key \in DOMAIN raw
      /\ key \in DOMAIN raw => t[key] = raw[key]
  BY DEF carrying
<1> HIDE DEF t
<1>2. string(t, key) = string(raw, key)
  BY <1>1 DEF string, has
<1> QED
  BY <1>2 DEF t

\* The tokens that the IdP returns.
LEMMA TokenOfIdP ==
    ASSUME IInv, NEW token \in IdPTokens
    PROVE  /\ token # NoToken
           /\ string(token, "email") \in Seq(STRING)
           /\ expOf(token) \in Int
           /\ claimsFromRaw(token).IssuedAt = now + IdPDrift
           /\ claimsFromRaw(token).NotBefore = now + IdPDrift
<1>1. /\ now + IdPDrift \in Int /\ now \in Int
      /\ \A d \in Lifetimes : now + IdPDrift + d \in Int
  BY Numbers, TokenIssueAssumption
<1> DEFINE claims(aud) == [iss |-> text(AuthServer), aud |-> text(aud),
                           iat |-> number(now + IdPDrift), nbf |-> number(now + IdPDrift)]
           life(d) == [exp |-> number(now + IdPDrift + d)]
<1>2. ASSUME NEW i \in Identities, NEW aud
      PROVE  /\ {"iss", "iat", "nbf"} \subseteq DOMAIN IdPToken(i, aud)
             /\ IdPToken(i, aud)["iat"] = number(now + IdPDrift)
             /\ IdPToken(i, aud)["nbf"] = number(now + IdPDrift)
             /\ string(IdPToken(i, aud), "email") = string(i, "email")
             /\ "exp" \notin DOMAIN IdPToken(i, aud)
  <2>1. /\ DOMAIN claims(aud) = {"iss", "aud", "iat", "nbf"}
        /\ claims(aud)["iat"] = number(now + IdPDrift) /\ claims(aud)["nbf"] = number(now + IdPDrift)
        /\ IdPToken(i, aud) = carrying(i, claims(aud))
    BY DEF IdPToken
  <2> HIDE DEF claims
  <2> DEFINE t == carrying(i, claims(aud))
  <2>2. DOMAIN t = DOMAIN i \union {"iss", "aud", "iat", "nbf"}
    BY <2>1, Carried
  <2>3. t["iat"] = claims(aud)["iat"] /\ t["nbf"] = claims(aud)["nbf"]
    BY <2>1 DEF carrying
  <2>4. string(t, "email") = string(i, "email")
    BY <2>1, CarriedString
  <2> HIDE DEF t
  <2>5. "exp" \notin DOMAIN t
    BY <2>2, TokenIssueAssumption
  <2>6. IdPToken(i, aud) = t
    BY <2>1 DEF t
  <2> QED
    BY <2>1, <2>2, <2>3, <2>4, <2>5, <2>6
<1>3. ASSUME NEW i \in Identities, NEW aud, token = IdPToken(i, aud)
      PROVE  /\ "iss" \in DOMAIN token /\ string(token, "email") = string(i, "email")
             /\ expOf(token) = 0
             /\ claimsFromRaw(token).IssuedAt = now + IdPDrift
             /\ claimsFromRaw(token).NotBefore = now + IdPDrift
  BY <1>2, <1>3 DEF expOf, claimsFromRaw, int64, has, number
<1>4. ASSUME NEW i \in Identities, NEW d \in Lifetimes,
             token = carrying(IdPToken(i, cfg.ClientID), life(d))
      PROVE  /\ "iss" \in DOMAIN token /\ string(token, "email") = string(i, "email")
             /\ expOf(token) = now + IdPDrift + d
             /\ claimsFromRaw(token).IssuedAt = now + IdPDrift
             /\ claimsFromRaw(token).NotBefore = now + IdPDrift
  <2> DEFINE t == IdPToken(i, cfg.ClientID)
  <2>1. /\ {"iss", "iat", "nbf"} \subseteq DOMAIN t
        /\ t["iat"] = number(now + IdPDrift) /\ t["nbf"] = number(now + IdPDrift)
        /\ string(t, "email") = string(i, "email")
    BY <1>2
  <2> HIDE DEF t
  <2>2. DOMAIN life(d) = {"exp"} /\ life(d)["exp"] = number(now + IdPDrift + d)
    OBVIOUS
  <2>3. token = carrying(t, life(d))
    BY <1>4 DEF t
  <2> HIDE DEF life
  <2>4. /\ {"iss", "iat", "nbf", "exp"} \subseteq DOMAIN token
        /\ token["iat"] = number(now + IdPDrift) /\ token["nbf"] = number(now + IdPDrift)
        /\ token["exp"] = number(now + IdPDrift + d)
        /\ string(token, "email") = string(i, "email")
    <3> DEFINE more == life(d)
    <3>1. DOMAIN more = {"exp"} /\ more["exp"] = number(now + IdPDrift + d)
      BY <2>2
    <3> HIDE DEF more
    <3>2. token = carrying(t, more)
      BY <2>3 DEF more
    <3>3. DOMAIN token = DOMAIN t \union {"exp"}
      BY <3>1, <3>2, Carried
    <3>4. token["exp"] = more["exp"] /\ token["iat"] = t["iat"] /\ token["nbf"] = t["nbf"]
      <4>1. "iat" \in DOMAIN t \ DOMAIN more /\ "nbf" \in DOMAIN t \ DOMAIN more
            /\ "exp" \in DOMAIN more
        BY <2>1, <3>1
      <4> QED
        BY <3>2, <4>1 DEF carrying
    <3>5. string(token, "email") = string(t, "email")
      BY <3>1, <3>2, CarriedString
    <3> QED
      BY <2>1, <3>1, <3>3, <3>4, <3>5
  <2> QED
    BY <2>4 DEF expOf, claimsFromRaw, int64, has, number
<1>5. \/ \E i \in Identities, d \in Lifetimes : token = carrying(IdPToken(i, cfg.ClientID), life(d))
      \/ \E i \in Identities : token = IdPToken(i, cfg.ClientID)
      \/ \E i \in Identities : token = IdPToken(i, <<"other">>)
  BY DEF IdPTokens
<1> HIDE DEF life, claims
<1>6. "iss" \in DOMAIN token => token # NoToken
  BY DEF NoToken
<1>7. CASE \E i \in Identities, d \in Lifetimes :
             token = carrying(IdPToken(i, cfg.ClientID), life(d))
  BY <1>1, <1>4, <1>6, <1>7, TokenIssueAssumption
<1>8. CASE \E i \in Identities, aud \in {cfg.ClientID, <<"other">>} : token = IdPToken(i, aud)
  BY <1>1, <1>3, <1>6, <1>8, TokenIssueAssumption
<1> QED
  BY <1>5, <1>7, <1>8
-----------------------------------------------------------------------------
\* An email address with a domain ends in "@" and that domain.
LEMMA DomainIsSuffix ==
    ASSUME NEW S, NEW email \in Seq(S), emailDomain(email) # <<>>
    PROVE  Ext!IsSuffix(<<"@">> \o emailDomain(email), email)
<1> DEFINE at == {i \in DOMAIN email : email[i] = "@"}
<1>1. PICK i \in at : at = {i}
  BY DEF emailDomain
<1>2. Sets!Min(at) = i
  <2>1. i \in Int
    BY <1>1
  <2> HIDE DEF at
  <2> QED
    BY <1>1, <2>1 DEF Sets!Min
<1>3. emailDomain(email) = SubSeq(email, i + 1, Len(email))
  <2>1. \E j \in at : at = {j}
    BY <1>1
  <2> QED
    BY <1>2, <2>1 DEF emailDomain
<1>4. i \in 1 .. Len(email) /\ email[i] = "@" /\ Len(email) \in Nat
  BY <1>1
<1> DEFINE d == emailDomain(email)
           s == <<"@">> \o d
           n == Len(email) - i + 1
<1>5. /\ s \in Seq(S \union {"@"}) /\ Len(s) = n /\ n \in 1 .. Len(email)
      /\ \A j \in 1 .. n : s[j] = email[i + j - 1]
  <2>1. /\ d \in Seq(S) /\ Len(d) = Len(email) - i
        /\ \A j \in 1 .. Len(email) - i : d[j] = email[i + j]
    BY <1>3, <1>4
  <2> HIDE DEF d
  <2>2. n \in 1 .. Len(email) /\ n = Len(d) + 1
    BY <1>4, <2>1
  <2>3. s \in Seq(S \union {"@"}) /\ Len(s) = Len(d) + 1
    <3>1. d \in Seq(S \union {"@"}) /\ <<"@">> \in Seq(S \union {"@"}) /\ Len(<<"@">>) = 1
      BY <2>1
    <3> QED
      BY <3>1
  <2>4. s[1] = "@"
    BY <2>1
  <2>5. ASSUME NEW j \in 2 .. n PROVE s[j] = d[j - 1]
    BY <2>1, <2>2
  <2>6. ASSUME NEW j \in 1 .. n PROVE s[j] = email[i + j - 1]
    <3>1. CASE j = 1
      BY <1>4, <2>4, <3>1
    <3>2. CASE j # 1
      <4>1. j \in 2 .. n /\ j - 1 \in 1 .. Len(email) - i /\ i + (j - 1) = i + j - 1
        BY <1>4, <2>1, <2>2, <3>2
      <4> QED
        BY <2>1, <2>5, <4>1
    <3> QED
      BY <3>1, <3>2
  <2> QED
    BY <2>2, <2>3, <2>6
<1> HIDE DEF d, s, n
<1> DEFINE u == Ext!Reverse(s)
           v == Ext!Reverse(email)
<1>6. /\ u \in Seq(S \union {"@"}) /\ Len(u) = n /\ v \in Seq(S) /\ Len(v) = Len(email)
      /\ \A k \in 1 .. n : u[k] = s[n - k + 1]
      /\ \A k \in 1 .. Len(email) : v[k] = email[Len(email) - k + 1]
  BY <1>4, <1>5 DEF Ext!Reverse
<1> HIDE DEF u, v
<1> HIDE DEF at
<1>7. n \in Nat /\ n <= Len(email) /\ i + n - 1 = Len(email) /\ i \in Nat
  <2>1. i \in Int /\ 1 <= i /\ i <= Len(email) /\ n = Len(email) - i + 1
    BY <1>4 DEF n
  <2> QED
    BY <1>4, <2>1
<1>8. ASSUME NEW k \in 1 .. n PROVE u[k] = v[k]
  <2>1. /\ n - k + 1 \in 1 .. n /\ k \in 1 .. Len(email)
        /\ i + (n - k + 1) - 1 = Len(email) - k + 1
    BY <1>4, <1>7
  <2> QED
    BY <1>5, <1>6, <2>1
<1>9. SubSeq(u, 1, n) = SubSeq(v, 1, n)
  BY <1>4, <1>5, <1>6, <1>8
<1>10. Ext!IsPrefix(u, v)
  BY <1>4, <1>5, <1>6, <1>9 DEF Ext!IsPrefix
<1> QED
  BY <1>10 DEF Ext!IsSuffix, u, v, s, d

\* Whom the policy accepts is allowed.
LEMMA PolicyAllows ==
    ASSUME NEW identity, string(identity, "email") \in Seq(STRING),
           NEW claims, claims.Email = string(identity, "email"),
           claims.HostedDomain = string(identity, "hd"),
           claims.EmailVerified =>
               isTrue(identity) \/ string(identity, "email_verified") = <<"true">>,
           applyIdentityPolicy(cfg, claims) = "accepted"
    PROVE  Allowed(identity)
<1>1. /\ cfg.AllowUnverifiedEmail \/ claims.Email = <<>> \/ claims.EmailVerified
      /\ domainAllowed(cfg.AllowedEmailDomains, emailDomain(claims.Email))
      /\ domainAllowed(cfg.AllowedHostedDomains, claims.HostedDomain)
  BY DEF applyIdentityPolicy
<1>2. ASSUME cfg.AllowedEmailDomains # {}
      PROVE  \E d \in cfg.AllowedEmailDomains :
                 Ext!IsSuffix(<<"@">> \o d, string(identity, "email"))
  <2>1. /\ emailDomain(string(identity, "email")) # <<>>
        /\ emailDomain(string(identity, "email")) \in cfg.AllowedEmailDomains
    BY <1>1, <1>2 DEF domainAllowed
  <2> QED
    BY <2>1, DomainIsSuffix
<1>3. cfg.AllowedHostedDomains # {} => string(identity, "hd") \in cfg.AllowedHostedDomains
  BY <1>1 DEF domainAllowed
<1> QED
  BY <1>1, <1>2, <1>3 DEF Allowed

\* An id_token that the identity check accepts is somebody's who is allowed.
LEMMA ValidatedAllowed ==
    ASSUME NEW token, string(token, "email") \in Seq(STRING), NEW aud,
           ValidateUpstreamIdentityToken(token, aud)
    PROVE  Allowed(token)
<1> DEFINE claims == claimsFromRaw(token)
<1>1. /\ claims.Email = string(token, "email") /\ claims.HostedDomain = string(token, "hd")
      /\ claims.EmailVerified <=> isTrue(token) \/ string(token, "email_verified") = <<"true">>
  BY Zenon DEF claimsFromRaw
<1>2. applyIdentityPolicy(cfg, claims) = "accepted"
  BY DEF ValidateUpstreamIdentityToken
<1> HIDE DEF claims
<1> QED
  BY <1>1, <1>2, PolicyAllows

\* So is somebody whose userinfo the policy accepts.
LEMMA UserInfoAllowed ==
    ASSUME NEW user \in Identities, fetchUserInfo(user)
    PROVE  Allowed(user)
<1> DEFINE claims == claimsFromUserInfo(user)
<1>1. /\ claims.Email = string(user, "email") /\ claims.HostedDomain = string(user, "hd")
      /\ claims.EmailVerified <=> isTrue(user)
  BY Zenon DEF claimsFromUserInfo
<1>2. applyIdentityPolicy(cfg, claims) = "accepted" /\ string(user, "email") \in Seq(STRING)
  BY TokenIssueAssumption DEF fetchUserInfo
<1> HIDE DEF claims
<1> QED
  BY <1>1, <1>2, PolicyAllows
-----------------------------------------------------------------------------
\* A bound that grows stays a bound.
LEMMA LaterBound ==
    ASSUME NEW a \in Nat, NEW b \in Nat, a <= b, NEW d \in Int, NEW x \in Int, x <= a + d
    PROVE  x <= b + d
  OBVIOUS

\* What is in order stays so while the Config stays and time does not run
\* backwards.
LEMMA StillOK ==
    ASSUME UNCHANGED cfg, now \in Nat, now' \in Nat, now <= now', IdPDrift \in Int
    PROVE  /\ \A token : \A time \in Int :
                TokenOK(token, time) => TokenOK(token, time)'
           /\ \A k : WaitOK(k) => WaitOK(k)'
           /\ \A r : ResponseOK(r) => ResponseOK(r)'
<1>1. Gating' = Gating /\ AccessTokenTTL' = AccessTokenTTL
  BY DEF Gating, AccessTokenTTL, C!IsGating, C!Normalize, C!accessTokenTTL
<1>2. \A token, aud : ValidateUpstreamIdentityToken(token, aud) =>
                      ValidateUpstreamIdentityToken(token, aud)'
  BY DEF ValidateUpstreamIdentityToken, parseAndVerifyJWT, keysKnown
<1>3. \A identity : Allowed(identity) => Allowed(identity)'
  BY DEF Allowed
<1>4. ASSUME NEW token, NEW time \in Int, TokenOK(token, time)
      PROVE  TokenOK(token, time)'
  BY <1>2, <1>4, <1>3 DEF TokenOK, FromIdP
<1>5. ASSUME NEW k, WaitOK(k)
      PROVE  WaitOK(k)'
  <2>1. \A x \in Int : x <= now + IdPDrift => x <= now' + IdPDrift
    BY LaterBound
  <2>2. \A token : FromIdP(token, now) => FromIdP(token, now)'
    BY <2>1 DEF FromIdP
  <2>3. \A token : TokenOK(token, now) => TokenOK(token, now)'
    BY <1>2, <1>3, <2>2 DEF TokenOK
  <2> QED
    BY <1>5, <2>2, <2>3 DEF WaitOK
<1>6. ASSUME NEW r, ResponseOK(r)
      PROVE  ResponseOK(r)'
  <2>1. r.at \in 1 .. now /\ r.at \in Int /\ r.at \in 1 .. now'
    BY <1>6 DEF ResponseOK
  <2>2. Allowed(r.identity)'
    BY <1>6, <1>3 DEF ResponseOK
  <2>3. \A e : BearerExp(r, e) => BearerExp(r, e)'
    BY <1>1 DEF BearerExp
  <2>4. Promise(r) => Promise(r)'
    BY <1>1, <1>4, <2>1, <2>3 DEF Promise
  <2> QED
    BY <1>6, <2>1, <2>2, <2>4 DEF ResponseOK
<1> QED
  BY <1>4, <1>5, <1>6

\* Handlers stay in order when one of them goes on to what is in order.
LEMMA HandlersStay ==
    ASSUME IInv, UNCHANGED cfg, now' \in Nat, now <= now',
           \/ UNCHANGED handler
           \/ \E h \in Handlers : \E w : WaitOK(w) /\ handler' = [handler EXCEPT ![h] = w]
    PROVE  HandlersOK'
<1>1. now \in Nat /\ IdPDrift \in Int
  BY Numbers
<1>2. DOMAIN handler = Handlers /\ \A h \in Handlers : WaitOK(handler[h])
  BY DEF IInv, HandlersOK
<1>3. DOMAIN handler' = Handlers
  BY <1>2
<1>4. ASSUME NEW g \in Handlers, NEW k, k = handler'[g]
      PROVE  WaitOK(k)'
  <2>1. WaitOK(k)
    BY <1>2, <1>4
  <2> QED
    BY <1>1, <2>1, StillOK
<1> QED
  BY <1>3, <1>4 DEF HandlersOK

\* The expires_in of a response from an id_token, and the exp of its bearer.
LEMMA Lifetime ==
    ASSUME IInv, NEW token, TokenOK(token, now), NEW n \in Nat
    PROVE  /\ expiresIn(token, n) \in Nat
           /\ expAt(token) \in Int
           /\ expAt(token) <= now + AccessTokenTTL
           /\ expOf(token) > 0 => expAt(token) <= expOf(token)
           /\ Gating /\ expiresIn(token, n) > 0 => now + expiresIn(token, n) <= expAt(token)
           /\ ~Gating /\ expOf(token) > 0 /\ expiresIn(token, n) > 0 =>
                now + expiresIn(token, n) <= expOf(token)
<1> DEFINE exp == expOf(token)
<1>1. /\ exp \in Int /\ now \in Nat /\ AccessTokenTTL \in Nat /\ DefaultTTL \in Nat
      /\ token # NoToken
  BY Numbers DEF TokenOK, FromIdP
<1>2. /\ expAt(token) = IF exp > 0 THEN lesser(now + AccessTokenTTL, exp)
                        ELSE now + AccessTokenTTL
      /\ Gating => expiresIn(token, n) =
           atLeastZero(IF exp > 0 THEN lesser(AccessTokenTTL, exp - now) ELSE AccessTokenTTL)
      /\ ~Gating => expiresIn(token, n) =
           IF exp > 0 THEN atLeastZero(exp - now) ELSE IF n > 0 THEN n ELSE DefaultTTL
  BY <1>1 DEF expAt, expiresIn
<1> HIDE DEF exp
<1>3. CASE Gating
  BY <1>1, <1>2, <1>3 DEF lesser, atLeastZero, exp
<1>4. CASE ~Gating
  BY <1>1, <1>2, <1>4 DEF lesser, atLeastZero, exp
<1> QED
  BY <1>3, <1>4

\* A token response keeps the invariant.
LEMMA IssueKeeps ==
    ASSUME IInv, NEW h \in Handlers, NEW idToken, NEW accessToken, NEW n \in Nat, NEW identity,
           Allowed(identity),
           idToken # NoToken => TokenOK(idToken, now),
           idToken = NoToken => accessToken.form \in {"jwt", "opaque"},
           issue(h, idToken, accessToken, n, identity)
    PROVE  IInv'
<1> DEFINE r == [bearer |-> bearerToken(idToken, accessToken), idToken |-> idToken, at |-> now,
                 identity |-> identity, expires_in |-> expiresIn(idToken, n)]
<1>1. /\ issued' = issued \union {r} /\ handler' = [handler EXCEPT ![h] = Idle]
      /\ UNCHANGED <<cfg, now, last>>
  BY DEF issue
<1>2. /\ r.bearer = bearerToken(idToken, accessToken) /\ r.idToken = idToken /\ r.at = now
      /\ r.identity = identity /\ r.expires_in = expiresIn(idToken, n)
  OBVIOUS
<1> HIDE DEF r
<1>3. ResponseOK(r)
  <2>1. r.at \in 1 .. now
    BY <1>2, Numbers
  <2>2. CASE idToken = NoToken
    <3>1. r.expires_in \in Nat
      BY <1>2, <2>2, Numbers DEF expiresIn
    <3>2. r.bearer.form \in {"jwt", "jwe", "opaque"}
      BY <1>2, <2>2 DEF bearerToken
    <3> QED
      BY <1>2, <2>1, <2>2, <3>1, <3>2 DEF ResponseOK
  <2>3. CASE idToken # NoToken
    <3>1. TokenOK(idToken, now)
      BY <2>3
    <3>2. r.bearer = IF Gating THEN jwe(encodeDownstreamAccessToken(idToken, expAt(idToken)))
                     ELSE jwt(idToken)
      BY <1>2, <2>3 DEF bearerToken
    <3>3. r.bearer.form \in {"jwt", "jwe", "opaque"}
      BY <3>2 DEF jwt, jwe
    <3>4. Gating => BearerExp(r, expAt(idToken))
      BY <1>2, <3>1, <3>2, Lifetime DEF BearerExp
    <3>5. Promise(r)
      BY <1>2, <3>1, <3>2, <3>4, Lifetime DEF Promise
    <3>6. r.expires_in \in Nat
      BY <1>2, <3>1, Lifetime
    <3> QED
      BY <1>2, <2>1, <3>3, <3>5, <3>6 DEF ResponseOK
  <2> QED
    BY <2>2, <2>3
<1>4. /\ now \in Nat /\ now' \in Nat /\ now <= now' /\ IdPDrift \in Int
  BY <1>1, Numbers
<1>5. \A x \in issued' : ResponseOK(x)'
  BY <1>1, <1>3, <1>4, StillOK DEF IInv
<1>6. HandlersOK'
  <2>1. WaitOK(Idle)
    BY DEF Idle, WaitOK
  <2> QED
    BY <1>1, <1>4, <2>1, HandlersStay
<1>7. served' = served /\ refused' = refused
  BY <1>1 DEF served, refused
<1> QED
  BY <1>1, <1>5, <1>6, <1>7 DEF IInv
-----------------------------------------------------------------------------
\* A handler that has to wait keeps the invariant.
LEMMA AwaitKeeps ==
    ASSUME IInv, NEW h \in Handlers, NEW w, WaitOK(w), await(h, w)
    PROVE  IInv'
<1>1. handler' = [handler EXCEPT ![h] = w] /\ UNCHANGED <<cfg, now, issued, last>>
  BY DEF await
<1>2. now \in Nat /\ now' \in Nat /\ now <= now' /\ IdPDrift \in Int
  BY <1>1, Numbers
<1>3. HandlersOK'
  BY <1>1, <1>2, HandlersStay
<1>4. \A r \in issued' : ResponseOK(r)'
  BY <1>1, <1>2, StillOK DEF IInv
<1>5. served' = served /\ refused' = refused
  BY <1>1 DEF served, refused
<1> QED
  BY <1>1, <1>3, <1>4, <1>5 DEF IInv

\* Time passes.
LEMMA TickKeeps ==
    ASSUME IInv, Tick
    PROVE  IInv'
<1>1. now' = now + 1 /\ UNCHANGED <<cfg, handler, issued, last>>
  BY DEF Tick
<1>2. now \in Nat /\ now' \in Nat \ {0} /\ now <= now' /\ IdPDrift \in Int
  BY <1>1, Numbers
<1>3. \A r \in issued' : ResponseOK(r)'
  BY <1>1, <1>2, StillOK DEF IInv
<1>4. HandlersOK'
  BY <1>1, <1>2, HandlersStay
<1>5. served' = served /\ refused' = refused
  BY <1>1 DEF served, refused
<1> QED
  BY <1>1, <1>2, <1>3, <1>4, <1>5 DEF IInv

\* The verdicts there are.
LEMMA Verdicts ==
    ASSUME NEW bearer
    PROVE  Validate(bearer) \in {"accepted", "not_validated", "invalid_token", "token_expired",
                                 "insufficient_scope", "email_not_verified", "unauthorized_domain"}
  BY DEF Validate, applyClaimChecks, applyIdentityPolicy

\* Requests keep the invariant.
LEMMA RequestsKeep ==
    ASSUME IInv, NEW verdict,
           verdict \in {"missing_token", "accepted", "not_validated", "invalid_token",
                        "token_expired", "insufficient_scope", "email_not_verified",
                        "unauthorized_domain"},
           last'.verdict = verdict, UNCHANGED <<cfg, now, handler, issued>>
    PROVE  IInv'
<1>1. now \in Nat /\ now' \in Nat /\ now <= now' /\ IdPDrift \in Int
  BY Numbers
<1>2. \A r \in issued' : ResponseOK(r)'
  BY <1>1, StillOK DEF IInv
<1>3. HandlersOK'
  BY <1>1, HandlersStay
<1>4. served' \/ refused' \/ last'.verdict \in {"none", "missing_token"}
  BY DEF served, refused
<1> QED
  BY <1>2, <1>3, <1>4 DEF IInv

\* A token that the IdP returned and that passed the identity check is in order.
LEMMA CheckedToken ==
    ASSUME NEW token, FromIdP(token, now), ValidateUpstreamIdentityToken(token, cfg.ClientID)
    PROVE  TokenOK(token, now) /\ Allowed(token) /\ token # NoToken
<1>1. Allowed(token)
  BY ValidatedAllowed DEF FromIdP
<1> QED
  BY <1>1 DEF TokenOK, FromIdP

\* The invariant holds initially.
LEMMA InitIInv == Init => IInv
  BY DEF Init, IInv, HandlersOK, WaitOK, Idle, served, refused

\* Every step keeps the invariant.
LEMMA NextIInv == IInv /\ [Next]_vars => IInv'
<1> SUFFICES ASSUME IInv, [Next]_vars PROVE IInv'
  OBVIOUS
<1>1. \A n \in {0} \union Lifetimes : n \in Nat
  BY TokenIssueAssumption
<1>2. ASSUME NEW token \in IdPTokens PROVE FromIdP(token, now)
  <2>1. now + IdPDrift \in Int
    BY Numbers
  <2> QED
    BY <2>1, TokenOfIdP DEF FromIdP
<1>3. ASSUME NEW h \in Handlers, NEW idToken \in IdPTokens, NEW hasRefreshToken \in BOOLEAN,
             NEW n \in {0} \union Lifetimes, AnswerWithIDToken(h, idToken, hasRefreshToken, n)
      PROVE  IInv'
  <2> DEFINE w == [phase |-> "validating", idToken |-> idToken,
                   hasRefreshToken |-> hasRefreshToken, expiresIn |-> n]
  <2>1. WaitOK(w)
    BY <1>1, <1>2 DEF WaitOK
  <2>2. await(h, w)
    BY <1>3 DEF AnswerWithIDToken
  <2> QED
    BY <2>1, <2>2, AwaitKeeps
<1>4. ASSUME NEW h \in Handlers, NEW user \in Identities, NEW n \in {0} \union Lifetimes,
             NEW accessToken \in AccessTokens(user), AnswerWithAccessToken(h, accessToken, user, n)
      PROVE  IInv'
  <2> DEFINE w == [phase |-> "userinfo", accessToken |-> accessToken, user |-> user,
                   expiresIn |-> n]
  <2>1. accessToken.form \in {"jwt", "opaque"}
    BY DEF AccessTokens, jwt, opaque
  <2>2. WaitOK(w)
    BY <1>1, <2>1 DEF WaitOK
  <2>3. await(h, w)
    BY <1>4 DEF AnswerWithAccessToken
  <2> QED
    BY <2>2, <2>3, AwaitKeeps
<1>5. ASSUME NEW h \in Handlers, Handle(h)
      PROVE  IInv'
  <2> DEFINE k == handler[h]
             token == k.idToken
             n == k.expiresIn
  <2>1. WaitOK(k)
    BY DEF IInv, HandlersOK
  <2>2. CASE IDTokenValidates(h)
    <3>1. FromIdP(token, now) /\ n \in Nat /\ ValidateUpstreamIdentityToken(token, cfg.ClientID)
      BY <2>1, <2>2 DEF IDTokenValidates, WaitOK
    <3>2. TokenOK(token, now) /\ Allowed(token) /\ token # NoToken
      BY <3>1, CheckedToken
    <3>3. CASE issue(h, token, NoToken, n, token)
      <4> HIDE DEF token, n
      <4> QED
        BY <3>1, <3>2, <3>3, IssueKeeps
    <3> DEFINE w == [phase |-> "refreshing", idToken |-> token, expiresIn |-> n]
    <3>4. CASE await(h, w)
      <4>1. WaitOK(w)
        BY <3>1, <3>2 DEF WaitOK
      <4> QED
        BY <3>4, <4>1, AwaitKeeps
    <3> QED
      BY <2>2, <3>3, <3>4 DEF IDTokenValidates
  <2>3. CASE UserInfoReturns(h)
    <3>1. /\ n \in Nat /\ k.user \in Identities /\ k.accessToken.form \in {"jwt", "opaque"}
          /\ fetchUserInfo(k.user) /\ issue(h, NoToken, k.accessToken, n, k.user)
      BY <2>1, <2>3 DEF UserInfoReturns, WaitOK
    <3>2. Allowed(k.user)
      BY <3>1, UserInfoAllowed
    <3> HIDE DEF k, n
    <3> QED
      BY <3>1, <3>2, IssueKeeps
  <2>4. CASE IdentityFails(h)
    <3>1. WaitOK(Idle)
      BY DEF Idle, WaitOK
    <3> QED
      BY <2>4, <3>1, AwaitKeeps DEF IdentityFails
  <2>5. CASE RefreshFails(h)
    <3>1. TokenOK(token, now) /\ n \in Nat /\ issue(h, token, NoToken, n, token)
      BY <2>1, <2>5 DEF RefreshFails, WaitOK
    <3>2. Allowed(token) /\ token # NoToken
      BY <3>1 DEF TokenOK, FromIdP
    <3> HIDE DEF token, n
    <3> QED
      BY <3>1, <3>2, IssueKeeps
  <2>6. ASSUME NEW fresh \in IdPTokens, RefreshReturns(h, fresh)
        PROVE  IInv'
    <3> DEFINE w == [phase |-> "revalidating", idToken |-> token, expiresIn |-> n,
                     fresh |-> fresh]
    <3>1. TokenOK(token, now) /\ n \in Nat /\ await(h, w)
      BY <2>1, <2>6 DEF RefreshReturns, WaitOK
    <3>2. WaitOK(w)
      BY <1>2, <3>1 DEF WaitOK
    <3> QED
      BY <3>1, <3>2, AwaitKeeps
  <2>7. CASE FreshValidates(h)
    <3> DEFINE fresh == k.fresh
               left == IF expOf(fresh) > now THEN expOf(fresh) - now ELSE n
    <3>1. /\ FromIdP(fresh, now) /\ n \in Nat
          /\ ValidateUpstreamIdentityToken(fresh, cfg.ClientID)
          /\ issue(h, fresh, NoToken, left, fresh)
      BY <2>1, <2>7 DEF FreshValidates, WaitOK
    <3>2. TokenOK(fresh, now) /\ Allowed(fresh) /\ fresh # NoToken
      BY <3>1, CheckedToken
    <3>3. expOf(fresh) \in Int /\ now \in Nat
      BY <3>1 DEF FromIdP, IInv
    <3> HIDE DEF fresh, n
    <3>4. left \in Nat
      BY <3>1, <3>3
    <3> HIDE DEF left
    <3> QED
      BY <3>1, <3>2, <3>4, IssueKeeps
  <2> QED
    BY <1>5, <2>2, <2>3, <2>4, <2>5, <2>6, <2>7 DEF Handle
<1>6. ASSUME NEW response \in issued, Middleware(response)
      PROVE  IInv'
  BY <1>6, Verdicts, RequestsKeep DEF Middleware
<1>7. CASE MissingToken
  BY <1>7, RequestsKeep DEF MissingToken
<1>8. CASE Tick
  BY <1>8, TickKeeps
<1>9. CASE UNCHANGED vars
  <2>1. now \in Nat /\ now' \in Nat /\ now <= now' /\ IdPDrift \in Int
        /\ UNCHANGED <<cfg, now, handler, issued, last>>
    BY <1>9, Numbers DEF vars
  <2>2. \A r \in issued' : ResponseOK(r)'
    BY <2>1, StillOK DEF IInv
  <2>4. HandlersOK'
    BY <2>1, HandlersStay
  <2>5. served' = served /\ refused' = refused
    BY <2>1 DEF served, refused
  <2> QED
    BY <2>1, <2>2, <2>4, <2>5 DEF IInv
<1> QED
  BY <1>2, <1>3, <1>4, <1>5, <1>6, <1>7, <1>8, <1>9 DEF Next

\* The invariant the theorems rest on holds in every state.
THEOREM Inductive == Spec => []IInv
  BY InitIInv, NextIInv, PTL DEF Spec
-----------------------------------------------------------------------------
\* The shape of the state, and a token response that names a lifetime no
\* shorter than none (handleToken, Middleware).
THEOREM TypeCorrect == Spec => []TypeOK
<1>1. IInv => TypeOK
  BY DEF IInv, HandlersOK, WaitOK, ResponseOK, TypeOK
<1> QED
  BY <1>1, Inductive, PTL

\* Nobody whom the policy keeps out is given a bearer, whichever way the IdP
\* tells who it is (applyIdentityPolicy, emailDomain, fetchUserInfo,
\* maybeRefreshNearExpiredIDToken).
THEOREM IssuedIdentityAllowedHolds == Spec => []IssuedIdentityAllowed
<1>1. IInv => IssuedIdentityAllowed
  BY DEF IInv, ResponseOK, Allowed, IssuedIdentityAllowed
<1> QED
  BY <1>1, Inductive, PTL

\* A step leaves the last request alone, or is a request.
LEMMA LastMoves ==
    ASSUME [Next]_vars
    PROVE  /\ UNCHANGED cfg
           /\ \/ UNCHANGED last
              \/ last' = [verdict |-> "missing_token"]
              \/ \E r \in issued :
                   last' = [verdict |-> Validate(unwrap(r.bearer)), at |-> now, response |-> r]
<1>1. CASE \E r \in issued : Middleware(r)
  BY <1>1 DEF Middleware
<1>2. CASE MissingToken \/ Tick \/ UNCHANGED vars
  BY <1>2 DEF MissingToken, Tick, vars
<1>3. ASSUME NEW h, NEW idToken, NEW accessToken, NEW n, NEW identity,
             issue(h, idToken, accessToken, n, identity)
      PROVE  UNCHANGED <<cfg, last>>
  BY <1>3 DEF issue
<1>4. ASSUME NEW h, NEW w, await(h, w)
      PROVE  UNCHANGED <<cfg, last>>
  BY <1>4 DEF await
<1>5. ASSUME NEW h, NEW idToken, NEW hasRefreshToken, NEW n,
             AnswerWithIDToken(h, idToken, hasRefreshToken, n)
      PROVE  UNCHANGED <<cfg, last>>
  BY <1>4, <1>5 DEF AnswerWithIDToken
<1>6. ASSUME NEW h, NEW accessToken, NEW user, NEW n, AnswerWithAccessToken(h, accessToken, user, n)
      PROVE  UNCHANGED <<cfg, last>>
  BY <1>4, <1>6 DEF AnswerWithAccessToken
<1>7. ASSUME NEW h, Handle(h)
      PROVE  UNCHANGED <<cfg, last>>
  <2>1. CASE IDTokenValidates(h) \/ FreshValidates(h)
    BY <1>3, <1>4, <2>1 DEF IDTokenValidates, FreshValidates
  <2>2. CASE UserInfoReturns(h) \/ IdentityFails(h) \/ RefreshFails(h)
    BY <1>3, <1>4, <2>2 DEF UserInfoReturns, IdentityFails, RefreshFails
  <2>3. ASSUME NEW fresh, RefreshReturns(h, fresh)
        PROVE  UNCHANGED <<cfg, last>>
    BY <1>4, <2>3 DEF RefreshReturns
  <2> QED
    BY <1>7, <2>1, <2>2, <2>3 DEF Handle
<1> QED
  BY <1>1, <1>2, <1>5, <1>6, <1>7 DEF Next

\* A wrapped id_token comes out of its JWE until the exp of the JWE.
LEMMA Unwrapped ==
    ASSUME Gating, NEW token, NEW e
    PROVE  unwrap(jwe(encodeDownstreamAccessToken(token, e)))
             = IF now <= e THEN jwt(token) ELSE jwe(encodeDownstreamAccessToken(token, e))
<1> DEFINE claims == [upstream_id_token |-> token, exp |-> e]
           artifact == encodeDownstreamAccessToken(token, e)
           b == jwe(artifact)
<1>1. /\ artifact.key = deriveKey(hkdfInfoDownstreamToken) /\ artifact.claims = claims
  BY DEF encodeDownstreamAccessToken, encodeJWE
<1>2. /\ DOMAIN claims = {"upstream_id_token", "exp"} /\ claims["exp"] = e
      /\ claims["upstream_id_token"] = token
  OBVIOUS
<1> HIDE DEF claims, artifact
<1>3. b.form = "jwe" /\ b.token = artifact
  BY DEF jwe
<1>4. decodeJWE(hkdfInfoDownstreamToken, artifact, now) <=> now <= e
  BY <1>1, <1>2 DEF decodeJWE, validateJWEClaimsWhitelist, validateJWEExpiration,
                    jweAllowedClaimKeys
<1> HIDE DEF b
<1>5. unwrap(b) = IF now <= e THEN jwt(token) ELSE b
  BY <1>1, <1>2, <1>3, <1>4 DEF unwrap
<1> QED
  BY <1>5 DEF b, artifact

\* What a wrapped id_token that has run out is told, and one that has not.
LEMMA VerdictOf ==
    ASSUME IInv, NEW r \in issued, r.idToken # NoToken,
           NEW verdict, verdict = Validate(unwrap(r.bearer))
    PROVE  \/ /\ verdict = Validate(jwt(r.idToken))
              /\ Gating => /\ now <= r.at + AccessTokenTTL
                           /\ expOf(r.idToken) > 0 => now <= expOf(r.idToken)
           \/ /\ Gating /\ verdict = "invalid_token"
              /\ now >= r.at + r.expires_in
<1>1. ResponseOK(r) /\ Promise(r)
  BY DEF IInv, ResponseOK
<1>2. CASE ~Gating
  BY <1>1, <1>2 DEF Promise, unwrap
<1>3. CASE Gating
  <2>1. PICK e : BearerExp(r, e)
    BY <1>1, <1>3 DEF Promise
  <2>2. /\ e \in Int /\ now \in Nat /\ r.at \in Int /\ r.at <= now /\ r.expires_in \in Nat
        /\ AccessTokenTTL \in Nat /\ expOf(r.idToken) \in Int
        /\ e <= r.at + AccessTokenTTL
        /\ expOf(r.idToken) > 0 => e <= expOf(r.idToken)
        /\ r.expires_in > 0 => r.at + r.expires_in <= e
    BY <1>1, <2>1, Numbers DEF BearerExp, ResponseOK, Promise, TokenOK, FromIdP
  <2>3. unwrap(r.bearer) = IF now <= e THEN jwt(r.idToken) ELSE r.bearer
    BY <1>3, <2>1, Unwrapped DEF BearerExp
  <2>4. CASE now <= e
    BY <2>2, <2>3, <2>4
  <2>5. CASE ~(now <= e)
    <3>1. r.bearer.form = "jwe"
      BY <2>1 DEF BearerExp, jwe
    <3>2. verdict = "invalid_token"
      BY <1>3, <2>3, <2>5, <3>1 DEF Validate
    <3>3. now >= r.at + r.expires_in
      BY <2>2, <2>5
    <3> QED
      BY <1>3, <3>2, <3>3
  <2> QED
    BY <2>4, <2>5
<1> QED
  BY <1>2, <1>3

\* A JWT is served no later than ClockSkew after its exp.
LEMMA ServedJwt ==
    ASSUME IInv, NEW token, TokenOK(token, now),
           Validate(jwt(token)) \in {"accepted", "not_validated"}
    PROVE  expOf(token) > 0 => now <= expOf(token) + ClockSkew
<1>1. keysKnown
  BY DEF TokenOK, FromIdP, ValidateUpstreamIdentityToken, parseAndVerifyJWT
<1>2. jwt(token).form = "jwt" /\ jwt(token).token = token
  BY DEF jwt
<1>3. applyClaimChecks(claimsFromRaw(token)) \in {"accepted", "not_validated"}
  BY <1>1, <1>2 DEF Validate
<1>4. ~(expOf(token) > 0 /\ now > expOf(token) + ClockSkew)
  BY <1>3 DEF applyClaimChecks, expOf
<1>5. expOf(token) \in Int /\ now \in Nat /\ ClockSkew \in Nat
  BY Numbers DEF TokenOK, FromIdP
<1> QED
  BY <1>4, <1>5

\* No bearer is served beyond AccessTokenTTL and the exp of the id_token it
\* wraps, nor a JWT beyond exp and ClockSkew (expAt in handleToken,
\* decodeDownstreamAccessToken, applyClaimChecks).
THEOREM ServedWithinLifetimeHolds == Spec => []ServedWithinLifetime
<1>1. Init => ServedWithinLifetime
  BY DEF Init, ServedWithinLifetime, served
<1>2. ASSUME IInv, ServedWithinLifetime, [Next]_vars
      PROVE  ServedWithinLifetime'
  <2>1. Gating' = Gating /\ AccessTokenTTL' = AccessTokenTTL
    BY <1>2, LastMoves DEF Gating, AccessTokenTTL, C!IsGating, C!Normalize, C!accessTokenTTL
  <2>2. CASE UNCHANGED last
    BY <1>2, <2>1, <2>2 DEF ServedWithinLifetime, served
  <2>3. CASE last' = [verdict |-> "missing_token"]
    BY <2>3 DEF ServedWithinLifetime, served
  <2>4. ASSUME NEW r \in issued, NEW verdict, verdict = Validate(unwrap(r.bearer)),
               last' = [verdict |-> verdict, at |-> now, response |-> r]
        PROVE  ServedWithinLifetime'
    <3>1. last'.verdict = verdict /\ last'.at = now /\ last'.response = r
      BY <2>4
    <3> SUFFICES ASSUME verdict \in {"accepted", "not_validated"}, r.idToken # NoToken
                 PROVE  /\ Gating => now <= r.at + AccessTokenTTL
                        /\ expOf(r.idToken) > 0 =>
                             now <= expOf(r.idToken) + (IF Gating THEN 0 ELSE ClockSkew)
      BY <2>1, <3>1 DEF ServedWithinLifetime, served
    <3>2. /\ verdict = Validate(jwt(r.idToken))
          /\ Gating => /\ now <= r.at + AccessTokenTTL
                       /\ expOf(r.idToken) > 0 => now <= expOf(r.idToken)
      BY <1>2, <2>4, VerdictOf
    <3>3. TokenOK(r.idToken, r.at) /\ r.at \in Int /\ r.at <= now /\ now \in Int
          /\ IdPDrift \in Int
      BY <1>2, Numbers DEF IInv, ResponseOK, Promise
    <3>4. TokenOK(r.idToken, now)
      BY <3>3 DEF TokenOK, FromIdP
    <3>5. ~Gating /\ expOf(r.idToken) > 0 => now <= expOf(r.idToken) + ClockSkew
      BY <1>2, <3>2, <3>4, ServedJwt
    <3>6. expOf(r.idToken) \in Int
      BY <3>4 DEF TokenOK, FromIdP
    <3>7. CASE Gating
      BY <3>2, <3>6, <3>7
    <3>8. CASE ~Gating
      BY <3>5, <3>8
    <3> QED
      BY <3>7, <3>8
  <2> QED
    BY <1>2, <2>2, <2>3, <2>4, LastMoves
<1> QED
  BY <1>1, <1>2, Inductive, PTL DEF Spec
-----------------------------------------------------------------------------
\* The Validator expects the audience of the IdP's id_tokens, or none.
AudienceIsClient ==
    \A c \in Configs :
        \/ c.Audience = <<>>
        \/ c.ClientID # <<>> /\ trimRight(c.Audience) = trimRight(c.ClientID)

\* What the identity check accepted at /token the Validator accepts, while the
\* token lives and the IdP's clock is not ahead by more than ClockSkew.
LEMMA NotRefused ==
    ASSUME IInv, AudienceIsClient, IdPDrift <= ClockSkew,
           NEW token, NEW time \in Int, time <= now, TokenOK(token, time),
           expOf(token) > 0 => now <= expOf(token)
    PROVE  \/ Validate(jwt(token)) = "accepted"
           \/ ~hasRequiredScopes(claimsFromRaw(token).Scopes, cfg.RequiredScopes)
<1> DEFINE claims == claimsFromRaw(token)
<1>1. /\ keysKnown /\ issuerAllowed(claims.Issuer, cfg.UpstreamIssuerAllowlist, cfg.Issuer)
      /\ cfg.ClientID # <<>> => audienceMatchesResource(claims.Audience, cfg.ClientID)
      /\ applyIdentityPolicy(cfg, claims) = "accepted"
  BY DEF TokenOK, FromIdP, ValidateUpstreamIdentityToken, parseAndVerifyJWT
<1>2. /\ claims.ExpiresAt = expOf(token) /\ expOf(token) \in Int
      /\ claims.IssuedAt \in Int /\ claims.NotBefore \in Int
      /\ claims.IssuedAt <= time + IdPDrift /\ claims.NotBefore <= time + IdPDrift
  BY DEF TokenOK, FromIdP, expOf
<1> HIDE DEF claims
<1>3. cfg.Audience # <<>> => audienceMatchesResource(claims.Audience, cfg.Audience)
  <2>1. cfg \in Configs
    BY DEF IInv
  <2> QED
    BY <1>1, <2>1 DEF AudienceIsClient, audienceMatchesResource
<1>4. now \in Nat /\ ClockSkew \in Nat /\ IdPDrift \in Int
  BY Numbers
<1>5. ~(claims.ExpiresAt > 0 /\ now > claims.ExpiresAt + ClockSkew)
  BY <1>2, <1>4
<1>6. ~(claims.NotBefore > now + ClockSkew) /\ ~(claims.IssuedAt > now + ClockSkew)
  BY <1>2, <1>4
<1>7. \/ applyClaimChecks(claims) = "accepted"
      \/ ~hasRequiredScopes(claims.Scopes, cfg.RequiredScopes)
  BY <1>1, <1>3, <1>5, <1>6 DEF applyClaimChecks
<1>8. parseAndVerifyJWT(token, cfg.Audience)
  BY <1>1, <1>3 DEF parseAndVerifyJWT, claims
<1>9. jwt(token).form = "jwt" /\ jwt(token).token = token
  BY DEF jwt
<1> QED
  BY <1>1, <1>7, <1>8, <1>9 DEF Validate, claims

\* Within the expires_in of its token response a bearer from an id_token is
\* served, whatever the keys and the refresh took, provided that the Validator
\* expects the IdP's client_id for audience, that the IdP's clock is ahead by no
\* more than ClockSkew and that the id_token has the RequiredScopes (expiresIn
\* in handleToken, Validator.Validate).
THEOREM AdvertisedLifetimeHonouredHolds ==
    ASSUME AudienceIsClient, IdPDrift <= ClockSkew
    PROVE  Spec => []AdvertisedLifetimeHonoured
<1>1. Init => AdvertisedLifetimeHonoured
  BY DEF Init, AdvertisedLifetimeHonoured, served, refused
<1>2. ASSUME IInv, AdvertisedLifetimeHonoured, [Next]_vars
      PROVE  AdvertisedLifetimeHonoured'
  <2>1. CASE UNCHANGED last
    BY <1>2, <2>1, LastMoves DEF AdvertisedLifetimeHonoured, served, refused
  <2>2. CASE last' = [verdict |-> "missing_token"]
    BY <2>2 DEF AdvertisedLifetimeHonoured, served, refused
  <2>3. ASSUME NEW r \in issued, NEW verdict, verdict = Validate(unwrap(r.bearer)),
               last' = [verdict |-> verdict, at |-> now, response |-> r]
        PROVE  AdvertisedLifetimeHonoured'
    <3>1. last'.verdict = verdict /\ last'.at = now /\ last'.response = r
      BY <2>3
    <3> SUFFICES ASSUME verdict # "accepted", r.idToken # NoToken,
                        hasRequiredScopes(claimsFromRaw(r.idToken).Scopes, cfg.RequiredScopes)
                 PROVE  ~(now < r.at + r.expires_in)
      BY <1>2, <3>1, LastMoves DEF AdvertisedLifetimeHonoured, served, refused
    <3>0. now \in Int /\ r.at \in Int /\ r.expires_in \in Int
      BY <1>2, Numbers DEF IInv, ResponseOK
    <3>2. CASE Gating /\ verdict = "invalid_token" /\ now >= r.at + r.expires_in
      BY <3>0, <3>2
    <3>3. CASE /\ verdict = Validate(jwt(r.idToken))
               /\ Gating /\ expOf(r.idToken) > 0 => now <= expOf(r.idToken)
      <4>1. /\ TokenOK(r.idToken, r.at) /\ r.at \in Int /\ r.at <= now /\ now \in Int
            /\ r.expires_in \in Nat /\ expOf(r.idToken) \in Int
        BY <1>2, Numbers DEF IInv, ResponseOK, Promise, TokenOK, FromIdP
      <4>2. ~(expOf(r.idToken) > 0 => now <= expOf(r.idToken))
        BY <1>2, <3>3, <4>1, NotRefused
      <4>3. ~Gating /\ expOf(r.idToken) > 0 /\ now > expOf(r.idToken)
        BY <3>3, <4>1, <4>2
      <4>4. r.expires_in > 0 => r.at + r.expires_in <= expOf(r.idToken)
        BY <1>2, <4>3 DEF IInv, ResponseOK, Promise
      <4> QED
        BY <4>1, <4>3, <4>4
    <3> QED
      BY <1>2, <2>3, <3>2, <3>3, VerdictOf
  <2> QED
    BY <1>2, <2>1, <2>2, <2>3, LastMoves
<1> QED
  BY <1>1, <1>2, Inductive, PTL DEF Spec
-----------------------------------------------------------------------------
\* How many of its waits a handler has left at most.
waitsLeft(k) ==
    CASE k.phase = "validating"   -> 3
      [] k.phase = "refreshing"   -> 2
      [] k.phase = "revalidating" -> 1
      [] k.phase = "userinfo"     -> 1
      [] OTHER                    -> 0

\* A step of a handler is one wait less, and no other step gives a handler that
\* is under way more.
GoesOn ==
    \A h \in Handlers :
        /\ Handle(h) => (waitsLeft(handler[h]))' < waitsLeft(handler[h])
        /\ handler[h].phase # "idle" => (waitsLeft(handler[h]))' <= waitsLeft(handler[h])

\* A step of a handler is one wait less.
LEMMA HandleLeaves ==
    ASSUME IInv, NEW h \in Handlers, Handle(h)
    PROVE  waitsLeft(handler'[h]) < waitsLeft(handler[h])
<1>1. DOMAIN handler = Handlers
  BY DEF IInv, HandlersOK
<1>2. waitsLeft(Idle) = 0
  BY DEF Idle, waitsLeft
<1>3. ASSUME NEW w, await(h, w)
      PROVE  handler'[h] = w
  BY <1>1, <1>3 DEF await
<1>4. ASSUME NEW idToken, NEW accessToken, NEW n, NEW identity,
             issue(h, idToken, accessToken, n, identity)
      PROVE  handler'[h] = Idle
  BY <1>1, <1>4 DEF issue
<1>5. CASE IDTokenValidates(h)
  <2> DEFINE w == [phase |-> "refreshing", idToken |-> handler[h].idToken,
                   expiresIn |-> handler[h].expiresIn]
  <2>1. waitsLeft(handler[h]) = 3 /\ (handler'[h] = w \/ handler'[h] = Idle)
    BY <1>3, <1>4, <1>5 DEF IDTokenValidates, waitsLeft
  <2>2. waitsLeft(w) = 2
    BY DEF waitsLeft
  <2> HIDE DEF w
  <2> QED
    BY <1>2, <2>1, <2>2
<1>6. ASSUME NEW fresh, RefreshReturns(h, fresh)
      PROVE  waitsLeft(handler'[h]) < waitsLeft(handler[h])
  <2> DEFINE w == [phase |-> "revalidating", idToken |-> handler[h].idToken,
                   expiresIn |-> handler[h].expiresIn, fresh |-> fresh]
  <2>1. waitsLeft(handler[h]) = 2 /\ handler'[h] = w
    BY <1>3, <1>6 DEF RefreshReturns, waitsLeft
  <2>2. waitsLeft(w) = 1
    BY DEF waitsLeft
  <2> HIDE DEF w
  <2> QED
    BY <2>1, <2>2
<1>7. CASE UserInfoReturns(h) \/ IdentityFails(h) \/ RefreshFails(h) \/ FreshValidates(h)
  <2>1. handler'[h] = Idle
    BY <1>3, <1>4, <1>7 DEF UserInfoReturns, IdentityFails, RefreshFails, FreshValidates
  <2>2. waitsLeft(handler[h]) > 0
    BY <1>7 DEF UserInfoReturns, IdentityFails, RefreshFails, FreshValidates, waitsLeft
  <2> QED
    BY <1>2, <2>1, <2>2
<1> QED
  BY <1>5, <1>6, <1>7 DEF Handle

\* Every other step leaves a handler that is under way alone.
LEMMA OthersLeave ==
    ASSUME IInv, NEW h \in Handlers, handler[h].phase # "idle", [Next]_vars, ~Handle(h)
    PROVE  handler'[h] = handler[h]
<1>1. DOMAIN handler = Handlers
  BY DEF IInv, HandlersOK
<1>2. ASSUME NEW g \in Handlers, g # h, NEW w, handler' = [handler EXCEPT ![g] = w]
      PROVE  handler'[h] = handler[h]
  BY <1>1, <1>2
<1>3. ASSUME NEW g \in Handlers, NEW idToken, NEW hasRefreshToken, NEW n,
             AnswerWithIDToken(g, idToken, hasRefreshToken, n)
      PROVE  handler'[h] = handler[h]
  BY <1>2, <1>3 DEF AnswerWithIDToken, free, await
<1>4. ASSUME NEW g \in Handlers, NEW accessToken, NEW user, NEW n,
             AnswerWithAccessToken(g, accessToken, user, n)
      PROVE  handler'[h] = handler[h]
  BY <1>2, <1>4 DEF AnswerWithAccessToken, free, await
<1>5. ASSUME NEW g \in Handlers, Handle(g)
      PROVE  handler'[h] = handler[h]
  <2>1. g # h
    BY <1>5
  <2>2. ASSUME NEW w, await(g, w)
        PROVE  handler'[h] = handler[h]
    BY <1>2, <2>1, <2>2 DEF await
  <2>3. ASSUME NEW idToken, NEW accessToken, NEW n, NEW identity,
               issue(g, idToken, accessToken, n, identity)
        PROVE  handler'[h] = handler[h]
    BY <1>2, <2>1, <2>3 DEF issue
  <2>4. CASE IDTokenValidates(g) \/ FreshValidates(g)
    BY <2>2, <2>3, <2>4 DEF IDTokenValidates, FreshValidates
  <2>5. CASE UserInfoReturns(g) \/ IdentityFails(g) \/ RefreshFails(g)
    BY <2>2, <2>3, <2>5 DEF UserInfoReturns, IdentityFails, RefreshFails
  <2>6. ASSUME NEW fresh, RefreshReturns(g, fresh)
        PROVE  handler'[h] = handler[h]
    BY <2>2, <2>6 DEF RefreshReturns
  <2> QED
    BY <1>5, <2>4, <2>5, <2>6 DEF Handle
<1>6. CASE UNCHANGED handler
  BY <1>6
<1> QED
  BY <1>3, <1>4, <1>5, <1>6 DEF Next, Middleware, MissingToken, Tick, vars

\* Once the code exchange is answered a /token request waits three times at
\* most, for the keys, a refresh and the keys again, and each of its steps is
\* one wait less, whatever the IdP and the other requests do
\* (handleTokenAuthCode, maybeRefreshNearExpiredIDToken).  With the fairness of
\* Spec this is why it is answered.
THEOREM TokenRequestsGoOn == Spec => [][GoesOn]_vars
<1>1. ASSUME IInv, [Next]_vars
      PROVE  GoesOn
  <2>1. ASSUME NEW h \in Handlers
        PROVE  /\ Handle(h) => (waitsLeft(handler[h]))' < waitsLeft(handler[h])
               /\ handler[h].phase # "idle" => (waitsLeft(handler[h]))' <= waitsLeft(handler[h])
    <3>1. /\ waitsLeft(handler[h]) \in Nat
          /\ (waitsLeft(handler[h]))' = waitsLeft(handler'[h])
          /\ waitsLeft(handler'[h]) \in Nat
      BY DEF waitsLeft
    <3>2. CASE Handle(h)
      BY <1>1, <3>1, <3>2, HandleLeaves
    <3>3. CASE ~Handle(h)
      BY <1>1, <3>1, <3>3, OthersLeave
    <3> QED
      BY <3>2, <3>3
  <2> QED
    BY <2>1 DEF GoesOn
<1> QED
  BY <1>1, Inductive, PTL DEF Spec
=============================================================================
