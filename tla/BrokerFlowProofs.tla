-------------------------- MODULE BrokerFlowProofs --------------------------
(***************************************************************************)
(* Theorems about BrokerFlow, for every set of clients, users, requests    *)
(* and every bound; at the end, that it keeps the promise of               *)
(* AuthCodeGrant: each step is one of AuthCodeGrant under the mapping of   *)
(* BrokerRefinement, or leaves it as it is.                                *)
(***************************************************************************)
EXTENDS BrokerRefinement, FiniteSetTheorems, TLAPS

\* A code artifact reads back as it was written (encodeAuthCode, decodeAuthCode).
LEMMA AuthCodeRoundTrip ==
    ASSUME NEW c
    PROVE  LET d == decodeAuthCode(encodeAuthCode(c))
           IN  /\ d.ClientID = c.ClientID
               /\ d.RedirectURI = c.RedirectURI
               /\ d.CodeChallenge = c.CodeChallenge
               /\ d.Resource = c.Resource
               /\ d.UpstreamAuthCode = c.UpstreamAuthCode
               /\ d.UpstreamPKCEVerifier = c.UpstreamPKCEVerifier
  BY DEF decodeAuthCode, encodeAuthCode, encodeJWE, stringFromClaims

\* A state artifact reads back as it was written (encodePendingAuth, decodePendingAuth).
LEMMA PendingAuthRoundTrip ==
    ASSUME NEW p
    PROVE  LET d == decodePendingAuth(encodePendingAuth(p))
           IN  /\ d.ClientID = p.ClientID
               /\ d.RedirectURI = p.RedirectURI
               /\ d.CodeChallenge = p.CodeChallenge
               /\ d.Resource = p.Resource
               /\ d.UpstreamPKCEVerifier = p.UpstreamPKCEVerifier
  BY DEF decodePendingAuth, encodePendingAuth, encodeJWE, stringFromClaims

\* Only a live code artifact passes decodeAuthCode's checks: not a state, not
\* a foreign string.
LEMMA AuthCodeReadable ==
    /\ \A c, t : decodeJWE(hkdfInfoAuthCode, encodeAuthCode(c), t) => t <= c.ExpiresAt
    /\ \A p, t : ~decodeJWE(hkdfInfoAuthCode, encodePendingAuth(p), t)
    /\ \A t : ~decodeJWE(hkdfInfoAuthCode, Unreadable, t)
  BY DEF decodeJWE, encodeJWE, encodeAuthCode, encodePendingAuth, Unreadable,
         deriveKey, hkdfInfoAuthCode, hkdfInfoPendingAuth, validateJWEExpiration

\* Only a live state artifact passes decodePendingAuth's checks.
LEMMA PendingAuthReadable ==
    /\ \A p, t : decodeJWE(hkdfInfoPendingAuth, encodePendingAuth(p), t) => t <= p.ExpiresAt
    /\ \A c, t : ~decodeJWE(hkdfInfoPendingAuth, encodeAuthCode(c), t)
    /\ \A t : ~decodeJWE(hkdfInfoPendingAuth, Unreadable, t)
  BY DEF decodeJWE, encodeJWE, encodeAuthCode, encodePendingAuth, Unreadable,
         deriveKey, hkdfInfoAuthCode, hkdfInfoPendingAuth, validateJWEExpiration
-----------------------------------------------------------------------------
\* A request that passed the checks stays so: nothing rewrites its form, and
\* flows are only added.
LEMMA RedemptionStable ==
    ASSUME NEW req, NEW code, NEW verifier,
           Redemption(req, code, verifier),
           now \in Nat, now' \in Nat, now <= now',
           started \subseteq started',
           token'[req].phase # "idle",
           token'[req].form = token[req].form,
           token'[req].at = token[req].at
    PROVE  Redemption(req, code, verifier)'
<1>1. PICK flow \in started, t \in 0 .. now :
        /\ verifier = flow.pending.UpstreamPKCEVerifier
        /\ Redeems(token[req].form, flow)
        /\ resourceMatches(token[req].form, flow.pending)
        /\ token[req].form.code = encodeAuthCode(issuedCode(flow.pending, code, t))
        /\ t <= flow.pending.ExpiresAt
        /\ token[req].at <= t + CodeTTL
  BY DEF Redemption
<1>2. flow \in started' /\ t \in 0 .. now'
  OBVIOUS
<1> QED
  BY <1>1, <1>2 DEF Redemption, Redeems

\* handleTokenAuthCode posts to the IdP only for an artifact that comes from
\* a flow of the same client, redirect and verifier.
LEMMA ChecksEstablishRedemption ==
    ASSUME TypeOK, Provenance,
           NEW form, NEW client, NEW tokenURLKnown,
           form.code \in minted \union {Unreadable},
           tokenVerdict(form, client, tokenURLKnown) = "exchange"
    PROVE  \E flow \in started, code \in upstreamCodes, t \in 0 .. now :
              /\ form.code = encodeAuthCode(issuedCode(flow.pending, code, t))
              /\ decodeAuthCode(form.code).UpstreamAuthCode = code
              /\ decodeAuthCode(form.code).UpstreamPKCEVerifier
                    = flow.pending.UpstreamPKCEVerifier
              /\ Redeems(form, flow)
              /\ resourceMatches(form, flow.pending)
              /\ t <= flow.pending.ExpiresAt
              /\ now <= t + CodeTTL
<1> DEFINE issued == decodeAuthCode(form.code)
<1>1. /\ decodeJWE(hkdfInfoAuthCode, form.code, now)
      /\ codeBound(form, issued)
      /\ resourceMatches(form, issued)
  BY DEF tokenVerdict
<1>2. PICK flow \in started, code \in upstreamCodes, t \in 0 .. now :
        /\ t <= flow.pending.ExpiresAt
        /\ form.code = encodeAuthCode(issuedCode(flow.pending, code, t))
  BY <1>1, AuthCodeReadable DEF Provenance
<1> DEFINE written == issuedCode(flow.pending, code, t)
<1>3. /\ issued.ClientID = flow.pending.ClientID
      /\ issued.RedirectURI = flow.pending.RedirectURI
      /\ issued.CodeChallenge = flow.pending.CodeChallenge
      /\ issued.Resource = flow.pending.Resource
      /\ issued.UpstreamAuthCode = code
      /\ issued.UpstreamPKCEVerifier = flow.pending.UpstreamPKCEVerifier
  BY <1>2, AuthCodeRoundTrip DEF issuedCode
<1>4. now <= t + CodeTTL
  <2>1. now <= written.ExpiresAt
    BY <1>1, <1>2, AuthCodeReadable
  <2> QED
    BY <2>1 DEF issuedCode
<1>5. Redeems(form, flow)
  BY <1>1, <1>3 DEF codeBound, Redeems
<1>6. resourceMatches(form, flow.pending)
  BY <1>1, <1>3 DEF resourceMatches
<1> QED
  BY <1>2, <1>3, <1>4, <1>5, <1>6
-----------------------------------------------------------------------------
\* The initial state satisfies the inductive invariant.
LEMMA InitIInv == Init => IInv
<1> SUFFICES ASSUME Init PROVE IInv
  OBVIOUS
<1>1. TypeOK
  BY FS_EmptySet DEF Init, TypeOK, ForeignVerifier, pkceChallenge
<1> QED
  BY <1>1 DEF Init, IInv, FlowsDistinct, Provenance, PostsRedeem, SpentRedeem,
              AnswersSpent, GrantsSpent, LoginsNumbered, ExchangedOnce

\* handleAuthorize adds a flow with a verifier no other flow has.
LEMMA AuthorizeIInv ==
    ASSUME IInv, NEW q, NEW client, handleAuthorize(q, client),
           q.client_id \in ClientIDs, q.redirect_uri \in RedirectURIs,
           q.resource \in Resources,
           q.code_challenge \in {pkceChallenge(v) : v \in Verifiers} \union {Empty}
    PROVE  IInv'
<1> DEFINE pending == [ClientID             |-> q.client_id,
                       RedirectURI          |-> q.redirect_uri,
                       CodeChallenge        |-> q.code_challenge,
                       Resource             |-> q.resource,
                       UpstreamPKCEVerifier |-> nextVerifier,
                       ExpiresAt            |-> now + PendingTTL]
           flow == [pending |-> pending, at |-> now]
<1>1. /\ started' = started \union {flow}
      /\ minted' = minted \union {encodePendingAuth(pending)}
      /\ challenges' = challenges \union {pkceChallenge(nextVerifier)}
      /\ nextVerifier' = nextVerifier + 1
      /\ UNCHANGED <<now, upstreamCodes, spent, posts, answers, token, grants>>
      /\ authorizeAccepts(q, client)
  BY DEF handleAuthorize, newPKCEVerifier
<1>2. q.code_challenge \in [s256 : Verifiers]
  BY <1>1 DEF authorizeAccepts, pkceChallenge
<1>3. TypeOK'
  <2>1. flow \in [pending : PendingAuths, at : Nat]
    BY <1>2, TTLAssumption DEF IInv, TypeOK, PendingAuths
  <2>2. nextVerifier' \in Nat \ {ForeignVerifier} /\ pkceChallenge(nextVerifier) \in [s256 : Nat]
    BY <1>1 DEF IInv, TypeOK, ForeignVerifier, pkceChallenge
  <2> QED
    BY <1>1, <2>1, <2>2 DEF IInv, TypeOK
<1>4. FlowsDistinct'
  <2>1. \A f \in started : f.pending.UpstreamPKCEVerifier \in Nat
    BY DEF IInv, TypeOK, PendingAuths
  <2>2. \A f \in started : f.pending.UpstreamPKCEVerifier < nextVerifier
    BY DEF IInv, FlowsDistinct
  <2>3. /\ flow.pending.UpstreamPKCEVerifier = nextVerifier
        /\ flow.pending.ExpiresAt = flow.at + PendingTTL
        /\ flow.pending.Resource # Empty => trimSlash(flow.pending.Resource) = ThisResource
    BY <1>1 DEF authorizeAccepts
  <2>4. nextVerifier \in Nat
    BY DEF IInv, TypeOK
  <2> QED
    BY <1>1, <2>1, <2>2, <2>3, <2>4 DEF IInv, FlowsDistinct
<1>5. Provenance'
  <2>1. flow \in started' /\ flow.pending = pending
    BY <1>1
  <2> QED
    BY <1>1, <2>1 DEF IInv, Provenance
<1>6. \A req, code, verifier :
        Redemption(req, code, verifier) => Redemption(req, code, verifier)'
  <2> SUFFICES ASSUME NEW req, NEW code, NEW verifier, Redemption(req, code, verifier)
               PROVE  Redemption(req, code, verifier)'
    OBVIOUS
  <2> QED
    BY <1>1, RedemptionStable DEF IInv, TypeOK, Redemption
<1>7. PostsRedeem' /\ SpentRedeem' /\ AnswersSpent' /\ GrantsSpent'
  BY <1>1, <1>6 DEF IInv, PostsRedeem, SpentRedeem, AnswersSpent, GrantsSpent
<1>8. LoginsNumbered' /\ ExchangedOnce'
  BY <1>1 DEF IInv, LoginsNumbered, ExchangedOnce
<1> QED
  BY <1>3, <1>4, <1>5, <1>7, <1>8 DEF IInv

\* A login adds a code; nothing that was redeemed changes.
LEMMA UpstreamLoginIInv ==
    ASSUME IInv, NEW code_challenge \in challenges, NEW subject \in Subjects,
           UpstreamLogin(code_challenge, subject)
    PROVE  IInv'
<1> DEFINE login == [id |-> Cardinality(upstreamCodes) + 1,
                     code_challenge |-> code_challenge, subject |-> subject]
<1>1. /\ upstreamCodes' = upstreamCodes \union {login}
      /\ UNCHANGED <<now, minted, nextVerifier, challenges, spent, posts, answers,
                     token, started, grants>>
  BY DEF UpstreamLogin
<1>2. TypeOK'
  <2>1. Cardinality(upstreamCodes) \in Nat /\ IsFiniteSet(upstreamCodes')
    BY <1>1, FS_CardinalityType, FS_AddElement DEF IInv, TypeOK
  <2>2. login \in UpstreamCodes
    BY <2>1 DEF IInv, TypeOK, UpstreamCodes
  <2> QED
    BY <1>1, <2>1, <2>2 DEF IInv, TypeOK
<1>3. Provenance'
  BY <1>1 DEF IInv, Provenance
<1>4. \A req, code, verifier :
        Redemption(req, code, verifier)' = Redemption(req, code, verifier)
  BY <1>1 DEF Redemption
<1>5. FlowsDistinct' /\ PostsRedeem' /\ SpentRedeem' /\ AnswersSpent' /\ GrantsSpent'
  BY <1>1, <1>4 DEF IInv, FlowsDistinct, PostsRedeem, SpentRedeem, AnswersSpent, GrantsSpent
<1>6. LoginsNumbered'
  <2>1. Cardinality(upstreamCodes) \in Nat
    BY FS_CardinalityType DEF IInv, TypeOK
  <2>2. \A code \in upstreamCodes : code.id \in Nat /\ code.id <= Cardinality(upstreamCodes)
    BY DEF IInv, TypeOK, UpstreamCodes, LoginsNumbered
  <2>3. login \notin upstreamCodes
    BY <2>1, <2>2
  <2>4. Cardinality(upstreamCodes') = Cardinality(upstreamCodes) + 1
    BY <1>1, <2>3, FS_AddElement DEF IInv, TypeOK
  <2> QED
    BY <1>1, <2>1, <2>2, <2>4 DEF LoginsNumbered
<1>7. ExchangedOnce'
  BY <1>1 DEF IInv, ExchangedOnce
<1> QED
  BY <1>2, <1>3, <1>5, <1>6, <1>7 DEF IInv

\* handleCallback adds a code artifact, made from a state that was live.
LEMMA CallbackIInv ==
    ASSUME IInv, NEW state \in minted \union {Unreadable}, NEW code \in upstreamCodes,
           handleCallback(state, code)
    PROVE  IInv'
<1>1. /\ minted' = minted \union
              {encodeAuthCode(issuedCode(decodePendingAuth(state), code, now))}
      /\ UNCHANGED <<now, nextVerifier, challenges, upstreamCodes, spent, posts,
                     answers, token, started, grants>>
      /\ decodeJWE(hkdfInfoPendingAuth, state, now)
  BY DEF handleCallback, callbackAccepts
<1>2. PICK flow \in started : state = encodePendingAuth(flow.pending)
  BY <1>1, PendingAuthReadable DEF IInv, Provenance
<1>3. now <= flow.pending.ExpiresAt
  BY <1>1, <1>2, PendingAuthReadable
<1>4. issuedCode(decodePendingAuth(state), code, now) = issuedCode(flow.pending, code, now)
  BY <1>2, PendingAuthRoundTrip DEF issuedCode
<1>5. now \in 0 .. now
  BY DEF IInv, TypeOK
<1>6. Provenance'
  BY <1>1, <1>3, <1>4, <1>5 DEF IInv, Provenance
<1>7. TypeOK'
  BY <1>1 DEF IInv, TypeOK
<1>8. \A req, c, verifier :
        Redemption(req, c, verifier)' = Redemption(req, c, verifier)
  BY <1>1 DEF Redemption
<1>9. FlowsDistinct' /\ PostsRedeem' /\ SpentRedeem' /\ AnswersSpent' /\ GrantsSpent'
  BY <1>1, <1>8 DEF IInv, FlowsDistinct, PostsRedeem, SpentRedeem, AnswersSpent, GrantsSpent
<1>10. LoginsNumbered' /\ ExchangedOnce'
  BY <1>1 DEF IInv, LoginsNumbered, ExchangedOnce
<1> QED
  BY <1>6, <1>7, <1>9, <1>10 DEF IInv

\* The handler's checks put an exchange on its way only for the flow's owner.
LEMMA StartTokenIInv ==
    ASSUME IInv, NEW req \in Requests, NEW form, NEW client, NEW tokenURLKnown,
           form.code \in minted \union {Unreadable},
           StartToken(req, form, client, tokenURLKnown)
    PROVE  IInv'
<1> DEFINE verdict == tokenVerdict(form, client, tokenURLKnown)
           issued  == decodeAuthCode(form.code)
           post    == [req           |-> req,
                       code          |-> issued.UpstreamAuthCode,
                       code_verifier |-> issued.UpstreamPKCEVerifier]
<1>1. /\ token[req].phase = "idle"
      /\ UNCHANGED <<now, minted, nextVerifier, challenges, upstreamCodes, spent,
                     answers, started, grants>>
  BY DEF StartToken
<1>2. \A r \in Requests : \A c, v :
        r # req /\ Redemption(r, c, v) => Redemption(r, c, v)'
  <2> SUFFICES ASSUME NEW r \in Requests, NEW c, NEW v, r # req, Redemption(r, c, v)
               PROVE  Redemption(r, c, v)'
    OBVIOUS
  <2>1. token'[r] = token[r]
    BY DEF StartToken, IInv, TypeOK
  <2> QED
    BY <1>1, <2>1, RedemptionStable DEF IInv, TypeOK, Redemption
<1>3. FlowsDistinct' /\ Provenance' /\ AnswersSpent' /\ GrantsSpent' /\ LoginsNumbered'
  BY <1>1 DEF IInv, FlowsDistinct, Provenance, AnswersSpent, GrantsSpent, LoginsNumbered
<1>4. \A s \in spent : s.req # req
  BY <1>1 DEF IInv, SpentRedeem, Redemption
<1>5. SpentRedeem'
  BY <1>1, <1>2, <1>4 DEF IInv, TypeOK, SpentRedeem
<1>6. \A p \in posts : p.req # req
  BY <1>1 DEF IInv, PostsRedeem, Redemption
<1>7. \A g \in grants : token'[g.req].phase = "done"
  BY <1>1 DEF StartToken, IInv, TypeOK, ExchangedOnce
<1>8. CASE verdict # "exchange"
  <2>1. /\ token' = [token EXCEPT ![req] =
              [phase |-> "done", form |-> Empty, at |-> now, reply |-> verdict]]
        /\ posts' = posts
    BY <1>8 DEF StartToken
  <2>2. verdict \in Replies
    BY <1>8 DEF tokenVerdict, Replies
  <2>3. TypeOK'
    BY <1>1, <2>1, <2>2 DEF IInv, TypeOK
  <2>4. PostsRedeem'
    BY <1>2, <1>6, <2>1 DEF IInv, TypeOK, PostsRedeem
  <2>5. ExchangedOnce'
    BY <1>1, <1>7, <2>1 DEF IInv, ExchangedOnce
  <2> QED
    BY <1>3, <1>5, <2>3, <2>4, <2>5 DEF IInv
<1>9. CASE verdict = "exchange"
  <2>1. /\ token' = [token EXCEPT ![req] =
              [phase |-> "upstream", form |-> form, at |-> now, reply |-> Empty]]
        /\ posts' = posts \union {post}
    BY <1>9 DEF StartToken
  <2>2. PICK flow \in started, code \in upstreamCodes, t \in 0 .. now :
          /\ form.code = encodeAuthCode(issuedCode(flow.pending, code, t))
          /\ issued.UpstreamAuthCode = code
          /\ issued.UpstreamPKCEVerifier = flow.pending.UpstreamPKCEVerifier
          /\ Redeems(form, flow)
          /\ resourceMatches(form, flow.pending)
          /\ t <= flow.pending.ExpiresAt
          /\ now <= t + CodeTTL
    BY <1>9, ChecksEstablishRedemption DEF IInv
  <2>3. TypeOK'
    <3>1. post \in [req : Requests, code : UpstreamCodes, code_verifier : Nat]
      BY <2>2 DEF IInv, TypeOK, PendingAuths
    <3> QED
      BY <1>1, <2>1, <3>1 DEF IInv, TypeOK
  <2>4. /\ token'[req].phase = "upstream"
        /\ token'[req].form = form
        /\ token'[req].at = now
    BY <2>1 DEF IInv, TypeOK
  <2>5. Redemption(req, post.code, post.code_verifier)'
    BY <1>1, <2>2, <2>4 DEF Redemption, Redeems
  <2>6. PostsRedeem'
    BY <1>2, <1>6, <2>1, <2>5 DEF IInv, TypeOK, PostsRedeem
  <2>7. ExchangedOnce'
    BY <1>1, <1>4, <1>6, <1>7, <2>1 DEF IInv, ExchangedOnce
  <2> QED
    BY <1>3, <1>5, <2>3, <2>6, <2>7 DEF IInv
<1> QED
  BY <1>8, <1>9

\* The IdP spends a code only for the verifier of its challenge, once.
LEMMA UpstreamExchangeIInv ==
    ASSUME IInv, NEW post \in posts, UpstreamExchange(post)
    PROVE  IInv'
<1>1. /\ posts' = posts \ {post}
      /\ UNCHANGED <<now, minted, nextVerifier, challenges, upstreamCodes, token,
                     started, grants>>
  BY DEF UpstreamExchange
<1>2. post \in [req : Requests, code : UpstreamCodes, code_verifier : Nat]
  BY DEF IInv, TypeOK
<1>3. \A req, code, verifier :
        Redemption(req, code, verifier)' = Redemption(req, code, verifier)
  BY <1>1 DEF Redemption
<1>4. FlowsDistinct' /\ Provenance' /\ PostsRedeem' /\ LoginsNumbered'
  BY <1>1, <1>3 DEF IInv, FlowsDistinct, Provenance, PostsRedeem, LoginsNumbered
<1>5. CASE /\ answers' = answers \union
                 {[req |-> post.req, kind |-> "refused", subject |-> Empty]}
           /\ UNCHANGED spent
  <2>1. [req |-> post.req, kind |-> "refused", subject |-> Empty]
            \in [req : Requests, kind : AnswerKinds, subject : Subjects \union {Empty}]
    BY <1>2 DEF AnswerKinds
  <2>2. TypeOK'
    BY <1>1, <1>5, <2>1 DEF IInv, TypeOK
  <2>3. SpentRedeem' /\ AnswersSpent' /\ GrantsSpent'
    BY <1>1, <1>3, <1>5 DEF IInv, SpentRedeem, AnswersSpent, GrantsSpent
  <2>4. ExchangedOnce'
    BY <1>1, <1>5 DEF IInv, ExchangedOnce
  <2> QED
    BY <1>4, <2>2, <2>3, <2>4 DEF IInv
<1>6. ASSUME NEW kind \in {"tokens", "not_json", "error_body", "no_token", "bad_identity"},
             \A s \in spent : s.code # post.code,
             pkceChallenge(post.code_verifier) = post.code.code_challenge,
             spent' = spent \union {[code |-> post.code, req |-> post.req]},
             answers' = answers \union
                 {[req |-> post.req, kind |-> kind, subject |-> post.code.subject]}
      PROVE  IInv'
  <2> DEFINE s == [code |-> post.code, req |-> post.req]
             a == [req |-> post.req, kind |-> kind, subject |-> post.code.subject]
  <2>1. /\ s \in [code : UpstreamCodes, req : Requests]
        /\ a \in [req : Requests, kind : AnswerKinds, subject : Subjects \union {Empty}]
    BY <1>2 DEF AnswerKinds, UpstreamCodes
  <2>2. TypeOK'
    BY <1>1, <1>6, <2>1 DEF IInv, TypeOK
  <2>3. s.code.code_challenge.s256 = post.code_verifier
    BY <1>6 DEF pkceChallenge
  <2>4. Redemption(s.req, s.code, s.code.code_challenge.s256)
    BY <2>3 DEF IInv, PostsRedeem
  <2>5. SpentRedeem'
    BY <1>3, <1>6, <2>4 DEF IInv, SpentRedeem
  <2>6. s \in spent' /\ spent \subseteq spent' /\ s.req = a.req /\ s.code.subject = a.subject
    BY <1>6
  <2>7. answers' = answers \union {a}
    BY <1>6
  <2>8. AnswersSpent'
    BY <2>6, <2>7 DEF IInv, AnswersSpent
  <2>9. GrantsSpent'
    BY <1>1, <2>6 DEF IInv, GrantsSpent
  <2>10. ExchangedOnce'
    <3>1. \A p \in posts' : p \in posts /\ p.req # s.req
      BY <1>1 DEF IInv, ExchangedOnce
    <3>2. \A r \in spent : r.req # s.req
      BY DEF IInv, ExchangedOnce
    <3> QED
      BY <1>1, <1>6, <3>1, <3>2 DEF IInv, ExchangedOnce
  <2> QED
    BY <1>4, <2>2, <2>5, <2>8, <2>9, <2>10 DEF IInv
<1> QED
  BY <1>5, <1>6 DEF UpstreamExchange

\* The end of a handler leaves its form as it is; a grant answers a spent code.
LEMMA HandlerEndIInv ==
    ASSUME IInv, NEW req \in Requests,
           HandleUpstreamAnswer(req) \/ TransportError(req)
    PROVE  IInv'
<1>1. /\ token[req].phase = "upstream"
      /\ UNCHANGED <<now, minted, nextVerifier, challenges, upstreamCodes, spent,
                     posts, started>>
  BY DEF HandleUpstreamAnswer, TransportError
<1>2. PICK reply \in Replies :
        token' = [token EXCEPT ![req].phase = "done", ![req].reply = reply]
  <2>1. CASE HandleUpstreamAnswer(req)
    <3>1. PICK answer \in answers :
            token' = [token EXCEPT ![req].phase = "done",
                                   ![req].reply = exchangeReply(answer)]
      BY <2>1 DEF HandleUpstreamAnswer
    <3>2. answer.kind \in AnswerKinds
      BY DEF IInv, TypeOK
    <3>3. exchangeReply(answer) \in Replies
      BY <3>2 DEF exchangeReply, AnswerKinds, Replies
    <3> QED
      BY <3>1, <3>3
  <2>2. CASE TransportError(req)
    BY <2>2 DEF TransportError, Replies
  <2> QED
    BY <2>1, <2>2
<1>3. \A r \in Requests :
        /\ token'[r].form = token[r].form
        /\ token'[r].at = token[r].at
        /\ DOMAIN token'[r] = DOMAIN token[r]
        /\ token'[r].phase = IF r = req THEN "done" ELSE token[r].phase
        /\ token'[r].reply = IF r = req THEN reply ELSE token[r].reply
  BY <1>2 DEF IInv, TypeOK
<1>4. \A r \in Requests : \A c, v : Redemption(r, c, v) => Redemption(r, c, v)'
  <2> SUFFICES ASSUME NEW r \in Requests, NEW c, NEW v, Redemption(r, c, v)
               PROVE  Redemption(r, c, v)'
    OBVIOUS
  <2>1. token'[r].phase # "idle"
    BY <1>3 DEF Redemption
  <2> QED
    BY <1>1, <1>3, <2>1, RedemptionStable DEF IInv, TypeOK
<1>5. FlowsDistinct' /\ Provenance' /\ PostsRedeem' /\ SpentRedeem'
  BY <1>1, <1>4 DEF IInv, TypeOK, FlowsDistinct, Provenance, PostsRedeem, SpentRedeem
<1>6. answers' \subseteq answers
  BY DEF HandleUpstreamAnswer, TransportError
<1>7. GrantsSpent' /\ grants' \subseteq [req : Requests, subject : Subjects \union {Empty}]
  <2>1. CASE grants' = grants
    BY <1>1, <2>1 DEF IInv, TypeOK, GrantsSpent
  <2>2. ASSUME NEW answer \in answers, answer.req = req,
               exchangeReply(answer) = "granted",
               grants' = grants \union {[req |-> req, subject |-> answer.subject]}
        PROVE  GrantsSpent' /\ grants' \subseteq [req : Requests, subject : Subjects \union {Empty}]
    <3>1. answer \in [req : Requests, kind : AnswerKinds, subject : Subjects \union {Empty}]
      BY DEF IInv, TypeOK
    <3>2. answer.kind # "refused"
      BY <2>2, <3>1 DEF exchangeReply
    <3>3. PICK s \in spent : s.req = req /\ s.code.subject = answer.subject
      BY <2>2, <3>2 DEF IInv, AnswersSpent
    <3>4. GrantsSpent'
      BY <1>1, <2>2, <3>3 DEF IInv, GrantsSpent
    <3> QED
      BY <2>2, <3>1, <3>4 DEF IInv, TypeOK
  <2> QED
    BY <2>1, <2>2 DEF HandleUpstreamAnswer, TransportError
<1>8. AnswersSpent'
  BY <1>1, <1>6 DEF IInv, AnswersSpent
<1>9. TypeOK'
  <2>1. DOMAIN token' = Requests
    BY <1>2 DEF IInv, TypeOK
  <2>2. \A r \in Requests :
          /\ DOMAIN token'[r] = {"phase", "form", "at", "reply"}
          /\ token'[r].phase \in {"idle", "upstream", "done"}
          /\ token'[r].at \in Nat
          /\ token'[r].phase = "done" => token'[r].reply \in Replies
    BY <1>3 DEF IInv, TypeOK
  <2> QED
    BY <1>1, <1>6, <1>7, <2>1, <2>2 DEF IInv, TypeOK
<1>10. LoginsNumbered'
  BY <1>1 DEF IInv, LoginsNumbered
<1>11. ExchangedOnce'
  <2>1. \A g \in grants' : g \in grants \/ g.req = req
    BY DEF HandleUpstreamAnswer, TransportError
  <2>2. \A g \in grants' : g.req \in Requests
    BY <1>9 DEF TypeOK
  <2> QED
    BY <1>1, <1>3, <2>1, <2>2 DEF IInv, ExchangedOnce
<1> QED
  BY <1>5, <1>7, <1>8, <1>9, <1>10, <1>11 DEF IInv

\* Time passing keeps everything.
LEMMA TickIInv ==
    ASSUME IInv, Tick
    PROVE  IInv'
<1>1. /\ now' = now + 1
      /\ UNCHANGED <<minted, nextVerifier, challenges, upstreamCodes, spent, posts,
                     answers, token, started, grants>>
  BY DEF Tick
<1>2. now \in Nat /\ now' \in Nat /\ now <= now'
  BY <1>1 DEF IInv, TypeOK
<1>3. TypeOK'
  BY <1>1, <1>2 DEF IInv, TypeOK
<1>4. Provenance'
  <2>1. \A t \in 0 .. now : t \in 0 .. now'
    BY <1>2
  <2> QED
    BY <1>1, <2>1 DEF IInv, Provenance
<1>5. \A r, c, v : Redemption(r, c, v) => Redemption(r, c, v)'
  <2> SUFFICES ASSUME NEW r, NEW c, NEW v, Redemption(r, c, v)
               PROVE  Redemption(r, c, v)'
    OBVIOUS
  <2> QED
    BY <1>1, <1>2, RedemptionStable DEF Redemption
<1>6. FlowsDistinct' /\ PostsRedeem' /\ SpentRedeem' /\ AnswersSpent' /\ GrantsSpent'
  BY <1>1, <1>5 DEF IInv, FlowsDistinct, PostsRedeem, SpentRedeem, AnswersSpent, GrantsSpent
<1>7. LoginsNumbered' /\ ExchangedOnce'
  BY <1>1 DEF IInv, LoginsNumbered, ExchangedOnce
<1> QED
  BY <1>3, <1>4, <1>6, <1>7 DEF IInv
-----------------------------------------------------------------------------
\* Every step of the broker, its clients and the IdP preserves the invariant.
LEMMA NextIInv == IInv /\ [Next]_vars => IInv'
<1> SUFFICES ASSUME IInv, [Next]_vars PROVE IInv'
  OBVIOUS
<1>1. CASE Authorize
  BY <1>1, AuthorizeIInv DEF Authorize
<1>2. ASSUME NEW code_challenge \in challenges, NEW subject \in Subjects,
             UpstreamLogin(code_challenge, subject)
      PROVE  IInv'
  BY <1>2, UpstreamLoginIInv
<1>3. ASSUME NEW state \in minted \union {Unreadable}, NEW code \in upstreamCodes,
             handleCallback(state, code)
      PROVE  IInv'
  BY <1>3, CallbackIInv
<1>4. ASSUME NEW req \in Requests, Token(req)
      PROVE  IInv'
  BY <1>4, StartTokenIInv DEF Token
<1>5. ASSUME NEW post \in posts, UpstreamExchange(post)
      PROVE  IInv'
  BY <1>5, UpstreamExchangeIInv
<1>6. ASSUME NEW req \in Requests, HandleUpstreamAnswer(req) \/ TransportError(req)
      PROVE  IInv'
  BY <1>6, HandlerEndIInv
<1>7. CASE Tick
  BY <1>7, TickIInv
<1>8. CASE UNCHANGED vars
  <2>1. \A r, c, v : Redemption(r, c, v)' = Redemption(r, c, v)
    BY <1>8 DEF vars, Redemption
  <2> QED
    BY <1>8, <2>1 DEF vars, IInv, TypeOK, FlowsDistinct, Provenance, PostsRedeem,
                      SpentRedeem, AnswersSpent, GrantsSpent, LoginsNumbered, ExchangedOnce
<1> QED
  BY <1>1, <1>2, <1>3, <1>4, <1>5, <1>6, <1>7, <1>8 DEF Next

\* Every reachable state satisfies the inductive invariant.
THEOREM Inductive == Spec => []IInv
  BY InitIInv, NextIInv, PTL DEF Spec

\* The broker's and the IdP's state keep their types.
THEOREM Typing == Spec => []TypeOK
<1>1. IInv => TypeOK
  BY DEF IInv
<1> QED
  BY <1>1, Inductive, PTL
-----------------------------------------------------------------------------
\* Flows are told apart by the login the IdP was asked for: a spent code
\* belongs to exactly the flow that the spending request redeems.
LEMMA SpentCodeHasOneFlow ==
    ASSUME IInv, NEW s \in spent
    PROVE  \E flow \in started, t \in 0 .. now :
              /\ LoginFor(s.code, flow)
              /\ \A f \in started : LoginFor(s.code, f) => f = flow
              /\ Redeems(token[s.req].form, flow)
              /\ resourceMatches(token[s.req].form, flow.pending)
              /\ decodeAuthCode(token[s.req].form.code).UpstreamAuthCode = s.code
              /\ t <= flow.pending.ExpiresAt
              /\ token[s.req].at <= t + CodeTTL
<1>1. PICK flow \in started, t \in 0 .. now :
        /\ s.code.code_challenge.s256 = flow.pending.UpstreamPKCEVerifier
        /\ Redeems(token[s.req].form, flow)
        /\ resourceMatches(token[s.req].form, flow.pending)
        /\ token[s.req].form.code = encodeAuthCode(issuedCode(flow.pending, s.code, t))
        /\ t <= flow.pending.ExpiresAt
        /\ token[s.req].at <= t + CodeTTL
  BY DEF IInv, SpentRedeem, Redemption
<1>2. s.code.code_challenge \in [s256 : Nat]
  BY DEF IInv, TypeOK, UpstreamCodes
<1>3. LoginFor(s.code, flow)
  BY <1>1, <1>2 DEF LoginFor, pkceChallenge
<1>4. \A f \in started : LoginFor(s.code, f) => f = flow
  <2> SUFFICES ASSUME NEW f \in started, LoginFor(s.code, f) PROVE f = flow
    OBVIOUS
  <2>1. f.pending.UpstreamPKCEVerifier = flow.pending.UpstreamPKCEVerifier
    BY <1>3 DEF LoginFor, pkceChallenge
  <2> QED
    BY <2>1 DEF IInv, FlowsDistinct
<1>5. decodeAuthCode(token[s.req].form.code).UpstreamAuthCode = s.code
  BY <1>1, AuthCodeRoundTrip DEF issuedCode
<1> QED
  BY <1>1, <1>3, <1>4, <1>5

\* A login is spent only for a request that redeems the flow it was made for
\* (handleTokenAuthCode checks before it posts).
THEOREM SpentByOwnerHolds == Spec => []SpentByOwner
<1>1. IInv => SpentByOwner
  BY SpentCodeHasOneFlow DEF SpentByOwner
<1> QED
  BY <1>1, Inductive, PTL

\* A token response is for the user who logged in for the flow of the client
\* that redeems it.
THEOREM GrantBindingHolds == Spec => []GrantBinding
<1>1. IInv => GrantBinding
  <2> SUFFICES ASSUME IInv, NEW g \in grants
               PROVE  \E s \in spent :
                        /\ s.req = g.req
                        /\ s.code.subject = g.subject
                        /\ \E flow \in started : LoginFor(s.code, flow)
                        /\ \A flow \in started :
                            LoginFor(s.code, flow) => Redeems(token[g.req].form, flow)
    BY DEF GrantBinding
  <2>1. PICK s \in spent : s.req = g.req /\ s.code.subject = g.subject
    BY DEF IInv, GrantsSpent
  <2> QED
    BY <2>1, SpentCodeHasOneFlow
<1> QED
  BY <1>1, Inductive, PTL

\* One login, one token response.
THEOREM OneGrantPerLoginHolds == Spec => []OneGrantPerLogin
<1>1. IInv => OneGrantPerLogin
  <2> SUFFICES ASSUME IInv, NEW g \in grants, NEW h \in grants,
                      decodeAuthCode(token[g.req].form.code).UpstreamAuthCode
                        = decodeAuthCode(token[h.req].form.code).UpstreamAuthCode
               PROVE  g = h
    BY DEF OneGrantPerLogin
  <2>1. PICK s \in spent : s.req = g.req /\ s.code.subject = g.subject
    BY DEF IInv, GrantsSpent
  <2>2. PICK r \in spent : r.req = h.req /\ r.code.subject = h.subject
    BY DEF IInv, GrantsSpent
  <2>3. s.code = r.code
    BY <2>1, <2>2, SpentCodeHasOneFlow
  <2>4. s = r
    BY <2>3 DEF IInv, SpentRedeem
  <2>5. /\ g \in [req : Requests, subject : Subjects \union {Empty}]
        /\ h \in [req : Requests, subject : Subjects \union {Empty}]
    BY DEF IInv, TypeOK
  <2> QED
    BY <2>1, <2>2, <2>4, <2>5
<1> QED
  BY <1>1, Inductive, PTL

\* No grant after the state and the code made from it have both run out.
THEOREM GrantWithinLifetimeHolds == Spec => []GrantWithinLifetime
<1>1. IInv => GrantWithinLifetime
  <2> SUFFICES ASSUME IInv, NEW g \in grants
               PROVE  \E s \in spent, flow \in started :
                        /\ s.req = g.req
                        /\ LoginFor(s.code, flow)
                        /\ token[g.req].at <= flow.at + PendingTTL + CodeTTL
    BY DEF GrantWithinLifetime
  <2>1. PICK s \in spent : s.req = g.req
    BY DEF IInv, GrantsSpent
  <2>2. PICK flow \in started, t \in 0 .. now :
          /\ LoginFor(s.code, flow)
          /\ t <= flow.pending.ExpiresAt
          /\ token[s.req].at <= t + CodeTTL
    BY SpentCodeHasOneFlow
  <2>3. flow.pending.ExpiresAt = flow.at + PendingTTL
    BY DEF IInv, FlowsDistinct
  <2>4. flow.at \in Nat /\ token[s.req].at \in Nat
    BY DEF IInv, TypeOK
  <2>5. token[g.req].at <= flow.at + PendingTTL + CodeTTL
    BY <2>1, <2>2, <2>3, <2>4, TTLAssumption
  <2> QED
    BY <2>1, <2>2, <2>5
<1> QED
  BY <1>1, Inductive, PTL

\* Two resource indicators that meet at /token both name this server.
THEOREM ResourceBindingHolds == Spec => []ResourceBinding
<1>1. IInv => ResourceBinding
  <2> SUFFICES ASSUME IInv, NEW g \in grants
               PROVE  \E s \in spent, flow \in started :
                  /\ s.req = g.req
                  /\ LoginFor(s.code, flow)
                  /\ flow.pending.Resource # Empty => flow.pending.Resource.url = ThisResource
                  /\ flow.pending.Resource # Empty /\ token[g.req].form.resource # Empty
                       => token[g.req].form.resource.url = ThisResource
    BY DEF ResourceBinding
  <2>1. PICK s \in spent : s.req = g.req
    BY DEF IInv, GrantsSpent
  <2>2. PICK flow \in started :
          /\ LoginFor(s.code, flow)
          /\ resourceMatches(token[s.req].form, flow.pending)
    BY SpentCodeHasOneFlow
  <2>3. flow.pending.Resource # Empty => trimSlash(flow.pending.Resource) = ThisResource
    BY DEF IInv, FlowsDistinct
  <2> QED
    BY <2>1, <2>2, <2>3 DEF resourceMatches, trimSlash
<1> QED
  BY <1>1, Inductive, PTL
-----------------------------------------------------------------------------
\* Different codes of the IdP are different logins.
LEMMA LoginsDiffer ==
    ASSUME NEW c \in UpstreamCodes, NEW d \in UpstreamCodes, absLogin(c) = absLogin(d)
    PROVE  c = d
  BY DEF UpstreamCodes, absLogin

\* A step that leaves flows, logins, spent codes, grants and the forms of
\* spending requests alone is a stuttering step.
LEMMA Stutter ==
    ASSUME UNCHANGED <<started, upstreamCodes, spent, grants>>,
           \A s \in spent : token'[s.req].form = token[s.req].form
    PROVE  UNCHANGED Abstract!vars
<1>1. UNCHANGED <<absFlows, absLogins, absRedeemed>>
  BY DEF absFlows, absFlow, absLogins, absLogin, absRedeemed
<1>2. UNCHANGED absGranted
  BY DEF absGranted, absGrant, absLogin
<1> QED
  BY <1>1, <1>2 DEF Abstract!vars

\* /authorize starts a flow of its own.
LEMMA AuthorizeStarts ==
    ASSUME IInv, NEW q, NEW client, handleAuthorize(q, client)
    PROVE  Abstract!Next
<1> DEFINE pending == [ClientID             |-> q.client_id,
                       RedirectURI          |-> q.redirect_uri,
                       CodeChallenge        |-> q.code_challenge,
                       Resource             |-> q.resource,
                       UpstreamPKCEVerifier |-> nextVerifier,
                       ExpiresAt            |-> now + PendingTTL]
           flow == [pending |-> pending, at |-> now]
<1>1. /\ started' = started \union {flow}
      /\ UNCHANGED <<upstreamCodes, spent, token, grants>>
  BY DEF handleAuthorize, newPKCEVerifier
<1>2. flow.pending.UpstreamPKCEVerifier = nextVerifier
  OBVIOUS
<1> HIDE DEF flow
<1>3. absFlows' = absFlows \union {absFlow(flow)}
  BY <1>1 DEF absFlows, absFlow
<1>4. \A f \in absFlows : f.id # absFlow(flow).id
  <2>1. \A f \in started : f.pending.UpstreamPKCEVerifier # nextVerifier
    BY DEF IInv, TypeOK, FlowsDistinct, PendingAuths
  <2> QED
    BY <1>2, <2>1 DEF absFlows, absFlow
<1>5. UNCHANGED <<absLogins, absRedeemed, absGranted>>
  BY <1>1 DEF absLogins, absLogin, absRedeemed, absGranted, absGrant
<1>6. Abstract!Start(absFlow(flow))
  BY <1>3, <1>4, <1>5 DEF Abstract!Start
<1> QED
  BY <1>3, <1>6 DEF Abstract!Next

\* A login at the IdP is a login.
LEMMA UpstreamLoginLogsIn ==
    ASSUME IInv, NEW code_challenge \in challenges, NEW subject \in Subjects,
           UpstreamLogin(code_challenge, subject)
    PROVE  Abstract!Next
<1> DEFINE code == [id |-> Cardinality(upstreamCodes) + 1,
                    code_challenge |-> code_challenge, subject |-> subject]
<1>1. /\ upstreamCodes' = upstreamCodes \union {code}
      /\ UNCHANGED <<started, spent, token, grants>>
  BY DEF UpstreamLogin
<1>2. code.id = Cardinality(upstreamCodes) + 1
  OBVIOUS
<1> HIDE DEF code
<1>3. absLogins' = absLogins \union {absLogin(code)}
  BY <1>1 DEF absLogins, absLogin
<1>4. \A l \in absLogins : l.id # absLogin(code).id
  <2>1. Cardinality(upstreamCodes) \in Nat
    BY FS_CardinalityType DEF IInv, TypeOK
  <2>2. \A c \in upstreamCodes : c.id \in Nat /\ c.id <= Cardinality(upstreamCodes)
    BY DEF IInv, TypeOK, UpstreamCodes, LoginsNumbered
  <2>3. \A c \in upstreamCodes : c.id # code.id
    BY <1>2, <2>1, <2>2
  <2> QED
    BY <2>3 DEF absLogins, absLogin
<1>5. UNCHANGED <<absFlows, absRedeemed, absGranted>>
  BY <1>1 DEF absFlows, absFlow, absRedeemed, absGranted, absGrant, absLogin
<1>6. Abstract!Login(absLogin(code))
  BY <1>3, <1>4, <1>5 DEF Abstract!Login
<1> QED
  BY <1>3, <1>6 DEF Abstract!Next

\* An exchange that the IdP refuses changes nothing; one that it takes uses a
\* login up, for the flow it was asked for.
LEMMA UpstreamExchangeRedeems ==
    ASSUME IInv, NEW post \in posts, UpstreamExchange(post)
    PROVE  Abstract!Next \/ UNCHANGED Abstract!vars
<1>1. UNCHANGED <<started, upstreamCodes, token, grants>>
  BY DEF UpstreamExchange
<1>2. CASE UNCHANGED spent
  BY <1>1, <1>2, Stutter
<1>3. CASE /\ post.code \in upstreamCodes
           /\ \A s \in spent : s.code # post.code
           /\ pkceChallenge(post.code_verifier) = post.code.code_challenge
           /\ spent' = spent \union {[code |-> post.code, req |-> post.req]}
  <2> DEFINE new == [code |-> post.code, req |-> post.req]
             login == absLogin(post.code)
  <2> HIDE DEF new, login
  <2>1. absRedeemed' = absRedeemed \union {login}
    <3>1. spent' = spent \union {new} /\ new.code = post.code
      BY <1>3 DEF new
    <3>2. absLogin(new.code) = login
      BY <3>1 DEF login
    <3> QED
      BY <3>1, <3>2 DEF absRedeemed, absLogin
  <2>2. login \in absLogins \ absRedeemed
    <3>1. login \in absLogins
      BY <1>3 DEF absLogins, login
    <3>2. \A s \in spent : s.code \in UpstreamCodes /\ post.code \in UpstreamCodes
      BY <1>3 DEF IInv, TypeOK
    <3>3. login \notin absRedeemed
      BY <1>3, <3>2, LoginsDiffer DEF absRedeemed, login
    <3> QED
      BY <3>1, <3>3
  <2>3. \E flow \in absFlows : flow.id = login.flow
    <3>1. PICK flow \in started : post.code_verifier = flow.pending.UpstreamPKCEVerifier
      BY DEF IInv, PostsRedeem, Redemption
    <3>2. post.code.code_challenge.s256 = post.code_verifier
      BY <1>3 DEF pkceChallenge
    <3>3. absFlow(flow) \in absFlows /\ absFlow(flow).id = login.flow
      BY <3>1, <3>2 DEF absFlows, absFlow, absLogin, login
    <3> QED
      BY <3>3
  <2>4. absGranted' = absGranted
    <3>1. \A g \in grants : g.req # new.req
      BY DEF IInv, ExchangedOnce, GrantsSpent, new
    <3>2. {q \in spent' \X grants' : q[1].req = q[2].req}
            = {q \in spent \X grants : q[1].req = q[2].req}
      BY <1>1, <1>3, <3>1 DEF new
    <3> QED
      BY <1>1, <3>2 DEF absGranted, absGrant, absLogin
  <2>5. UNCHANGED <<absFlows, absLogins>>
    BY <1>1 DEF absFlows, absFlow, absLogins, absLogin
  <2>6. Abstract!Redeem(login)
    BY <2>1, <2>2, <2>3, <2>4, <2>5 DEF Abstract!Redeem
  <2> QED
    BY <2>2, <2>6 DEF Abstract!Next
<1> QED
  BY <1>2, <1>3 DEF UpstreamExchange

\* A token response grants the login that was used up for the request to the
\* client that started the flow; any other end of the handler is no step.
LEMMA HandlerEndGrants ==
    ASSUME IInv, NEW req \in Requests, HandleUpstreamAnswer(req) \/ TransportError(req)
    PROVE  Abstract!Next \/ UNCHANGED Abstract!vars
<1>1. /\ token[req].phase = "upstream"
      /\ UNCHANGED <<started, upstreamCodes, spent>>
      /\ \A r \in Requests : token'[r].form = token[r].form
  BY DEF HandleUpstreamAnswer, TransportError, IInv, TypeOK
<1>2. \A s \in spent : s.req \in Requests /\ s.code \in UpstreamCodes
  BY DEF IInv, TypeOK
<1>3. CASE grants' = grants
  BY <1>1, <1>2, <1>3, Stutter
<1>4. ASSUME NEW answer \in answers, answer.req = req, exchangeReply(answer) = "granted",
             grants' = grants \union {[req |-> req, subject |-> answer.subject]}
      PROVE  Abstract!Next
  <2> DEFINE g == [req |-> req, subject |-> answer.subject]
  <2>1. answer.kind # "refused"
    <3>1. answer.kind \in AnswerKinds
      BY DEF IInv, TypeOK
    <3> QED
      BY <1>4, <3>1 DEF exchangeReply
  <2>2. PICK s \in spent : s.req = req /\ s.code.subject = answer.subject
    BY <1>4, <2>1 DEF IInv, AnswersSpent
  <2>3. PICK flow \in started : LoginFor(s.code, flow) /\ Redeems(token[req].form, flow)
    BY <2>2, SpentCodeHasOneFlow
  <2>4. absFlow(flow) \in absFlows /\ absFlow(flow).id = absLogin(s.code).flow
    BY <2>3 DEF absFlows, absFlow, absLogin, LoginFor, pkceChallenge
  <2>5. absLogin(s.code) \in absRedeemed
    BY DEF absRedeemed
  <2>6. \A h \in grants : h.req # req
    BY <1>1 DEF IInv, ExchangedOnce
  <2>7. \A r \in spent : r.req = req => r = s
    BY <2>2 DEF IInv, ExchangedOnce
  <2>8. {q \in spent' \X grants' : q[1].req = q[2].req}
          = {q \in spent \X grants : q[1].req = q[2].req} \union {<<s, g>>}
    BY <1>1, <1>4, <2>2, <2>7
  <2>9. absGrant(s, g) = [login |-> absLogin(s.code), owner |-> absFlow(flow).owner,
                          subject |-> absLogin(s.code).subject]
    BY <2>2, <2>3 DEF absGrant, absLogin, absFlow, Redeems, Owner
  <2>10. \A r \in spent : \A h : absGrant(r, h)' = absGrant(r, h)
    BY <1>1, <1>2 DEF absGrant, absLogin, Owner, pkceChallenge
  <2> HIDE DEF g
  <2>11. absGranted' = absGranted \union {absGrant(s, g)}
    <3>1. absGranted' = {absGrant(p[1], p[2])' :
                            p \in {q \in spent' \X grants' : q[1].req = q[2].req}}
      BY DEF absGranted
    <3>2. absGranted' = {absGrant(p[1], p[2]) :
                            p \in {q \in spent' \X grants' : q[1].req = q[2].req}}
      BY <1>1, <2>10, <3>1
    <3> DEFINE Now   == {q \in spent' \X grants' : q[1].req = q[2].req}
               Before == {q \in spent \X grants : q[1].req = q[2].req}
    <3>3. /\ absGranted' = {absGrant(p[1], p[2]) : p \in Now}
          /\ absGranted = {absGrant(p[1], p[2]) : p \in Before}
          /\ Now = Before \union {<<s, g>>}
      BY <2>8, <3>2 DEF absGranted
    <3>4. <<s, g>>[1] = s /\ <<s, g>>[2] = g
      OBVIOUS
    <3> HIDE DEF absGrant, Now, Before
    <3> QED
      BY <3>3, <3>4
  <2>12. \A a \in absGranted : a.login # absLogin(s.code)
    <3> SUFFICES ASSUME NEW r \in spent, NEW h \in grants, r.req = h.req,
                        absLogin(r.code) = absLogin(s.code)
                 PROVE  FALSE
      BY DEF absGranted, absGrant
    <3>1. r.code = s.code
      BY <1>2, LoginsDiffer
    <3>2. r = s
      BY <3>1 DEF IInv, SpentRedeem
    <3> QED
      BY <2>2, <2>6, <3>2
  <2>13. UNCHANGED <<absFlows, absLogins, absRedeemed>>
    BY <1>1 DEF absFlows, absFlow, absLogins, absLogin, absRedeemed
  <2>14. Abstract!Grant(absLogin(s.code), absFlow(flow))
    BY <2>4, <2>5, <2>9, <2>11, <2>12, <2>13 DEF Abstract!Grant
  <2> QED
    BY <2>4, <2>5, <2>14 DEF Abstract!Next
<1> QED
  BY <1>3, <1>4 DEF HandleUpstreamAnswer, TransportError

\* /token up to its exchange changes the form of its own request only.
LEMMA StartTokenStutters ==
    ASSUME IInv, NEW req \in Requests, NEW form, NEW client, NEW tokenURLKnown,
           StartToken(req, form, client, tokenURLKnown)
    PROVE  UNCHANGED Abstract!vars
<1>1. \A s \in spent : s.req \in Requests /\ s.req # req
  BY DEF IInv, TypeOK, SpentRedeem, Redemption, StartToken
<1>2. \A r \in Requests : r # req => token'[r] = token[r]
  BY DEF StartToken, IInv, TypeOK
<1> QED
  BY <1>1, <1>2, Stutter DEF StartToken

\* Every step of the broker and the IdP is a step of the grant, or none.
LEMMA StepSimulation == IInv /\ [Next]_vars => [Abstract!Next]_(Abstract!vars)
<1> SUFFICES ASSUME IInv, [Next]_vars PROVE Abstract!Next \/ UNCHANGED Abstract!vars
  OBVIOUS
<1>1. CASE Authorize
  BY <1>1, AuthorizeStarts DEF Authorize
<1>2. ASSUME NEW code_challenge \in challenges, NEW subject \in Subjects,
             UpstreamLogin(code_challenge, subject)
      PROVE  Abstract!Next
  BY <1>2, UpstreamLoginLogsIn
<1>3. ASSUME NEW state, NEW code, handleCallback(state, code)
      PROVE  UNCHANGED Abstract!vars
  BY <1>3, Stutter DEF handleCallback
<1>4. ASSUME NEW req \in Requests, Token(req)
      PROVE  UNCHANGED Abstract!vars
  BY <1>4, StartTokenStutters DEF Token
<1>5. ASSUME NEW post \in posts, UpstreamExchange(post)
      PROVE  Abstract!Next \/ UNCHANGED Abstract!vars
  BY <1>5, UpstreamExchangeRedeems
<1>6. ASSUME NEW req \in Requests, HandleUpstreamAnswer(req) \/ TransportError(req)
      PROVE  Abstract!Next \/ UNCHANGED Abstract!vars
  BY <1>6, HandlerEndGrants
<1>7. CASE Tick
  BY <1>7, Stutter DEF Tick
<1>8. CASE UNCHANGED vars
  BY <1>8, Stutter DEF vars
<1> QED
  BY <1>1, <1>2, <1>3, <1>4, <1>5, <1>6, <1>7, <1>8 DEF Next

\* Nothing has happened at the start.
LEMMA InitSimulation == Init => Abstract!Init
  BY DEF Init, Abstract!Init, absFlows, absLogins, absRedeemed, absGranted

\* However redirects, codes and requests are lost, repeated or mixed up, the
\* broker implements the authorization-code grant: a login turns into at most
\* one token, the user's, for the client that started the flow
\* (handleAuthorize, handleCallback, handleTokenAuthCode).
THEOREM Refinement == Spec => ImplementsGrant
  BY Inductive, InitSimulation, StepSimulation, PTL DEF Spec, ImplementsGrant, Abstract!Spec
=============================================================================
