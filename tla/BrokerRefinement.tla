-------------------------- MODULE BrokerRefinement --------------------------
(***************************************************************************)
(* BrokerFlow implements AuthCodeGrant: the refinement mapping.            *)
(***************************************************************************)
EXTENDS BrokerFlow

\* The client, its redirect_uri and its PKCE challenge.
Owner(client_id, redirect_uri, code_challenge) ==
    [client |-> client_id, redirect |-> redirect_uri, challenge |-> code_challenge]

\* The upstream verifier, of which the IdP knows the challenge, identifies a
\* flow.
absFlow(flow) ==
    [id    |-> flow.pending.UpstreamPKCEVerifier,
     owner |-> Owner(flow.pending.ClientID, flow.pending.RedirectURI,
                     flow.pending.CodeChallenge)]

absLogin(code) ==
    [id |-> code.id, flow |-> code.code_challenge.s256, subject |-> code.subject]

\* A token response as the request shows its receiver: the login that the IdP
\* spent for the request, and the identity in the IdP's answer.
absGrant(s, g) ==
    LET form == token[s.req].form
    IN  [login   |-> absLogin(s.code),
         owner   |-> Owner(form.client_id, form.redirect_uri,
                           pkceChallenge(form.code_verifier)),
         subject |-> g.subject]

absFlows    == {absFlow(flow) : flow \in started}
absLogins   == {absLogin(code) : code \in upstreamCodes}
absRedeemed == {absLogin(s.code) : s \in spent}
absGranted  == {absGrant(p[1], p[2]) : p \in {q \in spent \X grants : q[1].req = q[2].req}}

Abstract == INSTANCE AuthCodeGrant WITH
    flows <- absFlows, logins <- absLogins, redeemed <- absRedeemed, granted <- absGranted

\* Every behaviour of the endpoints, their artifacts and the IdP is one of
\* AuthCodeGrant: a login turns into at most one token, and that for the client
\* that started the flow the login was for (handleAuthorize, handleCallback,
\* handleTokenAuthCode).
ImplementsGrant == Abstract!Spec
=============================================================================
