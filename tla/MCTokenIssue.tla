---------------------------- MODULE MCTokenIssue ----------------------------
(***************************************************************************)
(* Small instances of TokenIssue for TLC.                                  *)
(***************************************************************************)
EXTENDS TokenIssue

LOCAL user(name, domain, verified) ==
    [email |-> text(<<name, "@", domain>>), email_verified |-> verified, hd |-> text(<<domain>>)]

\* Verified by a Boolean and by a string, not verified, and of another domain.
MCIdentities == {user("ann", "corp", bool(TRUE)), user("bob", "corp", text(<<"true">>)),
                 user("cyd", "corp", bool(FALSE)), user("dan", "home", bool(TRUE))}

MCAuthServer == <<"https://idp", "/">>
MCClientID   == <<"client">>

\* Gating mode by default, the Validator's audience being the client_id of the
\* IdP, a policy on hosted domains.
LOCAL lax ==
    [Mode |-> "", Audience |-> MCClientID, ClientID |-> MCClientID, Issuer |-> <<"https://idp">>,
     JWKSURL |-> <<>>, AccessTokenTTL |-> 0, RequiredScopes |-> {}, AllowUnverifiedEmail |-> TRUE,
     AllowedEmailDomains |-> {}, AllowedHostedDomains |-> {<<"corp">>}, UpstreamIssuerAllowlist |-> {}]

LOCAL strict ==
    [lax EXCEPT !.Mode = "gating", !.AccessTokenTTL = 1, !.AllowUnverifiedEmail = FALSE,
                !.AllowedEmailDomains = {<<"corp">>}, !.AllowedHostedDomains = {},
                !.UpstreamIssuerAllowlist = {MCAuthServer}]

\* Both modes, with and without scopes that no id_token has; and a broker that
\* has endpoints but no keys to ask for.
BothModes ==
    LET forward == [strict EXCEPT !.Mode = "forward", !.AllowedHostedDomains = {<<"corp">>}]
    IN  {strict, [lax EXCEPT !.Audience = MCClientID \o <<"/">>], forward,
         [forward EXCEPT !.RequiredScopes = {<<"mcp">>}], [lax EXCEPT !.Issuer = <<>>]}

\* Gating mode only.
GatingMode == {lax}

\* The quick start of README.md: the audience is the server's URL.
QuickStart == {[lax EXCEPT !.Audience = <<"https://mcp.example.com", "/">>]}
=============================================================================
