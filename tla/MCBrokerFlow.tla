---------------------------- MODULE MCBrokerFlow ----------------------------
(***************************************************************************)
(* Small instances of BrokerFlow for TLC.                                  *)
(***************************************************************************)
EXTENDS BrokerRefinement, TLC

CONSTANTS c1, c2, r1, r2, v1, v2, u1, u2, here, there, q1, q2

MCThis == here

\* client c1 is public; c2 has a key, shares a redirect_uri with c1, and its
\* metadata document may be unavailable.
MCResolutions ==
    c1 :> {[err |-> FALSE, RedirectURIs |-> {r1},
            TokenEndpointAuthMethod |-> "none"]}
    @@ c2 :> {[err |-> FALSE, RedirectURIs |-> {r1, r2},
               TokenEndpointAuthMethod |-> "private_key_jwt"],
              [err |-> TRUE]}

NoResource   == {Empty}
AllResources == {Empty, [url |-> here, slash |-> TRUE], [url |-> there, slash |-> FALSE]}

Credential(g, s, a) ==
    [posted |-> TRUE, grant_type |-> g, client_secret |-> s, assertion |-> a]
PublicClient   == {Credential("authorization_code", Empty, "absent")}
AllCredentials ==
    {Credential("authorization_code", Empty, a) : a \in {"absent", "valid", "invalid"}}
    \union {Credential("refresh_token", Empty, "absent"),
            Credential("authorization_code", "secret", "absent"),
            [Credential("authorization_code", Empty, "absent") EXCEPT !.posted = FALSE]}

UserSymmetry == Permutations({u1, u2}) \union Permutations({v1, v2})
                \union Permutations({q1, q2})
=============================================================================
