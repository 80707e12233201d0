---------------------------- MODULE MCDeployment ----------------------------
(***************************************************************************)
(* A small instance of Deployment for TLC.                                 *)
(***************************************************************************)
EXTENDS Deployment

LOCAL doc(issuer, n) ==
    [issuer |-> issuer, authorization_endpoint |-> n, token_endpoint |-> n,
     userinfo_endpoint |-> n, jwks_uri |-> n]

\* The IdP before and after it moved, and "{}".
MCDocuments == {doc("idp", "old"), doc("idp", "new"), NoDocument}

\* The first document is in trouble, the second is in order.
MCFirstServed == {<<NoDocument, doc("idp", "new")>>}

\* Plain, and behind a proxy that ends TLS, under another name or none.
MCOrigins == {[tls |-> TRUE, proto |-> "", host |-> "mcp"],
              [tls |-> FALSE, proto |-> "https", host |-> "mcp"],
              [tls |-> FALSE, proto |-> "", host |-> ""]}

\* Everything by discovery, nothing public.
LOCAL discovered ==
    [Mode |-> "", BrokerUpstream |-> TRUE, Issuer |-> URL("https", "idp", <<>>, TRUE),
     JWKSURL |-> "", Audience |-> URL("https", "mcp", <<>>, TRUE), ClientID |-> "client",
     ClientSecret |-> "secret", AuthURL |-> "", TokenURL |-> "", UserInfoURL |-> "",
     SigningSecret |-> "secret", PublicResourceURL |-> NoURL, PublicAuthServerURL |-> NoURL,
     AuthorizationPath |-> <<>>, CallbackPath |-> <<>>, TokenPath |-> <<>>]

LOCAL public == URL("https", "public", <<"/", "team">>, TRUE)

MCConfigs ==
    {discovered,
     \* Public URLs below a path, own paths, an audience and an issuer with a
     \* path, every endpoint of the IdP set.
     [discovered EXCEPT !.Mode = "forward", !.PublicResourceURL = public,
        !.PublicAuthServerURL = public, !.Audience = URL("https", "mcp", <<"/", "a">>, FALSE),
        !.Issuer = URL("https", "idp", <<"/", "realm">>, FALSE), !.JWKSURL = "set",
        !.AuthURL = "set", !.TokenURL = "set", !.UserInfoURL = "set",
        !.TokenPath = <<"t", "/">>, !.AuthorizationPath = <<"/">>,
        !.CallbackPath = <<"/", "cb">>],
     \* An audience that is no URL, and /authorize behind a well-known path.
     [discovered EXCEPT !.Audience = URL("", "", <<"client">>, FALSE),
        !.AuthorizationPath = openIDConfigurationPath \o <<"-login">>, !.JWKSURL = "set",
        !.AuthURL = "set", !.TokenURL = "set", !.UserInfoURL = "set"],
     \* /authorize in the place of /token, which no mux takes.
     [discovered EXCEPT !.AuthorizationPath = oauthPath("token")],
     \* No issuer: both endpoints, then one of them, which New refuses.
     [discovered EXCEPT !.Issuer = NoURL, !.AuthURL = "set", !.TokenURL = "set"],
     [discovered EXCEPT !.Issuer = NoURL, !.AuthURL = "set"],
     \* A resource server whose issuer is a well-known URL, with and without a
     \* setting of a broker.
     [discovered EXCEPT !.BrokerUpstream = FALSE],
     [discovered EXCEPT !.BrokerUpstream = FALSE, !.ClientSecret = "",
        !.Issuer = URL("https", "idp", <<"/", ".well-known", "/", "tenant">>, FALSE)],
     [discovered EXCEPT !.Mode = "proxy"]}
=============================================================================
