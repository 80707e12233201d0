----------------------------- MODULE Deployment -----------------------------
(***************************************************************************)
(* A deployment of the library: a Config that New accepted, the routes it  *)
(* mounts, the discovery of the IdP behind it, and requests that reach it  *)
(* under one or several hosts.  What a client learns from one request must *)
(* hold for the next.                                                      *)
(***************************************************************************)
EXTENDS OidcDiscovery

CONSTANT Origins    \* [tls, proto, host]: how requests reach the server

URLs == [origin : [scheme : STRING, host : STRING], path : Seq(STRING), slash : BOOLEAN]

ASSUME DeploymentAssumption == \A c \in Configs :
    /\ {c.Issuer, c.Audience, c.PublicResourceURL, c.PublicAuthServerURL} \subseteq URLs
    /\ {c.AuthorizationPath, c.CallbackPath, c.TokenPath} \subseteq Seq(STRING)

\* The properties below are about cfg alone, which never changes: they are
\* asked of every deployment once, at its start.
Started == now = 0 /\ changes = 0 /\ \A c \in Calls : call[c].phase = "idle"

\* A request that a route answers.
at(origin, path) == [tls |-> origin.tls, proto |-> origin.proto, host |-> origin.host, path |-> path]

\* The requests that the handlers called `handler' get.
Arrivals(handler) ==
    {at(o, route.path) : o \in Origins,
        route \in {x \in RegisterRoutes(cfg) : x.handler = handler}}

Metadata == Arrivals("as_metadata") \union Arrivals("openid")

\* The server's own URL is configured, or both requests came under the same.
SameServer(publicURL, r1, r2) == publicURL # NoURL \/ schemeAndHost(r1) = schemeAndHost(r2)

\* The document is at its own place or behind the prefix /oauth, or a public
\* URL is configured; and no path of the IdP's URL gets into ours.
Canonical(r) ==
    cfg.PublicAuthServerURL # NoURL \/ (Ext!Last(r.path) # "oauth" /\ cfg.Issuer.path = <<>>)

\* A path that is not taken for one of the well-known ones with a prefix behind.
WellKnown == {protectedResourcePath, authorizationServerPath, openIDConfigurationPath}

Plain(path) == \A m \in WellKnown : ~Ext!IsStrictPrefix(m, path)

\* The configured paths of /authorize and /token are plain: the library does
\* not ask for it, but a prefix would be read out of the others.
PlainPaths == Plain(authorizationPath(cfg)) /\ Plain(tokenPath(cfg))

\* u is the route of `handler' below the public URL.
LeadsTo(u, publicURL, handler) ==
    \E route \in RegisterRoutes(cfg) :
        route.handler = handler /\ u.path = below(publicURL.path, route.path)

\* Metadata documents and challenges lead to handlers that are mounted, the
\* configured paths included, and so does the redirect_uri that the IdP gets
\* (asMetadata, challengeHeader, callbackURL against RegisterRoutes).
AdvertisedIsMounted == Started =>
    /\ \A r \in Metadata : Canonical(r) =>
        /\ LeadsTo(asMetadata(cfg, r).authorization_endpoint, cfg.PublicAuthServerURL, "authorize")
        /\ LeadsTo(asMetadata(cfg, r).token_endpoint, cfg.PublicAuthServerURL, "token")
        /\ LeadsTo(callbackURL(cfg, r), cfg.PublicAuthServerURL, "callback")
    /\ \A o \in Origins :
        cfg.PublicResourceURL # NoURL \/ cfg.Audience.path = <<>> =>
            LeadsTo(challengeHeader(cfg, at(o, <<"/", "mcp">>)), cfg.PublicResourceURL,
                    "protected_resource")

\* The IdP is told the same redirect_uri at /authorize and at /token, as it
\* demands, and /token expects of an assertion the audience that the metadata
\* told the client: also across hosts, if the public URL is configured.
RequestsAgree == Started /\ PlainPaths =>
    /\ \A r1 \in Arrivals("authorize"), r2 \in Arrivals("token") :
        SameServer(cfg.PublicAuthServerURL, r1, r2) => callbackURL(cfg, r1) = callbackURL(cfg, r2)
    /\ \A r1 \in Metadata, r2 \in Arrivals("token") :
        Canonical(r1) /\ SameServer(cfg.PublicAuthServerURL, r1, r2) =>
            asMetadata(cfg, r1).token_endpoint = tokenEndpointURL(cfg, r2)

\* A client that asks for the resource it found in the protected-resource
\* metadata is not turned away at /authorize, which compares it without the
\* slash that the metadata adds.
ResourceRoundTrip == Started /\ PlainPaths =>
    \A r1 \in Arrivals("protected_resource"), r2 \in Arrivals("authorize") :
        SameServer(cfg.PublicResourceURL, r1, r2) =>
            resourceIdentifiesServer(cfg, r2, handleProtectedResourceMetadata(cfg, r1).resource)
=============================================================================
