----------------------------- MODULE Endpoints -----------------------------
(***************************************************************************)
(* The URLs of the library (urls.go; broker.go: RegisterRoutes, the base   *)
(* URLs, the metadata documents; middleware.go: challengeHeader): where    *)
(* the handlers are mounted, and what clients and the IdP are told.  Each  *)
(* operator takes the Config c and the request r [tls, proto, host, path]  *)
(* it answers.                                                             *)
(***************************************************************************)
EXTENDS Config

Ext == INSTANCE SequencesExt

normalizeURL(u) == [u EXCEPT !.slash = FALSE]

canonicalResourceURL(u) == IF u = NoURL THEN NoURL ELSE [u EXCEPT !.slash = TRUE]

\* strings.TrimRight(path, "/")
trimRight(path) == SubSeq(path, 1, Ext!SelectLastInSeq(path, LAMBDA piece : piece # "/"))

leadingSlash(path) == IF path[1] = "/" THEN path ELSE <<"/">> \o path

normalizedPath(raw, fallback) ==
    LET path == leadingSlash(IF raw = <<>> THEN fallback ELSE raw)
    IN  IF path = <<"/">> THEN path ELSE trimRight(path)

\* Below a base, "/" is the base itself.
below(base, path) == IF path \in {<<>>, <<"/">>} THEN base ELSE base \o path

joinURLPath(base, path) == [normalizeURL(base) EXCEPT !.path = below(@, path)]

\* What follows the marker that the path begins with, whatever the next piece.
suffixPrefix(path, markers) ==
    LET begun == {m \in markers : Ext!IsStrictPrefix(m, path)}
    IN  IF begun = {} THEN <<>>
        ELSE LET m == CHOOSE m \in begun : TRUE
             IN  trimRight(leadingSlash(SubSeq(path, Len(m) + 1, Len(path))))

\* An Audience that is no URL is all path, and begins without a slash.
pathFromConfiguredURL(u) == u.path

firstPath(a, b) == IF a # <<>> THEN a ELSE b

\* X-Forwarded-Proto goes before TLS; a missing host is localhost.
schemeAndHost(r) ==
    [scheme |-> IF r.proto # "" THEN r.proto ELSE IF r.tls THEN "https" ELSE "http",
     host |-> IF r.host = "" THEN "localhost" ELSE r.host]

wellKnownPath(name) == <<"/", ".well-known", "/", name>>

oauthPath(name) == <<"/", "oauth", "/", name>>

protectedResourcePath   == wellKnownPath("oauth-protected-resource")
authorizationServerPath == wellKnownPath("oauth-authorization-server")
openIDConfigurationPath == wellKnownPath("openid-configuration")

authorizationPath(c) == normalizedPath(c.AuthorizationPath, oauthPath("authorize"))
callbackPath(c)      == normalizedPath(c.CallbackPath, oauthPath("callback"))
tokenPath(c)         == normalizedPath(c.TokenPath, oauthPath("token"))

\* A metadata document and its two aliases.
aliases(path) == {path, path \o <<"/", "oauth">>, <<"/", "oauth">> \o path}

\* Fault: the endpoints are mounted at their default paths only.
DefaultRoutes(c) ==
    {[path |-> oauthPath(p), handler |-> p] : p \in {"authorize", "callback", "token"}}

endpointRoutes(c) ==
    LET mount(handler, path) ==
          {[path |-> p, handler |-> handler] : p \in {path, oauthPath(handler)}}
    IN  mount("authorize", authorizationPath(c)) \union mount("callback", callbackPath(c))
        \union mount("token", tokenPath(c))

RegisterRoutes(c) ==
    {[path |-> protectedResourcePath, handler |-> "protected_resource"]} \union
    IF ~brokerActive(c) THEN {}
    ELSE {[path |-> p, handler |-> "as_metadata"] : p \in aliases(authorizationServerPath)}
         \union {[path |-> p, handler |-> "openid"] : p \in aliases(openIDConfigurationPath)}
         \union {[path |-> oauthPath("register"), handler |-> "register"]}
         \union endpointRoutes(c)

\* A mux panics when it is given a path a second time; only within one handler
\* does uniquePaths see to it.
mountable(c) == \A a, b \in RegisterRoutes(c) : a.path = b.path => a.handler = b.handler

resourcePrefix(c, r) ==
    firstPath(suffixPrefix(r.path, {protectedResourcePath, authorizationServerPath,
                                    openIDConfigurationPath}),
              firstPath(pathFromConfiguredURL(c.PublicResourceURL),
                        pathFromConfiguredURL(c.Audience)))

authServerPrefix(c, r) ==
    firstPath(suffixPrefix(r.path, {authorizationServerPath, openIDConfigurationPath}),
              firstPath(pathFromConfiguredURL(c.PublicAuthServerURL),
                        pathFromConfiguredURL(c.Issuer)))

resourceBaseURL(c, r) ==
    IF c.PublicResourceURL # NoURL THEN normalizeURL(c.PublicResourceURL)
    ELSE [origin |-> schemeAndHost(r), path |-> resourcePrefix(c, r), slash |-> FALSE]

\* Fault: the public URL only lends its path.
BaseFromRequest(c, r) ==
    [origin |-> schemeAndHost(r), path |-> authServerPrefix(c, r), slash |-> FALSE]

authServerBaseURL(c, r) ==
    IF c.PublicAuthServerURL # NoURL THEN normalizeURL(c.PublicAuthServerURL)
    ELSE [origin |-> schemeAndHost(r), path |-> authServerPrefix(c, r), slash |-> FALSE]

handleProtectedResourceMetadata(c, r) ==
    [resource |-> canonicalResourceURL(resourceBaseURL(c, r)),
     authorization_server |-> IF brokerActive(c) THEN authServerBaseURL(c, r) ELSE c.Issuer]

asMetadata(c, r) ==
    [issuer |-> authServerBaseURL(c, r),
     authorization_endpoint |-> joinURLPath(authServerBaseURL(c, r), authorizationPath(c)),
     token_endpoint |-> joinURLPath(authServerBaseURL(c, r), tokenPath(c))]

\* The redirect_uri that /authorize and /token send to the IdP.
callbackURL(c, r) == joinURLPath(authServerBaseURL(c, r), callbackPath(c))

\* The audience that /token expects of a client assertion.
tokenEndpointURL(c, r) == joinURLPath(authServerBaseURL(c, r), tokenPath(c))

\* Fault: the resource is compared as it is.
SameURL(c, r, resource) == resource = resourceBaseURL(c, r)

\* handleAuthorize's check of the resource parameter.
resourceIdentifiesServer(c, r, resource) ==
    normalizeURL(resource) = normalizeURL(resourceBaseURL(c, r))

\* resource_metadata of a WWW-Authenticate challenge.
challengeHeader(c, r) == joinURLPath(resourceBaseURL(c, r), protectedResourcePath)
=============================================================================
