---------------------------- MODULE CimdDocument ----------------------------
(***************************************************************************)
(* Which client_id URLs and metadata documents cimd.go accepts.  A URL is  *)
(* what url.Parse makes of it: [scheme, user, ascii, host, port, path,     *)
(* query, fragment], its path the decoded segments between the slashes     *)
(* ("/" is <<"">>, no path is <<>>); `ascii' says that IDNA leaves the     *)
(* host as it is.  A document is a record of the fields that               *)
(* parseCIMDMetadata reads.                                                *)
(***************************************************************************)
EXTENDS Integers, Sequences

LOCAL Ext == INSTANCE SequencesExt

CONSTANTS
    Unparsable,         \* an empty or oversized string, or not a URL
    MaxRedirectURIs     \* cimdMaxRedirectURIs

ASSUME DocumentAssumption == MaxRedirectURIs \in Nat \ {0}

\* path.Clean leaves the path alone.
clean(path) == path = <<"">> \/ \A i \in DOMAIN path : path[i] \notin {"", ".", ".."}

\* No encoded slash, no dot-segment; a slash at the end is let through.
validateCIMDPath(path) ==
    /\ \A i \in DOMAIN path : path[i] \notin {"%2F", "%5C"}
    /\ clean(path) \/ (Ext!Last(path) = "" /\ clean(Ext!Front(path)))

\* What a client_id and a jwks_uri have in common.
plainHTTPS(u) ==
    /\ u.scheme = "https"
    /\ ~u.user /\ u.fragment = ""
    /\ u.host # "" /\ u.ascii
    /\ u.port \in {"", "443"}

validateCIMDClientIDURL(u) ==
    /\ u # Unparsable
    /\ plainHTTPS(u)
    /\ u.query = ""
    /\ u.path \notin {<<>>, <<"">>}
    /\ validateCIMDPath(u.path)

validateJWKSURI(u) ==
    /\ u # Unparsable
    /\ plainHTTPS(u)
    /\ u.path # <<>> => validateCIMDPath(u.path)

validateCIMDRedirectURI(u) == u # Unparsable /\ u.scheme = "https" /\ u.host # ""

\* token_endpoint_auth_method; the jwks_uri of a public client is not looked at.
validAuthMethod(doc) ==
    \/ doc.token_endpoint_auth_method = "none"
    \/ doc.token_endpoint_auth_method = "private_key_jwt" /\ validateJWKSURI(doc.jwks_uri)

\* redirect_uris: some, not too many, none twice.
validRedirectURIs(uris) ==
    /\ Len(uris) \in 1 .. MaxRedirectURIs
    /\ Ext!IsInjective(uris)
    /\ \A i \in DOMAIN uris : validateCIMDRedirectURI(uris[i])

\* grant_types and response_types: absent, or all known and with the one needed.
declares(values, needed, known) ==
    values # <<>> => Ext!ToSet(values) \subseteq known /\ needed \in Ext!ToSet(values)

\* What is asked of a document besides its client_id.  client_name is "named",
\* absent or oversized.
acceptable(doc) ==
    /\ doc.client_name = "named"
    /\ ~doc.client_secret
    /\ validAuthMethod(doc)
    /\ validRedirectURIs(doc.redirect_uris)
    /\ declares(doc.grant_types, "authorization_code", {"authorization_code", "refresh_token"})
    /\ declares(doc.response_types, "code", {"code"})

\* Fault: a document may speak for any client.
AnyClientsDocument(url, doc) == acceptable(doc)

\* Does parseCIMDMetadata accept the document behind the URL?
parseCIMDMetadata(url, doc) == doc.client_id = url /\ acceptable(doc)

registeredClient(doc) ==
    [RedirectURIs |-> doc.redirect_uris,
     TokenEndpointAuthMethod |-> doc.token_endpoint_auth_method,
     JWKSURI |-> doc.jwks_uri]
=============================================================================
