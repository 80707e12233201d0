-------------------------------- MODULE Jwe --------------------------------
(***************************************************************************)
(* The stateless JWE artifacts of jwe.go, broker_state.go and              *)
(* downstream_token.go.  An artifact is sealed under a key derived from    *)
(* the shared SigningSecret and a per-purpose HKDF label, so a reader of   *)
(* one purpose cannot open an artifact of another, and nobody without the  *)
(* secret can make one.  The model keeps the key a token is sealed under   *)
(* and its claim map; the ciphertext itself is left out.                   *)
(***************************************************************************)
EXTENDS Integers

CONSTANT Empty      \* the empty string "" of the Go code

hkdfInfoPendingAuth     == "altinity-mcp/oauth/pending-auth/v1"
hkdfInfoAuthCode        == "altinity-mcp/oauth/auth-code/v2"
hkdfInfoDownstreamToken == "altinity-mcp/oauth/downstream-token/v1"

\* Fault: one key for every purpose.
SharedKey(info) == <<"SigningSecret", "">>

\* HKDF-SHA256 of the one shared SigningSecret: distinct labels, distinct keys.
deriveKey(info) == <<"SigningSecret", info>>

jweAllowedClaimKeys ==
    { "iss", "sub", "aud", "exp", "nbf", "iat", "jti",
      "client_id", "redirect_uri", "redirect_uris", "scope", "client_state",
      "code_challenge", "code_challenge_method", "resource",
      "upstream_auth_code", "upstream_pkce_verifier", "upstream_bearer_token",
      "upstream_id_token", "upstream_refresh_token", "upstream_token_type",
      "token_endpoint_auth_method", "grant_type", "access_token_exp",
      "email", "name", "hd", "email_verified" }

validateJWEClaimsWhitelist(claims) == DOMAIN claims \subseteq jweAllowedClaimKeys

\* An artifact is still readable in the second its exp names.
validateJWEExpiration(claims, now) ==
    "exp" \in DOMAIN claims => now <= claims["exp"]

encodeJWE(info, claims) == [key |-> deriveKey(info), claims |-> claims]

\* Does decodeJWE(secret, info, token) return without an error?
decodeJWE(info, token, now) ==
    /\ token.key = deriveKey(info)
    /\ validateJWEClaimsWhitelist(token.claims)
    /\ validateJWEExpiration(token.claims, now)

\* A claim that is absent reads as the empty string.
stringFromClaims(claims, key) ==
    IF key \in DOMAIN claims THEN claims[key] ELSE Empty

\* Any string that is not a JWE sealed with the SigningSecret.
Unreadable == [key |-> <<"foreign", "">>, claims |-> [exp |-> 0]]
=============================================================================
