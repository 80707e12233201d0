------------------------------- MODULE Claims -------------------------------
(***************************************************************************)
(* claims.go and the identity policy of validator.go: what the library     *)
(* reads out of a token's JSON, and whom a Config lets in.  A string is a  *)
(* sequence of the parts that the code takes apart: "a@b" is               *)
(* <<"a", "@", "b">>, "u/" is <<"u", "/">>, "r w" is <<"r", "w">>, "" is   *)
(* <<>>; case and blanks around it, which the code folds, are left out.    *)
(***************************************************************************)
EXTENDS Integers, Sequences

Ext == INSTANCE SequencesExt
Sets == INSTANCE FiniteSetsExt

\* The values of a JSON object.
text(s)   == [type |-> "string", value |-> s]
number(n) == [type |-> "number", value |-> n]
bool(b)   == [type |-> "bool", value |-> b]
array(s)  == [type |-> "array", value |-> s]

has(raw, key, type) == key \in DOMAIN raw /\ raw[key].type = type

\* A member of another type reads as if it were absent.
string(raw, key) == IF has(raw, key, "string") THEN raw[key].value ELSE <<>>
int64(raw, key)  == IF has(raw, key, "number") THEN raw[key].value ELSE 0

\* The strings of an array.
strings(values) == {v.value : v \in {x \in Ext!ToSet(values) : x.type = "string"}}

\* aud: one string or an array.
audience(raw) ==
    IF has(raw, "aud", "string") THEN {raw["aud"].value}
    ELSE IF has(raw, "aud", "array") THEN strings(raw["aud"].value) ELSE {}

\* strings.Fields
fields(s) == {<<s[i]>> : i \in DOMAIN s}

\* email_verified may be the string "true" in a token, not in a userinfo answer.
isTrue(raw) == has(raw, "email_verified", "bool") /\ raw["email_verified"].value

claimsFromRaw(raw) ==
    [Issuer |-> string(raw, "iss"), Audience |-> audience(raw),
     ExpiresAt |-> int64(raw, "exp"), IssuedAt |-> int64(raw, "iat"),
     NotBefore |-> int64(raw, "nbf"), Email |-> string(raw, "email"),
     HostedDomain |-> string(raw, "hd"),
     EmailVerified |-> isTrue(raw) \/ string(raw, "email_verified") = <<"true">>,
     Scopes |-> IF has(raw, "scope", "array") THEN strings(raw["scope"].value)
                ELSE fields(string(raw, "scope"))]

claimsFromUserInfo(raw) ==
    [Issuer |-> string(raw, "iss"), Email |-> string(raw, "email"),
     HostedDomain |-> string(raw, "hd"), EmailVerified |-> isTrue(raw),
     Scopes |-> fields(string(raw, "scope"))]
-----------------------------------------------------------------------------
\* What follows the only "@".
emailDomain(email) ==
    LET at == {i \in DOMAIN email : email[i] = "@"}
    IN  IF \E i \in at : at = {i} THEN SubSeq(email, Sets!Min(at) + 1, Len(email)) ELSE <<>>

\* strings.TrimRight(s, "/")
trimRight(s) == SubSeq(s, 1, Sets!Max({0} \union {i \in DOMAIN s : s[i] # "/"}))

audienceMatchesResource(audiences, expected) ==
    \E a \in audiences : trimRight(a) = trimRight(expected)

issuerAllowed(got, allowlist, singleIssuer) ==
    IF allowlist # {} THEN \E a \in allowlist : trimRight(a) = trimRight(got)
    ELSE trimRight(singleIssuer) # <<>> => trimRight(got) = trimRight(singleIssuer)

hasRequiredScopes(tokenScopes, required) == required \subseteq tokenScopes

\* A domain that is empty is in no list.
domainAllowed(allowed, domain) == allowed # {} => domain # <<>> /\ domain \in allowed

applyIdentityPolicy(cfg, claims) ==
    IF ~cfg.AllowUnverifiedEmail /\ claims.Email # <<>> /\ ~claims.EmailVerified
    THEN "email_not_verified"
    ELSE IF /\ domainAllowed(cfg.AllowedEmailDomains, emailDomain(claims.Email))
            /\ domainAllowed(cfg.AllowedHostedDomains, claims.HostedDomain)
    THEN "accepted"
    ELSE "unauthorized_domain"
=============================================================================
