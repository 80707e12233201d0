------------------------------- MODULE Config -------------------------------
(***************************************************************************)
(* Config of config.go: which settings New accepts, and what they mean to  *)
(* the rest of the library.  A Config is a record with the fields of the   *)
(* source.  A URL is its origin, its path, and whether it ends in slashes; *)
(* a path is a sequence of pieces of text, every slash a piece of its own. *)
(* Blanks around a value and the case of Mode, which TrimSpace and ToLower *)
(* remove, are left out.                                                   *)
(***************************************************************************)
EXTENDS Integers, Sequences

URL(scheme, host, path, slash) ==
    [origin |-> [scheme |-> scheme, host |-> host], path |-> path, slash |-> slash]

\* The empty string.
NoURL == URL("", "", <<>>, FALSE)

Normalize(mode) == IF mode = "" THEN "gating" ELSE mode

IsForward(c) == Normalize(c.Mode) = "forward"

IsGating(c) == Normalize(c.Mode) = "gating"

\* Does the library host the endpoints of an authorization server?
brokerActive(c) == IsForward(c) \/ (IsGating(c) /\ c.BrokerUpstream)

\* Fault: either endpoint will do in place of an issuer.
OneEndpointEnough(c) == c.Issuer # NoURL \/ c.AuthURL # "" \/ c.TokenURL # ""

endpointsKnown(c) == c.Issuer # NoURL \/ (c.AuthURL # "" /\ c.TokenURL # "")

Validate(c) ==
    /\ IsForward(c) \/ IsGating(c)
    /\ IF brokerActive(c)
       THEN c.ClientID # "" /\ endpointsKnown(c) /\ c.SigningSecret # ""
       ELSE /\ c.Issuer # NoURL \/ c.JWKSURL # ""
            /\ c.ClientSecret = "" /\ c.TokenURL = "" /\ c.AuthURL = "" /\ c.UserInfoURL = ""
            /\ c.PublicAuthServerURL = NoURL

accessTokenTTL(c, default) == IF c.AccessTokenTTL > 0 THEN c.AccessTokenTTL ELSE default
=============================================================================
