--------------------------- MODULE MCCimdResolver ---------------------------
(***************************************************************************)
(* A small instance of CimdResolver for TLC.                               *)
(***************************************************************************)
EXTENDS CimdResolver, TLC

LOCAL uri(scheme, port, path) ==
    [scheme |-> scheme, user |-> FALSE, ascii |-> TRUE, host |-> "client", port |-> port,
     path |-> path, query |-> "", fragment |-> ""]

LOCAL me == uri("https", "443", <<"client", "">>)

\* A good one with a slash at its end, a path with a dot-segment, no URL.
MCClientIDs == {me, uri("https", "", <<"a", "..", "client">>), Unparsable}

LOCAL public ==
    [client_id |-> me, client_name |-> "named", client_secret |-> FALSE,
     token_endpoint_auth_method |-> "none", jwks_uri |-> Unparsable,
     redirect_uris |-> <<uri("https", "8443", <<>>)>>,
     grant_types |-> <<"refresh_token", "authorization_code">>, response_types |-> <<>>]

\* A public client; one that signs assertions; one of another client_id, and
\* one without a usable key URL.
MCDocuments ==
    {public,
     [public EXCEPT !.token_endpoint_auth_method = "private_key_jwt",
                    !.jwks_uri = uri("https", "", <<>>)],
     [public EXCEPT !.client_id = uri("https", "", <<"other">>),
                    !.redirect_uris = <<uri("https", "", <<"cb">>), uri("https", "", <<>>)>>],
     [public EXCEPT !.token_endpoint_auth_method = "private_key_jwt",
                    !.jwks_uri = uri("http", "", <<"keys">>)]}

MCSymmetry == Permutations(Requests)
=============================================================================
