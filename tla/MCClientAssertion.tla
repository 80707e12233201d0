------------------------- MODULE MCClientAssertion -------------------------
(***************************************************************************)
(* A small instance of ClientAssertion for TLC.                            *)
(***************************************************************************)
EXTENDS ClientAssertion

LOCAL jwk(key, kid, use) == [key |-> key, kid |-> kid, alg |-> "ES256", use |-> use]

\* One client rotates, with an encryption key that comes first; one does not.
MCKeySets ==
    LET before == <<jwk("old", "1", "sig")>>
        after == <<jwk("enc", "2", "enc"), jwk("new", "2", "")>>
    IN  [u \in URIs |-> IF u = "u1" THEN {before, after} ELSE {after}]

LOCAL signed(client, uri, key, kid) ==
    [client |-> client, uri |-> uri, key |-> key, kid |-> kid, alg |-> "ES256",
     iss |-> client, sub |-> client, aud |-> {TokenEndpoint},
     iat |-> NoTime, nbf |-> NoTime, exp |-> NoTime]

\* With times and no kid; with the new kid and no times; and, of another
\* client, one for each check that does not depend on time.
MCAssertions ==
    LET other == signed("c2", "u2", "new", "2")
    IN  {[signed("c1", "u1", "old", "") EXCEPT !.iat = 0, !.nbf = 0, !.exp = 1],
         signed("c1", "u1", "new", "2"),
         [other EXCEPT !.iat = 0, !.exp = 2],
         [other EXCEPT !.sub = "c1"],
         [other EXCEPT !.aud = {}]}
=============================================================================
