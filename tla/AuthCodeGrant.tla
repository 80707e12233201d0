--------------------------- MODULE AuthCodeGrant ---------------------------
(***************************************************************************)
(* What the broker promises of the authorization-code grant, whatever its  *)
(* endpoints are sent and in whatever order: a client starts a flow, a     *)
(* user logs in for it, the login is used up once, and from then on turns  *)
(* into at most one token, the user's, for the client that started the     *)
(* flow.  There are no artifacts, redirects, lifetimes or messages here.   *)
(***************************************************************************)
VARIABLES
    flows,      \* [id, owner]: the flows, and who started them
    logins,     \* [id, flow, subject]: logins, the flow they were asked for
    redeemed,   \* the logins that are used up
    granted     \* [login, owner, subject]: the tokens, and who got them

vars == <<flows, logins, redeemed, granted>>

Init ==
    /\ flows = {}
    /\ logins = {}
    /\ redeemed = {}
    /\ granted = {}

\* A client starts a flow of its own.
Start(flow) ==
    /\ \A f \in flows : f.id # flow.id
    /\ flows' = flows \union {flow}
    /\ UNCHANGED <<logins, redeemed, granted>>

\* A user logs in, for one of the flows or for some other application.
Login(login) ==
    /\ \A l \in logins : l.id # login.id
    /\ logins' = logins \union {login}
    /\ UNCHANGED <<flows, redeemed, granted>>

\* A login is used up, if it was for one of the flows.
Redeem(login) ==
    /\ login \in logins \ redeemed
    /\ \E flow \in flows : flow.id = login.flow
    /\ redeemed' = redeemed \union {login}
    /\ UNCHANGED <<flows, logins, granted>>

\* The client that started the flow gets a token for the user who logged in.
Grant(login, flow) ==
    /\ login \in redeemed
    /\ \A g \in granted : g.login # login
    /\ flow \in flows /\ flow.id = login.flow
    /\ granted' = granted \union
          {[login |-> login, owner |-> flow.owner, subject |-> login.subject]}
    /\ UNCHANGED <<flows, logins, redeemed>>

\* Flows and logins may be anything; the ones that appear are in flows' and
\* logins'.
Next ==
    \/ \E flow \in flows' : Start(flow)
    \/ \E login \in logins' : Login(login)
    \/ \E login \in logins : Redeem(login)
    \/ \E login \in redeemed, flow \in flows : Grant(login, flow)

Spec == Init /\ [][Next]_vars
=============================================================================
