\* One flow against the clock, with every kind of /token form and an IdP that answers badly, late or never.
CONSTANTS
    Empty = Empty
    c1 = c1
    c2 = c2
    r1 = r1
    r2 = r2
    v1 = v1
    v2 = v2
    u1 = u1
    u2 = u2
    here = here
    there = there
    q1 = q1
    q2 = q2
    ClientIDs = {c2}
    RedirectURIs = {r1, r2}
    Verifiers = {v1, v2}
    Subjects = {u1}
    Resources <- AllResources
    ThisResource <- MCThis
    Resolutions <- MCResolutions
    Credentials <- AllCredentials
    Requests = {q1}
    PendingTTL = 2
    CodeTTL = 1
    MaxFlows = 1
    MaxLogins = 1
    MaxMinted = 3
    MaxClock = 4
SPECIFICATION Spec
INVARIANTS TypeOK GrantWithinLifetime ResourceBinding
CHECK_DEADLOCK FALSE
