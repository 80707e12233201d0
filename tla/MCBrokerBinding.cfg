\* Two clients, two users: flows, logins, callbacks and redemptions interleave.
CONSTANTS
    Empty = Empty
    c1 = c1
    c2 = c2
    r1 = r1
    r2 = r2
    v1 = v1
    v2 = v2
    u1 = u1
    u2 = u2
    here = here
    there = there
    q1 = q1
    q2 = q2
    ClientIDs = {c1, c2}
    RedirectURIs = {r1}
    Verifiers = {v1, v2}
    Subjects = {u1, u2}
    Resources <- NoResource
    ThisResource <- MCThis
    Resolutions <- MCResolutions
    Credentials <- PublicClient
    Requests = {q1, q2}
    PendingTTL = 2
    CodeTTL = 1
    MaxFlows = 2
    MaxLogins = 2
    MaxMinted = 4
    MaxClock = 0
SPECIFICATION Spec
SYMMETRY UserSymmetry
INVARIANTS IInv SpentByOwner GrantBinding OneGrantPerLogin
PROPERTY ImplementsGrant
CHECK_DEADLOCK FALSE
