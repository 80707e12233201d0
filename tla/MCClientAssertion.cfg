\* Two verifications at a time, two clients, a cache of two places, a rotation.
CONSTANTS
    Capacity = 2
    URIs = {"u1", "u2"}
    KeySets <- MCKeySets
    Assertions <- MCAssertions
    Calls = {a, b}
    TTLs = {0, 1}
    MaxTTL = 1
    FetchTimeout = 1
    ClockSkew = 1
    MaxLifetime = 1
    TokenEndpoint = "token_endpoint"
    MaxRotations = 1
    MaxClock = 3
SPECIFICATION Spec
INVARIANTS TypeOK AcceptedKeyFresh RetryCoversRotationAlone SettledKeyFound AcceptedWithinLifetime
PROPERTY VerificationsEnd
CHECK_DEADLOCK FALSE
