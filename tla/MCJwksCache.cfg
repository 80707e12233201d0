\* Two validations at a time while the IdP rotates.
CONSTANTS
    Kids = {k1, k2}
    Calls = {a, b}
    CacheTTL = 1
    FetchTimeout = 1
    MaxRotations = 1
    MaxClock = 1
SPECIFICATION Spec
INVARIANTS IInv AcceptedKeyFresh RetryCoversRotationAlone
PROPERTY ValidationsEnd
CHECK_DEADLOCK FALSE
