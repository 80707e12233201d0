\* The race between one validation's invalidation and another one's older answer.
CONSTANTS
    Kids = {k1, k2}
    Calls = {a, b}
    CacheTTL = 1
    FetchTimeout = 1
    MaxRotations = 1
    MaxClock = 1
SPECIFICATION Spec
INVARIANT RetryCoversRotation
CHECK_DEADLOCK FALSE
