\* The configuration of the quick start in README.md.
CONSTANTS
    Empty = Empty
    Configs <- QuickStart
    Identities <- MCIdentities
    AuthServer <- MCAuthServer
    DefaultTTL = 3
    ClockSkew = 1
    RefreshThreshold = 3
    Lifetimes = {1, 2, 4}
    IdPDrift = 1
    Handlers = {h1}
    MaxIssued = 1
    MaxClock = 4
SPECIFICATION Spec
INVARIANT AdvertisedLifetimeHonoured
CHECK_DEADLOCK FALSE
