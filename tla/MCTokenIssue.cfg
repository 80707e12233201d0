\* One bearer of either mode from its token request to its expiry; handlers and bearers share nothing.
CONSTANTS
    Empty = Empty
    Configs <- BothModes
    Identities <- MCIdentities
    AuthServer <- MCAuthServer
    DefaultTTL = 2
    ClockSkew = 1
    RefreshThreshold = 3
    Lifetimes = {1, 2}
    IdPDrift = 1
    Handlers = {h1}
    MaxIssued = 1
    MaxClock = 6
SPECIFICATION Spec
INVARIANTS TypeOK ServedWithinLifetime AdvertisedLifetimeHonoured IssuedIdentityAllowed
PROPERTY TokenRequestsAnswered
CHECK_DEADLOCK FALSE
