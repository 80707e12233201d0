\* Gating mode with an IdP that returns no id_token.
CONSTANTS
    Empty = Empty
    Configs <- GatingMode
    Identities <- MCIdentities
    AuthServer <- MCAuthServer
    DefaultTTL = 3
    ClockSkew = 1
    RefreshThreshold = 3
    Lifetimes = {1, 2, 4}
    IdPDrift = 1
    Handlers = {h1}
    MaxIssued = 1
    MaxClock = 4
SPECIFICATION Spec
INVARIANT BackendNeverSeesUpstreamToken
CHECK_DEADLOCK FALSE
