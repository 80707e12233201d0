\* Two lookups at a time while the IdP moves or fails.
CONSTANTS
    Configs <- MCConfigs
    Documents <- MCDocuments
    FirstServed <- MCFirstServed
    Origins <- MCOrigins
    Down = Down
    Calls = {a, b}
    CacheTTL = 1
    FetchTimeout = 1
    MaxChanges = 1
    MaxClock = 2
SPECIFICATION Spec
INVARIANTS TypeOK DiscoveryFresh KeysOfTheDocument ValidConfigSuffices
INVARIANTS AdvertisedIsMounted RequestsAgree ResourceRoundTrip
PROPERTY LookupsEnd
CHECK_DEADLOCK FALSE
