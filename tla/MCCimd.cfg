\* Two requests at a time on a cache of two entries, three client_ids.
CONSTANTS
    ClientIDs <- MCClientIDs
    Documents <- MCDocuments
    Unparsable = Unparsable
    MaxRedirectURIs = 2
    Requests = {q1, q2}
    TTLs = {0, 1}
    MaxTTL = 1
    NegativeTTL = 1
    FetchTimeout = 1
    NoClient = NoClient
    Unreachable = Unreachable
    Capacity = 2
    MaxPublications = 1
    MaxClock = 3
SPECIFICATION Spec
SYMMETRY MCSymmetry
INVARIANTS TypeOK CacheConsistent BoundedStaleness SpeaksForItself
PROPERTIES PositiveSurvivesNegative OnlyOldestEvicted
CHECK_DEADLOCK FALSE
