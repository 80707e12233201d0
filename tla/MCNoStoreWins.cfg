\* Headers with no-store or no-cache among other directives.
CONSTANTS
    DefaultTTL = 2
    MaxTTL = 3
    Ages <- MCAges
    MaxDirectives = 2
SPECIFICATION Spec
INVARIANT NoStoreWins
CHECK_DEADLOCK FALSE
