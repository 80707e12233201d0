\* Every header of up to four directives, with the boundaries of max-age.
CONSTANTS
    DefaultTTL = 2
    MaxTTL = 3
    Ages <- MCAges
    MaxDirectives = 4
SPECIFICATION Spec
INVARIANTS TypeOK FirstDecisiveRules
CHECK_DEADLOCK FALSE
