\* ofpacts_verify against the spec's instruction order.
CONSTANTS
    Centec = TRUE
    MaxLen = 4
    Lists <- AllLists
SPECIFICATION Spec
INVARIANT VerifyMatchesSpec
CHECK_DEADLOCK FALSE
