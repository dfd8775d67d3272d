\* ofpacts_check over lists of up to three ofpacts, build without _OFP_CENTEC_.
CONSTANTS
    Centec = FALSE
    MaxActs = 3
    Lists <- CheckLists
SPECIFICATION Spec
INVARIANT CheckMatchesSpec
CHECK_DEADLOCK FALSE
