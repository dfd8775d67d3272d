\* OpenFlow 1.0 and 1.1 action lists, Centec build.
CONSTANTS
    Centec = TRUE
    MaxRecs = 2
    Inputs <- InputsBoth
SPECIFICATION FairSpec
INVARIANTS TypeOK WalkInBounds RoundTrip OutputsMatchWire
PROPERTIES ImplementsContract
CHECK_DEADLOCK FALSE
