\* OpenFlow 1.1 instruction lists, build without _OFP_CENTEC_.
CONSTANTS
    Centec = FALSE
    MaxInsts = 3
    Inputs <- InputsPlain
SPECIFICATION Spec
INVARIANTS TypeOK WalkInBounds OfpactRoundTrip WireRoundTrip AcceptsWellFormed
CHECK_DEADLOCK FALSE
