\* OpenFlow 1.1 instruction lists, build with _OFP_CENTEC_, push_vlan in apply lists.
CONSTANTS
    Centec = TRUE
    MaxInsts = 3
    Inputs <- InputsCentec
SPECIFICATION Spec
INVARIANTS TypeOK WalkInBounds OfpactRoundTrip WireRoundTrip AcceptsWellFormed
CHECK_DEADLOCK FALSE
