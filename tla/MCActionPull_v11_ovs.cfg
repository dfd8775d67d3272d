\* OpenFlow 1.1 action lists, build without _OFP_CENTEC_: whole lists
\* holding both OFPAT11_PUSH_VLAN and NX write_metadata.
CONSTANTS
    Centec = FALSE
    MaxRecs = 2
    Inputs <- InputsPushVlanMetadata
SPECIFICATION Spec
INVARIANT RoundTrip
CHECK_DEADLOCK FALSE
