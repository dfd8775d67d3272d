\* Centec build: write-actions ending in an NX write_metadata, put back as instructions.
CONSTANTS
    Centec = TRUE
    MaxInsts = 3
    Inputs <- InputsWrite
SPECIFICATION Spec
INVARIANT WireRoundTrip
CHECK_DEADLOCK FALSE
