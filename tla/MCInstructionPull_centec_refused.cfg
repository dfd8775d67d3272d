\* Centec build: well-formed lists of clear-actions and write-actions.
CONSTANTS
    Centec = TRUE
    MaxInsts = 3
    Inputs <- InputsClearWrite
SPECIFICATION Spec
INVARIANT AcceptsWellFormed
CHECK_DEADLOCK FALSE
