\* 1.0 dialect: put then pull of ofpact lists.
CONSTANTS
    Version = "OF10"
    Centec = FALSE
    MaxActs = 3
    Lists <- ListsPlain
SPECIFICATION Spec
INVARIANTS TypeOK EncodeDecode DumpReadable
CHECK_DEADLOCK FALSE
