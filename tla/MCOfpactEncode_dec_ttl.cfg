\* 1.0 dialect: a dec_ttl built with the single controller id 0.
CONSTANTS
    Version = "OF10"
    Centec = FALSE
    MaxActs = 2
    Lists <- ListsDecTtl
SPECIFICATION Spec
INVARIANT DecTtlShape
CHECK_DEADLOCK FALSE
