\* 1.1 dialect: a padded note and an enqueue put as 1.1 actions.
CONSTANTS
    Version = "OF11"
    Centec = FALSE
    MaxActs = 2
    Lists <- ListsNotesEnqueue
SPECIFICATION Spec
INVARIANT EncodeDecode
CHECK_DEADLOCK FALSE
