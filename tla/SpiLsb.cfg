SPECIFICATION MCSpec
CONSTANTS
    LsbCapable = FALSE
CHECK_DEADLOCK FALSE
INVARIANTS
    ReadWriteInOrder
