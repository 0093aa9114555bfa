SPECIFICATION Spec
CONSTANTS
    b1 = b1
    b2 = b2
    Bit = {b1, b2}
    Readers = {"blocking", "direct", "queued"}
    MaxReads = 3
INVARIANTS
    TypeOK
    UpdateShowsLevels
PROPERTIES
    UpdatesFollowTimer
