SPECIFICATION SequencerSpec
CONSTANTS
    a = a
    b = b
    Relay = {a, b}
    Offered <- OneGroup
    Uses <- OrdinaryUses
INVARIANTS
    TypeOK
    OneIdlePerRequest
PROPERTIES
    NoForbiddenCombination
    TargetReached
    IdleArrives
