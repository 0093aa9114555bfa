SPECIFICATION SerializerSpec
CONSTANTS
    a = a
    b = b
    c = c
    Relay = {a, b, c}
    Offered <- SupplyGroups
    Uses <- SerializerUses
INVARIANTS
    TypeOK
    SupplyNotOverloaded
    NoWorkStranded
    IdleMeansSwitched
PROPERTIES
    DelayedForAReason
    IdleArrives
