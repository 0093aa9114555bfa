SPECIFICATION Spec
CONSTANTS
    bi = bi
    mono = mono
    other = other
    Relay = {bi, mono, other}
    Bistable = {bi, other}
    NegOn = {bi, mono}
    NegOff = {other}
    OnTime <- TrioOnTime
    MaxTime = 3
    Blocking = {TRUE, FALSE}
    Clients = {"any", "settled"}
    Uses <- AnyAndSettled
INVARIANTS
    TypeOK
    NothingStranded
    PulseTiming
    CurrentCoilReleased
    SettledCoils
    RelaysAsAsked
PROPERTIES
    IdleMeansDone
    PulseUninterrupted
    IdleComes
    ImplementsContract
