SPECIFICATION Spec
CONSTANTS
    bi = bi
    mono = mono
    other = other
    Relay = {bi, mono, other}
    Bistable = {bi, other}
    NegOn = {bi, mono}
    NegOff = {other}
    OnTime <- TrioOnTime
    MaxTime = 3
    Blocking = {TRUE, FALSE}
    Clients = {"any"}
    Uses <- AnyAndSettled
INVARIANTS
    AllCoilsReleased
