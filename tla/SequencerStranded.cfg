SPECIFICATION SequencerSpec
CONSTANTS
    a = a
    b = b
    Relay = {a, b}
    Offered <- OneGroup
    Uses <- ImpatientUse
INVARIANTS
    NoWorkStranded
