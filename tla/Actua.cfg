SPECIFICATION Spec
CONSTANTS
    valve = valve
    sensor = sensor
    Action = {valve, sensor}
    Driven = {valve}
    Sensed = {sensor}
    Requests <- TwoRequests
    Demos = {"sensor", "standard", "error"}
    MaxTimeout = 2
    MaxGap = 1
    Clients = {"any", "patient"}
INVARIANTS
    TypeOK
    FinishedMeansAllDone
    FailureTold
    OutputsFollow
PROPERTIES
    MultiActionEnds
CHECK_DEADLOCK FALSE
