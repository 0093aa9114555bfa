SPECIFICATION Spec
CONSTANTS
    x = x
    end = end
    Byte = {x, end}
    Criteria <- SomeCriteria
    Faults = {"clear", "write", "port"}
    MaxData = 4
INVARIANTS
    FinishedOnce
