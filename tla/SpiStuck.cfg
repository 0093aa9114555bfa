SPECIFICATION Spec
CONSTANTS
    c1 = c1
    c2 = c2
    Client = {c1, c2}
    Capable = {}
    Calls <- TwoClients
    Writable = {c1, c2}
    Mortal = {c2}
    Header = 2
    MaxOpens <- TwoOpens
CHECK_DEADLOCK FALSE
PROPERTIES
    CallsAlwaysReturn
