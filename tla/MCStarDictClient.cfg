SPECIFICATION Spec
CONSTANTS
    Hosts = {"h1", "h2"}
    Users = {"u"}
    Masks = {"m1", "m2"}
    Sends <- MCSends
    LookupShapes <- MCShapes
    MaxWords = 1
    StrPool = 1
    LookupPool = 2
    MaxSends = 3
    MaxSwitches = 1
    MaxQueue = 5
INVARIANTS
    InStep
    AnswersExact
    CacheFresh
PROPERTIES
    ComesToRest
CHECK_DEADLOCK FALSE
