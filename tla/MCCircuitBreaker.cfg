CONSTANTS
    c1 = c1  c2 = c2  c3 = c3
    Calls = {c1, c2, c3}
    Services = {"AuthService", "UserService"}
    FailureThreshold = 2
    WindowSize = 3
    SuccessThreshold = 2
    Timeout = 1
    Delay = 2
    MaxExecutions = 2
    Interval = 2
    None = None
SPECIFICATION Spec
INVARIANTS
    TypeOK
    ProbesAccounted
PROPERTIES
    ClosesOnEvidence
    Recovers
    Trips
