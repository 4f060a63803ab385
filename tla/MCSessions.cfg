\* Logins in the first second; whoever does not log in then leaves the system idle.
SPECIFICATION Spec
CONSTANTS
    r1 = r1  r2 = r2
    Users <- MCUsers
    Refreshes = {r1, r2}
    Calls <- MCCalls
    AccessTTL = 1
    RefreshTTL = 3
    CacheTTL = 1
    CacheSize = 1
    RpcTimeout = 0
    LastLogin = 0
    MaxTime = 3
SYMMETRY Symmetry
CHECK_DEADLOCK FALSE
INVARIANTS
    MaskedBriefly
    RotationKeepsCount
    NotLockedOut
