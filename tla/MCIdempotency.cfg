SPECIFICATION StoreSpec
CONSTANTS
    k1 = k1
    k2 = k2
    r1 = r1
    r2 = r2
    r3 = r3
    r4 = r4
    Keys = {k1, k2}
    Requests = {r1, r2, r3, r4}
    KeyOf <- MCKeyOf
    MaxEntries = 1
    Ttl = 1
    Period = 2
    MaxTime = 4
    NoAnswer = NoAnswer
INVARIANTS StoreTypeOK RunsOnceOrForCause
CHECK_DEADLOCK FALSE
