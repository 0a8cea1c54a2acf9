SPECIFICATION Spec
CONSTANTS
    r1 = r1
    r2 = r2
    bad = bad
    k1 = k1
    k2 = k2
    k3 = k3
    Reading <- MCReading
    Plausible <- MCPlausible
    Insertable <- MCPlausible
    Key <- MCKey
    KeyOf <- SameKeyOf
    NoReading = NoReading
    MaxInflight = 2
    MaxQueued = 0
    MaxFaults = 2
    MaxLosses = 1
INVARIANTS
    TypeOK
    AckedIsSettled
    NothingLost
    SavedIsSafe
PROPERTIES
    StoreSpec
