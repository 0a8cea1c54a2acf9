SPECIFICATION FairSpec
CONSTANTS
    r1 = r1
    r2 = r2
    bad = bad
    k1 = k1
    k2 = k2
    k3 = k3
    Reading <- MCReading
    Plausible <- MCPlausible
    Insertable <- MCPlausible
    Key <- MCKey
    KeyOf <- OwnKeyOf
    NoReading = NoReading
    MaxInflight = 1
    MaxQueued = 1
    MaxFaults = 2
    MaxLosses = 0
PROPERTIES
    EverySettled
