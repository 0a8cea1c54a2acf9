\* In half seconds: config.h, sdkconfig.defaults and what the driver takes for seven sensors. The
\* bus timeout is as short as a read_sensor(), so that it is met.
SPECIFICATION Spec
CONSTANTS
    Second = 2
    WdtTimeout = 20
    FeedSlice = 4
    BusTimeout = 2
    Period = 10
    ScanRetry = 60
    Settle = 4
    AliveSeconds = 30
    ScanMax = 2
    ReadMax = 4
    HoldMax = 2
    HalfRange = 61
    MaxTime = 140
INVARIANTS
    TypeOK
    WatchdogFed
    AliveWhileCycling
    OnTime
PROPERTIES
    KeysApart
