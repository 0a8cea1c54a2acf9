SPECIFICATION Spec
CONSTANTS
    Sensor = {s1, s2, s3}
    NoId = NoId
    MaxDevices = 2
    FailReads = 2
    MaxFaults = 4
SYMMETRY Symmetry
INVARIANTS
    TypeOK
    OneSlotPerSensor
    HandleUsable
    ConversionNotDisturbed
    EventsTellLost
PROPERTIES
    SlotsStable
    RecoveryPosted
