SPECIFICATION Spec
CONSTANTS
    RomBytes = 3
    ByteBits = 2
    Sensor <- MCSensor
    MaxDevices = 5
    Byte <- MCByte
    MaxFaults = 1
INVARIANTS
    TypeOK
PROPERTIES
    ScanKeepsPromise
    AnswersAreOwn
    CodesAreRight
CHECK_DEADLOCK FALSE
