SPECIFICATION Spec
CONSTANTS
    Sensors = 2
    Eeprom = {10, 12}
    NoisyBits = {0, 5, 6, 7}
    MaxFaults = 1
PROPERTIES
    WaitsForDevice
CHECK_DEADLOCK FALSE
