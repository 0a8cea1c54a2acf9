SPECIFICATION Spec
CONSTANTS
    Sensor = {s1, s2}
    NoId = NoId
    MaxDevices = 2
    FailReads = 1
    MaxFaults = 3
SYMMETRY Symmetry
INVARIANTS
    ReadingsStayAttached
