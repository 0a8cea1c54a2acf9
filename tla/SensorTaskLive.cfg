SPECIFICATION FairSpec
CONSTANTS
    Sensor = {s1, s2, s3}
    NoId = NoId
    MaxDevices = 2
    FailReads = 1
    MaxFaults = 2
PROPERTIES
    RescanRecovers
    MatchRecovers
