SPECIFICATION Spec
CONSTANTS
    a = a
    b = b
    Sensor <- MCSensor
    NoId = NoId
    Order <- MCOrder
    Highlights <- MCHighlights
    MaxDevices = 2
    FailReads = 1
    HistorySize = 2
    HistoryPeriod = 1
    EventsSize = 2
    MaxTime = 3
    MaxFaults = 1
INVARIANTS
    TypeOK
    RingsKeepNewest
    SeriesInOrder
    DocumentsSound
    HighlightsRanked
CHECK_DEADLOCK FALSE
