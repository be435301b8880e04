CONSTANTS
    MainTower = 1
    Buttons = {}
    LongMessages = TRUE
    MaxMeasurements = 1
    MaxTexts = 1
    MaxPresses = 0
    MaxCrcErrors = 0

SPECIFICATION TimedSpec

PROPERTY EveryExchangeEnds

\* All towers may end up listening with no measurement or text left to send.
CHECK_DEADLOCK FALSE
