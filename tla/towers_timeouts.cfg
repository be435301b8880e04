CONSTANTS
    MainTower = 1
    Buttons = {0, 1}
    LongMessages = FALSE
    MaxMeasurements = 1
    MaxTexts = 1
    MaxPresses = 1
    MaxCrcErrors = 1

SPECIFICATION TimedSpec

PROPERTY EveryExchangeEnds
PROPERTY OnlyTextsRepeat

\* All towers may end up listening with no measurement or text left to send.
CHECK_DEADLOCK FALSE
