CONSTANTS
    MainTower = 2
    Buttons = {}
    LongMessages = FALSE
    MaxMeasurements = 2
    MaxTexts = 0
    MaxPresses = 0
    MaxCrcErrors = 0

SPECIFICATION Spec

INVARIANT SuccessMeansConsumed

\* All towers may end up listening with no measurement or text left to send.
CHECK_DEADLOCK FALSE
