CONSTANTS
    MainTower = 2
    Buttons = {2}
    LongMessages = TRUE
    MaxMeasurements = 2
    MaxTexts = 1
    MaxPresses = 1
    MaxCrcErrors = 1

SPECIFICATION Spec

CONSTRAINT Unmixed

INVARIANT ConsumedOnce
INVARIANT PathUnbroken
INVARIANT NoSuccessBeforeDelivery
INVARIANT TextSuccessMeansConsumed
PROPERTY KeepsMeasurement

\* All towers may end up listening with no measurement or text left to send.
CHECK_DEADLOCK FALSE
