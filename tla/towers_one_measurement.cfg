CONSTANTS
    MainTower = 2
    Buttons = {}
    LongMessages = FALSE
    MaxMeasurements = 1
    MaxTexts = 0
    MaxPresses = 0
    MaxCrcErrors = 0

SPECIFICATION RadioSpec

INVARIANT TypeOK
INVARIANT CustodyPassedOn
INVARIANT ReturnMeansConsumed
PROPERTY DeliveryPromise
PROPERTY MeasurementArrives

\* All towers may end up listening with no measurement or text left to send.
CHECK_DEADLOCK FALSE
