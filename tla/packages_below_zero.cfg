CONSTANTS
    MainTower = 2
    Battery <- MCBattery
    Sensed <- BelowZero
    TextKinds = {3}
    TextPayloads <- MCTexts
    MaxMeasurements = 2
    MaxTexts = 0

SPECIFICATION Spec

INVARIANT PublishedAsMeasured

\* The bounds stop the towers.
CHECK_DEADLOCK FALSE
