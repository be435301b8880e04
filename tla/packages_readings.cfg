CONSTANTS
    MainTower = 2
    Battery <- MCBattery
    Sensed <- AboveZero
    TextKinds = {3}
    TextPayloads <- MCTexts
    MaxMeasurements = 2
    MaxTexts = 1

SPECIFICATION Spec

INVARIANT PublishedAsMeasured
INVARIANT TextsIntact
INVARIANT IntactIsAccepted

\* The bounds stop the towers.
CHECK_DEADLOCK FALSE
