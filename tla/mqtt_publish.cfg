CONSTANTS
    QueueLength = 2
    EventQueueSize = 2
    FilterOverwritten = TRUE
    MaxPublishes = 2
    MaxMessages = 1
    MaxDrops = 2
    MaxSelectErrors = 0
    MaxRefusals = 0

SPECIFICATION Spec

INVARIANT TypeOK
INVARIANT FinishedMeansReceived
INVARIANT ContextOutlivesCommand
INVARIANT AtMostOncePerConnection

\* With no publication, message or lost connection left, all tasks wait.
CHECK_DEADLOCK FALSE
