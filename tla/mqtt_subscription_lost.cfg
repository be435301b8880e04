CONSTANTS
    QueueLength = 4
    EventQueueSize = 2
    FilterOverwritten = FALSE
    MaxPublishes = 1
    MaxMessages = 0
    MaxDrops = 2
    MaxSelectErrors = 0
    MaxRefusals = 0

SPECIFICATION Spec

INVARIANT SubscriptionKept

\* With no publication, message or lost connection left, all tasks wait.
CHECK_DEADLOCK FALSE
