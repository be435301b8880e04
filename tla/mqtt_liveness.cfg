CONSTANTS
    QueueLength = 4
    EventQueueSize = 2
    FilterOverwritten = FALSE
    MaxPublishes = 1
    MaxMessages = 0
    MaxDrops = 1
    MaxSelectErrors = 1
    MaxRefusals = 1

SPECIFICATION FairSpec

INVARIANT FlagsAgree
INVARIANT SubscriptionKept
PROPERTY PublishCompletes

\* With no publication, message or lost connection left, all tasks wait.
CHECK_DEADLOCK FALSE
