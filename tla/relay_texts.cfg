CONSTANTS
    Phones = {1, 2}
    BufferSize = 6
    BufSize = 5
    TelephoneBytes = 2
    NumberDigits = 1
    Mtu = 2
    TextLengths = {0, 1, 2, 3, 4, 5, 6}
    NumberLengths = {1, 3}
    MaxTexts = 3
    LoraBytes = 2
    MessageSize = 5
    DigitPlaces = {2}
    ReplyLengths = {0, 3, 4, 5}
    MaxReplies = 2
    MaxMalformed = 1
    MaxLost = 1
    MaxRepeats = 1

SPECIFICATION MCSpec

INVARIANT TypeOK
INVARIANT LastTextRead
INVARIANT MessageFits
INVARIANT NothingLeftBehind
PROPERTY UpPromise
PROPERTY DownPromise

\* With nothing left to write and no message to come, all threads wait.
CHECK_DEADLOCK FALSE
