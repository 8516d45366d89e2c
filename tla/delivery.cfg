SPECIFICATION LiveSpec
CONSTANTS
    QueueCap = 2
    DecoderCap = 1
    FirstBackoff = 1
    LastBackoff = 2
    Serial = 2
INVARIANTS
    TypeOK
    NoSleepOnUnit
    ChainKept
PROPERTIES
    KeyframeWanted
    DecoderStops
