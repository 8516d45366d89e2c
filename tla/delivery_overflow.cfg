SPECIFICATION Spec
CONSTANTS
    QueueCap = 2
    DecoderCap = 1
    FirstBackoff = 1
    LastBackoff = 2
    Serial = 2
INVARIANT
    OverflowResyncs
