SPECIFICATION ClientSpec
CONSTANTS
    None = None
    Absent = Absent
    Miss = Miss
    Unlisted = Unlisted
    Torn = Torn
    Interval = 1
    Expires = 2
    Serial = 6
    Reorder = 1
    Starts = {0, 4}
    MaxEpoch = 1
    InboxCap = 2
    MaxWait = 1
    MaxLate = 2
    FillCap = 1
    Packet = 1
    MaxLatency = 2
    TrimTo = 1
    CardSize = 3
    RingBound = 2
    Titles = {"a", "b"}
    BatchMax = 1
    Budget = 1
    RefreshAge = 1
    MissRetry = 2
    Keys = {"a", "b", "c"}
    MaxQueue = 1
    Cap = 1
    Kept = 1
    MaxIdle = 1
    Native = "native"
    MaxConsoles = 1
    RecentMax = 1
    SectionH = 1
    RowH = 2
    StripH = 1
    ListH = 6
    SearchH = 4
    Cached = {"b", "c"}
    Natives = {"a"}
    KeptRows = {"latch"}
    MaxChoices = 3
    Codes = {"BTN_EAST", "BTN_NORTH", "BTN_SELECT", "BTN_DPAD_UP"}
    QueueCap = 2
    MaxHeld = 1
    MaxAstray = 1
    Gap = 2
    RepeatDelay = 12
    RepeatEvery = 2
    RepeatFast = 1
    RepeatAccel = 33
    Lateness = 3
INVARIANTS
    PartsTypeOK
    SoundKept
    NewStreamHeard
    LookupsAccounted
    ArtAccounted
    KeptSignedIn
    AuthNotShared
    CursorSound
    FileIsWhole
    MenuShowsForceOrRewritten
PROPERTIES
    CursorSteps
    PressesSound
    DiscardedStaysDiscarded
