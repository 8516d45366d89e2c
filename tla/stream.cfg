SPECIFICATION StreamSpec
CONSTANTS
    None = None
    Frames = {"up", "pressed"}
    Serial = 3
    Room = 1
    Backoff = 2
    Heartbeat = 1
    Second = 2
    DeadSeconds = 2
    Reserve = 1
    Surplus = 3
    PeriodTicks = 2
    MaxBurst = 3
    PanelW = 640
    PanelH = 480
    Widths = {1, 640, 853, 960, 1278, 1280, 1920}
    Heights = {1, 360, 480, 719, 720, 1080}
    UiSize = "ui"
    VideoSizes = {"720p", "360p"}
    MaxEvents = 2
INVARIANTS
    PartsTypeOK
    NoGapButHandshake
    CatchUp
    PictureFits
    NoTear
PROPERTIES
    PadArrives
    DeadChannelNoticed
    PlaneSteps
