SPECIFICATION LiveSpec
CONSTANTS
    Attempts = 2
    MaxResumes = 1
    ResumeCap = 1
    StateCap = 1
    QueueCap = 2
    IceLimit <- MCStaleLimit
    MediaLimit <- MCStaleLimit
    DecodeLimit <- MCStaleLimit
    TickLimit <- MCStaleLimit
    NegotiationLimit <- MCNegotiationLimit
    ResumeWindow <- MCResumeWindow
    None = None
INVARIANTS TypeOK OneOfEach StampsOfThisTransport
PROPERTIES WorkerLeavesVerdict StopReturns DeadLinkEndsStream
