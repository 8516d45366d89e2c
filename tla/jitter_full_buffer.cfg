SPECIFICATION Spec
CONSTANTS
    Packets <- FragmentStream
    TsMod <- MCTsMod
    SeqMod <- MCSeqMod
    RenackMs = 1
    HoldMs = 2
    MaxFrames = 2
    None = None
INVARIANT FreshPacketEndsHold
