SPECIFICATION FairSpec
CONSTANTS
    Turns = {1, 2}
    Formats = {"tts", "other"}
    Slots = {"a", "b"}
INVARIANTS
    PlaybackTypeOK
    NoOrphanProcess
    ClosedForGood
PROPERTIES
    CancelledCallReturns
    ImplementsPlayer
