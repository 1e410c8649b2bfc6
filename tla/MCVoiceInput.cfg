SPECIFICATION Spec
CONSTANTS
    QueueDepth = 1
    CandidateDepth = 1
    MaxUtterances = 2
    MaxStarts = 2
    MaxTurns = 2
INVARIANTS
    VoiceInputTypeOK
    NoMixedAudio
    UtterancesAccounted
    NoDeafWait
    CloseIsFinal
