SPECIFICATION Spec
CONSTANTS
    MaxTurns = 2
    MaxDeltas = 2
    MaxPhrases = 1
    ResultCap = 8
    DeltaCap = 2
    Failures = {"err", "deadline"}
    InterruptStates = {"idle", "listening", "transcribing", "thinking", "synthesizing", "speaking"}
INVARIANTS
    TypeOK
    CallsCorrelated
    ReplyDeltasIntact
    ListeningNotDeaf
    ServiceEndsForAReason
    MicGatedWhileAudible
    AbortStopsAudio
PROPERTIES
    StatesAdvance
