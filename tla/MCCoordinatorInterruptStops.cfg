SPECIFICATION Spec
CONSTANTS
    MaxTurns = 2
    MaxDeltas = 2
    MaxPhrases = 1
    ResultCap = 8
    DeltaCap = 1
    Failures = {}
    InterruptStates = {"idle", "listening", "transcribing", "thinking", "synthesizing", "speaking"}
INVARIANTS
    InterruptNeverStopsService
