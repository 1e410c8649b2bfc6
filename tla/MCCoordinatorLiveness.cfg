SPECIFICATION LocallyFairSpec
CONSTANTS
    MaxTurns = 2
    MaxDeltas = 1
    MaxPhrases = 1
    ResultCap = 8
    DeltaCap = 1
    Failures = {"err"}
    InterruptStates = {"thinking", "speaking"}
PROPERTIES
    InterruptEndsTurn
    ServiceStops
