SPECIFICATION FairSpec
CONSTANTS
    Callers = {"worker"}
    MaxPrompts = 2
    MaxUpdates = 2
    PipeCap = 1
    AgentFaults = {"crash", "error", "garbage"}
PROPERTIES
    PromptReturns
