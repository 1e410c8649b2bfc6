SPECIFICATION Spec
CONSTANTS
    MaxHistory = 14
    MaxSummary = 3
    UserTexts <- UserTextsMC
    ReplyTexts <- ReplyTextsMC
    ToolTexts <- ToolTextsMC
    CallBatches <- CallBatchesMC
    MaxToolRounds = 1
    ToolConfigs = {"none", "web"}
    MaxTurns = 3
    ServerModes = {"managed", "external"}
PROPERTIES
    RefitsAfterSummary
CHECK_DEADLOCK FALSE
