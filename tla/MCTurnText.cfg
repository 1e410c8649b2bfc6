SPECIFICATION Spec
CONSTANTS
    Words = {"xarlatan", "Xarlatan", "Para", "oye"}
    Punctuation = {","}
    normalizeWord <- normalizeWordMC
    Phrases <- PhrasesMC
    Stops = {"para"}
    Runes = {"a", "b", " ", "."}
    maxRunes = 3
    MaxWords = 6
    MaxReply = 6
    MaxDelta = 3
INVARIANTS
    ReplySpokenWhole
    WakeGateExact
CHECK_DEADLOCK FALSE
