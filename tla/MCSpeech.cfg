SPECIFICATION FairSpec
CONSTANTS
    MaxTurns = 2
    MaxStarts = 2
    MaxNoise = 1
    Callers <- CallersMC
INVARIANTS
    SpeechTypeOK
    TextOfOwnAudio
    NoStrayWorker
    TranscriptsInOrder
PROPERTIES
    HungWorkerDoesNotBlockShutdown
CHECK_DEADLOCK FALSE
