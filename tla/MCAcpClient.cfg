SPECIFICATION Spec
CONSTANTS
    Callers = {worker, other}
    MaxPrompts = 2
    MaxUpdates = 2
    PipeCap = 1
    AgentFaults = {"crash","error","garbage"}
SYMMETRY CallerSymmetry
INVARIANTS
    AcpTypeOK
    ReplyOwnAndComplete
    OneReader
    CloseLeavesNoChild
