CONSTANTS
    Prompts = {p1, p2}
    Steers = {}
    Bashes = {}
    Stops = {"stop", "silent", "retryable", "overflow"}
    Interrupts = {"abort"}
    Concurrent = FALSE
    NoPrompt = NoPrompt
    MaxResponses = 6
    MaxRetries = 1
    MaxCompactions = 2
    MaxManual = 0
SPECIFICATION Spec
INVARIANTS
    ContextMatchesLog
    RecoveryEnds
\* Once everything is done the agent waits for calls that the bounds rule out.
CHECK_DEADLOCK FALSE
