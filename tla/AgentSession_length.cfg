CONSTANTS
    Prompts = {p1}
    Steers = {}
    Bashes = {}
    Stops = {"stop", "length"}
    Interrupts = {}
    Concurrent = FALSE
    NoPrompt = NoPrompt
    MaxResponses = 3
    MaxRetries = 1
    MaxCompactions = 1
    MaxManual = 0
SPECIFICATION Spec
INVARIANTS
    NothingRejected
\* Once everything is done the agent waits for calls that the bounds rule out.
CHECK_DEADLOCK FALSE
