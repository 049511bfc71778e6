CONSTANTS
    Prompts = {p1, p2}
    Steers = {}
    Bashes = {b1}
    Stops = {"stop", "toolUse", "retryable"}
    Interrupts = {}
    Concurrent = TRUE
    NoPrompt = NoPrompt
    MaxResponses = 3
    MaxRetries = 1
    MaxCompactions = 0
    MaxManual = 0
SPECIFICATION Spec
INVARIANTS
    ToolResultsStayAttached
\* Once everything is done the agent waits for calls that the bounds rule out.
CHECK_DEADLOCK FALSE
