CONSTANTS
    Prompts = {p1, p2}
    Steers = {}
    Bashes = {b1}
    Stops = {"stop", "toolUse", "retryable", "fatal"}
    Interrupts = {"abort"}
    Concurrent = FALSE
    NoPrompt = NoPrompt
    MaxResponses = 3
    MaxRetries = 1
    MaxCompactions = 1
    MaxManual = 0
SPECIFICATION Spec
INVARIANTS
    TypeOK
    WillRetryTellsTruth
    NothingRejected
    ToolResultsStayAttached
    NoBashForgotten
\* Once everything is done the agent waits for calls that the bounds rule out.
CHECK_DEADLOCK FALSE
