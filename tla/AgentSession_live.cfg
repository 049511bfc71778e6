CONSTANTS
    Prompts = {p1}
    Steers = {s1}
    Bashes = {}
    Stops = {"stop", "toolUse", "retryable"}
    Interrupts = {"clear", "abort"}
    Concurrent = FALSE
    NoPrompt = NoPrompt
    MaxResponses = 2
    MaxRetries = 1
    MaxCompactions = 1
    MaxManual = 1
SPECIFICATION FairSpec
PROPERTIES
    NoMessageLeftBehind
    CallsReturn
\* Once everything is done the agent waits for calls that the bounds rule out.
CHECK_DEADLOCK FALSE
