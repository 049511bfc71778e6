CONSTANTS
    Prompts = {p1}
    Steers = {}
    FollowUps = {}
    NextTurns = {}
    Writes = {w1}
    Operations = {"compact"}
    NoPrompt = NoPrompt
    QueueMode = "one-at-a-time"
    MaxTurns = 0
    MaxThrows = 0
    MaxAborts = 0
    MaxOperations = 1
    Overlap = FALSE
SPECIFICATION Spec
INVARIANT
    SettledIsFlushed
CHECK_DEADLOCK FALSE
