CONSTANTS
    Prompts = {p1}
    Steers = {s1}
    FollowUps = {f1}
    NextTurns = {n1}
    Writes = {w1}
    Operations = {"compact", "navigate"}
    NoPrompt = NoPrompt
    QueueMode = "one-at-a-time"
    MaxTurns = 0
    MaxThrows = 1
    MaxAborts = 1
    MaxOperations = 1
    Overlap = FALSE
SPECIFICATION FairSpec
INVARIANTS
    TypeOK
    ModelSeesSession
PROPERTIES
    OnePlace
    QueuedWritesInOrder
    AppendsExtendBranch
    CallsSettle
CHECK_DEADLOCK FALSE
