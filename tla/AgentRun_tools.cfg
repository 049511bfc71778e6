CONSTANTS
    SteeringMode = "all"
    FollowUpMode = "all"
    MaxMessages = 2
    MaxToolTurns = 2
    MaxCalls = 2
    MaxKept = 0
    MaxFailures = 2
SPECIFICATION FairSpec
INVARIANTS
    TypeOK
    ResultsFollowCalls
    CallsAnswered
PROPERTIES
    RunSettles
    QueuedIsTaken
\* Once everything is done the agent waits for calls that the bounds rule out.
CHECK_DEADLOCK FALSE
