CONSTANTS
    SteeringMode = "one-at-a-time"
    FollowUpMode = "one-at-a-time"
    MaxMessages = 3
    MaxToolTurns = 1
    MaxCalls = 1
    MaxKept = 9
    MaxFailures = 1
SPECIFICATION Spec
INVARIANTS
    EveryMessageHasOnePlace
    OneAtATime
    ModelSeesTranscript
PROPERTIES
    ImplementsDelivery
\* Once everything is done the agent waits for calls that the bounds rule out.
CHECK_DEADLOCK FALSE
