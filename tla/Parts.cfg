CONSTANTS
    Calls = {c1, c2, c3}
    Requests <- MCRequests
    MissingAtStart = {"other"}
    None = None
    Readers = {r1, r2}
    MaxDeltas = 2
    Forwarder = Forwarder
    Nothing = Nothing
    Chain <- MCChain
    CoreFamily <- MCCoreFamily
    Picks = {"potassium", "mini", "other"}
    Procs = {p1, p2}
    MaxIssued = 2
    Torn = Torn
    Waiters = {w1}
    MaxRequests = 2
    MaxProcesses = 2
    MaxEnds = 1
    Fields = {f, g}
    MaxSets = 2
    MaxFailures = 1
SPECIFICATION PartsSpec
INVARIANTS
    TypesOK
    InCallOrder
    KeysAreDropped
    PickSurvives
    RefreshedOnce
    RequestsOfOwnProcess
    ChangesStayMarked
PROPERTIES
    NoLostUpdate
    WaitsEnd
    ImplementsChannel
    OthersAreKept
\* Calls, requests and changes that the bounds rule out may be all that is left.
CHECK_DEADLOCK FALSE
