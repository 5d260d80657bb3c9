CONSTANTS
    Request <- MCRequest
    Process <- MCProcess
    ProcessOf <- MCProcessOf
    Any <- MCAny
    Pass <- MCPass
    Query <- MCQuery
    DayLength = 4
    WindowMax = 7
    MaxRetries = 2
    MaxFailures = 2
    OpenDuration = 1
    PoolSize = 1
    Ttl = 1
    CallTime = 1
    MaxCommits = 1

SPECIFICATION Spec
INVARIANTS AnswerWasTrue
PROPERTIES CircuitRecovers
