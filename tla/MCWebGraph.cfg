SPECIFICATION WebGraphSpec
CONSTANTS
    Users = {"ann", "bob"}
    Families = {"s1", "s2", "s3"}
    UserOf <- MCUserOf
    MaxEdits = 2
    MaxSessions = 2
    None = None
    MaxJobs = 3
    MaxRequests = 3
    MaySpawn = TRUE
    Nothing = Nothing
    Graphs <- MCGraphs
    Limit = 2
INVARIANTS
    WritesKeepTheirSession
    PositionsBelongToTheirJob
    LongLayoutsAreAskedFor
PROPERTIES
    ImplementsStore
    EditsAreWritten
    PendingLayoutsAreAnswered
CHECK_DEADLOCK FALSE
