\* Two clients, each with any request; the queue never fills by itself.
CONSTANTS
    Clients = {c1, c2}
    Nobody = Nobody
    Char <- Characters
    Path <- Paths
    PipeAt <- LeadsTo
    Requests <- AllRequests
    PIPE_NAME_SIZE = 5
    BOX_NAME_SIZE = 3
    Capacity = 2
    FramesPerRead = 3
SPECIFICATION Spec
SYMMETRY ClientSymmetry
INVARIANT
    TypeOK
    SessionsCounted
    OnlyListsLinger
    NotOlderThanTurn
    SessionsAreRecent
    LossNeedsCompany
    MainDoesNotSpin
    OkMeansBrokerGone
\* The worker may wait for a client that is gone.
CHECK_DEADLOCK FALSE
