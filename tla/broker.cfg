\* Two clients, each with any request, and a queue that two reads fill.
CONSTANTS
    Clients = {c1, c2}
    Nobody = Nobody
    Char <- Characters
    Path <- Paths
    PipeAt <- LeadsTo
    Requests <- AllRequests
    PIPE_NAME_SIZE = 5
    BOX_NAME_SIZE = 3
    Capacity = 1
    FramesPerRead = 3
SPECIFICATION BrokerSpec
INVARIANT
    NobodyGetsThrough
    ReadsOnlyWhatFits
PROPERTY
    NoReadAfterCreation
\* main may die, or block for good in pthread_join or pcq_enqueue.
CHECK_DEADLOCK FALSE
