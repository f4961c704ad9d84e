\* One worker at a time, a queue of two, up to three clients; thread creation
\* may fail.
CONSTANTS
    Main = Main
    Worker = Worker
    request = request
    Garbage = Garbage
    NoThread = NoThread
    Producers <- OnlyMain
    Consumers <- OnlyWorker
    Elements <- OneRequest
    Capacity = 2
    WordSize = 8
    MaxLag = 4
    MaxWaiting = 3
    CreateMayFail = TRUE
SPECIFICATION BrokerSpec
INVARIANT NoSessionServed
\* main may die, or block for good with the worker.
CHECK_DEADLOCK FALSE
