\* The same with threads that can always be created, and fairness.
CONSTANTS
    Main = Main
    Worker = Worker
    request = request
    Garbage = Garbage
    NoThread = NoThread
    Producers <- OnlyMain
    Consumers <- OnlyWorker
    Elements <- OneRequest
    Capacity = 2
    WordSize = 8
    MaxLag = 4
    MaxWaiting = 3
    CreateMayFail = FALSE
SPECIFICATION BrokerFairSpec
PROPERTY RegistrationsAreRead
\* main may die, or block for good with the worker.
CHECK_DEADLOCK FALSE
