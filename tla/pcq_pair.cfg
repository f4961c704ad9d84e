\* One producer, one consumer, two slots, two elements; safety and liveness.
CONSTANTS
    p1 = p1
    p2 = p2
    c1 = c1
    c2 = c2
    e1 = e1
    e2 = e2
    NoThread = NoThread
    Garbage = Garbage
    Producers <- OneProducer
    Consumers <- OneConsumer
    Elements <- TwoElements
    Capacity = 2
    WordSize = 8
    MaxLag = 4
SPECIFICATION FairSpec
INVARIANTS
    TypeOK
    SizeWithinCapacity
    CountMatchesRing
    LagWithinOne
    ContentsWritten
PROPERTIES
    EnqueueReturns
    DequeueReturns
    FifoOutsideRaces
    ImplementsCounter
