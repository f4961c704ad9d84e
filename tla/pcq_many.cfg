\* One producer and two consumers on two slots, as main and its workers were meant
\* to be.  The two consumers take the counter below zero and round the word.
CONSTANTS
    p1 = p1
    p2 = p2
    c1 = c1
    c2 = c2
    e1 = e1
    e2 = e2
    NoThread = NoThread
    Garbage = Garbage
    Producers <- OneProducer
    Consumers <- TwoConsumers
    Elements <- OneElement
    Capacity = 2
    WordSize = 16
    MaxLag = 10
SPECIFICATION Spec
SYMMETRY ThreadSymmetry
INVARIANTS
    CountMatchesRing
    NoLostWakeup
    NotAllAsleep
    NotOverfilled
