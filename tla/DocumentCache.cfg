SPECIFICATION CacheSpec
CONSTANTS
    ann = ann
    bob = bob
    Users = {ann, bob}
    MaxPending = 2
    Clears <- First
    Bad <- Third
    MaxWrites = 4
    MaxFaults = 1
    MaxForeign = 1
INVARIANTS
    AssertionsHold
    AnswersAreTrue
    SentByItsAuthor
    CleanCacheIsTheServices
PROPERTIES
    ImplementsDurableWrites
    QueueDrains
    OwnWritesStay
    ViewConverges
CHECK_DEADLOCK FALSE
