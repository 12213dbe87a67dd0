\* One thread, a diamond and a batched store over it, a scheduler the program flushes.
SPECIFICATION FairSpec
CONSTANTS
    t1 = t1
    t2 = t2
    s1 = s1
    s2 = s2
    c1 = c1
    c2 = c2
    c3 = c3
    c4 = c4
    Thread <- OneThread
    Source <- OneSource
    Derived <- FourStores
    Deps <- DiamondAndOne
    Batched <- LastOne
    InPlace <- None
    Watched <- AllStores
    Operation <- AllCalls
    Immediate = FALSE
    Nested = FALSE
    Exclusive = FALSE
    MaxSets = 2
    MaxWatches = 2
INVARIANTS
    OnlyConsistentValues
    SubscribedWhileMounted
    LiveWhileMounted
PROPERTY
    CallsReturn
