\* Two threads set one source in place, from listeners too; listeners come and go alone.
SPECIFICATION Spec
CONSTANTS
    t1 = t1
    t2 = t2
    s1 = s1
    s2 = s2
    c1 = c1
    c2 = c2
    c3 = c3
    c4 = c4
    Thread <- TwoThreads
    Source <- OneSource
    Derived <- ThreeStores
    Deps <- Diamond
    Batched <- None
    InPlace <- OneSource
    Watched <- AllStores
    Operation <- WatchAndSet
    Immediate = TRUE
    Nested = TRUE
    Exclusive = TRUE
    MaxSets = 3
    MaxWatches = 2
SYMMETRY ThreadSymmetry
INVARIANT
    LiveWhileMounted
