\* One thread removes the last listener while another one adds a listener.
SPECIFICATION Spec
CONSTANTS
    t1 = t1
    t2 = t2
    s1 = s1
    s2 = s2
    c1 = c1
    c2 = c2
    c3 = c3
    c4 = c4
    Thread <- TwoThreads
    Source <- OneSource
    Derived <- TwoStores
    Deps <- Chain
    Batched <- None
    InPlace <- OneSource
    Watched <- AllStores
    Operation <- WatchAndSet
    Immediate = TRUE
    Nested = FALSE
    Exclusive = FALSE
    MaxSets = 1
    MaxWatches = 2
INVARIANT
    LiveWhileMounted
