\* Two threads attach, detach and set at any time; a batched store over a computed one.
SPECIFICATION Spec
CONSTANTS
    t1 = t1
    t2 = t2
    s1 = s1
    s2 = s2
    c1 = c1
    c2 = c2
    c3 = c3
    c4 = c4
    Thread <- TwoThreads
    Source <- TwoSources
    Derived <- ThreeStores
    Deps <- ChainAndOne
    Batched <- LastTwo
    InPlace <- TwoSources
    Watched <- LastTwo
    Operation <- WatchAndSet
    Immediate = TRUE
    Nested = FALSE
    Exclusive = FALSE
    MaxSets = 2
    MaxWatches = 2
SYMMETRY ThreadSymmetry
INVARIANTS
    TypeOK
    NoFrozenStore
    DeferredRuns
    MountsAlone
    SubscriptionsKept
