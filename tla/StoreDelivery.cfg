\* Two threads that write the whole store in place, liveness and the refinement.
SPECIFICATION FairSpec
CONSTANTS
    t1 = t1
    t2 = t2
    whole = whole
    onOrder = onOrder
    order = order
    row = row
    v1 = v1
    v2 = v2
    Thread <- TwoThreads
    MaxDepth = 0
    Reentrant <- Quiet
    Value <- TwoValues
    Listener <- TwoListeners
    Key <- TwoKeys
    Filter <- TwoFilters
    Scope <- AnyWrite
    Hook <- NoHooks
    OnSet <- NoOutcome
    OnNotify <- NoOutcome
    Operation <- InPlace
    MaxWrites = 2
INVARIANTS
    StoredIsDelivered
PROPERTIES
    ImplementsDelivery
    EventuallyDelivered
    CallsReturn
