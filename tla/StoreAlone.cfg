\* One thread that subscribes; listeners, first calls of subscribers and a set hook call the store, too.
SPECIFICATION Spec
CONSTANTS
    t1 = t1
    t2 = t2
    whole = whole
    onOrder = onOrder
    order = order
    row = row
    v1 = v1
    v2 = v2
    Thread <- OneThread
    MaxDepth = 1
    Reentrant <- SubscribersCall
    Value <- TwoValues
    Listener <- TwoListeners
    Key <- TwoKeys
    Filter <- TwoFilters
    Scope <- InsertAndUpdate
    Hook <- SetHookOnly
    OnSet <- AnyOutcome
    OnNotify <- AnyOutcome
    Operation <- SubscribesAlone
    MaxWrites = 3
INVARIANTS
    StoredIsDelivered
    KeyListenersCatchUp
PROPERTIES
    WritesInOrder
