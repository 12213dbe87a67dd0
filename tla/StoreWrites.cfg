\* Two threads, both write paths; a notify hook that comes and goes and may itself call the store.
SPECIFICATION Spec
CONSTANTS
    t1 = t1
    t2 = t2
    whole = whole
    onOrder = onOrder
    order = order
    row = row
    v1 = v1
    v2 = v2
    Thread <- TwoThreads
    MaxDepth = 1
    Reentrant <- NotifyHooksCall
    Value <- TwoValues
    Listener <- WholeListener
    Key <- TwoKeys
    Filter <- WholeFilter
    Scope <- AnyWrite
    Hook <- NotifyHookOnly
    OnSet <- AnyOutcome
    OnNotify <- AnyOutcome
    Operation <- Listens
    MaxWrites = 3
SYMMETRY ThreadSymmetry
INVARIANTS
    TypeOK
    SingleDrainer
    NoStrandedNotification
    DeliveredNewest
    ListenersCatchUp
PROPERTIES
    NeverRewinds
    DeliversInOrder
