\* Two threads that only call set, no hooks.
SPECIFICATION Spec
CONSTANTS
    t1 = t1
    t2 = t2
    whole = whole
    onOrder = onOrder
    order = order
    row = row
    v1 = v1
    v2 = v2
    Thread <- TwoThreads
    MaxDepth = 0
    Reentrant <- Quiet
    Value <- TwoValues
    Listener <- WholeListener
    Key <- TwoKeys
    Filter <- WholeFilter
    Scope <- AnyWrite
    Hook <- NoHooks
    OnSet <- NoOutcome
    OnNotify <- NoOutcome
    Operation <- Commits
    MaxWrites = 2
PROPERTY
    WritesInOrder
