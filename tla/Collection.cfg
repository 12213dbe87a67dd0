\* Two threads on the same rows, in a collection and in a map; a write hook comes and goes.
SPECIFICATION Spec
CONSTANTS
    t1 = t1
    t2 = t2
    k1 = k1
    k2 = k2
    a = a
    b = b
    Thread <- TwoThreads
    Key <- TwoKeys
    Item <- TwoItems
    Owner <- Apart
    Kinds <- BothKinds
    Contents <- TwoContents
    Hooked = TRUE
    MaxWrites = 4
INVARIANTS
    TypeOK
    RowsAndOrderAgree
PROPERTY
    ChangesInScope
