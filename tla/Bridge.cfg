\* Two projections of a map or three of a collection; callbacks write and mount; hooks keep to the written field.
SPECIFICATION Spec
CONSTANTS
    m1 = m1
    m2 = m2
    row = row
    order = order
    list = list
    first = first
    second = second
    a = a
    b = b
    Field <- TwoFields
    Val <- TwoVals
    Projection <- AllProjections
    View <- Views
    Kinds <- BothKinds
    Maps <- TwoMaps
    Writable <- OneMap
    Lists <- OneList
    Stray = FALSE
    Reentrant = FALSE
    MaxWrites = 4
    MaxMounts = 3
SYMMETRY Symmetry
INVARIANTS
    TypeOK
    Mirrors
    AppliedOnce
    NoReentrantCallback
