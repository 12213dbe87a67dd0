\* Two projections of a map; a set hook changes another field than the one that is set.
SPECIFICATION Spec
CONSTANTS
    m1 = m1
    m2 = m2
    row = row
    order = order
    list = list
    first = first
    second = second
    a = a
    b = b
    Field <- TwoFields
    Val <- TwoVals
    Projection <- AllProjections
    View <- Views
    Kinds <- OnlyMap
    Maps <- TwoMaps
    Writable <- OneMap
    Lists <- OneList
    Stray = TRUE
    Reentrant = FALSE
    MaxWrites = 3
    MaxMounts = 3
SYMMETRY Symmetry
INVARIANTS
    Mirrors
