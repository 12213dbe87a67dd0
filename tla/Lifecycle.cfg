\* Two calls at a time, three listeners, a start and a stop hook and two mount hooks.
SPECIFICATION Spec
CONSTANTS
    c1 = c1
    c2 = c2
    l1 = l1
    l2 = l2
    l3 = l3
    start = start
    stop = stop
    mount = mount
    second = second
    Caller <- TwoCallers
    Listener <- ThreeListeners
    Hook <- FourHooks
    Kind <- Kinds
SYMMETRY Symmetry
INVARIANTS
    TypeOK
    EffectsAccounted
    NoLeakedEffect
    EffectsMatchHooks
    HooksRunOncePerMount
