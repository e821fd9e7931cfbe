SPECIFICATION FairSpec
CONSTANTS
    m1 = m1
    m2 = m2
    p1 = p1
    main = main
    placeholder = placeholder
    Events <- MCEvents
    Types <- MCTypes
    TypeOf <- MCTypeOf
    Placeholders <- MCPlaceholders
    Delay = 1
    MaxSize = 2
    PerfSize = 1
    Horizon = 3
INVARIANTS OrderUnlessLate QueueBounded
PROPERTIES QueuedIsPopped RelaySpec
