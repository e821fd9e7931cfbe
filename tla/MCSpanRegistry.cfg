SPECIFICATION Spec
CONSTANTS
    Main = Main
    g2 = g2
    g3 = g3
    NoGoid = NoGoid
    pc1 = pc1
    pc2 = pc2
    NoPc = NoPc
    Goroutines <- MCGoroutines
    PCs <- MCPCs
    MaxSpans = 3
    MaxDepth = 2
    MaxRetry = 2
    Late = {TRUE, FALSE}
    Lossy = TRUE
    Expiring = TRUE
SYMMETRY MCSymmetry
CHECK_DEADLOCK FALSE
INVARIANTS ParentRanGoStatement GoroutineSpanHasAncestor TracesPartOnlyAtMovedSpans ParentStartsFirst
