SPECIFICATION FairSpec
CONSTANTS
    Main = Main
    g2 = g2
    g3 = g3
    NoGoid = NoGoid
    pc1 = pc1
    pc2 = pc2
    NoPc = NoPc
    Goroutines <- MCGoroutines
    PCs <- MCOnePC
    MaxSpans = 3
    MaxDepth = 1
    MaxRetry = 2
    Late = {FALSE}
    Lossy = TRUE
    Expiring = TRUE
CHECK_DEADLOCK FALSE
PROPERTY WalkEnds
