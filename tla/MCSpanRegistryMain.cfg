SPECIFICATION FairSpec
CONSTANTS
    Main = Main
    g2 = g2
    g3 = g3
    NoGoid = NoGoid
    pc1 = pc1
    pc2 = pc2
    NoPc = NoPc
    Goroutines <- MCGoroutines
    PCs <- MCPCs
    MaxSpans = 3
    MaxDepth = 2
    MaxRetry = 2
    Late = {TRUE, FALSE}
    Lossy = FALSE
    Expiring = FALSE
CHECK_DEADLOCK FALSE
PROPERTY MainIsIgnored
