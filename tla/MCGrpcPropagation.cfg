SPECIFICATION Spec
CONSTANTS
    g1 = g1
    u1 = u1
    u2 = u2
    request = request
    background = background
    cancel = cancel
    NoWord = NoWord
    k1 = k1
    k2 = k2
    s1 = s1
    Zero = Zero
    Goroutines <- MCGoroutines
    Untracked <- MCUntracked
    Contexts <- MCContexts
    Words <- MCWords
    WordBehind <- MCWordBehind
    FirstWord <- MCFirstWord
    StreamWord <- MCStreamWord
    MaxDistance = 2
    Conns <- MCConns
    ServerConns <- MCServerConns
    MaxConcurrent = 1
    MaxConcurrentSpans = 1
    MaxCalls = 2
    MaxOpens = 2
    ResponseIds = {1}
SYMMETRY MCSymmetry
CHECK_DEADLOCK FALSE
INVARIANTS TypeOK StoredIsMeant HeaderIsStored WaitingExplained ParentIsOwn KeptExplained ServedBelowCaller
