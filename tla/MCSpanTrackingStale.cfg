SPECIFICATION Spec
CONSTANTS
    g1 = g1
    g2 = g2
    Zero = Zero
    request = request
    other = other
    derived = derived
    background = background
    wrapped = wrapped
    deeper = deeper
    message = message
    entry = entry
    cancel = cancel
    timer = timer
    value = value
    wrap = wrap
    base = base
    deep = deep
    msgAddr = msgAddr
    entryAddr = entryAddr
    NoWord = NoWord
    Goroutines <- MCGoroutines
    Untracked <- MCUntracked
    Contexts <- MCContexts
    Words <- MCWords
    WordBehind <- MCWordBehind
    TypeWord <- MCTypeWord
    FirstWord <- MCFirstWord
    Address <- MCAddress
    Sites <- MCSites
    MaxConcurrent <- MCMaxConcurrent
    MaxConcurrentSpans = 2
    MaxSystemThreads = 1
    MaxDistance = 2
    MaxCalls = 3
CHECK_DEADLOCK FALSE
INVARIANT TrackedAreActive
