SPECIFICATION FairAgentSpec
CONSTANTS
    http = http
    runtime = runtime
    t1 = t1
    t2 = t2
    Instrumentors <- MCInstrumentors
    Tids <- MCTids
    MainTid = t1
    RetryLimit = 2
    Target = 3
    Others = {2}
    Batch = 1
    MaxAgents = 2
INVARIANTS AgentTypeOK DetachedAtReturn StoppedOnlyWhileAnalyzed AllStoppedAtCall RunsOwnCode AreaIsMapped
PROPERTIES SignalEndsAgent FoundIsServed TargetIsFound
