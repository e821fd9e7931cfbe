------------------------------ MODULE AgentTarget ------------------------------
(***************************************************************************)
(* The agent and its target: the life of the agent (AgentLifecycle) with   *)
(* the search for the target (Discovery) while it is discovering, with the *)
(* tracing of it (TracedProgram) while it is analyzing, and with the       *)
(* directory of the maps that the instrumentors pin and share, which       *)
(* load makes before the first instrumentor (bpffs/bpfsfs.go).             *)
(*                                                                         *)
(* When the agent has ended another can be started, with the same target.  *)
(* The directory is still there; the kernel has let go of the threads.     *)
(***************************************************************************)
EXTENDS AgentLifecycle, Discovery, TracedProgram

CONSTANT MaxAgents  \* bound: agents, one after the other

ASSUME AgentsAssumption == MaxAgents \in Nat \ {0}

VARIABLES
    agent,     \* the number of the agent
    mounted,   \* whether it has got past the directory of its maps
    directory  \* the agent that made it, or 0

agentVars == <<vars, discoveryVars, tracedVars, agent, mounted, directory>>

AgentTypeOK ==
    /\ TypeOK /\ DiscoveryTypeOK /\ TracedTypeOK
    /\ agent \in 1..MaxAgents /\ mounted \in BOOLEAN /\ directory \in 0..MaxAgents

AgentInit ==
    /\ Init /\ DiscoveryInit /\ TracedInit
    /\ agent = 1 /\ mounted = FALSE /\ directory = 0

-------------------------------------------------------------------------------
\* What a step of the agent's life means for the target: with the process its tracing ends.
TargetOf ==
    /\ UNCHANGED <<discoveryVars, targetVars, osThread, step, waited, todo, tidMap, retryCount,
                   callVars, failure, odd, agent>>
    /\ IF main' \in {"returned", "panicked"}
         THEN halted' = {} /\ tracer' = [t \in Tids |-> 0]
         ELSE UNCHANGED <<halted, tracer>>

\* Mkdir of the target's directory, which fails if it is there.
MayMount == directory = 0

Mount ==
    /\ main = "loading" /\ ~mounted /\ MayMount
    /\ mounted' = TRUE /\ directory' = (IF directory = 0 THEN agent ELSE directory)
    /\ UNCHANGED <<vars, discoveryVars, tracedVars, agent>>

Loading ==
    \/ ~mounted /\ LoadFailsEarly
    \/ mounted /\ (Serve \/ \E i \in Instrumentors : Load(i) \/ LoadFails(i))

\* Analyze reads the executable before it traces the program, and the symbols after.
Analyzing ==
    \/ step \in {"start", "failed", "mapped"} /\ AnalyzeFails
    \/ step = "mapped" /\ Analyze

MainStep ==
    \/ /\ Analyzing \/ Loading \/ TraceDone \/ CleanupDone \/ \E i \in Instrumentors : Close(i)
       /\ TargetOf /\ UNCHANGED <<mounted, directory>>
    \/ found # 0 /\ Discover /\ TargetOf /\ UNCHANGED <<mounted, directory>>
    \/ Mount
    \/ main = "analyzing" /\ Trace
       /\ UNCHANGED <<vars, discoveryVars, agent, mounted, directory>>
    \/ main = "discovering" /\ Scan
       /\ UNCHANGED <<vars, tracedVars, agent, mounted, directory>>

\* The select of DiscoverProcessID, between two scans.
Interrupted ==
    found = 0 /\ place = 0 /\ DiscoverInterrupted /\ TargetOf /\ UNCHANGED <<mounted, directory>>

OthersStep ==
    /\ \/ GetSignal \/ SignalGoroutine
       \/ \E i \in Instrumentors : Register(i)
       \/ Handle \/ SendPanics
       \/ ReceiveEvent \/ ReceiveDone
    /\ TargetOf /\ UNCHANGED <<mounted, directory>>

\* The target's threads and its neighbours, while it matters.
World ==
    \/ /\ main = "discovering" /\ (ProcessStarts \/ ProcessEnds)
       /\ UNCHANGED <<vars, tracedVars, agent, mounted, directory>>
    \/ /\ main = "analyzing" /\ (TargetStep \/ Moves)
       /\ UNCHANGED <<vars, discoveryVars, agent, mounted, directory>>

Restart ==
    /\ ~Running /\ agent < MaxAgents
    /\ agent' = agent + 1 /\ mounted' = FALSE
    /\ main' = "discovering" /\ signal' = "waiting"
    /\ analyzerDone' = "empty" /\ managerDone' = "empty" /\ incoming' = "open"
    /\ managed' = Instrumentors /\ loaded' = {} /\ attached' = {} /\ registered' = {}
    /\ handler' = "idle" /\ ending' = "none"
    /\ place' = 0 /\ listed' = {} /\ found' = 0
    /\ osThread' = 1 /\ step' = "start" /\ addr' = "none" /\ failure' = FALSE /\ LocalsGone
    /\ odd' = odd \ {"not mapped"}
    /\ UNCHANGED <<alive, targetVars, tracer, halted, regs, code, rax, directory>>

NoAgentLeft == ~Running /\ agent = MaxAgents /\ UNCHANGED agentVars

AgentNext == MainStep \/ Interrupted \/ OthersStep \/ World \/ Restart \/ NoAgentLeft

AgentSpec == AgentInit /\ [][AgentNext]_agentVars

\* Goroutines run, and so do the target's threads until they stop; Go's select chooses
\* among the ready cases at random, so a case that is ready again and again is taken.
AgentFairness ==
    /\ WF_agentVars(MainStep)
    /\ WF_agentVars(SignalGoroutine /\ TargetOf /\ UNCHANGED <<mounted, directory>>)
    /\ WF_agentVars(SendPanics /\ TargetOf /\ UNCHANGED <<mounted, directory>>)
    /\ WF_agentVars(Stops /\ main = "analyzing" /\ UNCHANGED <<vars, discoveryVars, agent, mounted, directory>>)
    /\ SF_agentVars(Interrupted)
    /\ SF_agentVars(ReceiveDone /\ TargetOf /\ UNCHANGED <<mounted, directory>>)

FairAgentSpec == AgentSpec /\ AgentFairness

-------------------------------------------------------------------------------

\* The target's threads are stopped only while the agent analyzes it: an attachment
\* that fails half way, which leaves the threads attached, ends the agent.  Unless the
\* goroutine has changed its OS thread, so that Detach passes over the threads.
StoppedOnlyWhileAnalyzed == halted # {} => main = "analyzing" \/ "moved" \in odd

\* "we have tried several ways to ensure that we have stopped all the tasks": none runs
\* while the main thread's registers and code are changed.
AllStoppedAtCall == step \in CallSteps => threads \subseteq halted

\* The main thread never runs on with the call's registers or the call's instruction.
RunsOwnCode ==
    MainTid \in threads \ halted => (regs = "own" /\ code = "own") \/ "moved" \in odd

\* The area that the allocator is given is one that the target has mapped, unless the
\* target could not, or was stopped by a signal first.
AreaIsMapped ==
    main \in {"loading", "serving", "tracing"} =>
        addr = "area" \/ "not mapped" \in odd

\* The instrumentors share no pinned map with an earlier agent's.
MapsAreOwn == loaded # {} => directory = agent

\* A target that has started is found, whatever ends while the agent scans, unless a
\* signal ends the search.
TargetIsFound ==
    (main = "discovering" /\ Target \in alive) ~> (found = Target \/ signal # "waiting")
===============================================================================
