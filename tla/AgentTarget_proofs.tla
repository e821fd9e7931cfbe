--------------------------- MODULE AgentTarget_proofs ---------------------------
(***************************************************************************)
(* For any libraries, threads, processes and number of agents: what holds  *)
(* of the agent's life still holds when it is composed with its target and *)
(* followed by other agents; the instrumentors never share the maps of an  *)
(* earlier agent; no thread of the target runs while a call is made in its *)
(* main thread; and the target goes on as it was before, unless the        *)
(* goroutine has changed its OS thread.                                    *)
(*                                                                         *)
(* The tracing is followed step by step: which threads are held in each    *)
(* step of NewTracedProgram, that Detach is left with all that are traced, *)
(* and that a request for the main thread can only fail because it is gone.*)
(*                                                                         *)
(* At the end: where the call's result is in each step, the types, and     *)
(* that a scan of /proc passes over no target.                             *)
(***************************************************************************)
EXTENDS AgentTarget, AgentLifecycle_proofs, FiniteSetTheorems

-------------------------------------------------------------------------------
(* The life of the agent.                                                   *)

LEMMA LifeOfComposition == LifeInv /\ [AgentNext]_agentVars => LifeInv'
<1>1. ASSUME LifeInv, MainStep \/ Interrupted \/ OthersStep \/ World \/ NoAgentLeft
      PROVE  [Next]_vars
  BY <1>1 DEF MainStep, Interrupted, OthersStep, World, NoAgentLeft, Mount, Loading, Analyzing,
              Next, Main, agentVars
<1>2. ASSUME Restart PROVE LifeInv'
  BY <1>2 DEF Restart, LifeInv, TypeOK, PhaseInv, HandlerInv, SignalInv, Phases, Endings
<1>. QED
  BY <1>1, <1>2, LifeStep DEF AgentNext, agentVars

\* The composed agent, started again and again, still never returns with an instrumentor
\* attached and only panics in the shutdown after a signal.
THEOREM ComposedLifeCorrect == AgentSpec => [](DetachedAtReturn /\ PanicOnlyAfterSignal)
<1>1. AgentInit => LifeInv
  BY LifeInit DEF AgentInit
<1>2. LifeInv => DetachedAtReturn /\ PanicOnlyAfterSignal
  BY DEF LifeInv, PhaseInv, SignalInv, DetachedAtReturn, PanicOnlyAfterSignal
<1>. QED
  BY <1>1, <1>2, LifeOfComposition, PTL DEF AgentSpec

-------------------------------------------------------------------------------
(* The directory of the pinned maps.                                        *)

MountInv == (mounted => directory = agent) /\ (loaded # {} => mounted)

LEMMA MountStep == MountInv /\ [AgentNext]_agentVars => MountInv'
<1>. SUFFICES ASSUME MountInv, [AgentNext]_agentVars PROVE MountInv'
  OBVIOUS
<1>1. CASE MainStep
  <2>1. CASE Mount
    BY <2>1 DEF Mount, MayMount, MountInv, vars
  <2>2. CASE Loading /\ TargetOf /\ UNCHANGED <<mounted, directory>>
    BY <2>2 DEF Loading, TargetOf, LoadFailsEarly, Serve, Load, LoadFails, MountInv
  <2>3. CASE /\ Analyzing \/ TraceDone \/ CleanupDone \/ \E i \in Instrumentors : Close(i)
             /\ TargetOf /\ UNCHANGED <<mounted, directory>>
    BY <2>3 DEF Analyzing, AnalyzeFails, Analyze, TraceDone, CleanupDone, Close, TargetOf, MountInv
  <2>4. CASE Discover /\ TargetOf /\ UNCHANGED <<mounted, directory>>
    BY <2>4 DEF Discover, TargetOf, MountInv
  <2>5. CASE UNCHANGED <<vars, agent, mounted, directory>>
    BY <2>5 DEF vars, MountInv
  <2>. QED
    BY <1>1, <2>1, <2>2, <2>3, <2>4, <2>5 DEF MainStep
<1>2. CASE Interrupted
  BY <1>2 DEF Interrupted, DiscoverInterrupted, TargetOf, MountInv
<1>3. CASE OthersStep
  BY <1>3 DEF OthersStep, GetSignal, SignalGoroutine, CloseAnalyzer, CloseManager, Register, Handle,
              SendPanics, ReceiveEvent, ReceiveDone, TargetOf, MountInv
<1>4. CASE World \/ NoAgentLeft \/ UNCHANGED agentVars
  BY <1>4 DEF World, NoAgentLeft, agentVars, vars, MountInv
<1>5. CASE Restart
  BY <1>5 DEF Restart, MountInv
<1>. QED
  BY <1>1, <1>2, <1>3, <1>4, <1>5 DEF AgentNext

\* bpffs.Mount refuses a directory that is there, so that no instrumentor is ever loaded
\* into an earlier agent's maps.
THEOREM MapsCorrect == AgentSpec => []MapsAreOwn
<1>1. AgentInit => MountInv
  BY DEF AgentInit, Init, MountInv
<1>2. MountInv => MapsAreOwn
  BY DEF MountInv, MapsAreOwn
<1>. QED
  BY <1>1, <1>2, MountStep, PTL DEF AgentSpec

-------------------------------------------------------------------------------
(* The tracing.                                                             *)

Steps == CallSteps \cup {"start", "attach", "wait", "detach", "mapped", "failed"}

TraceTypes ==
    /\ threads \subseteq Tids /\ unborn \subseteq Tids \ threads /\ MainTid \notin unborn
    /\ tracer \in [Tids -> 0..2] /\ halted \subseteq threads
    /\ \A t \in Tids : t \in halted => tracer[t] # 0
    /\ \A t \in Tids : tracer[t] # 0 => t \in threads
    /\ osThread \in 1..2 /\ step \in Steps
    /\ waited \in Tids /\ todo \subseteq Tids /\ tidMap \subseteq Tids

Gone(t) == t \notin threads \cup unborn

\* What has been attached to, and waited for, does not run; when the call is made nothing
\* does.
HoldInv ==
    /\ step = "start" => tidMap = {}
    /\ step \in {"attach", "wait"} => \A t \in tidMap : t \in halted \/ Gone(t)
    /\ step = "wait" => waited \notin unborn
    /\ AllStoppedAtCall
    /\ step \in CallSteps => threads \subseteq tidMap

\* While the goroutine stays on its OS thread: whom it traces, and that Detach is left
\* with all of them.
Stayed == "moved" \notin odd

TracerInv ==
    Stayed =>
        /\ \A t \in Tids : tracer[t] \in {0, osThread}
        /\ step \in {"start", "mapped"} => \A t \in Tids : tracer[t] = 0
        /\ step = "attach" => \A t \in Tids : tracer[t] # 0 => t \in tidMap
        /\ step = "wait" => \A t \in Tids : tracer[t] # 0 => t \in tidMap \cup {waited}
        /\ step = "detach" => \A t \in Tids : tracer[t] # 0 => t \in todo /\ t \in halted

\* ... and that only what has been changed is to be put back.
Changed == {"poke", "step", "result", "restore registers", "restore code"}

CodeInv ==
    Stayed /\ ~Gone(MainTid) =>
        /\ step \notin Changed => regs = "own" /\ code = "own"
        /\ step = "restore code" => regs = "own"

TraceInv == TraceTypes /\ HoldInv /\ TracerInv /\ CodeInv

LEMMA TargetSteps == TraceInv /\ (TargetStep \/ Moves) => TraceInv'
<1>1. ASSUME TraceInv, ThreadCreated PROVE TraceInv'
  <2>1. PICK t \in unborn : threads' = threads \cup {t} /\ unborn' = unborn \ {t}
    BY <1>1 DEF ThreadCreated
  <2>2. step \notin CallSteps /\ UNCHANGED <<tracer, halted, AgentVars>>
    BY <1>1 DEF ThreadCreated, TraceInv, TraceTypes, HoldInv, AllStoppedAtCall
  <2>. QED
    BY <1>1, <2>1, <2>2 DEF AgentVars, callVars, TraceInv, TraceTypes, HoldInv, TracerInv, CodeInv,
                            AllStoppedAtCall, Gone, Stayed, Changed
<1>2. ASSUME TraceInv, ThreadExits PROVE TraceInv'
  <2>1. PICK t \in threads \ (halted \cup {MainTid}) :
            threads' = threads \ {t} /\ tracer' = [tracer EXCEPT ![t] = 0]
    BY <1>2 DEF ThreadExits
  <2>2. UNCHANGED <<unborn, halted, AgentVars>>
    BY <1>2 DEF ThreadExits
  <2>3. /\ tracer' \in [Tids -> 0..2] /\ tracer'[t] = 0
        /\ \A u \in Tids : u # t => tracer'[u] = tracer[u]
    BY <1>2, <2>1 DEF TraceInv, TraceTypes
  <2>4. step' = step /\ step \notin CallSteps
    BY <2>1, <2>2, <1>2 DEF AgentVars, TraceInv, TraceTypes, HoldInv, AllStoppedAtCall
  <2>5. TraceTypes'
    BY <1>2, <2>1, <2>2, <2>3 DEF AgentVars, TraceInv, TraceTypes
  <2>6. HoldInv'
    BY <1>2, <2>1, <2>2, <2>4 DEF AgentVars, TraceInv, TraceTypes, HoldInv, AllStoppedAtCall, Gone
  <2>7. TracerInv'
    BY <1>2, <2>1, <2>2, <2>3 DEF AgentVars, TraceInv, TraceTypes, TracerInv, Stayed
  <2>8. CodeInv'
    BY <1>2, <2>1, <2>2 DEF AgentVars, callVars, TraceInv, CodeInv, Gone, Stayed
  <2>. QED
    BY <2>5, <2>6, <2>7, <2>8 DEF TraceInv
<1>3. ASSUME TraceInv, Killed PROVE TraceInv'
  <2>1. /\ threads' = {} /\ halted' = {} /\ tracer' = [t \in Tids |-> 0]
        /\ UNCHANGED <<unborn, AgentVars>>
    BY <1>3 DEF Killed
  <2>2. tracer' \in [Tids -> 0..2] /\ \A t \in Tids : tracer'[t] = 0
    BY <2>1
  <2>3. TraceTypes'
    BY <1>3, <2>1, <2>2 DEF AgentVars, TraceInv, TraceTypes
  <2>4. HoldInv'
    BY <1>3, <2>1 DEF AgentVars, TraceInv, TraceTypes, HoldInv, AllStoppedAtCall, Gone
  <2>5. TracerInv'
    BY <1>3, <2>1, <2>2 DEF AgentVars, TraceInv, TraceTypes, TracerInv, Stayed
  <2>6. CodeInv'
    BY <1>3, <2>1 DEF AgentVars, callVars, TraceInv, TraceTypes, CodeInv, Gone, Stayed
  <2>. QED
    BY <2>3, <2>4, <2>5, <2>6 DEF TraceInv
<1>4. ASSUME TraceInv, Stops PROVE TraceInv'
  <2>1. PICK t \in threads \ halted : tracer[t] # 0 /\ halted' = halted \cup {t}
    BY <1>4 DEF Stops
  <2>2. UNCHANGED <<targetVars, tracer, AgentVars>>
    BY <1>4 DEF Stops
  <2>. QED
    BY <1>4, <2>1, <2>2 DEF AgentVars, callVars, targetVars, TraceInv, TraceTypes, HoldInv, TracerInv,
                            CodeInv, AllStoppedAtCall, Gone, Stayed, Changed
<1>5. ASSUME TraceInv, Moves PROVE TraceInv'
  <2>1. /\ osThread' = 3 - osThread /\ ~Stayed'
        /\ UNCHANGED <<targetVars, traceVars, step, todo>>
    BY <1>5 DEF Moves, Stayed
  <2>2. TraceTypes'
    BY <1>5, <2>1 DEF targetVars, traceVars, TraceInv, TraceTypes
  <2>3. HoldInv'
    BY <1>5, <2>1 DEF targetVars, traceVars, TraceInv, HoldInv, AllStoppedAtCall, Gone
  <2>. QED
    BY <2>1, <2>2, <2>3 DEF TraceInv, TracerInv, CodeInv
<1>. QED
  BY <1>1, <1>2, <1>3, <1>4, <1>5 DEF TargetStep

LEMMA AttachSteps ==
    TraceInv /\ (Begin \/ ListThreads \/ \E t \in Tids : Attach(t) \/ AttachFails(t)) => TraceInv'
<1>1. ASSUME TraceInv, Begin PROVE TraceInv'
  BY <1>1 DEF Begin, targetVars, traceVars, callVars, TraceInv, TraceTypes, HoldInv, TracerInv, CodeInv,
              AllStoppedAtCall, CallSteps, Steps, Changed, Gone, Stayed
<1>2. ASSUME TraceInv, ListThreads PROVE TraceInv'
  <2>1. /\ step = "attach" /\ UNCHANGED <<threads, unborn, tracer, halted, osThread, regs, code, odd>>
        /\ waited' \in Tids /\ todo' \subseteq Tids /\ tidMap' \subseteq Tids
        /\ \/ step' = "failed"
           \/ step' = "attach" /\ UNCHANGED <<tidMap>>
           \/ step' = "protect" /\ tidMap' = threads /\ threads \subseteq tidMap
    BY <1>2, TracedAssumption DEF ListThreads, Fails, LocalsGone, Unattached, targetVars, callVars,
                                  TraceInv, TraceTypes
  <2>2. TraceTypes'
    BY <1>2, <2>1 DEF TraceInv, TraceTypes, Steps, CallSteps
  <2>3. HoldInv'
    BY <1>2, <2>1 DEF TraceInv, TraceTypes, HoldInv, AllStoppedAtCall, CallSteps, Gone
  <2>4. TracerInv' /\ CodeInv'
    BY <1>2, <2>1 DEF TraceInv, TracerInv, CodeInv, Gone, Stayed, Changed
  <2>. QED
    BY <2>2, <2>3, <2>4 DEF TraceInv
<1>3. ASSUME TraceInv, NEW t \in Tids, Attach(t) PROVE TraceInv'
  <2>1. /\ step = "attach" /\ step' = "wait" /\ waited' = t /\ t \in threads
        /\ todo' = todo \ {t} /\ UNCHANGED <<threads, unborn, halted, tidMap, osThread, regs, code, odd>>
    BY <1>3 DEF Attach, targetVars, callVars
  <2>2. /\ tracer' \in [Tids -> 0..2] /\ tracer'[t] = osThread
        /\ \A u \in Tids : u # t => tracer'[u] = tracer[u]
    BY <1>3 DEF Attach, TraceInv, TraceTypes
  <2>3. TraceTypes'
    BY <1>3, <2>1, <2>2 DEF TraceInv, TraceTypes, Steps
  <2>4. HoldInv'
    BY <1>3, <2>1 DEF TraceInv, TraceTypes, HoldInv, AllStoppedAtCall, CallSteps, Gone
  <2>5. TracerInv' /\ CodeInv'
    BY <1>3, <2>1, <2>2 DEF TraceInv, TracerInv, CodeInv, Gone, Stayed, Changed
  <2>. QED
    BY <2>3, <2>4, <2>5 DEF TraceInv
<1>4. ASSUME TraceInv, NEW t \in Tids, AttachFails(t) PROVE TraceInv'
  <2>1. /\ step = "attach" /\ UNCHANGED <<threads, unborn, tracer, halted, osThread, regs, code, odd>>
        /\ waited' \in Tids /\ todo' \subseteq Tids /\ tidMap' \subseteq Tids
        /\ step' = "failed" \/ (step' = "attach" /\ UNCHANGED <<tidMap>>)
    BY <1>4, TracedAssumption DEF AttachFails, Fails, LocalsGone, targetVars, callVars,
                                  TraceInv, TraceTypes
  <2>. QED
    BY <1>4, <2>1 DEF TraceInv, TraceTypes, HoldInv, TracerInv, CodeInv, AllStoppedAtCall, CallSteps,
                      Steps, Gone, Stayed, Changed
<1>. QED
  BY <1>1, <1>2, <1>3, <1>4

LEMMA WaitSteps == TraceInv /\ (Waited \/ WaitFails) => TraceInv'
<1>1. ASSUME TraceInv, Waited PROVE TraceInv'
  <2>1. /\ step = "wait" /\ step' = "attach" /\ tidMap' = tidMap \cup {waited}
        /\ waited \in halted \/ waited \notin threads
        /\ UNCHANGED <<threads, unborn, tracer, halted, waited, todo, osThread, regs, code, odd>>
    BY <1>1 DEF Waited, targetVars, callVars
  <2>. QED
    BY <1>1, <2>1 DEF TraceInv, TraceTypes, HoldInv, TracerInv, CodeInv, AllStoppedAtCall, CallSteps,
                      Steps, Gone, Stayed, Changed
<1>2. ASSUME TraceInv, WaitFails PROVE TraceInv'
  <2>1. /\ step' = "failed" /\ waited' \in Tids /\ todo' \subseteq Tids /\ tidMap' \subseteq Tids
        /\ UNCHANGED <<threads, unborn, osThread, regs, code, odd>>
        /\ step = "wait" /\ waited \in Tids
    BY <1>2, TracedAssumption DEF WaitFails, Fails, LocalsGone, targetVars, callVars, TraceInv, TraceTypes
  <2>2. /\ tracer' \in [Tids -> 0..2] /\ halted' \subseteq halted
        /\ \A t \in Tids : tracer'[t] \in {0, tracer[t]} /\ (t \in halted' => tracer'[t] = tracer[t])
    BY <1>2, <2>1 DEF WaitFails, Detached, TraceInv, TraceTypes
  <2>. QED
    BY <1>2, <2>1, <2>2 DEF TraceInv, TraceTypes, HoldInv, TracerInv, CodeInv, AllStoppedAtCall,
                            CallSteps, Steps, Gone, Stayed, Changed
<1>. QED
  BY <1>1, <1>2

\* A request for the main thread changes no thread's state, and can only fail, as long as
\* the goroutine stays, when the main thread is gone.
LEMMA Requests ==
    ASSUME TraceInv, NEW from \in CallSteps, NEW to \in CallSteps, Request(from, to),
           Stayed' <=> Stayed
    PROVE  /\ TraceTypes' /\ HoldInv' /\ TracerInv'
           /\ UNCHANGED <<threads, unborn>> /\ step = from
           /\ (Traced(MainTid) /\ step' = to) \/ (~Traced(MainTid) /\ step' = "detach")
           /\ Stayed /\ ~Gone(MainTid) => Traced(MainTid)
<1>1. /\ step = from /\ UNCHANGED <<threads, unborn, tracer, halted, waited, tidMap, osThread>>
      /\ \/ Traced(MainTid) /\ step' = to /\ UNCHANGED todo
         \/ ~Traced(MainTid) /\ step' = "detach" /\ todo' = tidMap
  BY DEF Request, targetVars, traceVars
<1>2. threads = halted /\ threads \subseteq tidMap
  BY <1>1 DEF TraceInv, TraceTypes, HoldInv, AllStoppedAtCall
<1>3. TraceTypes'
  BY <1>1 DEF TraceInv, TraceTypes, Steps
<1>4. HoldInv'
  BY <1>1, <1>2 DEF HoldInv, AllStoppedAtCall, CallSteps
<1>5. TracerInv'
  BY <1>1, <1>2 DEF TraceInv, TraceTypes, TracerInv, Stayed, CallSteps
<1>6. Stayed /\ ~Gone(MainTid) => Traced(MainTid)
  BY <1>2, TracedAssumption DEF TraceInv, TraceTypes, TracerInv, Gone, Traced
<1>. QED
  BY <1>1, <1>3, <1>4, <1>5, <1>6

LEMMA CallStepsKeep ==
    TraceInv /\ (Protect \/ SetRegs \/ Poke \/ Step \/ Result \/ RestoreRegs) => TraceInv'
<1>. USE DEF CallSteps
<1>1. ASSUME TraceInv, Protect PROVE TraceInv'
  <2>1. Request("protect", "set") /\ (Stayed' <=> Stayed) /\ UNCHANGED <<regs, code>>
    BY <1>1 DEF Protect, callVars, Stayed
  <2>. QED
    BY <1>1, <2>1, Requests DEF TraceInv, CodeInv, Gone, Changed
<1>2. ASSUME TraceInv, SetRegs PROVE TraceInv'
  <2>1. /\ Request("set", "poke") /\ (Stayed' <=> Stayed) /\ code' = code
        /\ ~Traced(MainTid) => regs' = regs
    BY <1>2 DEF SetRegs, IfTraced, Stayed
  <2>. QED
    BY <1>2, <2>1, Requests DEF TraceInv, CodeInv, Gone, Changed
<1>3. ASSUME TraceInv, Poke PROVE TraceInv'
  <2>1. Request("poke", "step") /\ (Stayed' <=> Stayed)
    BY <1>3 DEF Poke, Stayed
  <2>. QED
    BY <1>3, <2>1, Requests DEF TraceInv, CodeInv, Gone, Changed
<1>4. ASSUME TraceInv, Step PROVE TraceInv'
  <2>0. odd' = odd \/ odd' = odd \cup {"not mapped"}
    BY <1>4 DEF Step
  <2>1. Request("step", "result") /\ (Stayed' <=> Stayed)
    BY <1>4, <2>0 DEF Step, Stayed
  <2>. QED
    BY <1>4, <2>1, Requests DEF TraceInv, CodeInv, Gone, Changed
<1>5. ASSUME TraceInv, Result PROVE TraceInv'
  <2>1. Request("result", "restore registers") /\ (Stayed' <=> Stayed)
    BY <1>5 DEF Result, RegistersFirst, Stayed
  <2>. QED
    BY <1>5, <2>1, Requests DEF TraceInv, CodeInv, Gone, Changed
<1>6. ASSUME TraceInv, RestoreRegs PROVE TraceInv'
  <2>1. /\ Request("restore registers", "restore code") /\ (Stayed' <=> Stayed)
        /\ Traced(MainTid) => regs' = "own"
    BY <1>6 DEF RestoreRegs, IfTraced, Stayed
  <2>. QED
    BY <1>6, <2>1, Requests DEF TraceInv, CodeInv, Gone, Changed
<1>. QED
  BY <1>1, <1>2, <1>3, <1>4, <1>5, <1>6

LEMMA DetachSteps ==
    TraceInv /\ (RestoreCode \/ AllDetached \/ \E t \in Tids : Detach(t)) => TraceInv'
<1>1. ASSUME TraceInv, RestoreCode PROVE TraceInv'
  <2>1. /\ step = "restore code" /\ step' = "detach" /\ todo' = tidMap
        /\ UNCHANGED <<threads, unborn, tracer, halted, waited, tidMap, osThread, regs, odd>>
        /\ Traced(MainTid) => code' = "own"
    BY <1>1 DEF RestoreCode, AllAttached, targetVars, traceVars
  <2>2. threads = halted /\ threads \subseteq tidMap
    BY <1>1, <2>1 DEF TraceInv, TraceTypes, HoldInv, AllStoppedAtCall, CallSteps
  <2>3. TraceTypes'
    BY <1>1, <2>1 DEF TraceInv, TraceTypes, Steps
  <2>4. HoldInv'
    BY <2>1 DEF HoldInv, AllStoppedAtCall, CallSteps
  <2>5. TracerInv'
    BY <1>1, <2>1, <2>2 DEF TraceInv, TraceTypes, TracerInv, Stayed
  <2>6. Stayed /\ ~Gone(MainTid) => Traced(MainTid)
    BY <1>1, <2>2, TracedAssumption DEF TraceInv, TraceTypes, TracerInv, Gone, Traced
  <2>7. CodeInv'
    BY <1>1, <2>1, <2>6 DEF TraceInv, CodeInv, Gone, Stayed, Changed
  <2>. QED
    BY <2>3, <2>4, <2>5, <2>7 DEF TraceInv
<1>2. ASSUME TraceInv, NEW t \in Tids, Detach(t) PROVE TraceInv'
  <2>1. /\ step = "detach" /\ t \in todo /\ todo' = todo \ {t}
        /\ UNCHANGED <<threads, unborn, waited, tidMap, osThread, step, regs, code, odd>>
    BY <1>2 DEF Detach, targetVars, callVars
  <2>2. /\ tracer' \in [Tids -> 0..2]
        /\ halted' \subseteq halted /\ \A u \in Tids : u # t => (u \in halted => u \in halted')
        /\ \A u \in Tids : u # t => tracer'[u] = tracer[u]
        /\ tracer'[t] \in {0, tracer[t]} /\ (t \in halted' => tracer'[t] = tracer[t])
        /\ Traced(t) => tracer'[t] = 0
    BY <1>2 DEF Detach, Detached, TraceInv, TraceTypes
  <2>3. TraceTypes'
    BY <1>2, <2>1, <2>2 DEF TraceInv, TraceTypes
  <2>4. HoldInv'
    BY <2>1 DEF HoldInv, AllStoppedAtCall, CallSteps
  <2>5. Stayed => tracer'[t] = 0
    BY <1>2, <2>1, <2>2 DEF TraceInv, TracerInv, Traced
  <2>6. TracerInv'
    BY <1>2, <2>1, <2>2, <2>5 DEF TraceInv, TracerInv, Stayed
  <2>7. CodeInv'
    BY <1>2, <2>1 DEF TraceInv, CodeInv, Gone, Stayed, Changed
  <2>. QED
    BY <2>3, <2>4, <2>6, <2>7 DEF TraceInv
<1>3. ASSUME TraceInv, AllDetached PROVE TraceInv'
  <2>1. /\ step = "detach" /\ todo = {} /\ step' \in {"failed", "mapped"}
        /\ waited' \in Tids /\ todo' = {} /\ tidMap' = {}
        /\ UNCHANGED <<threads, unborn, tracer, halted, osThread, regs, code, odd>>
    BY <1>3, TracedAssumption DEF AllDetached, LocalsGone, targetVars, callVars
  <2>. QED
    BY <1>3, <2>1 DEF TraceInv, TraceTypes, HoldInv, TracerInv, CodeInv, AllStoppedAtCall, CallSteps,
                      Steps, Gone, Stayed, Changed
<1>. QED
  BY <1>1, <1>2, <1>3

LEMMA TraceSteps == TraceInv /\ (Trace \/ TargetStep \/ Moves) => TraceInv'
BY TargetSteps, AttachSteps, WaitSteps, CallStepsKeep, DetachSteps DEF Trace

-------------------------------------------------------------------------------
(* The agent and its target.                                                *)

Ended == {"returned", "panicked"}
Loaded == {"loading", "serving", "tracing", "closing"}

\* Where the tracing is in each phase of the agent; the kernel has released what an agent
\* that has ended traced.
BoundInv ==
    /\ main \in {"discovering"} \cup Ended => halted = {} /\ \A t \in Tids : tracer[t] = 0
    /\ main = "discovering" => step = "start"
    /\ main \in Ended => step \in {"start", "failed", "mapped"}
    /\ main \in Loaded => step = "mapped"

AgentTargetInv == LifeInv /\ TraceInv /\ BoundInv

LifeSteps ==
    \/ Analyzing \/ Loading \/ TraceDone \/ CleanupDone \/ \E i \in Instrumentors : Close(i)
    \/ Discover \/ DiscoverInterrupted
    \/ GetSignal \/ SignalGoroutine
    \/ \E i \in Instrumentors : Register(i)
    \/ Handle \/ SendPanics \/ ReceiveEvent \/ ReceiveDone

\* How a step of the agent's life changes its phase: it never ends amid the tracing.
LEMMA Phase ==
    ASSUME AgentTargetInv, LifeSteps
    PROVE  \/ main' = main /\ main \notin Ended
           \/ main \in Loaded /\ main' \in Loaded
           \/ main' \in Ended /\ step \in {"start", "failed", "mapped"}
           \/ main = "analyzing" /\ main' = "loading" /\ step = "mapped"
           \/ main = "discovering" /\ main' = "analyzing"
<1>. USE DEF Ended, Loaded
<1>1. CASE Analyzing
  BY <1>1 DEF Analyzing, AnalyzeFails, Analyze, Return
<1>2. CASE Loading
  BY <1>2 DEF Loading, LoadFailsEarly, Serve, Load, LoadFails, Cleanup, Return, AgentTargetInv, BoundInv
<1>3. CASE TraceDone \/ CleanupDone \/ \E i \in Instrumentors : Close(i)
  BY <1>3 DEF TraceDone, CleanupDone, Close, Return, AgentTargetInv, BoundInv
<1>4. CASE Discover \/ DiscoverInterrupted
  BY <1>4 DEF Discover, DiscoverInterrupted, Return, AgentTargetInv, BoundInv
<1>5. CASE GetSignal \/ SignalGoroutine \/ Handle \/ \E i \in Instrumentors : Register(i)
  BY <1>5 DEF GetSignal, SignalGoroutine, CloseAnalyzer, CloseManager, Handle, Register, Running, Started
<1>6. CASE SendPanics
  BY <1>6 DEF SendPanics, Running, AgentTargetInv, BoundInv, LifeInv, HandlerInv
<1>7. CASE ReceiveEvent \/ ReceiveDone
  BY <1>7 DEF ReceiveEvent, ReceiveDone, Cleanup
<1>. QED
  BY <1>1, <1>2, <1>3, <1>4, <1>5, <1>6, <1>7 DEF LifeSteps

LEMMA LifeKeepsTarget ==
    ASSUME AgentTargetInv, LifeSteps, TargetOf
    PROVE  TraceInv' /\ BoundInv'
<1>1. UNCHANGED <<threads, unborn, osThread, step, waited, todo, tidMap, regs, code, odd>>
  BY DEF TargetOf, targetVars, callVars
<1>2. CASE main' \in Ended
  <2>1. /\ halted' = {} /\ tracer' \in [Tids -> 0..2] /\ \A t \in Tids : tracer'[t] = 0
        /\ step \in {"start", "failed", "mapped"}
    BY <1>2, Phase DEF TargetOf, Ended, Loaded
  <2>2. TraceInv'
    BY <1>1, <2>1 DEF AgentTargetInv, TraceInv, TraceTypes, HoldInv, TracerInv, CodeInv, AllStoppedAtCall,
                      CallSteps, Gone, Stayed
  <2>3. BoundInv'
    BY <1>1, <1>2, <2>1 DEF BoundInv, Ended, Loaded
  <2>. QED
    BY <2>2, <2>3
<1>3. CASE main' \notin Ended
  <2>1. UNCHANGED <<halted, tracer>>
    BY <1>3 DEF TargetOf, Ended
  <2>2. TraceInv'
    BY <1>1, <2>1 DEF AgentTargetInv, TraceInv, TraceTypes, HoldInv, TracerInv, CodeInv, AllStoppedAtCall,
                      Gone, Stayed
  <2>3. BoundInv'
    BY <1>1, <1>3, <2>1, Phase DEF AgentTargetInv, BoundInv, Ended, Loaded
  <2>. QED
    BY <2>2, <2>3
<1>. QED
  BY <1>2, <1>3

LEMMA AgentTargetStep == AgentTargetInv /\ [AgentNext]_agentVars => AgentTargetInv'
<1>. SUFFICES ASSUME AgentTargetInv, [AgentNext]_agentVars PROVE TraceInv' /\ BoundInv'
  BY LifeOfComposition DEF AgentTargetInv
<1>1. CASE LifeSteps /\ TargetOf
  BY <1>1, LifeKeepsTarget
<1>2. CASE main = "analyzing" /\ (Trace \/ TargetStep \/ Moves) /\ UNCHANGED vars
  BY <1>2, TraceSteps DEF AgentTargetInv, vars, BoundInv, Ended, Loaded
<1>3. CASE UNCHANGED <<vars, tracedVars>>
  BY <1>3 DEF vars, tracedVars, AgentTargetInv, TraceInv, TraceTypes, HoldInv, TracerInv, CodeInv,
              AllStoppedAtCall, Gone, Stayed, BoundInv
<1>4. CASE Restart
  <2>1. /\ main \in Ended /\ main' = "discovering" /\ osThread' = 1 /\ step' = "start"
        /\ waited' = MainTid /\ todo' = {} /\ tidMap' = {} /\ odd' = odd \ {"not mapped"}
        /\ UNCHANGED <<threads, unborn, tracer, halted, regs, code>>
    BY <1>4 DEF Restart, Running, LocalsGone, Ended, targetVars
  <2>2. halted = {} /\ \A t \in Tids : tracer[t] = 0
    BY <2>1 DEF AgentTargetInv, BoundInv
  <2>3. step \in {"start", "failed", "mapped"}
    BY <2>1 DEF AgentTargetInv, BoundInv
  <2>4. TraceTypes'
    <3>1. TraceTypes
      BY DEF AgentTargetInv, TraceInv
    <3>2. waited' \in Tids
      BY <2>1, TracedAssumption, Zenon
    <3>3. osThread' \in 1..2
      <4>1. osThread' = 1
        BY <2>1, Zenon
      <4>. QED
        BY <4>1
    <3>4. step' \in Steps
      BY <2>1 DEF Steps
    <3>. QED
      BY <2>1, <3>1, <3>2, <3>3, <3>4 DEF TraceTypes
  <2>7. HoldInv'
    BY <2>1 DEF HoldInv, AllStoppedAtCall, CallSteps
  <2>5. TracerInv' /\ BoundInv'
    BY <2>1, <2>2 DEF TracerInv, BoundInv, Ended, Loaded
  <2>6. CodeInv'
    BY <2>1, <2>3 DEF AgentTargetInv, TraceInv, CodeInv, Stayed, Gone, Changed
  <2>. QED
    BY <2>4, <2>5, <2>6, <2>7 DEF TraceInv
<1>. QED
  BY <1>1, <1>2, <1>3, <1>4 DEF AgentNext, MainStep, Mount, Interrupted, OthersStep, World, NoAgentLeft,
                                LifeSteps, agentVars

LEMMA AgentTargetInitially == AgentInit => AgentTargetInv
<1>. SUFFICES ASSUME AgentInit PROVE AgentTargetInv
  OBVIOUS
<1>1. LifeInv
  BY LifeInit DEF AgentInit
<1>2. TraceInv
  <2>1. /\ threads \subseteq Tids /\ MainTid \in threads /\ unborn = Tids \ threads
        /\ tracer = [t \in Tids |-> 0] /\ halted = {} /\ osThread = 1 /\ step = "start"
        /\ waited = MainTid /\ todo = {} /\ tidMap = {} /\ regs = "own" /\ code = "own"
    BY DEF AgentInit, TracedInit
  <2>2. TraceTypes
    BY <2>1 DEF TraceTypes, Steps
  <2>3. HoldInv /\ TracerInv /\ CodeInv
    BY <2>1 DEF HoldInv, TracerInv, CodeInv, AllStoppedAtCall, CallSteps
  <2>. QED
    BY <2>2, <2>3 DEF TraceInv
<1>3. BoundInv
  BY DEF AgentInit, TracedInit, Init, BoundInv, Ended, Loaded
<1>. QED
  BY <1>1, <1>2, <1>3 DEF AgentTargetInv

LEMMA AgentTargetInvariant == AgentSpec => []AgentTargetInv
BY AgentTargetInitially, AgentTargetStep, PTL DEF AgentSpec

\* NewTracedProgram returns only when no thread of the target runs, and none does until the
\* call in its main thread is over.
THEOREM AllStoppedCorrect == AgentSpec => []AllStoppedAtCall
<1>1. AgentTargetInv => AllStoppedAtCall
  BY DEF AgentTargetInv, TraceInv, HoldInv
<1>. QED
  BY <1>1, AgentTargetInvariant, PTL

\* Syscall and Restore leave the main thread as it was before it runs again, if the
\* goroutine stays on its OS thread.
THEOREM OwnCodeCorrect == AgentSpec => []RunsOwnCode
<1>1. AgentTargetInv => RunsOwnCode
  BY DEF AgentTargetInv, TraceInv, HoldInv, CodeInv, AllStoppedAtCall, CallSteps, Changed, RunsOwnCode,
         Gone, Stayed
<1>. QED
  BY <1>1, AgentTargetInvariant, PTL

\* Detach, and the end of an agent that could not attach, let all threads go, if the
\* goroutine stays on its OS thread.
THEOREM StoppedCorrect == AgentSpec => []StoppedOnlyWhileAnalyzed
<1>1. ASSUME AgentTargetInv PROVE StoppedOnlyWhileAnalyzed
  <2>1. main \in Phases
    BY <1>1 DEF AgentTargetInv, LifeInv, TypeOK
  <2>2. CASE main \in {"discovering"} \cup Ended
    BY <1>1, <2>2 DEF AgentTargetInv, BoundInv, StoppedOnlyWhileAnalyzed
  <2>3. CASE main \in Loaded /\ Stayed
    <3>1. \A t \in Tids : tracer[t] = 0
      BY <1>1, <2>3 DEF AgentTargetInv, BoundInv, TraceInv, TracerInv
    <3>. QED
      BY <1>1, <3>1 DEF AgentTargetInv, TraceInv, TraceTypes, StoppedOnlyWhileAnalyzed
  <2>. QED
    BY <2>1, <2>2, <2>3 DEF Phases, Ended, Loaded, Stayed, StoppedOnlyWhileAnalyzed
<1>. QED
  BY <1>1, AgentTargetInvariant, PTL

-------------------------------------------------------------------------------
(* The address.                                                             *)

NotMapped == "not mapped" \in odd

\* Where the call's result is in each step: in the result register once the instruction has
\* been executed, kept before the registers are restored, and never given to the allocator
\* after a failure.
AddrInv ==
    /\ step = "result" => rax = "area" \/ NotMapped
    /\ step \in {"restore registers", "restore code", "mapped"} => addr = "area" \/ NotMapped
    /\ step = "detach" => failure \/ addr = "area" \/ NotMapped

LEMMA TraceKeepsAddr == AddrInv /\ Trace => AddrInv'
<1>. SUFFICES ASSUME AddrInv, Trace PROVE AddrInv'
  OBVIOUS
<1>. USE DEF AddrInv, NotMapped
<1>1. CASE Begin \/ Waited \/ WaitFails
  BY <1>1 DEF Begin, Waited, WaitFails, Fails
<1>2. CASE ListThreads
  BY <1>2 DEF ListThreads, Fails
<1>3. CASE \E t \in Tids : Attach(t) \/ AttachFails(t)
  BY <1>3 DEF Attach, AttachFails, Fails
<1>4. CASE \E t \in Tids : Detach(t)
  <2>1. UNCHANGED <<step, rax, addr, failure, odd>>
    BY <1>4 DEF Detach, callVars
  <2>. QED
    BY <2>1
<1>5. CASE Protect \/ SetRegs \/ Poke
  BY <1>5 DEF Protect, SetRegs, Poke, Request
<1>6. CASE Step
  BY <1>6 DEF Step, Request
<1>7. CASE Result
  BY <1>7 DEF Result, Request, RegistersFirst, IfTraced, ReadAgain
<1>8. CASE RestoreRegs
  BY <1>8 DEF RestoreRegs, Request
<1>9. CASE RestoreCode \/ AllDetached
  BY <1>9 DEF RestoreCode, AllDetached, callVars
<1>. QED
  BY <1>1, <1>2, <1>3, <1>4, <1>5, <1>6, <1>7, <1>8, <1>9 DEF Trace

LEMMA AddrStep == AddrInv /\ [AgentNext]_agentVars => AddrInv'
<1>. SUFFICES ASSUME AddrInv, [AgentNext]_agentVars PROVE AddrInv'
  OBVIOUS
<1>1. CASE Trace
  BY <1>1, TraceKeepsAddr
<1>2. CASE TargetOf
  BY <1>2 DEF TargetOf, callVars, AddrInv, NotMapped
<1>3. CASE TargetStep
  BY <1>3 DEF TargetStep, ThreadCreated, ThreadExits, Killed, Stops, AgentVars, callVars, AddrInv, NotMapped
<1>4. CASE Moves
  BY <1>4 DEF Moves, callVars, AddrInv, NotMapped
<1>5. CASE Restart
  BY <1>5 DEF Restart, AddrInv
<1>6. CASE UNCHANGED tracedVars
  BY <1>6 DEF tracedVars, AddrInv, NotMapped
<1>. QED
  BY <1>1, <1>2, <1>3, <1>4, <1>5, <1>6 DEF AgentNext, MainStep, Mount, Interrupted, OthersStep, World,
                                            NoAgentLeft, agentVars

\* remoteMmap hands over no result of a call that was not made, and none that was read before
\* the call or from a register already restored, whichever step of it fails.
THEOREM AreaCorrect == AgentSpec => []AreaIsMapped
<1>1. AgentInit => AddrInv
  BY DEF AgentInit, TracedInit, AddrInv
<1>2. AgentTargetInv /\ AddrInv => AreaIsMapped
  BY DEF AgentTargetInv, BoundInv, Loaded, AddrInv, NotMapped, AreaIsMapped
<1>. QED
  BY <1>1, <1>2, AddrStep, AgentTargetInvariant, PTL DEF AgentSpec

-------------------------------------------------------------------------------
(* Types.                                                                   *)

\* A finite set of numbers has a greatest one: otherwise a smallest set that has none,
\* less one of its elements, has one.
LEMMA Greatest ==
    ASSUME NEW S \in SUBSET Nat, IsFiniteSet(S), S # {}
    PROVE  \E m \in S : \A n \in S : n <= m
<1>. DEFINE Unbounded == {T \in SUBSET S : T # {} /\ ~ \E m \in T : \A n \in T : n <= m}
<1>. SUFFICES ASSUME Unbounded # {} PROVE FALSE
  <2>1. S \notin Unbounded => \E m \in S : \A n \in S : n <= m
    OBVIOUS
  <2>. QED
    BY <2>1
<1>1. Unbounded \subseteq FiniteSubsetsOf(S)
  <2>1. ASSUME NEW T \in Unbounded PROVE T \in SUBSET S /\ IsFiniteSet(T)
    BY <2>1, FS_Subset
  <2>. QED
    BY <2>1 DEF FiniteSubsetsOf
<1>2. PICK T \in Unbounded : \A U \in Unbounded : <<U, T>> \notin StrictSubsetOrdering(S)
  <2>. HIDE DEF Unbounded
  <2>. QED
    BY <1>1, FS_StrictSubsetOrderingWellFounded, WFMin
<1>3. PICK x \in T : TRUE
  OBVIOUS
<1>. DEFINE U == T \ {x}
<1>4. U \notin Unbounded
  BY <1>2, <1>3 DEF StrictSubsetOrdering
<1>5. CASE U = {}
  BY <1>3, <1>5
<1>6. CASE U # {}
  <2>1. PICK m \in U : \A n \in U : n <= m
    BY <1>4, <1>6
  <2>2. x \in Nat /\ m \in Nat /\ T \subseteq Nat /\ m \in T
    BY <1>3
  <2>3. \A n \in T : n <= (IF m <= x THEN x ELSE m)
    <3>. TAKE n \in T
    <3>1. n = x \/ n <= m
      BY <2>1
    <3>2. n \in Nat
      BY <2>2
    <3>. QED
      BY <2>2, <3>1, <3>2
  <2>4. (IF m <= x THEN x ELSE m) \in T
    BY <2>2
  <2>. QED
    BY <2>3, <2>4
<1>. QED
  BY <1>5, <1>6

LEMMA Bounds ==
    /\ RetryLimit \in Nat /\ RetryLimit >= 1 /\ MaxAgents \in Nat /\ MaxAgents >= 1
    /\ MainTid \in Tids
    /\ \A n \in 0..RetryLimit : n < RetryLimit => n + 1 \in 0..RetryLimit
    /\ [t \in Tids |-> 0] \in [Tids -> 0..RetryLimit]
<1>1. RetryLimit \in Nat /\ RetryLimit # 0 /\ MainTid \in Tids
  BY TracedAssumption
<1>2. MaxAgents \in Nat /\ MaxAgents # 0
  BY AgentsAssumption
<1>. QED
  BY <1>1, <1>2

ProcessTypes ==
    DiscoveryTypeOK /\ agent \in 1..MaxAgents /\ mounted \in BOOLEAN /\ directory \in 0..MaxAgents

LEMMA ScanTypes == DiscoveryTypeOK /\ Scan => DiscoveryTypeOK'
<1>. SUFFICES ASSUME DiscoveryTypeOK, Scan PROVE DiscoveryTypeOK'
  OBVIOUS
<1>. USE DEF DiscoveryTypeOK
<1>1. CASE Tick
  BY <1>1 DEF Tick
<1>2. CASE ReadBatch
  <2>1. CASE Entries = {}
    BY <1>2, <2>1 DEF ReadBatch
  <2>2. CASE Entries # {}
    <3>1. Entries \subseteq Pids
      BY DEF Entries
    <3>2. Pids \subseteq Nat /\ IsFiniteSet(Pids)
      BY DiscoveryAssumption, FS_AddElement DEF Pids
    <3>3. IsFiniteSet(Entries) /\ Entries \in SUBSET Nat
      BY <3>1, <3>2, FS_Subset
    <3>4. PICK m \in Entries : \A n \in Entries : n <= m
      BY <2>2, <3>3, Greatest
    <3>5. m + 1 \in {p + 1 : p \in Entries} /\ \A p \in Entries : p < m + 1
      BY <3>3, <3>4
    <3>6. After(Entries) \in {p + 1 : p \in Entries}
      BY <3>5 DEF After
    <3>7. After(Entries) \in Nat
      BY <3>3, <3>6
    <3>. QED
      BY <1>2, <2>2, <3>1, <3>7 DEF ReadBatch
  <2>. QED
    BY <2>1, <2>2
<1>3. CASE Look
  BY <1>3 DEF Look
<1>. QED
  BY <1>1, <1>2, <1>3 DEF Scan

LEMMA ProcessStep == ProcessTypes /\ [AgentNext]_agentVars => ProcessTypes'
<1>. SUFFICES ASSUME ProcessTypes, [AgentNext]_agentVars PROVE ProcessTypes'
  OBVIOUS
<1>1. CASE Mount
  BY <1>1, Bounds DEF Mount, ProcessTypes, DiscoveryTypeOK, discoveryVars
<1>2. CASE TargetOf /\ UNCHANGED <<mounted, directory>>
  BY <1>2 DEF TargetOf, ProcessTypes, DiscoveryTypeOK, discoveryVars
<1>3. CASE Scan /\ UNCHANGED <<agent, mounted, directory>>
  BY <1>3, ScanTypes DEF ProcessTypes
<1>4. CASE (ProcessStarts \/ ProcessEnds) /\ UNCHANGED <<agent, mounted, directory>>
  BY <1>4 DEF ProcessStarts, ProcessEnds, ProcessTypes, DiscoveryTypeOK, Pids
<1>5. CASE Restart
  <2>1. agent' = agent + 1 /\ agent < MaxAgents /\ mounted' = FALSE /\ directory' = directory
    BY <1>5 DEF Restart
  <2>2. alive' = alive /\ place' = 0 /\ listed' = {} /\ found' = 0
    BY <1>5 DEF Restart
  <2>3. DiscoveryTypeOK'
    BY <2>2 DEF ProcessTypes, DiscoveryTypeOK
  <2>4. agent' \in 1..MaxAgents /\ mounted' \in BOOLEAN /\ directory' \in 0..MaxAgents
    <3>1. agent \in 1..MaxAgents /\ directory \in 0..MaxAgents /\ MaxAgents \in Nat
      BY Bounds DEF ProcessTypes
    <3>2. \A n \in 1..MaxAgents : n < MaxAgents => n + 1 \in 1..MaxAgents
      BY <3>1
    <3>. QED
      BY <2>1, <3>1, <3>2
  <2>. QED
    BY <2>3, <2>4 DEF ProcessTypes
<1>6. CASE UNCHANGED <<discoveryVars, agent, mounted, directory>>
  BY <1>6 DEF ProcessTypes, DiscoveryTypeOK, discoveryVars
<1>. QED
  BY <1>1, <1>2, <1>3, <1>4, <1>5, <1>6 DEF AgentNext, MainStep, Interrupted, OthersStep, World,
                                            NoAgentLeft, agentVars

LEMMA ProcessInvariant == AgentSpec => []ProcessTypes
<1>1. AgentInit => ProcessTypes
  <2>1. AgentInit => DiscoveryTypeOK
    BY DEF AgentInit, DiscoveryInit, DiscoveryTypeOK
  <2>2. AgentInit => agent = 1 /\ mounted = FALSE /\ directory = 0
    BY DEF AgentInit
  <2>3. 1 \in 1..MaxAgents /\ 0 \in 0..MaxAgents
    BY Bounds
  <2>. QED
    BY <2>1, <2>2, <2>3 DEF ProcessTypes
<1>. QED
  BY <1>1, ProcessStep, PTL DEF AgentSpec

CallTypes ==
    /\ retryCount \in [Tids -> 0..RetryLimit]
    /\ regs \in {"own", "call"} /\ code \in {"own", "call"}
    /\ rax \in {"own", "number", "area", "error"} /\ addr \in {"none", "number", "area", "error"}
    /\ step \in {"poke", "step", "result"} => rax # "own"
    /\ failure \in BOOLEAN /\ odd \subseteq {"moved", "not mapped"}

LEMMA TraceKeepsTypes == CallTypes /\ Trace => CallTypes'
<1>. SUFFICES ASSUME CallTypes, Trace PROVE CallTypes'
  OBVIOUS
<1>. USE DEF CallTypes
<1>1. CASE Begin \/ Waited
  BY <1>1 DEF Begin, Waited, callVars, traceVars
<1>2. CASE ListThreads \/ AllDetached \/ WaitFails
  <2>1. UNCHANGED <<callVars, failure, odd>>
    BY <1>2 DEF ListThreads, AllDetached, WaitFails
  <2>2. retryCount' = retryCount \/ retryCount' = [t \in Tids |-> 0]
    BY <1>2 DEF ListThreads, AllDetached, WaitFails, Fails, LocalsGone
  <2>3. [t \in Tids |-> 0] \in [Tids -> 0..RetryLimit]
    BY Bounds
  <2>4. step' \in {"attach", "protect", "failed", "mapped"}
    BY <1>2 DEF ListThreads, AllDetached, WaitFails, Fails
  <2>. QED
    BY <2>1, <2>2, <2>3, <2>4 DEF callVars
<1>3. CASE \E t \in Tids : Attach(t)
  <2>1. UNCHANGED <<retryCount, callVars, failure, odd>> /\ step' = "wait"
    BY <1>3 DEF Attach
  <2>. QED
    BY <2>1 DEF callVars
<1>4. CASE \E t \in Tids : AttachFails(t)
  <2>1. UNCHANGED <<callVars, failure, odd>>
    BY <1>4 DEF AttachFails
  <2>2. retryCount' \in [Tids -> 0..RetryLimit]
    <3>1. PICK t \in Tids : AttachFails(t)
      BY <1>4
    <3>2. [u \in Tids |-> 0] \in [Tids -> 0..RetryLimit]
      BY Bounds
    <3>3. CASE GiveUp(t)
      BY <3>1, <3>2, <3>3 DEF AttachFails, Fails, LocalsGone
    <3>4. CASE ~GiveUp(t)
      <4>1. retryCount' = [retryCount EXCEPT ![t] = IF @ < RetryLimit THEN @ + 1 ELSE @]
        BY <3>1, <3>4 DEF AttachFails
      <4>2. retryCount[t] \in 0..RetryLimit
        OBVIOUS
      <4>. QED
        BY <4>1, <4>2, Bounds
    <3>. QED
      BY <3>3, <3>4
  <2>3. step' \in {"attach", "failed"}
    BY <1>4 DEF AttachFails, Fails
  <2>. QED
    BY <2>1, <2>2, <2>3 DEF callVars
<1>5. CASE \E t \in Tids : Detach(t)
  <2>1. UNCHANGED <<retryCount, callVars, failure, odd, step>>
    BY <1>5 DEF Detach
  <2>. QED
    BY <2>1 DEF callVars
<1>6. CASE Protect \/ SetRegs \/ Poke
  BY <1>6 DEF Protect, SetRegs, Poke, Request, IfTraced, callVars, traceVars
<1>7. CASE Step
  BY <1>7 DEF Step, Request, traceVars
<1>8. CASE Result
  BY <1>8 DEF Result, Request, RegistersFirst, IfTraced, ReadAgain, traceVars
<1>9. CASE RestoreRegs \/ RestoreCode
  BY <1>9 DEF RestoreRegs, RestoreCode, Request, IfTraced, traceVars
<1>. QED
  BY <1>1, <1>2, <1>3, <1>4, <1>5, <1>6, <1>7, <1>8, <1>9 DEF Trace

LEMMA CallTypesStep == CallTypes /\ [AgentNext]_agentVars => CallTypes'
<1>. SUFFICES ASSUME CallTypes, [AgentNext]_agentVars PROVE CallTypes'
  OBVIOUS
<1>1. CASE Trace
  BY <1>1, TraceKeepsTypes
<1>2. CASE TargetOf
  BY <1>2 DEF TargetOf, callVars, CallTypes
<1>3. CASE TargetStep
  BY <1>3 DEF TargetStep, ThreadCreated, ThreadExits, Killed, Stops, AgentVars, callVars, CallTypes
<1>4. CASE Moves
  BY <1>4 DEF Moves, traceVars, callVars, CallTypes
<1>5. CASE Restart
  <2>1. /\ retryCount' = [t \in Tids |-> 0] /\ step' = "start"
        /\ addr' = "none" /\ failure' = FALSE /\ odd' \subseteq odd /\ UNCHANGED <<regs, code, rax>>
    BY <1>5 DEF Restart, LocalsGone
  <2>2. [t \in Tids |-> 0] \in [Tids -> 0..RetryLimit]
    BY Bounds
  <2>. QED
    BY <2>1, <2>2 DEF CallTypes
<1>6. CASE UNCHANGED tracedVars
  BY <1>6 DEF tracedVars, CallTypes
<1>. QED
  BY <1>1, <1>2, <1>3, <1>4, <1>5, <1>6 DEF AgentNext, MainStep, Mount, Interrupted, OthersStep, World,
                                            NoAgentLeft, agentVars

\* The types of the composition: among them that only threads of the target are held, that no
\* attempt to attach is counted beyond the limit, and that a scan always knows its place.
THEOREM AgentTypesCorrect == AgentSpec => []AgentTypeOK
<1>1. AgentInit => CallTypes
  <2>1. [t \in Tids |-> 0] \in [Tids -> 0..RetryLimit]
    BY Bounds
  <2>. QED
    BY <2>1 DEF AgentInit, TracedInit, CallTypes
<1>2. ASSUME AgentTargetInv, ProcessTypes, CallTypes PROVE AgentTypeOK
  <2>1. TypeOK
    BY <1>2 DEF AgentTargetInv, LifeInv
  <2>2. TraceTypes /\ Steps = CallSteps \cup {"start", "attach", "wait", "detach", "mapped", "failed"}
    BY <1>2 DEF AgentTargetInv, TraceInv, Steps
  <2>3. halted \subseteq {t \in threads : tracer[t] # 0}
    BY <2>2 DEF TraceTypes
  <2>4. TracedTypeOK
    BY <1>2, <2>2, <2>3 DEF TraceTypes, CallTypes, TracedTypeOK
  <2>. QED
    BY <1>2, <2>1, <2>4 DEF ProcessTypes, AgentTypeOK
<1>. QED
  BY <1>1, <1>2, ProcessInvariant, CallTypesStep, AgentTargetInvariant, PTL DEF AgentSpec

-------------------------------------------------------------------------------
(* A scan of /proc: the safety half of TargetIsFound.                       *)

\* The scan has yet to come to the target.
Ahead == place > 0 /\ (place <= Target \/ Target \in listed)

\* A scan that begins, or has not come to the target yet, comes no nearer to its end without it:
\* unless it finds it, or is aborted because another process that it has listed is gone.
NotPassedOver ==
    main = "discovering" /\ Target \in alive /\ (Ahead \/ (place = 0 /\ place' # 0)) =>
        Ahead' \/ found' = Target \/ (place' = 0 /\ ~(listed \subseteq alive))

\* A scan that goes on moves its place in the directory beyond a process, or has one less to look at.
Advances ==
    main = "discovering" /\ place > 0 /\ UNCHANGED <<main, alive>> /\ (place' # place \/ listed' # listed) =>
        \/ place' = 0
        \/ place' > place /\ place' \in {p + 1 : p \in Pids}
        \/ place' = place /\ Cardinality(listed') < Cardinality(listed)

\* The first batch from a place on is not empty if there is a process from there on.
LEMMA SomeEntry ==
    ASSUME DiscoveryTypeOK, NEW t \in alive, place <= t
    PROVE  Entries # {}
<1>. DEFINE Below(p) == {q \in alive : place <= q /\ q < p}
            Segments == {Below(p) : p \in {q \in alive : place <= q}}
<1>1. alive \subseteq Nat /\ alive \subseteq Pids /\ IsFiniteSet(Pids) /\ place \in Nat
  BY DiscoveryAssumption, FS_AddElement DEF DiscoveryTypeOK, Pids
<1>2. Segments \subseteq FiniteSubsetsOf(Pids) /\ Segments # {}
  <2>1. ASSUME NEW p \in alive PROVE Below(p) \in FiniteSubsetsOf(Pids)
    <3>1. Below(p) \subseteq Pids
      BY <1>1
    <3>. QED
      BY <1>1, <3>1, FS_Subset DEF FiniteSubsetsOf
  <2>. QED
    BY <2>1
<1>3. PICK T \in Segments : \A U \in Segments : <<U, T>> \notin StrictSubsetOrdering(Pids)
  <2>. HIDE DEF Segments
  <2>. QED
    BY <1>1, <1>2, FS_StrictSubsetOrderingWellFounded, WFMin
<1>4. PICK m \in alive : place <= m /\ T = Below(m)
  BY <1>3
<1>5. Below(m) = {}
  <2>1. ASSUME NEW q \in Below(m) PROVE FALSE
    <3>1. q \in alive /\ place <= q /\ q < m /\ q \in Nat /\ m \in Nat
      BY <1>1, <2>1
    <3>2. \A r \in Nat : r < q => r < m
      BY <3>1
    <3>3. Below(q) \in Segments /\ Below(q) \subseteq Below(m)
      BY <1>1, <3>1, <3>2
    <3>4. q \notin Below(q)
      BY <3>1
    <3>5. Below(q) \subseteq Pids /\ Below(m) \subseteq Pids
      BY <1>1
    <3>. HIDE DEF Below, Segments
    <3>. QED
      BY <1>3, <1>4, <2>1, <3>3, <3>4, <3>5 DEF StrictSubsetOrdering
  <2>. QED
    BY <2>1
<1>6. Cardinality(Below(m)) < Batch
  <2>1. Cardinality({}) = 0 /\ Batch \in Nat /\ Batch # 0
    BY FS_EmptySet, DiscoveryAssumption
  <2>. HIDE DEF Below
  <2>. QED
    BY <1>5, <2>1
<1>7. m \in Entries
  BY <1>1, <1>4, <1>6 DEF Entries
<1>. QED
  BY <1>7

\* The batch lies between the place and where the next one begins.
LEMMA BatchEnds ==
    ASSUME DiscoveryTypeOK, Entries # {}
    PROVE  /\ After(Entries) \in {p + 1 : p \in Entries} /\ After(Entries) \in Nat
           /\ After(Entries) > place /\ After(Entries) \in {p + 1 : p \in Pids}
<1>1. Entries \subseteq Pids /\ \A p \in Entries : p >= place
  BY DEF Entries, DiscoveryTypeOK
<1>2. Pids \subseteq Nat /\ IsFiniteSet(Pids) /\ place \in Nat
  BY DiscoveryAssumption, FS_AddElement DEF Pids, DiscoveryTypeOK
<1>3. IsFiniteSet(Entries) /\ Entries \in SUBSET Nat
  BY <1>1, <1>2, FS_Subset
<1>4. PICK m \in Entries : \A n \in Entries : n <= m
  BY <1>3, Greatest
<1>5. m + 1 \in {p + 1 : p \in Entries} /\ \A p \in Entries : p < m + 1
  BY <1>3, <1>4
<1>6. After(Entries) \in {p + 1 : p \in Entries}
  BY <1>5 DEF After
<1>. QED
  BY <1>1, <1>2, <1>3, <1>6

\* A batch that the target is not in ends before it.
LEMMA BatchBefore ==
    ASSUME DiscoveryTypeOK, Target \in alive, place <= Target, Target \notin Entries
    PROVE  Entries # {} /\ After(Entries) <= Target
<1>. DEFINE Below(p) == {q \in alive : place <= q /\ q < p}
<1>1. Pids \subseteq Nat /\ IsFiniteSet(Pids) /\ Target \in Nat /\ alive \subseteq Pids /\ place \in Nat
  BY DiscoveryAssumption, FS_AddElement DEF Pids, DiscoveryTypeOK
<1>2. \A p \in Nat : IsFiniteSet(Below(p)) /\ Cardinality(Below(p)) \in Nat
  <2>1. \A p \in Nat : Below(p) \subseteq Pids
    BY <1>1
  <2>. HIDE DEF Below
  <2>. QED
    BY <1>1, <2>1, FS_Subset, FS_CardinalityType
<1>3. ~(Cardinality(Below(Target)) < Batch)
  BY <1>1 DEF Entries
<1>4. ASSUME NEW p \in Entries PROVE p + 1 <= Target
  <2>1. p \in alive /\ p \in Nat /\ p # Target /\ Cardinality(Below(p)) < Batch
    BY <1>1 DEF Entries
  <2>2. ASSUME Target < p PROVE FALSE
    <3>1. Below(Target) \subseteq Below(p)
      <4>1. \A q \in Nat : q < Target => q < p
        BY <1>1, <2>1, <2>2
      <4>. QED
        BY <1>1, <4>1
    <3>2. Cardinality(Below(Target)) <= Cardinality(Below(p))
      <4>. HIDE DEF Below
      <4>. QED
        BY <1>1, <1>2, <2>1, <3>1, FS_Subset
    <3>3. Batch \in Nat /\ Cardinality(Below(Target)) \in Nat /\ Cardinality(Below(p)) \in Nat
      BY <1>1, <1>2, <2>1, DiscoveryAssumption
    <3>. HIDE DEF Below
    <3>. QED
      BY <1>3, <2>1, <3>2, <3>3
  <2>. QED
    BY <1>1, <2>1, <2>2
<1>5. Entries # {}
  BY SomeEntry
<1>. QED
  BY <1>4, <1>5, BatchEnds

LEMMA ScanPassesNone ==
    ASSUME DiscoveryTypeOK, Scan
    PROVE  NotPassedOver
<1>. SUFFICES ASSUME Target \in alive, Ahead \/ (place = 0 /\ place' # 0)
              PROVE  Ahead' \/ found' = Target \/ (place' = 0 /\ ~(listed \subseteq alive))
  BY DEF NotPassedOver
<1>1. Target \in Nat /\ Target # 0 /\ place \in Nat /\ alive' = alive
  BY DiscoveryAssumption DEF DiscoveryTypeOK, Scan, Tick, ReadBatch, Look
<1>2. CASE Tick
  BY <1>1, <1>2 DEF Tick, Ahead
<1>3. CASE ReadBatch
  <2>1. place > 0 /\ place <= Target
    BY <1>1, <1>3 DEF ReadBatch, Ahead
  <2>2. Entries # {}
    BY <2>1, SomeEntry
  <2>3. listed' = Entries /\ place' = After(Entries)
    BY <1>3, <2>2 DEF ReadBatch
  <2>4. place' \in Nat /\ place' > place
    BY <2>2, <2>3, BatchEnds
  <2>5. place' <= Target \/ Target \in listed'
    BY <2>1, <2>3, BatchBefore
  <2>. QED
    BY <1>1, <2>1, <2>4, <2>5 DEF Ahead
<1>4. CASE Look
  <2>1. PICK p \in listed : IF p \notin alive
             THEN place' = 0 /\ listed' = {} /\ UNCHANGED found
             ELSE IF p = Target
             THEN place' = 0 /\ listed' = {} /\ found' = p
             ELSE listed' = listed \ {p} /\ UNCHANGED <<place, found>>
    BY <1>4 DEF Look
  <2>2. CASE p \notin alive
    BY <2>1, <2>2
  <2>3. CASE p = Target
    BY <2>1, <2>3
  <2>4. CASE p \in alive /\ p # Target
    BY <1>1, <2>1, <2>4 DEF Ahead
  <2>. QED
    BY <2>2, <2>3, <2>4
<1>. QED
  BY <1>2, <1>3, <1>4 DEF Scan

LEMMA ScanAdvances ==
    ASSUME DiscoveryTypeOK, Scan
    PROVE  Advances
<1>. SUFFICES ASSUME place > 0
              PROVE  \/ place' = 0
                     \/ place' > place /\ place' \in {p + 1 : p \in Pids}
                     \/ place' = place /\ Cardinality(listed') < Cardinality(listed)
  BY DEF Advances
<1>1. CASE Tick
  BY <1>1 DEF Tick
<1>2. CASE ReadBatch
  BY <1>2, BatchEnds DEF ReadBatch
<1>3. CASE Look
  <2>1. PICK p \in listed : place' = 0 \/ (place' = place /\ listed' = listed \ {p})
    BY <1>3 DEF Look
  <2>2. IsFiniteSet(listed)
    BY DiscoveryAssumption, FS_AddElement, FS_Subset DEF Pids, DiscoveryTypeOK
  <2>3. /\ Cardinality(listed) \in Nat
        /\ Cardinality(listed \ {p}) = Cardinality(listed) - 1
    BY <2>2, FS_RemoveElement, FS_CardinalityType
  <2>. QED
    BY <2>1, <2>3
<1>. QED
  BY <1>1, <1>2, <1>3 DEF Scan

\* No scan passes over a target that was there when it began, however the directory is cut into
\* batches and whatever starts and ends in between; and a scan gets nearer to its end with each step.
\* With the fairness of MainStep and processes that end at most once, TargetIsFound follows.
THEOREM ScanCorrect == AgentSpec => [][NotPassedOver /\ Advances]_agentVars
<1>1. ASSUME ProcessTypes, AgentNext PROVE NotPassedOver /\ Advances
  <2>1. DiscoveryTypeOK
    BY <1>1 DEF ProcessTypes
  <2>2. CASE Scan
    BY <2>1, <2>2, ScanPassesNone, ScanAdvances
  <2>3. CASE UNCHANGED discoveryVars
    BY <2>3 DEF discoveryVars, NotPassedOver, Advances, Ahead
  <2>4. CASE ProcessStarts \/ ProcessEnds
    BY <2>4 DEF ProcessStarts, ProcessEnds, NotPassedOver, Advances, Ahead
  <2>5. CASE Restart
    BY <2>5 DEF Restart, Running, NotPassedOver, Advances
  <2>. QED
    BY <1>1, <2>2, <2>3, <2>4, <2>5 DEF AgentNext, MainStep, Mount, Interrupted, OthersStep, World, TargetOf,
                                          NoAgentLeft, agentVars
<1>2. ASSUME ProcessTypes, [AgentNext]_agentVars PROVE [NotPassedOver /\ Advances]_agentVars
  BY <1>1, <1>2
<1>. QED
  BY <1>2, ProcessInvariant, PTL DEF AgentSpec
===============================================================================
