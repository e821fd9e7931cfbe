------------------------ MODULE AgentLifecycle_proofs ------------------------
(***************************************************************************)
(* For any set of instrumentors: the agent does not return with probes     *)
(* attached, and the only panic is the one that a signal's shutdown can    *)
(* cause.  What has to be carried along is which phases can have attached  *)
(* instrumentors, registered handlers and a closed channel.                *)
(***************************************************************************)
EXTENDS AgentLifecycle, TLAPS

PhaseInv ==
    /\ main \in {"discovering", "analyzing", "returned"} => attached = {}
    /\ main \in {"discovering", "analyzing"} => loaded = {}
    /\ main \in {"discovering", "analyzing", "loading", "serving", "tracing"} =>
          ending = "none" /\ incoming = "open"
    /\ main = "closing" => ending \in {"load failed", "done"}
    /\ main = "panicked" => ending = "done"

HandlerInv ==
    /\ registered # {} => ending \in {"none", "done"} /\
          main \in {"serving", "tracing", "closing", "returned", "panicked"}
    /\ handler = "sending" => registered # {}

SignalInv == managerDone = "full" \/ ending = "done" => signal = "closed manager"

LifeInv == TypeOK /\ PhaseInv /\ HandlerInv /\ SignalInv

LEMMA LifeInit == Init => LifeInv
BY DEF Init, LifeInv, TypeOK, PhaseInv, HandlerInv, SignalInv, Phases, Endings

LEMMA LifeSignal == LifeInv /\ (GetSignal \/ SignalGoroutine) => LifeInv'
BY DEF LifeInv, TypeOK, PhaseInv, HandlerInv, SignalInv, GetSignal, SignalGoroutine,
       CloseAnalyzer, CloseManager, Running, DoneBuffered

LEMMA LifeDiscover == LifeInv /\ (Discover \/ DiscoverInterrupted) => LifeInv'
BY DEF LifeInv, TypeOK, PhaseInv, HandlerInv, SignalInv, Discover, DiscoverInterrupted,
       Return, Phases, Endings

LEMMA LifeAnalyze == LifeInv /\ (AnalyzeFails \/ Analyze) => LifeInv'
<1>1. LifeInv /\ AnalyzeFails => LifeInv'
  BY DEF LifeInv, TypeOK, PhaseInv, HandlerInv, SignalInv, AnalyzeFails, Return, Phases, Endings
<1>2. ASSUME LifeInv, Analyze PROVE LifeInv'
  <2>1. PICK used \in SUBSET Instrumentors :
            /\ managed' = used
            /\ IF used = {} THEN Return("nothing to do") ELSE main' = "loading" /\ UNCHANGED ending
    BY <1>2 DEF Analyze
  <2>2. /\ main = "analyzing" /\ attached = {} /\ loaded = {} /\ registered = {}
        /\ UNCHANGED <<signal, analyzerDone, managerDone, loaded, attached, registered,
                       incoming, handler>>
        /\ ending = "none" /\ incoming = "open"
    BY <1>2 DEF Analyze, LifeInv, PhaseInv, HandlerInv
  <2>3. TypeOK'
    BY <1>2, <2>1, <2>2 DEF LifeInv, TypeOK, Return, Phases, Endings
  <2>. QED
    BY <1>2, <2>1, <2>2, <2>3 DEF LifeInv, PhaseInv, HandlerInv, SignalInv, Return
<1>. QED
  BY <1>1, <1>2

LEMMA LifeLoad ==
    LifeInv /\ (LoadFailsEarly \/ Serve \/ \E i \in Instrumentors : Load(i) \/ LoadFails(i))
        => LifeInv'
<1>1. LifeInv /\ (LoadFailsEarly \/ Serve) => LifeInv'
  BY DEF LifeInv, TypeOK, PhaseInv, HandlerInv, SignalInv, LoadFailsEarly, Serve, Return,
         Phases, Endings
<1>2. ASSUME LifeInv, NEW i \in Instrumentors, Load(i) PROVE LifeInv'
  BY <1>2 DEF LifeInv, TypeOK, PhaseInv, HandlerInv, SignalInv, Load, ToLoad, Phases
<1>3. ASSUME LifeInv, NEW i \in Instrumentors, LoadFails(i) PROVE LifeInv'
  <2>1. /\ main = "loading" /\ main' = "closing" /\ ending' = "load failed" /\ incoming' = "closed"
        /\ attached' \in SUBSET managed
        /\ UNCHANGED <<signal, analyzerDone, managerDone, managed, loaded, registered, handler>>
    BY <1>3 DEF LoadFails, Cleanup, ToLoad, LifeInv, TypeOK
  <2>. QED
    BY <1>3, <2>1 DEF LifeInv, TypeOK, PhaseInv, HandlerInv, SignalInv, Phases, Endings
<1>. QED
  BY <1>1, <1>2, <1>3

LEMMA LifeServe ==
    LifeInv /\ (Handle \/ SendPanics \/ ReceiveEvent \/ TraceDone \/ ReceiveDone
                \/ \E i \in Instrumentors : Register(i)) => LifeInv'
<1>1. LifeInv /\ (Handle \/ SendPanics \/ ReceiveEvent \/ TraceDone \/ ReceiveDone) => LifeInv'
  BY DEF LifeInv, TypeOK, PhaseInv, HandlerInv, SignalInv, Handle, SendPanics, ReceiveEvent,
         TraceDone, ReceiveDone, Cleanup, Running, Phases, Endings
<1>2. ASSUME LifeInv, NEW i \in Instrumentors, Register(i) PROVE LifeInv'
  BY <1>2 DEF LifeInv, TypeOK, PhaseInv, HandlerInv, SignalInv, Register, Started
<1>. QED
  BY <1>1, <1>2

LEMMA LifeClose ==
    LifeInv /\ (CleanupDone \/ \E i \in Instrumentors : Close(i)) => LifeInv'
BY DEF LifeInv, TypeOK, PhaseInv, HandlerInv, SignalInv, CleanupDone, Closed, Close, Return,
       Phases

LEMMA LifeStep == LifeInv /\ [Next]_vars => LifeInv'
<1>1. LifeInv /\ UNCHANGED vars => LifeInv'
  BY DEF LifeInv, TypeOK, PhaseInv, HandlerInv, SignalInv, vars
<1>2. LifeInv /\ Main => LifeInv'
  BY LifeAnalyze, LifeLoad, LifeServe, LifeClose DEF Main
<1>. QED
  BY <1>1, <1>2, LifeSignal, LifeDiscover, LifeServe DEF Next, Terminated

LEMMA LifeInvariant == Spec => []LifeInv
BY LifeInit, LifeStep, PTL DEF Spec

\* The manager's and main's state stay in their types; only managed instrumentors
\* are ever loaded, attached or registered.
THEOREM LifeTypeCorrect == Spec => []TypeOK
<1>1. LifeInv => TypeOK
  BY DEF LifeInv
<1>. QED
  BY <1>1, LifeInvariant, PTL

\* main never returns with an instrumentor attached, even if loading failed half way.
THEOREM DetachedCorrect == Spec => []DetachedAtReturn
<1>1. LifeInv => DetachedAtReturn
  BY DEF LifeInv, PhaseInv, DetachedAtReturn
<1>. QED
  BY <1>1, LifeInvariant, PTL

\* The send on the closed channel is only ever met in the shutdown after a signal.
THEOREM PanicCorrect == Spec => []PanicOnlyAfterSignal
<1>1. LifeInv => PanicOnlyAfterSignal
  BY DEF LifeInv, PhaseInv, SignalInv, PanicOnlyAfterSignal
<1>. QED
  BY <1>1, LifeInvariant, PTL
===============================================================================
