---------------------------- MODULE AgentLifecycle ----------------------------
(***************************************************************************)
(* The life of the agent: cli/main.go, the manager that loads, runs and    *)
(* closes the instrumentors (runner.go), the goroutine that waits for      *)
(* SIGTERM, and the queue's runner, whose handlers send to the manager on  *)
(* the unbuffered incomingEvents channel.                                  *)
(*                                                                         *)
(* When main returns or a goroutine panics the process is gone and nothing *)
(* more happens.                                                           *)
(***************************************************************************)
EXTENDS FiniteSets

CONSTANTS
    Instrumentors  \* the libraries of registerInstrumentors

VARIABLES
    main,         \* where the main goroutine is
    signal,       \* where the signal goroutine is
    analyzerDone, \* the analyzer's done channel, with a buffer of one
    managerDone,  \* the manager's done channel, with a buffer of one
    managed,      \* the manager's instrumentors
    loaded,       \* instrumentors whose Load has returned nil
    attached,     \* instrumentors that hold probes, maps or readers
    registered,   \* instrumentors whose handlers the queue has
    incoming,     \* the channel incomingEvents
    handler,      \* what the queue's runner is doing
    ending        \* history: why main left its last phase

vars == <<main, signal, analyzerDone, managerDone, managed, loaded, attached,
          registered, incoming, handler, ending>>

Phases == {"discovering", "analyzing", "loading", "serving", "tracing",
           "closing", "returned", "panicked"}

Endings == {"none", "interrupted", "nothing to do", "error", "load failed", "done"}

TypeOK ==
    /\ main \in Phases
    /\ signal \in {"waiting", "got", "closed analyzer", "closed manager"}
    /\ analyzerDone \in {"empty", "full"} /\ managerDone \in {"empty", "full"}
    /\ incoming \in {"open", "closed"}
    /\ managed \in SUBSET Instrumentors
    /\ loaded \in SUBSET managed /\ attached \in SUBSET managed
    /\ registered \in SUBSET managed
    /\ handler \in {"idle", "sending"}
    /\ ending \in Endings

Init ==
    /\ main = "discovering"
    /\ signal = "waiting"
    /\ analyzerDone = "empty" /\ managerDone = "empty" /\ incoming = "open"
    /\ managed = Instrumentors
    /\ loaded = {} /\ attached = {} /\ registered = {}
    /\ handler = "idle"
    /\ ending = "none"

Running == main \notin {"returned", "panicked"}

Return(why) == main' = "returned" /\ ending' = why

-------------------------------------------------------------------------------
(* The signal goroutine.  It receives one signal; the channel takes another, *)
(* which nobody reads.                                                     *)

GetSignal ==
    /\ Running
    /\ signal = "waiting"
    /\ signal' = "got"
    /\ UNCHANGED <<main, analyzerDone, managerDone, managed, loaded, attached,
                   registered, incoming, handler, ending>>

\* processAnalyzer.Close; nothing else sends, so the buffer has room.
CloseAnalyzer ==
    /\ Running
    /\ signal = "got"
    /\ signal' = "closed analyzer"
    /\ analyzerDone' = "full"
    /\ UNCHANGED <<main, managerDone, managed, loaded, attached, registered, incoming,
                   handler, ending>>

\* The manager's done channel has a buffer; without it (and a default case) a value
\* reaches only a waiting select.
DoneUnbuffered == IF main = "serving" THEN "full" ELSE "empty"
DoneBuffered == "full"

\* instManager.Close.  The queue's Close that follows sends on a nil channel, as
\* Initialize makes none: the goroutine stays there.
CloseManager ==
    /\ Running
    /\ signal = "closed analyzer"
    /\ signal' = "closed manager"
    /\ managerDone' = DoneBuffered
    /\ UNCHANGED <<main, analyzerDone, managed, loaded, attached, registered, incoming,
                   handler, ending>>

-------------------------------------------------------------------------------
(* The main goroutine, up to the manager's loop.                           *)

\* DiscoverProcessID: at a tick the scan of /proc finds the target (or not).
Discover ==
    /\ main = "discovering"
    /\ main' = "analyzing"
    /\ UNCHANGED <<signal, analyzerDone, managerDone, managed, loaded, attached,
                   registered, incoming, handler, ending>>

DiscoverInterrupted ==
    /\ main = "discovering"
    /\ analyzerDone = "full"
    /\ analyzerDone' = "empty"
    /\ Return("interrupted")
    /\ UNCHANGED <<signal, managerDone, managed, loaded, attached, registered, incoming, handler>>

\* Analyze fails, or the executable calls for some of the instrumentors; Run
\* returns at once if it calls for none.
AnalyzeFails ==
    /\ main = "analyzing"
    /\ Return("error")
    /\ UNCHANGED <<signal, analyzerDone, managerDone, managed, loaded, attached,
                   registered, incoming, handler>>

Analyze ==
    /\ main = "analyzing"
    /\ \E used \in SUBSET Instrumentors :
          /\ managed' = used
          /\ IF used = {}
               THEN Return("nothing to do")
               ELSE main' = "loading" /\ UNCHANGED ending
    /\ UNCHANGED <<signal, analyzerDone, managerDone, loaded, attached, registered,
                   incoming, handler>>

\* The memlock limit, the injector, the executable or the bpffs directory: load
\* returns before any instrumentor is loaded, and without cleanup.
LoadFailsEarly ==
    /\ main = "loading"
    /\ attached = {}
    /\ Return("error")
    /\ UNCHANGED <<signal, analyzerDone, managerDone, managed, loaded, attached,
                   registered, incoming, handler>>

\* Instrumentors still to be loaded; without FilterUnusedInstrumentors (a slip) all.
ToLoadUnfiltered == Instrumentors \ loaded
ToLoad == managed \ loaded

Load(i) ==
    /\ main = "loading"
    /\ i \in ToLoad
    /\ loaded' = loaded \cup {i}
    /\ attached' = attached \cup {i}
    /\ UNCHANGED <<main, signal, analyzerDone, managerDone, managed, registered,
                   incoming, handler, ending>>

\* What cleanup does first, and a slip that forgets it after a failed load.
NoCleanup == main' = "returned" /\ UNCHANGED incoming
Cleanup == main' = "closing" /\ incoming' = "closed"

\* i.Load fails, having attached some of its probes or none of them.
LoadFails(i) ==
    /\ main = "loading"
    /\ i \in ToLoad
    /\ attached' \in {attached, attached \cup {i}}
    /\ Cleanup
    /\ ending' = "load failed"
    /\ UNCHANGED <<signal, analyzerDone, managerDone, managed, loaded, registered, handler>>

\* All are loaded: their goroutines are started.
Serve ==
    /\ main = "loading"
    /\ loaded = managed
    /\ main' = "serving"
    /\ UNCHANGED <<signal, analyzerDone, managerDone, managed, loaded, attached,
                   registered, incoming, handler, ending>>

-------------------------------------------------------------------------------
(* Events.                                                                 *)

\* Run has started the instrumentors' goroutines, once all of them are loaded.
Started == main \in {"serving", "tracing", "closing"} /\ ending # "load failed"

\* i's goroutine registers its handlers with the queue, maybe late.
Register(i) ==
    /\ Started
    /\ i \in managed \ registered
    /\ registered' = registered \cup {i}
    /\ UNCHANGED <<main, signal, analyzerDone, managerDone, managed, loaded, attached,
                   incoming, handler, ending>>

\* The queue's runner takes an event and its handler comes to the send.  The queue
\* outlives the readers: there may be events after they are closed.
Handle ==
    /\ Running
    /\ registered # {}
    /\ handler = "idle"
    /\ handler' = "sending"
    /\ UNCHANGED <<main, signal, analyzerDone, managerDone, managed, loaded, attached,
                   registered, incoming, ending>>

\* A send on a closed channel panics, and so does one that is blocked when the
\* channel is closed.
SendPanics ==
    /\ Running
    /\ handler = "sending"
    /\ incoming = "closed"
    /\ main' = "panicked"
    /\ UNCHANGED <<signal, analyzerDone, managerDone, managed, loaded, attached,
                   registered, incoming, handler, ending>>

\* The manager's select: an event, ...
ReceiveEvent ==
    /\ main = "serving"
    /\ handler = "sending"
    /\ handler' = "idle"
    /\ main' = "tracing"
    /\ UNCHANGED <<signal, analyzerDone, managerDone, managed, loaded, attached,
                   registered, incoming, ending>>

TraceDone ==
    /\ main = "tracing"
    /\ main' = "serving"
    /\ UNCHANGED <<signal, analyzerDone, managerDone, managed, loaded, attached,
                   registered, incoming, handler, ending>>

\* ... or the end: "shutting down all instrumentors due to signal".
ReceiveDone ==
    /\ main = "serving"
    /\ managerDone = "full"
    /\ managerDone' = "empty"
    /\ Cleanup
    /\ ending' = "done"
    /\ UNCHANGED <<signal, analyzerDone, managed, loaded, attached, registered, handler>>

\* cleanup: Close of one instrumentor after the other, attached or not.
Close(i) ==
    /\ main = "closing"
    /\ i \in attached
    /\ attached' = attached \ {i}
    /\ UNCHANGED <<main, signal, analyzerDone, managerDone, managed, loaded, registered,
                   incoming, handler, ending>>

\* The loop of cleanup is over.
Closed == attached = {}

CleanupDone ==
    /\ main = "closing"
    /\ Closed
    /\ Return(ending)
    /\ UNCHANGED <<signal, analyzerDone, managerDone, managed, loaded, attached,
                   registered, incoming, handler>>

-------------------------------------------------------------------------------

Main ==
    \/ AnalyzeFails \/ Analyze \/ LoadFailsEarly \/ Serve \/ TraceDone \/ CleanupDone
    \/ \E i \in Instrumentors : Load(i) \/ LoadFails(i) \/ Close(i)

SignalGoroutine == CloseAnalyzer \/ CloseManager

\* The process has ended.
Terminated == ~Running /\ UNCHANGED vars

Next ==
    \/ GetSignal \/ SignalGoroutine
    \/ Discover \/ DiscoverInterrupted
    \/ Main
    \/ \E i \in Instrumentors : Register(i)
    \/ Handle \/ SendPanics
    \/ ReceiveEvent \/ ReceiveDone
    \/ Terminated

Spec == Init /\ [][Next]_vars

-------------------------------------------------------------------------------

\* The agent never returns from main with probes still attached to the target,
\* however far loading came and whichever instrumentor failed half way.
DetachedAtReturn == main = "returned" => attached = {}

\* The only panic is that of a handler overtaken by the shutdown after a signal: a
\* failed load, with its own cleanup, never meets a running handler.
PanicOnlyAfterSignal == main = "panicked" => signal = "closed manager" /\ ending = "done"

\* Whatever the agent is doing when the signal comes, it ends: a signal during
\* discovery, analysis or loading is not lost before the manager's loop.
SignalEndsAgent == (signal = "got") ~> ~Running

\* Main is only held up by the target: once the target is found the agent comes to
\* serve events or ends.
FoundIsServed == (main = "analyzing") ~> (main \in {"serving", "returned"})

\* "shutting down all instrumentors due to signal": no instrumentor is left
\* attached at the end of a shutdown.
ShutdownDetachesAll == ~Running /\ ending = "done" => attached = {}
===============================================================================
