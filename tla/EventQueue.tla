------------------------------ MODULE EventQueue ------------------------------
(***************************************************************************)
(* The delayed priority queue every probe reports through                  *)
(* (pkg/instrumentors/utils/priority_queue.go), with the readers that feed *)
(* it and the manager loop that drains its handlers.                       *)
(*                                                                         *)
(* A probed call stamps its event with the time it starts.  The eBPF       *)
(* program writes the record to the perf buffer of its event type when the *)
(* call enters (placeholder events) or returns (main events); the reader   *)
(* goroutine of the type pushes it, which stamps arriveAt.  The runner     *)
(* goroutine takes the least priority once it is delayDuration old and     *)
(* calls the type's handler WITH the mutex held; a handler that has        *)
(* something to export blocks on the unbuffered incomingEvents channel     *)
(* until the manager receives it.                                          *)
(***************************************************************************)
EXTENDS Integers, FiniteSets

CONSTANTS
    Events,        \* the events of one behaviour
    Types,         \* the ItemTypes the instrumentors register
    TypeOf,        \* the ItemType of each event
    Placeholders,  \* the GOID_SC events, pushed with priority StartTime-1
    Delay,         \* delayDuration (QUEUE_DELAY_DURATION)
    MaxSize,       \* maxSize (QUEUE_MAX_SIZE); 0 is "no limit"
    PerfSize,      \* records one type's perf buffer holds
    Horizon        \* bound: no call starts and nothing is read after it

ASSUME EventsAssumption == IsFiniteSet(Events)
ASSUME TypeOfAssumption == TypeOf \in [Events -> Types]
ASSUME PlaceholdersAssumption == Placeholders \subseteq Events
ASSUME DelayAssumption == Delay \in Nat
ASSUME MaxSizeAssumption == MaxSize \in Int
ASSUME PerfSizeAssumption == PerfSize \in Nat
ASSUME HorizonAssumption == Horizon \in Nat \ {0}

\* The clock runs on until whatever was pushed by Horizon can have ripened.
MaxTime == Horizon + Delay

Stages == {"idle",       \* the probed call has not started
           "open",       \* stamped in the eBPF map, not yet written out
           "perf",       \* a record in the perf buffer
           "lost",       \* overwritten in the perf buffer (LostSamples)
           "queued",     \* an Item of the heap
           "dropped",    \* refused by Push, the heap being full
           "handling",   \* popped, its handler is running
           "unhandled",  \* popped, its type had no handler
           "absorbed",   \* its handler exported nothing
           "tracing",    \* received by the manager, Trace is running
           "traced"}     \* exported

VARIABLES
    now,               \* the clock
    stage,             \* where each event is
    start,             \* StartTime
    arriveAt,          \* Item.arriveAt
    handlerMap,        \* the types that have a handler
    previousPriority,  \* the local variable of Run
    flagged,           \* history: events logged as "not following order"
    rank               \* history: position in the order of pops, 0 if none

vars == <<now, stage, start, arriveAt, handlerMap, previousPriority, flagged, rank>>

In(s) == {e \in Events : stage[e] = s}

Popped == {e \in Events : rank[e] > 0}

\* priority as the readers pass it to Push.
Priority(e) == IF e \in Placeholders THEN start[e] - 1 ELSE start[e]

\* e was pushed more than Delay after the instant its priority names.
Late(e) == arriveAt[e] > Priority(e) + Delay

-------------------------------------------------------------------------------

TypeOK ==
    /\ now \in 0..MaxTime
    /\ stage \in [Events -> Stages]
    /\ start \in [Events -> 0..MaxTime]
    /\ arriveAt \in [Events -> 0..MaxTime]
    /\ handlerMap \in SUBSET Types
    /\ previousPriority \in 0..MaxTime
    /\ flagged \in SUBSET Events
    /\ rank \in [Events -> Nat]

Init ==
    /\ now = 1
    /\ stage = [e \in Events |-> "idle"]
    /\ start = [e \in Events |-> 0]
    /\ arriveAt = [e \in Events |-> 0]
    /\ handlerMap = {}
    /\ previousPriority = 0
    /\ flagged = {}
    /\ rank = [e \in Events |-> 0]

\* The mutex is free: the runner is not inside a handler.
MuFree == In("handling") = {}

-------------------------------------------------------------------------------
(* The probed process and the kernel's perf buffers.                       *)

\* A probed call starts; the entry uprobe stamps start_time.
Begin(e) ==
    /\ stage[e] = "idle"
    /\ now <= Horizon
    /\ stage' = [stage EXCEPT ![e] = "open"]
    /\ start' = [start EXCEPT ![e] = now]
    /\ UNCHANGED <<now, arriveAt, handlerMap, previousPriority, flagged, rank>>

InPerfBuffer(t) == {e \in In("perf") : TypeOf[e] = t}

\* bpf_perf_event_output: a record that finds the ring full is lost.
Emit(e) ==
    /\ stage[e] = "open"
    /\ stage' = [stage EXCEPT ![e] =
          IF Cardinality(InPerfBuffer(TypeOf[e])) < PerfSize THEN "perf" ELSE "lost"]
    /\ UNCHANGED <<now, start, arriveAt, handlerMap, previousPriority, flagged, rank>>

-------------------------------------------------------------------------------
(* The queue's methods.                                                    *)

\* A plausible slip: the limit is compared with > instead of >=.
FullOffByOne == MaxSize # 0 /\ Cardinality(In("queued")) > MaxSize

Full == MaxSize # 0 /\ Cardinality(In("queued")) >= MaxSize

\* A reader goroutine takes a record of its perf buffer and calls Push.
Push(e) ==
    /\ stage[e] = "perf"
    /\ MuFree
    /\ now <= Horizon
    /\ IF Full
         THEN /\ stage' = [stage EXCEPT ![e] = "dropped"]
              /\ UNCHANGED arriveAt
         ELSE /\ stage' = [stage EXCEPT ![e] = "queued"]
              /\ arriveAt' = [arriveAt EXCEPT ![e] = now]
    /\ UNCHANGED <<now, start, handlerMap, previousPriority, flagged, rank>>

\* A type is registered once its instrumentor's goroutine runs.
Register(t) ==
    /\ MuFree
    /\ handlerMap' = handlerMap \cup {t}
    /\ UNCHANGED <<now, stage, start, arriveAt, previousPriority, flagged, rank>>

Unregister(t) ==
    /\ MuFree
    /\ handlerMap' = handlerMap \ {t}
    /\ UNCHANGED <<now, stage, start, arriveAt, previousPriority, flagged, rank>>

-------------------------------------------------------------------------------
(* The runner goroutine: one turn of the loop of Run.                      *)

\* Less the wrong way round.
Greatest(e) == \A f \in In("queued") : Priority(f) <= Priority(e)

\* heap.Pop returns some item of least priority.
Least(e) == \A f \in In("queued") : Priority(e) <= Priority(f)

\* Plausible slips in the age test: omitted, and the wrong way round.
RipeAtOnce(e) == TRUE
RipeReversed(e) == arriveAt[e] >= now - Delay

Ripe(e) == arriveAt[e] <= now - Delay

\* The log line of Run: the popped item precedes the previous one.
OutOfOrder(e) == Priority(e) < previousPriority

\* The queue is empty, or its head is too young and is pushed back.
Poll ==
    /\ MuFree
    /\ \A e \in In("queued") : Least(e) => ~Ripe(e)
    /\ UNCHANGED vars

\* The head is ripe: it leaves the heap, and its handler starts if it has one.
Dispatch(e) ==
    /\ MuFree
    /\ stage[e] = "queued"
    /\ Least(e)
    /\ Ripe(e)
    /\ flagged' = IF OutOfOrder(e) THEN flagged \cup {e} ELSE flagged
    /\ previousPriority' = Priority(e)
    /\ stage' = [stage EXCEPT ![e] =
          IF TypeOf[e] \in handlerMap THEN "handling" ELSE "unhandled"]
    /\ rank' = [rank EXCEPT ![e] = Cardinality(Popped) + 1]
    /\ UNCHANGED <<now, start, arriveAt, handlerMap>>

\* The handler returns without exporting (server placeholders, runtime events,
\* client placeholders that found no ancestor).
HandlerReturns(e) ==
    /\ stage[e] = "handling"
    /\ stage' = [stage EXCEPT ![e] = "absorbed"]
    /\ UNCHANGED <<now, start, arriveAt, handlerMap, previousPriority, flagged, rank>>

\* The handler's send on incomingEvents meets the manager's receive.
HandlerSends(e) ==
    /\ stage[e] = "handling"
    /\ In("tracing") = {}
    /\ stage' = [stage EXCEPT ![e] = "tracing"]
    /\ UNCHANGED <<now, start, arriveAt, handlerMap, previousPriority, flagged, rank>>

\* otelController.Trace returns and the manager is back at its select.
TraceDone(e) ==
    /\ stage[e] = "tracing"
    /\ stage' = [stage EXCEPT ![e] = "traced"]
    /\ UNCHANGED <<now, start, arriveAt, handlerMap, previousPriority, flagged, rank>>

Tick ==
    /\ now < MaxTime
    /\ now' = now + 1
    /\ UNCHANGED <<stage, start, arriveAt, handlerMap, previousPriority, flagged, rank>>

-------------------------------------------------------------------------------

Next ==
    \/ \E e \in Events : Begin(e)
    \/ \E e \in Events : Emit(e)
    \/ \E e \in Events : Push(e)
    \/ \E t \in Types : Register(t)
    \/ \E t \in Types : Unregister(t)
    \/ Poll
    \/ \E e \in Events : Dispatch(e)
    \/ \E e \in Events : HandlerReturns(e)
    \/ \E e \in Events : HandlerSends(e)
    \/ \E e \in Events : TraceDone(e)
    \/ Tick

Spec == Init /\ [][Next]_vars

\* The runner loops, a handler and Trace run to their end, and time passes.
Fairness ==
    /\ WF_vars(\E e \in Events : Dispatch(e))
    /\ WF_vars(\E e \in Events : HandlerReturns(e) \/ HandlerSends(e))
    /\ WF_vars(\E e \in Events : TraceDone(e))
    /\ WF_vars(Tick)

FairSpec == Spec /\ Fairness

-------------------------------------------------------------------------------

\* The reason the queue exists: handlers see events by priority.  An event f
\* that is handled after e although its priority is smaller was late; no
\* interleaving of readers, handlers and a blocked manager does it otherwise.
OrderUnlessLate ==
    \A e, f \in Popped :
        (rank[e] < rank[f] /\ Priority(f) < Priority(e)) => Late(f)

\* The "[ERROR] ... not following order" line names only late events: it never
\* blames an event the delay should have covered.
FlaggedAreLate == \A e \in flagged : Late(e)

\* Push keeps the heap within QUEUE_MAX_SIZE, whatever it finds there.
QueueBounded ==
    (MaxSize > 0) => Cardinality(In("queued")) <= MaxSize

\* What keeps the order while events are still on their way: an item still in
\* the heap (or yet to reach it) cannot undercut one already popped, unless late.
HeapNeverUndercuts ==
    \A e \in Popped, f \in In("queued") : Priority(f) < Priority(e) => Late(f)

\* An item of the heap is popped in the end, even when the manager is slow and
\* the handlers of items before it block with the mutex held.
QueuedIsPopped ==
    \A e \in Events : (stage[e] = "queued") ~>
        (stage[e] \in {"unhandled", "absorbed", "traced"})

-------------------------------------------------------------------------------
(* The queue as a relay, whose deadline is Delay after the stamp.           *)

Overdue == {e \in Events : stage[e] # "idle" /\ Late(e)}

stampBar == [e \in Events |-> IF stage[e] = "idle" THEN -1 ELSE Priority(e)]

Relay == INSTANCE OrderedRelay
    WITH MaxStamp <- MaxTime, stamp <- stampBar, overdue <- Overdue, handed <- Popped

\* The queue implements the relay: one hand-over at a time, none repeated, and
\* none of a lower stamp than any before it unless the event was pushed late.
RelaySpec == Relay!Spec
===============================================================================
