----------------------------- MODULE SpanRegistry -----------------------------
(***************************************************************************)
(* The goroutine and span registry (pkg/instrumentors/gmap), fed by the    *)
(* runtime tracker and by the handlers of the probes, which the queue runs *)
(* one at a time and in the order of their start times (EventQueue).       *)
(*                                                                         *)
(* A goroutine of the probed process that runs a go statement at pc makes  *)
(* the tracker record goPc2PGoId[pc]; a goroutine that is scheduled makes  *)
(* it record goId2PGoId from that table.  A probed call sends a            *)
(* placeholder when it enters, which registers a span context for its      *)
(* goroutine (RegisterSpan), and a main event, which takes its trace and   *)
(* parent from there (MustEnrichSpan).  The main event carries the call's  *)
(* START time but is pushed when the call RETURNS: for a call longer than  *)
(* the queue's delay it is handled at the return (late), for a shorter one *)
(* right after the placeholder, before anything that started later.        *)
(***************************************************************************)
EXTENDS Integers, Sequences, FiniteSets

CONSTANTS
    Goroutines,  \* goids
    Main,        \* goid 1, the main goroutine
    NoGoid,      \* no goroutine
    PCs,         \* addresses of go statements
    NoPc,        \* the gopc of the main goroutine, which no tracker event names
    MaxSpans,    \* bound: span ids issued
    MaxDepth,    \* bound: nested probed calls (of as many libraries) on one goroutine
    MaxRetry,    \* constant.MAX_RETRY
    Late,        \* may a call outlive the queue's delay?  the answers considered
    Lossy,       \* may events be lost on their way to the handlers?
    Expiring     \* may entries outlive the caches' one minute?

ASSUME GoroutinesAssumption == Main \in Goroutines /\ NoGoid \notin Goroutines
ASSUME NoPcAssumption == NoPc \notin PCs
ASSUME BoundsAssumption ==
    MaxSpans \in Nat /\ MaxDepth \in Nat /\ MaxRetry \in Nat \ {0}
ASSUME FlagsAssumption == Late \subseteq BOOLEAN /\ Lossy \in BOOLEAN /\ Expiring \in BOOLEAN

NoSpan == 0        \* the invalid span id
Remote == -1       \* a span of another process, named by a traceparent
RemoteTrace == 0   \* its trace; a trace begun here has its first span's id
NoSc == [trace |-> -1, span |-> NoSpan]

VARIABLES
    creator,      \* who ran the go statement that made a goroutine
    pcOf,         \* runtime.g.gopc: where that go statement is
    ran,          \* goroutines that have been scheduled
    stack,        \* the probed calls each goroutine is inside, innermost last
    goroutineSc,  \* the eBPF map goroutine_sc_map
    goPc2PGoId, goId2PGoId, goId2Sc,   \* the three caches
    job,          \* what the runner's handler is doing
    issued,       \* history: [goid, began, kind, trace] of every span id
    spans         \* history: the spans exported

target == <<creator, pcOf, ran, stack, goroutineSc>>
caches == <<goPc2PGoId, goId2PGoId, goId2Sc>>
history == <<issued, spans>>
vars == <<target, caches, job, history>>

Ids == 1..MaxSpans
Kinds == {"server", "client", "goroutine", "phantom"}
Scs == [trace : Int, span : Int]
Calls == [id : Nat, goid : Goroutines, kind : {"server", "client"}, trace : Int,
          psc : Scs, late : BOOLEAN]
Issues == [goid : Goroutines, began : Nat, kind : Kinds, trace : Int]

Idle == [at |-> "idle"]
Jobs == {Idle} \cup [at : {"placeholder", "main"}, call : Calls]
               \cup [at : {"walk"}, call : Calls, cursor : Goroutines, tries : Int]

TreeTypeOK ==
    /\ creator \in [Goroutines -> Goroutines \cup {NoGoid}]
    /\ pcOf \in [Goroutines -> PCs \cup {NoPc}]
    /\ goPc2PGoId \in [PCs -> Goroutines \cup {NoGoid}]
    /\ goId2PGoId \in [Goroutines -> Goroutines \cup {NoGoid}]

SpanTypeOK ==
    /\ stack \in [Goroutines -> Seq(Calls)]
    /\ goroutineSc \in [Goroutines -> Scs]
    /\ goId2Sc \in [Goroutines -> Scs]
    /\ job \in Jobs
    /\ issued \in Seq(Issues)

\* The types of what the tracker and the handlers keep.
TypeOK == TreeTypeOK /\ SpanTypeOK

Init ==
    /\ creator = [g \in Goroutines |-> NoGoid]
    /\ pcOf = [g \in Goroutines |-> NoPc]
    /\ ran = {Main}
    /\ stack = [g \in Goroutines |-> <<>>]
    /\ goroutineSc = [g \in Goroutines |-> NoSc]
    /\ goPc2PGoId = [pc \in PCs |-> NoGoid]
    /\ goId2PGoId = [g \in Goroutines |-> NoGoid]
    /\ goId2Sc = [g \in Goroutines |-> NoSc]
    /\ job = Idle
    /\ issued = <<>>
    /\ spans = {}

Created(g) == g = Main \/ creator[g] # NoGoid

\* The handlers run one at a time: the next event waits for the runner.
RunnerFree == job = Idle

-------------------------------------------------------------------------------
(* The runtime tracker: casgstatus, and EventHandler on its two events.    *)

\* The goid that a GOPC_PGOID event carries: the goroutine on the thread, not
\* the new one whose g structure the probe was given (a plausible slip).
RecordedNew(g, h) == h
Recorded(g, h) == g

\* g runs the go statement at pc, which makes h: a GOPC_PGOID event.
Spawn(g, h, pc) ==
    /\ RunnerFree
    /\ g \in ran
    /\ ~Created(h)
    /\ creator' = [creator EXCEPT ![h] = g]
    /\ pcOf' = [pcOf EXCEPT ![h] = pc]
    /\ \/ goPc2PGoId' = [goPc2PGoId EXCEPT ![pc] = Recorded(g, h)]
       \/ Lossy /\ UNCHANGED goPc2PGoId
    /\ UNCHANGED <<ran, stack, goroutineSc, goId2PGoId, goId2Sc, job, history>>

\* What is learned of g: its parent; the arguments swapped are a plausible slip.
LearnedSwapped(g, parent) == [goId2PGoId EXCEPT ![parent] = g]
Learned(g, parent) == [goId2PGoId EXCEPT ![g] = parent]

\* g starts or resumes running: a GOID_GOPC event, each time it is scheduled.
Schedule(g) ==
    /\ RunnerFree
    /\ Created(g) /\ pcOf[g] # NoPc
    /\ ran' = ran \cup {g}
    /\ \/ /\ goPc2PGoId[pcOf[g]] # NoGoid
          /\ goId2PGoId' = Learned(g, goPc2PGoId[pcOf[g]])
       \/ /\ goPc2PGoId[pcOf[g]] = NoGoid \/ Lossy
          /\ UNCHANGED goId2PGoId
    /\ UNCHANGED <<creator, pcOf, stack, goroutineSc, goPc2PGoId, goId2Sc, job, history>>

-------------------------------------------------------------------------------
(* Probed calls.                                                           *)

NextId == Len(issued) + 1

\* Main events are queued by StartTime, so only a call that outlives the delay
\* is handled as late as its return; queued by EndTime, all would be.
HandledByEndTime(c) == TRUE
HandledAtReturn(c) == c.late

Issue(g, began, kind, trace) ==
    Append(issued, [goid |-> g, began |-> began, kind |-> kind, trace |-> trace])

\* The span contexts a client may find through its context.Context: those of any
\* calls that were tracked under a word which the search from it comes across
\* (SpanTracking), returned or not, as stop_tracking_span deletes another key; or none.
ContextScs ==
    {NoSc} \cup {[trace |-> issued[i].trace, span |-> i] :
        i \in {j \in DOMAIN issued : issued[j].kind \in {"server", "client"}}}

\* A server probe takes its parent from the request's headers.
ServerParents == {NoSc, [trace |-> RemoteTrace, span |-> Remote]}

\* A client takes it from its goroutine or from its context: the HTTP and gRPC
\* clients try the goroutine first, database/sql the context; sarama tries only
\* the goroutine, and gorilla mux, which is like a client in the rest, neither.
ClientParents(g) == {goroutineSc[g]} \cup ContextScs

\* The entry probe of a call: computes sc and psc and sends the placeholder.
Enter(g, kind, psc, late) ==
    /\ RunnerFree
    /\ g \in ran
    /\ Len(stack[g]) < MaxDepth
    /\ late => \A i \in DOMAIN stack[g] : stack[g][i].late
    /\ NextId < MaxSpans
    /\ LET c == [id |-> NextId, goid |-> g, kind |-> kind,
                 trace |-> IF psc = NoSc THEN NextId ELSE psc.trace,
                 psc |-> psc, late |-> late]
       IN  /\ stack' = [stack EXCEPT ![g] = Append(@, c)]
           /\ issued' = Issue(g, c.id, kind, c.trace)
           /\ goroutineSc' = IF kind = "server"
                THEN [goroutineSc EXCEPT ![g] = [trace |-> c.trace, span |-> c.id]]
                ELSE goroutineSc
           /\ \/ job' = [at |-> "placeholder", call |-> c]
              \/ Lossy /\ job' = IF HandledAtReturn(c) THEN Idle ELSE [at |-> "main", call |-> c]
    /\ UNCHANGED <<creator, pcOf, ran, caches, spans>>

\* The return probe: a server forgets its goroutine's context; the main event
\* of a call longer than the queue's delay is handled only now.
Return(g) ==
    /\ RunnerFree
    /\ stack[g] # <<>>
    /\ LET c == stack[g][Len(stack[g])]
       IN  /\ stack' = [stack EXCEPT ![g] = SubSeq(@, 1, Len(@) - 1)]
           /\ goroutineSc' = IF c.kind = "server"
                THEN [goroutineSc EXCEPT ![g] = NoSc] ELSE goroutineSc
           /\ \/ job' = IF HandledAtReturn(c) THEN [at |-> "main", call |-> c] ELSE Idle
              \/ Lossy /\ UNCHANGED job
    /\ UNCHANGED <<creator, pcOf, ran, caches, history>>

-------------------------------------------------------------------------------
(* The placeholder handlers: RegisterSpan and the walk of GetAncestorSc.   *)

ScOf(c) == [trace |-> c.trace, span |-> c.id]

\* The placeholder is done with; a short call's main event is next.
AfterPlaceholder(c) ==
    job' = IF HandledAtReturn(c) THEN Idle ELSE [at |-> "main", call |-> c]

\* The goroutine has a context: only a server's placeholder replaces it.
RegisterTaken(c) ==
    /\ job = [at |-> "placeholder", call |-> c]
    /\ goId2Sc[c.goid] # NoSc
    /\ goId2Sc' = IF c.kind = "server" THEN [goId2Sc EXCEPT ![c.goid] = ScOf(c)] ELSE goId2Sc
    /\ AfterPlaceholder(c)
    /\ UNCHANGED <<target, goPc2PGoId, goId2PGoId, history>>

\* It has none: look for the nearest ancestor that does.
RegisterNew(c) ==
    /\ job = [at |-> "placeholder", call |-> c]
    /\ goId2Sc[c.goid] = NoSc
    /\ job' = [at |-> "walk", call |-> c, cursor |-> c.goid, tries |-> 1]
    /\ UNCHANGED <<target, caches, history>>

Walking(c) == job.at = "walk" /\ job.call = c

\* No ancestor has a context: the call's own becomes the goroutine's.
RegisterRoot(c) ==
    /\ goId2Sc' = [goId2Sc EXCEPT ![c.goid] = ScOf(c)]
    /\ AfterPlaceholder(c)
    /\ UNCHANGED <<target, goPc2PGoId, goId2PGoId, history>>

\* Another attempt is left; not to count them is a slip.
RetryLeft == job.tries < MaxRetry

NextTrySame == job.tries
NextTry == job.tries + 1

\* getAncestorSc runs off the known part of the tree; it is retried, from the
\* start, only if that happens at the main goroutine.
WalkEndsAtUnknown(c) ==
    /\ Walking(c)
    /\ goId2PGoId[job.cursor] = NoGoid
    /\ IF job.cursor = Main /\ RetryLeft
         THEN /\ job' = [job EXCEPT !.cursor = c.goid, !.tries = NextTry]
              /\ UNCHANGED <<target, caches, history>>
         ELSE RegisterRoot(c)

\* The parent has no context: go on from the parent.
WalkClimbs(c) ==
    /\ Walking(c)
    /\ goId2PGoId[job.cursor] # NoGoid
    /\ goId2Sc[goId2PGoId[job.cursor]] = NoSc
    /\ job' = [job EXCEPT !.cursor = goId2PGoId[job.cursor]]
    /\ UNCHANGED <<target, caches, history>>

\* The parent is the main goroutine and has a context: the loop continues without
\* having moved.
WalkSpinsAtMain(c) ==
    /\ Walking(c)
    /\ goId2PGoId[job.cursor] = Main
    /\ goId2Sc[Main] # NoSc
    /\ UNCHANGED vars

\* The trace of the span made for a goroutine: its ancestor's, not the one the
\* placeholder came with (a missing assignment).
OwnTrace(c, p) == c.trace
MiddlewareTrace(c, p) == goId2Sc[p].trace

\* An ancestor's context is found: the goroutine gets a span of its own below
\* it, which client handlers export and server handlers do not.
WalkFinds(c) ==
    /\ Walking(c)
    /\ LET p == goId2PGoId[job.cursor]
       IN  /\ p \notin {NoGoid, Main}
           /\ goId2Sc[p] # NoSc
           /\ goId2Sc' = [goId2Sc EXCEPT ![c.goid] = [trace |-> MiddlewareTrace(c, p), span |-> NextId]]
           /\ issued' = Issue(c.goid, c.id,
                IF c.kind = "server" THEN "phantom" ELSE "goroutine", MiddlewareTrace(c, p))
           /\ spans' = IF c.kind = "server" THEN spans
                ELSE spans \cup {[id |-> NextId, trace |-> MiddlewareTrace(c, p),
                                  parent |-> goId2Sc[p].span, late |-> FALSE]}
    /\ AfterPlaceholder(c)
    /\ UNCHANGED <<target, goPc2PGoId, goId2PGoId>>

-------------------------------------------------------------------------------
(* The main handlers: MustEnrichSpan, then the span is exported.           *)

\* The trace and parent a main event is exported with.
Enriched(c) ==
    IF goId2Sc[c.goid] # NoSc /\ goId2Sc[c.goid].span # c.id
      THEN [trace |-> goId2Sc[c.goid].trace, parent |-> goId2Sc[c.goid].span]
      ELSE [trace |-> c.trace, parent |-> c.psc.span]

HandleMain(c) ==
    /\ job = [at |-> "main", call |-> c]
    /\ job' = Idle
    /\ \/ spans' = spans \cup {[id |-> c.id, trace |-> Enriched(c).trace,
                                parent |-> Enriched(c).parent, late |-> c.late]}
       \/ Lossy /\ UNCHANGED spans
    /\ UNCHANGED <<target, caches, issued>>

-------------------------------------------------------------------------------
(* go-cache: an entry set a minute ago is gone, even in the middle of a walk. *)

ExpirePc(pc) ==
    /\ Expiring
    /\ goPc2PGoId[pc] # NoGoid
    /\ goPc2PGoId' = [goPc2PGoId EXCEPT ![pc] = NoGoid]
    /\ UNCHANGED <<target, goId2PGoId, goId2Sc, job, history>>

ExpireParent(g) ==
    /\ Expiring
    /\ goId2PGoId[g] # NoGoid
    /\ goId2PGoId' = [goId2PGoId EXCEPT ![g] = NoGoid]
    /\ UNCHANGED <<target, goPc2PGoId, goId2Sc, job, history>>

ExpireSc(g) ==
    /\ Expiring
    /\ goId2Sc[g] # NoSc
    /\ goId2Sc' = [goId2Sc EXCEPT ![g] = NoSc]
    /\ UNCHANGED <<target, goPc2PGoId, goId2PGoId, job, history>>

-------------------------------------------------------------------------------

Handle(c) ==
    \/ RegisterTaken(c)
    \/ RegisterNew(c)
    \/ WalkEndsAtUnknown(c)
    \/ WalkClimbs(c)
    \/ WalkSpinsAtMain(c)
    \/ WalkFinds(c)
    \/ HandleMain(c)

\* One step of the handler the runner is in.
HandlerStep == job # Idle /\ Handle(job.call)

Next ==
    \/ \E g, h \in Goroutines, pc \in PCs : Spawn(g, h, pc)
    \/ \E g \in Goroutines : Schedule(g)
    \/ \E g \in Goroutines, late \in Late :
          \/ \E psc \in ServerParents : Enter(g, "server", psc, late)
          \/ \E psc \in ClientParents(g) : Enter(g, "client", psc, late)
    \/ \E g \in Goroutines : Return(g)
    \/ HandlerStep
    \/ \E pc \in PCs : ExpirePc(pc)
    \/ \E g \in Goroutines : ExpireParent(g) \/ ExpireSc(g)

Spec == Init /\ [][Next]_vars

\* The runner keeps running its handler, and a minute passes in the end.
Fairness ==
    /\ WF_vars(HandlerStep)
    /\ \A g \in Goroutines : WF_vars(ExpireSc(g)) /\ WF_vars(ExpireParent(g))

FairSpec == Spec /\ Fairness

-------------------------------------------------------------------------------

\* The tree the registry builds names, as a goroutine's parent, a goroutine
\* that really ran the go statement the goroutine was made by, whatever was
\* lost or has expired.
ParentRanGoStatement ==
    \A g \in Goroutines : goId2PGoId[g] # NoGoid =>
        \E h \in Goroutines : creator[h] = goId2PGoId[g] /\ pcOf[h] = pcOf[g]

\* A child is exported in its parent's trace, unless the parent was itself moved
\* off the trace that its context carries (and that its other children got from
\* the context): two parts of one trace part only at a span that was moved.
TracesPartOnlyAtMovedSpans ==
    \A x, y \in spans : x.parent = y.id /\ x.trace # y.trace =>
        y.trace # issued[y.id].trace

\* A span's parent did not start after it, unless the span's call outlived the
\* queue's delay, when a nested server's context has replaced its own.
ParentStartsFirst ==
    \A x \in spans : x.parent \in Ids /\ ~x.late =>
        issued[x.parent].began <= issued[x.id].began

\* Those whose go statements led to g: the least set that holds g's creator and
\* the creator of each of its members.
Ancestors(g) ==
    {p \in Goroutines : \A S \in SUBSET Goroutines :
        (\A k \in S \cup {g} : creator[k] # NoGoid => creator[k] \in S) => p \in S}

\* No go statement has been run by two goroutines.
SoloGoStatements ==
    \A g, h \in Goroutines : Created(g) /\ Created(h) /\ pcOf[g] = pcOf[h] => creator[g] = creator[h]

\* The span made for a goroutine hangs below a span of one of its ancestors,
\* provided go statements are not shared: no lost or expired entry makes it
\* hang below an unrelated goroutine.
GoroutineSpanHasAncestor ==
    SoloGoStatements =>
        \A x \in spans : issued[x.id].kind = "goroutine" =>
            issued[x.parent].goid \in Ancestors(issued[x.id].goid)

\* A handler's walk up the tree ends: while it lasts the queue is locked.
WalkEnds == (job.at = "walk") ~> (job.at # "walk")

\* "ignore case where pgoid = 1": a walk that meets the main goroutine is over,
\* without waiting for an entry to expire.
MainIsIgnored ==
    (job.at = "walk" /\ goId2PGoId[job.cursor] = Main) ~> (job.at # "walk")
===============================================================================
