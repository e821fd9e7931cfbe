----------------------------- MODULE SpanTracking -----------------------------
(***************************************************************************)
(* The eBPF programs at the entry and return of probed functions, and the  *)
(* maps they share (pkg/instrumentors/bpf, internal/include).  Each        *)
(* library keeps the records of its calls in flight under the goroutine's  *)
(* address; the span context of a server's call is also kept for its       *)
(* goroutine, and that of any call under a word read at its context, where *)
(* later calls look for a parent (ContextWords).  All maps are bounded, and *)
(* a full one refuses new keys without anybody noticing.  A goroutine on a *)
(* thread that is not in goroutines_map, which is bounded too, takes       *)
(* itself for goroutine 0.                                                 *)
(* A call is named by its number, which stands for its record, its span id *)
(* and its span context.                                                   *)
(*                                                                         *)
(* A program runs to its end in one step: what programs of two goroutines  *)
(* share is the room in the maps and the contexts, on the order of whose   *)
(* accesses no property here depends.                                      *)
(***************************************************************************)
EXTENDS ContextWords, Sequences, FiniteSets

CONSTANTS
    Goroutines,
    Untracked,           \* those that may run on a thread that is not in goroutines_map
    Zero,                \* the goroutine id read there
    Contexts,            \* context.Context values, messages and log entries
    TypeWord,            \* first word of the interface value: the type, for a context
    FirstWord,           \* first word of what the interface value points to
    Address,             \* of a message or a log entry
    Sites,               \* the calls made: [g, lib, ctx]
    MaxConcurrent,       \* MAX_CONCURRENT of each library
    MaxConcurrentSpans,  \* MAX_CONCURRENT_SPANS, of the tracked contexts
    MaxSystemThreads,    \* MAX_SYSTEM_THREADS, of the goroutines' contexts
    MaxCalls             \* bound: calls made

Servers == {"net/http server", "grpc server", "gin"}
Libs == Servers \cup {"net/http client", "grpc", "database/sql", "sarama", "logrus"}
Goids == Goroutines \cup {Zero}

ASSUME GoroutinesAssumption == Zero \notin Goroutines /\ Untracked \subseteq Goroutines
ASSUME ContextsAssumption ==
    /\ TypeWord \in [Contexts -> Words] /\ FirstWord \in [Contexts -> Words]
    /\ Address \in [Contexts -> Words]
ASSUME SitesAssumption == Sites \subseteq [g : Goroutines, lib : Libs, ctx : Contexts]
ASSUME LimitsAssumption ==
    /\ MaxConcurrent \in [Libs -> Nat]
    /\ MaxConcurrentSpans \in Nat /\ MaxSystemThreads \in Nat
    /\ MaxCalls \in Nat

VARIABLES
    stack,        \* the calls each goroutine is inside, innermost last
    inFlight,     \* http_events, grpc_events, sql_events, ... of each library
    goroutineSc,  \* goroutine_sc_map
    tracked,      \* tracked_spans
    trackedBySc,  \* the keys of tracked_spans_by_sc
    calls,        \* history: [g, goid, lib, ctx, parent] of each call, goid as recorded
    fate,         \* history: "open", "returned" or "unwound"
    lost,         \* history: calls whose record was refused or overwritten
    refused,      \* history: calls refused by goroutine_sc_map
    reports       \* history: the events sent, [by, of]: by whose return, of which call

maps == <<inFlight, goroutineSc, tracked, trackedBySc>>
vars == <<stack, maps, calls, fate, lost, refused, reports>>

Ids == 1..MaxCalls

\* The types, and that no map outgrows its limit.
TypeOK ==
    /\ \A g \in Goroutines : \A i \in DOMAIN stack[g] : stack[g][i] \in DOMAIN calls
    /\ inFlight \in [Libs -> [Goroutines -> Ids \cup {None}]]
    /\ goroutineSc \in [Goids -> Ids \cup {None}]
    /\ tracked \in [Words -> Ids \cup {None}]
    /\ trackedBySc \subseteq Ids
    /\ \A i \in DOMAIN calls : calls[i] \in
           [g : Goroutines, goid : Goids, lib : Libs, ctx : Contexts, parent : Ids \cup {None}]
    /\ DOMAIN fate = DOMAIN calls
    /\ lost \cup refused \subseteq DOMAIN calls
    /\ \A l \in Libs : Cardinality(Entries(inFlight[l])) <= MaxConcurrent[l]
    /\ Cardinality(Entries(goroutineSc)) <= MaxSystemThreads
    /\ Cardinality(Entries(tracked)) <= MaxConcurrentSpans
    /\ Cardinality(trackedBySc) <= MaxConcurrentSpans

Init ==
    /\ stack = [g \in Goroutines |-> <<>>]
    /\ inFlight = [l \in Libs |-> [g \in Goroutines |-> None]]
    /\ goroutineSc = [k \in Goids |-> None]
    /\ tracked = [w \in Words |-> None]
    /\ trackedBySc = {}
    /\ calls = <<>>
    /\ fate = <<>>
    /\ lost = {} /\ refused = {} /\ reports = {}

-------------------------------------------------------------------------------
(* The kernel's hash maps.                                                 *)

\* Room for one more key; counting one more is a plausible slip.
RoomForTwo(n, limit) == n <= limit
Room(n, limit) == n < limit

\* bpf_map_update_elem with BPF_ANY, which replaces an entry; a new key is refused
\* when the map is full.
Updated(m, k, v, limit) ==
    IF m[k] # None \/ Room(Cardinality(Entries(m)), limit) THEN [m EXCEPT ![k] = v] ELSE m

-------------------------------------------------------------------------------
(* Parents.                                                                *)

\* The word that the programs of a library read at a context, for all they do with
\* tracked_spans: the net/http, gin and gRPC server programs read the interface value
\* in the request, gRPC's client and SQL what it points to; a message and a log
\* entry stand for themselves.
ContextWord(lib, ctx) ==
    IF lib \in {"net/http server", "net/http client", "gin", "grpc server"} THEN TypeWord[ctx]
    ELSE IF lib \in {"grpc", "database/sql"} THEN FirstWord[ctx]
    ELSE Address[ctx]

FromContext(lib, ctx) == FoundSpan(tracked, ContextWord(lib, ctx))

Either(first, second) == IF first # None THEN first ELSE second

-------------------------------------------------------------------------------
(* The programs.                                                           *)

\* get_current_goroutine.
GoidsOf(g) == IF g \in Untracked THEN {g, Zero} ELSE {g}

\* Entry: goroutine_sc_map for a server, the record and the tracked spans.
Enter(g, lib, ctx, goid, parent) ==
    LET c == Len(calls) + 1
    IN  /\ c <= MaxCalls
        /\ [g |-> g, lib |-> lib, ctx |-> ctx] \in Sites
        /\ stack' = [stack EXCEPT ![g] = Append(@, c)]
        /\ calls' = Append(calls, [g |-> g, goid |-> goid, lib |-> lib, ctx |-> ctx,
                                   parent |-> parent])
        /\ fate' = Append(fate, "open")
        /\ goroutineSc' = IF lib \in Servers
             THEN Updated(goroutineSc, goid, c, MaxSystemThreads) ELSE goroutineSc
        /\ refused' = IF lib \in Servers /\ goroutineSc'[goid] # c
             THEN refused \cup {c} ELSE refused
        /\ inFlight' = [inFlight EXCEPT ![lib] = Updated(@, g, c, MaxConcurrent[lib])]
        /\ lost' = lost \cup ({inFlight[lib][g], c} \ {None, inFlight'[lib][g]})
        /\ tracked' = Updated(tracked, ContextWord(lib, ctx), c, MaxConcurrentSpans)
        /\ trackedBySc' = IF Room(Cardinality(trackedBySc), MaxConcurrentSpans)
             THEN trackedBySc \cup {c} ELSE trackedBySc
        /\ UNCHANGED reports

\* The servers: their parent, if any, comes from the request and is not a call here.
ServeMux(g, ctx) == \E goid \in GoidsOf(g) : Enter(g, "net/http server", ctx, goid, None)
HandleStream(g, ctx) == \E goid \in GoidsOf(g) : Enter(g, "grpc server", ctx, goid, None)
GinServe(g, ctx) == \E goid \in GoidsOf(g) : Enter(g, "gin", ctx, goid, None)

\* The clients: net/http and gRPC ask the goroutine first and SQL the context.
Do(g, ctx) == \E goid \in GoidsOf(g) :
    Enter(g, "net/http client", ctx, goid, Either(goroutineSc[goid], FromContext("net/http client", ctx)))
Invoke(g, ctx) == \E goid \in GoidsOf(g) :
    Enter(g, "grpc", ctx, goid, Either(goroutineSc[goid], FromContext("grpc", ctx)))
QueryDC(g, ctx) == \E goid \in GoidsOf(g) :
    Enter(g, "database/sql", ctx, goid, Either(FromContext("database/sql", ctx), goroutineSc[goid]))

\* A message is its own key, and only the goroutine is asked.
SendMessage(g, msg) == \E goid \in GoidsOf(g) :
    Enter(g, "sarama", msg, goid, goroutineSc[goid])

\* So is a log entry; the goroutine asked is that of the record, which is set later.
EntryWrite(g, entry) == \E goid \in GoidsOf(g) :
    Enter(g, "logrus", entry, goid, goroutineSc[Zero])

\* What becomes of a record that has been sent, and of the context of the call it
\* is of (record None: a record of zeros, whose span context is not tracked).
RecordKept(lib, g) == inFlight
RecordDeleted(lib, g) == [inFlight EXCEPT ![lib][g] = None]

StillTracked(record) == trackedBySc
StopTracking(record) == trackedBySc \ {record}

\* A server's return forgets the goroutine of its record, another's does not.
Forgotten(record) ==
    [goroutineSc EXCEPT ![IF record = None THEN Zero ELSE calls[record].goid] = None]
Held(record) == goroutineSc

\* Return of the innermost call: whatever record is found is sent as the event.
\* stop_tracking_span deletes from tracked_spans a key that is never there, the
\* address of its own copy of the context, and so leaves tracked_spans alone.
Report(g, c, record) ==
    /\ stack' = [stack EXCEPT ![g] = SubSeq(@, 1, Len(@) - 1)]
    /\ fate' = [fate EXCEPT ![c] = "returned"]
    /\ reports' = reports \cup {[by |-> c, of |-> record]}
    /\ inFlight' = RecordDeleted(calls[c].lib, g)
    /\ trackedBySc' = StopTracking(record)
    /\ UNCHANGED <<tracked, calls, lost, refused>>

ServerReturns(g) ==
    /\ stack[g] # <<>>
    /\ LET c == stack[g][Len(stack[g])]
           record == inFlight[calls[c].lib][g]
       IN  /\ calls[c].lib \in Servers
           /\ Report(g, c, record)
           /\ goroutineSc' = Forgotten(record)

ClientReturns(g) ==
    /\ stack[g] # <<>>
    /\ LET c == stack[g][Len(stack[g])]
           record == inFlight[calls[c].lib][g]
       IN  /\ calls[c].lib \notin Servers
           /\ Report(g, c, record)
           /\ goroutineSc' = Held(record)

\* The innermost call ends in a panic: no return instruction, no program.
Unwind(g) ==
    /\ stack[g] # <<>>
    /\ stack' = [stack EXCEPT ![g] = SubSeq(@, 1, Len(@) - 1)]
    /\ fate' = [fate EXCEPT ![stack[g][Len(stack[g])]] = "unwound"]
    /\ UNCHANGED <<maps, calls, lost, refused, reports>>

Next ==
    \E g \in Goroutines :
        \/ \E ctx \in Contexts :
              \/ ServeMux(g, ctx) \/ HandleStream(g, ctx) \/ GinServe(g, ctx)
              \/ Do(g, ctx) \/ Invoke(g, ctx) \/ QueryDC(g, ctx)
              \/ SendMessage(g, ctx) \/ EntryWrite(g, ctx)
        \/ ServerReturns(g)
        \/ ClientReturns(g)
        \/ Unwind(g)

Spec == Init /\ [][Next]_vars

-------------------------------------------------------------------------------

\* No call is reported twice, whatever is overwritten, refused or unwound.
ReportedOnce ==
    \A r, s \in reports : r.of = s.of /\ r.of # None => r.by = s.by

\* A return reports its own call, unless the record was overwritten or refused,
\* and then nothing, or a call of the same function that panicked inside it.
WrongReportsExplained ==
    \A r \in reports : r.of # r.by =>
        /\ r.by \in lost
        /\ r.of # None => /\ r.of > r.by /\ fate[r.of] = "unwound"
                          /\ calls[r.of].g = calls[r.by].g
                          /\ calls[r.of].lib = calls[r.by].lib

\* The entries of a call that has returned are gone, unless its record was lost:
\* only such calls, and those that panicked, fill the maps up.
EntriesExplained ==
    \A c \in DOMAIN calls : fate[c] = "returned" /\ c \notin lost =>
        /\ \A l \in Libs, g \in Goroutines : inFlight[l][g] # c
        /\ \A k \in Goids : goroutineSc[k] # c
        /\ c \notin trackedBySc

\* While the server's call that a goroutine entered last is open, its context is
\* what calls on that goroutine find, unless the map was full when it was entered
\* or the goroutine was not known.
LatestServerHeld ==
    \A c \in DOMAIN calls :
        /\ calls[c].lib \in Servers /\ fate[c] = "open" /\ c \notin refused
        /\ calls[c].goid # Zero
        /\ \A d \in c + 1..Len(calls) :
               ~(calls[d].goid = calls[c].goid /\ calls[d].lib \in Servers)
        => goroutineSc[calls[c].goid] = c

\* A parent is a call that was tracked under a word which is found from this call's
\* context on, or a server's call on the same goroutine; only where neither's
\* goroutine was known may it be another's, and a log entry has no other parents
\* than those of unknown goroutines.
ParentRelated ==
    \A i \in DOMAIN calls : calls[i].parent # None =>
        LET p == calls[calls[i].parent]
            word == ContextWord(p.lib, p.ctx)
        IN  \/ /\ calls[i].lib \notin {"sarama", "logrus"}
               /\ word # NoWord /\ word \in Reachable(ContextWord(calls[i].lib, calls[i].ctx))
            \/ /\ p.lib \in Servers
               /\ p.g = calls[i].g \/ (p.goid = Zero /\ (calls[i].goid = Zero \/ calls[i].lib = "logrus"))
               /\ calls[i].lib = "logrus" => p.goid = Zero

\* "Delete the span from the global active spans map": what is tracked is a call that
\* is open, or panicked, or whose record was lost.
TrackedAreActive ==
    \A w \in Words : tracked[w] # None => fate[tracked[w]] # "returned" \/ tracked[w] \in lost
===============================================================================
