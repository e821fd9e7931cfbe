# A TLA+ model of the Go auto-instrumentation agent

The agent attaches eBPF programs to a running Go process, receives an event for each probed
call, and turns the events into OpenTelemetry spans that are linked across goroutines and
processes. This directory models the parts of it where several actors meet: the queue that orders
the events, the registry that links spans along the goroutine tree, the maps of the eBPF programs, the way of a
span context through the headers of HTTP and gRPC requests, the allocator of memory in the target, the search for
the target and the call made in it with ptrace, and the agent's own start and end. TLC checks the models on small instances, and
TLAPS proves the most important invariants for every value of the constants.

Paths below are relative to the repository. `pkg/` is the code in use; `internal/pkg/` is an older
copy of it that the agent does not import, and of `internal/` only `internal/include` (the headers
of the eBPF programs) is used.

## Inventory

| component | state | operations | talks to |
|---|---|---|---|
| Event priority queue, `pkg/instrumentors/utils/priority_queue.go` | heap of items, `handlerMap`, one mutex, `previousPriority` | `Push`, `Register`, `Unregister`, a turn of `Run`, `Close` | readers push; `Run` calls handlers with the mutex held |
| Goroutine and span registry, `pkg/instrumentors/gmap/gmap.go` | caches `goPc2PGoId`, `goId2PGoId`, `goId2Sc`, entries live a minute | `RegisterSpan`, `MustEnrichSpan`, `GetAncestorSc` | called by the handlers |
| Runtime tracker, `pkg/instrumentors/bpf/github.com/runtime` | eBPF `goroutines_map` (thread to goroutine) | uprobe on `runtime.casgstatus`, `EventHandler` | perf buffer to queue to registry |
| Probes (net/http server and client, gRPC server and client, database/sql, gin, sarama, logrus; gorilla mux is switched off), `pkg/instrumentors/bpf/**` | a map of the events in flight per library | entry program, return program, `Load`, `Run`, `Close` | shared eBPF maps, perf buffers, queue, manager's channel |
| Shared eBPF maps, `internal/include/go_context.h`, `goroutines.h` | `tracked_spans`, `tracked_spans_by_sc`, `goroutine_sc_map` (pinned, bounded) | `start_tracking_span`, `stop_tracking_span`, `get_parent_span_context` | every probe |
| Allocator in the target, `internal/include/alloc.h` | per-CPU cursor and end in `alloc_map` | `write_target_data` | probes that write headers |
| Manager, `pkg/instrumentors/manager.go`, `runner.go` | instrumentors, `done`, `incomingEvents` | `FilterUnusedInstrumentors`, `load`, `Run`, `cleanup`, `Close` | handlers send to it, it calls the controller |
| Agent, `cli/main.go` | the phases of `main`, the signal goroutine | | everything |
| Discovery and analysis, `pkg/process` | ticker, `done` | `DiscoverProcessID`, `Analyze`, `remoteMmap` | /proc, ELF, ptrace |
| ptrace, `pkg/process/ptrace` | set of attached threads | `NewTracedProgram`, `Detach`, `Mmap` | the target's threads |
| Injector, `pkg/inject` | table of struct offsets by version | `Inject`, `getFieldOffset` | `Load` |
| bpffs, `pkg/instrumentors/bpffs`, `allocator` | directory of pinned maps | `Mount`, `Cleanup` (never called) | `load` |
| Controller, `pkg/opentelemetry` | tracers, boot-time offset | `Trace` | the SDK |
| Offsets tracker, `offsets-tracker` | none at run time | | build time |

What is hard in it:

* **Order.** A call's events go through per-library perf buffers and reader goroutines, so they
  reach the queue in any order. The queue holds each for `QUEUE_DELAY_DURATION` and pops by start
  time; the registry depends on that order, and gets it only for events that are not late.
* **Time.** A main event carries its call's start time but exists only when the call returns. A
  call longer than the delay is therefore handled late, after calls that began after it.
* **Blocking.** A handler runs with the queue's mutex held, and may block on the manager's
  unbuffered channel or walk the goroutine tree.
* **Loss and expiry.** Perf buffers overflow; cache entries vanish after a minute, even during a walk.
* **Per-CPU state** of the allocator, of which a delete affects all CPUs.
* **Writing into a running process.** A header is put into a Go map or slice by a sequence of writes into the target's
  memory, each of which may fail, by programs that know the layout but not the runtime's invariants.
* **Names that are reused.** gRPC's stream ids are the same in every connection; a hash map's element is given to
  another key while a program still reads it; a goroutine that is not known takes itself for goroutine 0.
* **Stopping a process.** Threads come and go while they are attached to one by one; ptrace belongs to an OS thread, and
  the goroutine that uses it is not bound to one.
* **Ends.** Signals before the manager listens, loads that fail half way, a channel closed by its
  receiver.

## Modules

| module | models | remarks |
|---|---|---|
| `OrderedRelay` | what the queue promises: hand-overs one at a time, never repeated, stamps going down only for an event that was late | abstract |
| `EventQueue` | the queue with perf buffers, readers, handlers and manager | implements `OrderedRelay` |
| `SpanRegistry` | tracker, entry and return probes, registry and handlers | takes the queue's order as given |
| `ContextWords` | the keys of `tracked_spans`, and the search for a parent | pure functions |
| `SpanTracking` | entry and return programs of the eight libraries over their shared maps | gives `SpanRegistry` its calls' parents |
| `GrpcClient`, `GrpcServer` | a context's way from `Invoke` to a headers frame, and from the received headers to the server's call | |
| `GrpcPropagation` | the two processes and their connections | composes the two above; the client also uses `ContextWords` |
| `TraceHeader` | the text of a traceparent, there and back | pure functions |
| `HeaderMap`, `HeaderList` | the traceparent in an HTTP request's map, and in a gRPC request's list of fields | write by write |
| `HeaderInjection` | one or the other | composes the three above |
| `TargetAlloc` | `write_target_data` on several CPUs | |
| `AgentLifecycle` | `main`, signal goroutine, manager, handlers' sends | |
| `Discovery`, `TracedProgram` | the scan of /proc; attaching to the target, the call made in it, and detaching | |
| `AgentTarget` | an agent with its target, and another agent after it | composes the three above |
| `MC*` | small sets of model values for TLC | |
| `*_proofs` | theorems and their TLAPS proofs | |

### EventQueue

An event is stamped when its call starts (`Begin`), written to its type's perf buffer at entry or
return (`Emit`, lost when the buffer is full), pushed by a reader (`Push`, dropped when the heap is
full), popped when it is the least and old enough (`Dispatch`), and handled (`HandlerReturns`, or
`HandlerSends` and then `TraceDone`). `MuFree` is the mutex: nothing else happens to the queue while a
handler runs. The heap is the set of events at stage `queued`, of which `Least` picks one of least
priority; several may be, and then any is popped, as the order of equal priorities depends on how
`container/heap` has arranged them. Time is a counter up to `Horizon + Delay`; the counter starts at 1
as a placeholder's priority is the start time minus one. `rank` and `flagged` are history.

*Runs.* `event_queue` (two main events and a placeholder of two types, delay 1, heap of 2, perf
buffer of 1, horizon 3): with three events every pair can overtake, a limit of 2 and a buffer of 1 are
both reached, and the horizon leaves room for an event to be late. `QueuedIsPopped` is checked under
weak fairness of the runner's `Dispatch`, of handlers coming to their end, of `Trace` and of the clock:
the runner is a busy loop, handlers do nothing but look up maps and send, and the manager is at its
select whenever it is not in `Trace`. `RelaySpec` is the refinement of `OrderedRelay`, whatever is lost, dropped or
late: an event is `overdue` if it was pushed more than the delay after the instant its priority names, and
only such an event may be handed over after one of a greater stamp. What is left to `EventQueue_proofs` alone is
`HeapNeverUndercuts`, `FlaggedAreLate` and the types: `OrderUnlessLate` and `RelaySpec` are what handlers see of them.

### SpanRegistry

Spans are numbered as they are issued; a trace is named by the first of its spans. `Spawn` and
`Schedule` are the two events of the runtime tracker. `Enter` is an entry program (it chooses the
span context, from the headers, the goroutine, the context or nothing) with its placeholder, `Return`
a return program. The handler the queue calls is `job`; the walk of `getAncestorSc` is a step
per goroutine (`WalkClimbs`, `WalkSpinsAtMain`, `WalkFinds`, `WalkEndsAtUnknown`), because entries may
expire between two reads. Everything else waits for the handler (`RunnerFree`): the target goes on in
reality, but its events are handled later, and in order. The queue's contribution is built in the
way `EventQueue` proves it: an event is handled right after those that started before it, and a main
event of a call that outlives the delay (`late`) is handled at its return. Nested calls on one
goroutine are of different libraries, whose maps of events in flight are separate.

*Runs.* `span_registry` (three goroutines, two go statements, three span ids, nesting of two, calls that may outlive the delay, loss of any
event and expiry of any entry; about 1.9 million states) checks how exported spans are linked: that the goroutine tree names only goroutines that
ran the go statement, that a span made for a goroutine hangs below an ancestor's as long as no statement is shared, at which spans
traces part, and that parents start first. Three goroutines give a chain and two siblings; three ids give a server, a call below it,
on its goroutine or another, and a span made for a goroutine. `span_registry_walk`
(one go statement, no nesting, calls shorter than the delay) checks that walks end, with loss and expiry
and under weak fairness of the handler and of the expiry of single entries, which is what a one-minute
lifetime amounts to as long as nobody renews the entry: the queue is locked during the walk, so nobody
does. `span_registry_main` shows what happens when no entry expires: "ignore case where pgoid = 1" (`gmap.go:54`). The loop continues without
having moved, so that a walk that meets goroutine 1 with a span context spins, with the queue
locked, until an entry expires. The run gives it fair scheduling and no expiry.

Where a go statement has been run by several goroutines nothing more than `ParentRanGoStatement` is claimed. The
tracker looks a goroutine's parent up by the address of the go statement, each time it is scheduled, and finds the last goroutine that
ran it (`tracker_linux.go:119`): with `SoloGoStatements` dropped from `GoroutineSpanHasAncestor` and a fourth goroutine, TLC lets a goroutine's span
come to hang below a sibling's.

A span's trace may also be another than the one that the header of its own request carried, when the registry moves it
into the trace of its goroutine; `TracesPartOnlyAtMovedSpans` says at which spans traces part.

### SpanTracking

A call is named by its number, which stands for its record, its span and its span context. `Enter` is what the entry
programs have in common; the eight of them (`ServeMux`, `HandleStream`, `GinServe`, `Do`, `Invoke`, `QueryDC`, `SendMessage`,
`EntryWrite`) say where each looks for a parent and which maps it fills: servers (net/http, gRPC, gin) keep the
context for the goroutine, clients look for a parent, each library in its own order.

What is tracked as a call's context, and where a search begins, is not the `context.Context` but a word that the program reads
at it (`ContextWord`). net/http, gin and the gRPC server read the first word of the interface value in the request, which is its type
word; gRPC's client and database/sql read through the data pointer, and get the first word of the context's struct, mostly
again a type word. Contexts of one type therefore share an entry. From a word that is not a key the search goes on with the word 8 bytes behind
that address (`WordBehind`, for `MAX_DISTANCE` rounds), which is behind a type's description and not in the context's parent; a word that
is 0 is never taken for a context, though an entry may be made under it. Which words stand where is a constant of the model, since the programs only
read them. sarama and logrus track a message
or an entry by its address. logrus reads the goroutine's id
before it is set (`logrus/bpf/probe.bpf.c:111`) and so looks under goroutine 0. `ServerReturns` and `ClientReturns` are the
return programs, `Unwind` a call that ends in a panic, of which no program hears. The maps are bounded and `Updated`
refuses a new key when there is no room; `goroutines_map` is bounded too, and a goroutine on a thread that it does not
know takes itself for goroutine 0 (`GoidsOf`). A record is kept under the goroutine, as with Go's register ABI (1.17 and
later). `calls`, `fate`, `lost`, `refused` and `reports` are history. A program is one step: two of them share only
the room in the maps and the tracked contexts, and no property here speaks of the order of accesses to those.

*Runs.* `span_tracking` (a goroutine that is always known and one that is not; two requests with one type of context, one derived
from the first, the background context, and two that embed a pointer; three calls, rooms of 1 and 2): three calls allow an outer call, a
nested one and a call of the other goroutine, or three nested ones, so that each map fills up and records are overwritten, refused and left
behind by panics; `MCSites` picks, of all places where a library may be called, some that include each library at least once.
`ParentRelated` says whose span an entry program may take for its parent: that of a call which was tracked under a word that is
found from this call's context on, or of a server's call of the same goroutine, or, if neither goroutine was known, of anybody.
`span_tracking_stale` refutes step 6 of the comment in `uprobe.h`: `stop_tracking_span` hands `bpf_map_delete_elem` the address of the
map's value instead of the key, so that a returned call stays tracked, and after a hundred words no new one is.

What these properties do not say, because the code does not keep it:

* that a parent's context has anything to do with the call's but the word. "We assume context.Context implementation contains Parent context.Context
  member" (`go_context.h:50`) is said of a data pointer, and what is handed over is a type word: a call may get a parent on another known goroutine whose
  request merely has a context of the same type;
* that the goroutine's context is that of the innermost running server. "The current span map should always hold the current running span"
  (`docs/design/context-propagation.md:14`), but when a gin call nested in a ServeMux's returns, the goroutine's context is forgotten although
  the outer call goes on. `LatestServerHeld` says "entered last";
* that a log entry finds the call around it, executed "by the same goroutine" (`context-propagation.md:22`): the goroutine's id
  is used before it is set.

### GrpcClient, GrpcServer, GrpcPropagation

On the client's side a context is made at `ClientConn.Invoke` and kept under the goroutine's id; at
`http2Client.NewStream` it is moved to the stream id that the connection seems about to assign (`NextIdRead`), although
gRPC assigns the id only later, under its lock (`AssignId`); the connection's writer looks it up by the id of the frame it
writes (`Lookup`), gives the map's element back (`Delete`) and only then reads it (`Write`), by which time the element
may hold another context or bytes of two (`Mixed`). A call may open several streams (transparent retries), fail before it
opens one, or be a stream without `Invoke`. What `Invoke` tracks and `NewStream` looks for are words again: the first of the caller's context
(`FirstWord`), and the first of the one that gRPC derives from it (`StreamWord`, external), from which `FoundSpan` goes on. A process may also serve, and its servers' writers run the same program
(`LookupResponse`). On the server's side the reader puts the context that the headers carry under the
stream's id alone (`Decode`); the goroutine started for the stream takes it (`Read`) and clears it (`Clear`), two
steps between which another connection's reader may run.

The properties have one form: whatever a call carries, or a map keeps, is right unless one of the causes that they name
has crossed the call's way. `StoredIsMeant` is about what is put under the stream id, `HeaderIsStored` about what the writer
finds there, `WaitingExplained` about what stays behind in the client's map, `ParentIsOwn` and `KeptExplained` about the
server's, and `ServedBelowCaller` about the whole way: the server's span is the child of the call's own if nothing disturbed it.
A retry, or a call whose context the map refused, gets what is found from its context's word on: of whatever unary call was tracked last under
that word, not of a call with the same context. A stream has no context of its own: what is meant for it is what is found when it opens, so that
for streams `StoredIsMeant` tells apart only what an earlier call of the goroutine has left. Spans that the other libraries'
programs track under the same words are in `SpanTracking` and not here.

*Run.* `grpc_propagation` (one goroutine that is known and two that are not, two contexts of which one has no word, two client connections, one served
connection in the same process, two calls with up to two streams each, rooms of 1, symmetry of connections
and unknown goroutines; about 2.6 million states). Two calls on two connections are what it takes for ids to collide, for a
map to be full and for an element to be reused; no action needs a third. The system may stop when all calls are over, so
deadlock is not checked, nor here nor in the other runs whose models end.

### TraceHeader, HeaderMap, HeaderList, HeaderInjection

`TraceHeader` is `span_context_to_w3c_string` and `w3c_string_to_span_context` byte by byte, with the hexadecimal digits as
ASCII codes: that is what the two programs agree on. `HeaderMap` is `inject_header`: each `bpf_probe_write_user` into the Go
map (`WriteTophash`, `WriteKey`, `WriteKeyLength`, `WriteValue`, `WriteSize`) is a step that may fail and after
which the program goes on or returns as the code does; before the call the program that owns the request sets and deletes headers
(external, from what Go's map promises), and it may use the request again after it. `Extract` is the server's search of the map that
it has built from the received headers, to which the transport has added some (`Added`: User-Agent, Accept-Encoding): when there are more than a
bucket's slots, the traceparent may be where the program does not look (`crowded`). `HeaderList` is the writer's `append_item_to_slice`, with a new array when the old one
has no room, and the server's search of the first `MAX_HEADERS` fields.

*Run.* `header_injection`: two own headers, which lie in the same or in different buckets, maps of one and two buckets of three
slots (Go's have eight; three are enough for a slot in use, a free one and one that was deleted), up to four operations of the owner
and two calls with one request, none or one header added by the transport; lists of up to 22 fields with limits of the source (40 bytes for an item, 400 for an
area's block, 20 headers), so that both the greatest list that can be copied (9 fields) and `MAX_HEADERS` are crossed. The context's
bytes take every kind of digit. `RequestSound`, `OwnHeadersKept` and `ParentIsCaller` are about the HTTP request: which failures
may leave it unsound, when an own header is overwritten, and which of a reused request's traceparents the server takes;
`SliceWithinArray`, `FieldsKept` and `ServerFinds` about the gRPC one. They except the failures after which the code itself
goes on, and `ParentIsCaller` an earlier call's context that a reused request still carries.
"Currently only maps with less than 8 keys are supported for injection" (`client/bpf/probe.bpf.c:52`), but a small map from which a header was deleted
may lose another to the traceparent, as its count is then the number of a slot in use. `OwnHeadersKept` therefore excepts a deletion.

### TargetAlloc

Each step is one access of `alloc_map` or of the target's memory; a program is not preempted on its
CPU, and programs of several CPUs interleave. Addresses are modulo `Word`. Deleting the cursor
removes every CPU's; when the element is made again, the other CPUs see zero (`Unset`), as the
kernel zero-fills a new element of a per-CPU hash for the CPUs that do not update it. `blocks` holds what was written;
a CPU's old blocks are given up when it comes to the end of its own partition. When another CPU does, its blocks stay and are only marked (`swept`):
it will start over without having come to its end.

*Runs.* `alloc` (two CPUs, partitions of 24 bytes, sizes 8 and 11): sizes that are and are not whole
words, and partitions full after one, two or three blocks, so that the restart and the deletion of the
other's cursor happen in every order. `OverwrittenOnlyIfSwept` says that a CPU overwrites what it wrote in this lap only after the other has deleted its
cursor, and never what another CPU wrote. It does happen then: "reached end of CPU memory block, going to the start again" (`alloc.h:97`), but the
deletion makes the other CPUs start over too, and one of them writes over the string it wrote last, with room left. So a header of a request
that has not been sent yet may be overwritten, and no property says otherwise.
`alloc_unaligned` has partitions of 20 bytes: as with 24 MiB divided by 5, 7, 9 or 10 CPUs, the partition is not a multiple of 8. The
cursor steps over its end, the unsigned difference at `alloc.h:95` wraps, and writes leave the area. No run has a CPU whose number is not below
`total_cpus`, as when the agent runs under an affinity mask (`injector.go:58`): what such a CPU takes for its partition lies behind the area.

### AgentLifecycle, Discovery, TracedProgram, AgentTarget

`main` goes from discovery through analysis, loading, and the manager's loop to cleanup; the signal
goroutine closes analyzer and manager, whose `done` channels have a buffer of one. The queue's runner
is `handler`: idle or at its send. A send on the closed channel ends the process.

`Discovery` scans /proc at each tick: `ReadBatch` is one call of `Readdir`, `Look` one process of the batch; a process that
has ended in between ends the scan with an error. `TracedProgram` is `NewTracedProgram` (threads are listed, attached to and
waited for one by one, in rounds until a round finds nothing new, with a limit of retries per thread), the system call made in the
main thread, request by request (`Protect`, `SetRegs`, `Poke`, `Step`, `Result`), `Restore` and `Detach`. Each request for a thread
succeeds only if the OS thread that the goroutine is on is the one that attached to it (`Traced`); `Moves` lets the goroutine change its
OS thread once. `AgentTarget` puts the three together, with the directory of pinned maps that `load` makes before the first
instrumentor (`Mount`); when an agent has ended, the kernel lets go of the threads it held and another agent may be started
for the same target (`Restart`), to find the directory there.

Assumptions: a thread id is not used again; listing the threads is one step; processes other than the target may end but
none starts; the target stays once it has started, and may be killed only while it is traced; an agent that dies lets go of its threads.

*Runs.* `agent_lifecycle` (two libraries, two processes, a batch of one, two threads, two retries, two agents one after the
other; about 230,000 states): with two libraries a load may fail after one and before another; with two threads one can be created or
end while the other is attached to; a batch of one is the smallest case of a scan that goes on after a process that ended.
Fairness (`AgentFairness`): goroutines run; the kernel stops a thread that was attached to; strong fairness of `ReceiveDone`
and `Interrupted`, because Go's `select` chooses at random among ready cases, so a `done` that stays
ready while events or ticks keep coming is taken in the end. Nothing forces the target to start or another process to stay.
`StoppedOnlyWhileAnalyzed` and `RunsOwnCode` have one exception, "moved": after the goroutine has changed its OS thread ptrace answers
`ESRCH`, which `Detach` takes for a thread that has ended. `AreaIsMapped` has one as well: the stop after the single
step may be a signal's, or the call may answer with an error number, and neither is looked at (`ptrace_linux_amd64.go:102`). These exceptions stand for
what the code does: `Detach` "detaches from all threads of the processes" (`ptrace_linux.go:148`) only from the OS thread that attached; "restore the state
saved at beginning" (`ptrace_linux_amd64.go:113`) is come to on no path with an error; and "the return value of syscall is stored inside rax
register" (line 107), where it may be the call's number.
`TargetIsFound` says that a scan that ends early, for a process that is gone, does not keep the agent from its target for ever.
`agent_lifecycle_shutdown` shows, with one agent, that a
shutdown may end in a panic: cleanup closes the channel before it closes the instrumentors.

## Runs

| run | expects | properties |
|---|---|---|
| `event_queue` | pass | `OrderUnlessLate`, `QueueBounded`, `QueuedIsPopped` (liveness), `RelaySpec` (refinement) |
| `span_registry` | pass | `TracesPartOnlyAtMovedSpans`, `ParentStartsFirst`, `ParentRanGoStatement`, `GoroutineSpanHasAncestor` |
| `span_registry_walk` | pass | `WalkEnds` (liveness) |
| `span_registry_main` | violation | `MainIsIgnored` |
| `span_tracking` | pass | `TypeOK`, `ReportedOnce`, `WrongReportsExplained`, `EntriesExplained`, `LatestServerHeld`, `ParentRelated` |
| `span_tracking_stale` | violation | `TrackedAreActive` |
| `grpc_propagation` | pass | `TypeOK`, `StoredIsMeant`, `HeaderIsStored`, `WaitingExplained`, `ParentIsOwn`, `KeptExplained`, `ServedBelowCaller` |
| `header_injection` | pass | `TypeOK`, `RequestSound`, `OwnHeadersKept`, `ParentIsCaller`, `SliceWithinArray`, `FieldsKept`, `ServerFinds` |
| `alloc` | pass | `WritesStayInPartition`, `OverwrittenOnlyIfSwept` |
| `alloc_unaligned` | violation | `WritesStayInArea` |
| `agent_lifecycle` | pass | `AgentTypeOK`, `DetachedAtReturn`, `StoppedOnlyWhileAnalyzed`, `AllStoppedAtCall`, `RunsOwnCode`, `AreaIsMapped`, `SignalEndsAgent`, `FoundIsServed`, `TargetIsFound` (the last three liveness) |
| `agent_lifecycle_shutdown` | violation | `ShutdownDetachesAll` |

Beside each definition that a run's property depends on stands a slip of it (a dropped test, a swapped argument, a missing
reset), named in a comment: with the slip in its place the property is violated in the same run.

## Proofs

| theorem | says | argument |
|---|---|---|
| `EventQueue_proofs!TypeCorrect`, `BoundCorrect` | types; the heap's limit | finite sets of queued events |
| `OrderCorrect`, `HeapCorrect`, `FlagCorrect` | order unless late, no undercut, blame only for late events | `OrderInv` |
| `RelayCorrect` | the queue implements `OrderedRelay` | each step maps to `GetStamp`, `HandOver` or a stutter |
| `PopCorrect` | nobody waits in a circle, events only go forward | `RipensInTime`, and a least of finitely many priorities |
| `SpanRegistry_proofs!TreeCorrect` | a goroutine's parent in the tree ran the go statement it was made by | `TreeInv` |
| `GoroutineSpansHang`, `RegistryTypeCorrect` | a goroutine's own span hangs below a span of an ancestor; types | `SpanInv` |
| `TracesCorrect`, `StartsCorrect` | a child lies in its parent's trace and starts after it, with the exceptions named | `LineageInv` |
| `WalkCorrect` | a walk up the tree meets no goroutine twice, and retries no more than `MAX_RETRY` times | `RootedInv` |
| `SpanTracking_proofs!ReportsCorrect`, `WrongReportsCorrect` | no call is reported twice; who reports another call, and which | `TrackInv` |
| `EntriesCorrect`, `ServerHeldCorrect` | a return leaves nothing behind; the last server's context is found | `TrackInv` |
| `ParentsCorrect` | whose span is taken for a parent | `ParentInv` |
| `TypesCorrect` | types; no map outgrows its limit | `LimitInv` |
| `TargetAlloc_proofs!AllocTypeCorrect`, `PartitionCorrect`, `SweptCorrect`, `AreaCorrect` | types; writes stay in their partition and in the area, and overwrite only what was swept | `AllocInv` |
| `AgentLifecycle_proofs!LifeTypeCorrect`, `DetachedCorrect`, `PanicCorrect` | types; nothing attached at return; panics only after a signal | `LifeInv` |
| `AgentTarget_proofs!ComposedLifeCorrect` | the last two for the composed agents, however often they are started | `LifeInv` |
| `MapsCorrect` | no instrumentor is loaded into an earlier agent's maps | `MountInv` |
| `AllStoppedCorrect`, `OwnCodeCorrect`, `StoppedCorrect` | no thread runs during the call; registers and code are restored; all threads are let go | `AgentTargetInv` |
| `AreaCorrect` | the allocator is given an area that was mapped | `AddrInv` |
| `AgentTypesCorrect` | types of agent, scan and tracing | `ProcessTypes`, `CallTypes` |
| `ScanCorrect` | a scan passes over no target and comes to its end | by counting the processes of a batch |
| `GrpcPropagation_proofs!StoredCorrect`, `WaitingCorrect` | what is put under a stream id; what stays there | `ClientInv` |
| `HeaderCorrect`, `ParentCorrect`, `KeptCorrect`, `ServedCorrect` | what a header carries; which parent the server finds; what it leaves in its map; the whole way | `NetInv` |
| `TypesCorrect` | types of both processes; no map outgrows its limit | `SizeInv` |
| `HeaderInjection_proofs!RoundTrip` | `FromW3C(ToW3C(c)) = c` for every context | digit by digit |
| `SliceCorrect`, `FieldsCorrect`, `ServerFindsCorrect` | the slice stays within its array, loses no field, and its traceparent is found | `ListInv` |
| `RequestCorrect`, `OwnHeadersCorrect`, `ParentCorrect` | what a request's map carries, keeps of the program's and tells the server | `MapInv` |
| `HeaderTypesCorrect` | types of both | `MapInv`, `ListInv` |

*Order.* `OrderUnlessLate` alone is not inductive: nothing in it speaks of events that are still to
come. Its strengthening relates everything popped to everything queued, and to the clock: a popped
item was `Delay` old, so whatever reaches the heap later with a smaller priority is late. The same
fact gives `HeapNeverUndercuts` and `FlaggedAreLate`.

*Tree.* The table of go statements names, for each, a goroutine that ran it; the parent table is filled
from it. Loss leaves entries as they are and expiry removes them.

*Spans of goroutines.* `SpanInv` adds to it that a registered context is that of a span issued for the very
goroutine (`IssuedInv`, which needs the same of every call on a stack and of the handler's call), and that
a walk's cursor is the goroutine it began with or an ancestor (`WalkInv`). The last needs `SoloGoStatements`:
the tracker knows a goroutine's parent by the go statement alone, so that with a statement run by two
goroutines the parent may be a stranger. Spawning adds ancestors and takes none away (`AncestorsGrow`), so
what has been exported stays right.

*Pops.* `PopCorrect` is the safety half of `QueuedIsPopped`. While an item waits, the clock can go on, or a handler holds the mutex
and can return, or the heap has a ripe head (`NeverStuck`): what was pushed by the horizon is ripe when the clock stops (`RipensInTime`),
and finitely many priorities have a least (`LeastExists`, by a smallest counterexample). A step that moves an event moves one, to a later
stage (`MovesForward`), so only finitely many come before the item is popped; fairness, which makes them happen, is left to TLC.

*Traces and starts.* `LineageInv` says of a context, wherever it is kept (on a stack, in `goroutine_sc_map`, in the registry, in the
handler's hands), that its span was issued and carries its trace. `ParentStartsFirst` needs the queue's order as a fact
about the handlers: while the runner is with a call that has not outlived the delay, no span began after that call (`WithLatest`).

*Walks.* `RootedInv` is that go statements make a tree: only a goroutine that was made runs one, so nothing descends from itself. With
`ParentIsAncestor` a step of a walk goes to an ancestor, whose own ancestors are fewer. This is the safety half of `WalkEnds`; what it
leaves to TLC is fairness, walks where go statements are shared, and the spin at the main goroutine, which only an expiry ends.

*Tracking.* `RecordInv` is about one slot (library and goroutine): while a call is open its slot holds its
record, or the record was lost and the slot holds nothing or a later call's. With `StackInv` (a goroutine's
stack is its open calls in order) a return that finds another record finds one of a later call that is not
open, hence of one that panicked. The theorems hold for any nesting, any limits and any number of panics.
`ParentRelated` needs in addition that what is tracked under a word is a call whose context has that word (`NamesInv`), and
that what `FoundSpan` yields was tracked under one of the words it looked at (`FoundSpanIsReachable`, by the least of the rounds that found one). That no map outgrows its limit is a matter of cardinalities: an update adds one key at most, and
only if there is room (`UpdateBounded`), and a deletion adds none (`DeleteBounded`); `LimitInv` has this for every map at once.

*gRPC.* `StoredIsMeant` rests on what a goroutine that is known can find under its own id: the context of the call that it
is making, or of a unary call that ended before it opened a stream (`InternalInv`, `CallingInv`); and on what the search in `tracked_spans` can find, a unary call under a word reached from this call's (`TrackedInv`, `FoundIsUnary`). `WaitingExplained` rests on a
frame's way (`FrameInv`): a call that is opening a stream has no id yet, and a writer that has deleted what it found has
deleted it for every other call with that id. The others rest on `NetInv`: a call's frame is in one place (queue, writer's
hands, wire) until it arrives; an id is given once for each connection, in order, after it was guessed (`RouteInv`); a call
that has met none of the exceptions has its own context under its id until a writer takes up its frame, and in that writer's hands then (`CarryInv`);
and on the server two requests with the same id on one connection are one, so that what is started, kept or served under
an id is that request's (`ServerInv`). The types add `RoomInv`, again by cardinalities, and `RangeInv`, for the numbers that are
bounded and for what a writer may read: never the zeros of an element that nobody filled.

*Headers.* `RoundTrip` is proved digit by digit: the text's characters are those of the context's bytes, and two digits give the byte
back. `ListInv` says for each place of `append_item_to_slice` which of pointer, capacity and length have been written, and
what has failed, so that between any two writes the length is within the array that the pointer names.
`MapInv` follows the request's map by counting its slots: the program's headers are no more than the count (`CountInv`), which is no more
than the slots taken and one for each call, and, as long as nothing has failed, no fewer than them. So without a deletion the slot whose
number is the count is free (`KeptInv`), which is what `inject_header` relies on; with one it may be the program's own. `SoundInv` says
which half-written slot is excused in which step, `ParentInv` what the slot of the call in progress carries, and `FoundInv` why a call's parent may be missing.

*Allocator.* Cursor, limit and call of each CPU lie in its partition, aligned. The theorems assume `CpusCounted` (the CPU
numbers are below the agent's count) and
`PartitionsAligned` (partitions of whole words, and a page-aligned area). The code checks neither; the
run `alloc_unaligned` shows that the second cannot be dropped, and a CPU above the count writes behind the area. A block that is not swept lies before whatever its CPU writes next.

*Target.* `AgentTargetInv` follows the tracing step by step: what has been attached to and waited for does not run (`HoldInv`), `Detach`
is left with every thread that is traced (`TracerInv`), and while the goroutine keeps its OS thread the registers and the code
are the call's only in the steps between their change and `Restore` (`CodeInv`), as a request for the main thread, which is
held, fails only if the thread is gone. `BoundInv` ties this to the agent's phases. The properties of the agent's life are
carried over from `AgentLifecycle_proofs`: a step of the composition is a step of the life, a stutter of it, or a restart. `AddrInv` is where the call's
result is in each step: in the result register, then with the agent, and after a failure nowhere.

*Scan.* The theorems assume that there are finitely many processes (`IsFiniteSet(Others)`), so that a batch has a last one and `After` a
value (`Greatest`, by a smallest counterexample). A batch is not empty if a process is left (`SomeEntry`), and one that the target is not in
is full of processes before it, so that the next begins at the target or before it (`BatchBefore`). With `Advances` this
is the safety half of `TargetIsFound`; that a scan is aborted only finitely often, and taken up again, is fairness and left to TLC.

Proved and not run as well, because what is run follows from them or says more: `HeapNeverUndercuts`, `FlaggedAreLate`, `PanicOnlyAfterSignal`,
`MapsAreOwn`, and the types of `EventQueue`, `SpanRegistry` and `TargetAlloc`.

Every invariant that a passing run checks is a theorem. Model-checked only: liveness (`QueuedIsPopped`, `WalkEnds`, `SignalEndsAgent`,
`FoundIsServed`, `TargetIsFound`), which is out of the prover's reach, as it needs `ENABLED` for the fairness of single actions;
`PopCorrect`, `ScanCorrect` and `WalkCorrect` prove what of it is safety. And the runs that end in a violation, which a proof has nothing to say of.

## Not modelled

* The analyzer's reading of the ELF file, logging and arguments are sequential reading of files; only how the analysis
  ends is in `AgentTarget`. The injector is a lookup in a table of data: the offsets are taken to be right.
* The OpenTelemetry SDK is a step that takes time. The offsets tracker is a build tool.
* The gorilla mux probe is compiled but never registered (`manager.go`), so none of its programs is ever attached.
* `bpffs`: which map is pinned under which name, and the mount of the file system itself.
* Records keyed by context (Go before 1.17), and a thread that the tracker still takes for the goroutine it ran before. The words that
  the programs read do not change while they run: messages and log entries whose address is used again are not modelled, contexts are, as they share words.
* Perf buffers, go-cache, ptrace and the kernel's maps, Go's maps and slices, and gRPC's transport are modelled from how the code uses them.

How much of the code is mapped: four fifths of the repository's C lines (about 15,000 of 18,700) are libbpf's headers, copied
twice (`LICENSES/libbpf`, `internal/include/libbpf`), with no behaviour of this program, and a further part is the older copy under `internal/pkg`.
What is left are eight eBPF programs and seven small headers; the entry and return programs and `alloc.h`,
`go_context.h`, `goroutines.h`, `uprobe.h`, `go_types.h`, `span_context.h` and `utils.h` are modelled. The Go sources, in which the queue, the registry,
the manager, discovery and ptrace are written, are mapped as well.

## Plan

1. Proofs: the safety halves of `SignalEndsAgent` and `FoundIsServed`, as for the other three.
2. Of `SpanTracking`: records keyed by context (Go before 1.17), messages whose address is used again, and a stale `goroutines_map`.
3. The injector's version lookup against a reference definition.
