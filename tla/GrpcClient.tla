------------------------------ MODULE GrpcClient ------------------------------
(***************************************************************************)
(* How a gRPC client's span context gets into the headers of its request   *)
(* (pkg/instrumentors/bpf/google/golang/org/grpc/bpf).  The context is made *)
(* at the entry of ClientConn.Invoke and waits for its goroutine to open a *)
(* stream; at the entry of http2Client.NewStream it is put under the id    *)
(* that the connection seems about to assign; the connection's writer      *)
(* looks it up by the id of the headers frame it is writing.  Without one  *)
(* that waits, NewStream takes what is tracked under a word that it finds  *)
(* from its own context on, which gRPC has derived from the caller's.      *)
(*                                                                         *)
(* A context is named by the number of the call it was made for.  What     *)
(* Invoke's program does to the maps of calls in flight is in              *)
(* SpanTracking, how the frame's list of headers grows in HeaderInjection. *)
(*                                                                         *)
(* The programs at Invoke and NewStream run to their end in one step; the  *)
(* writer's does not, because it reads an element of the map after it has  *)
(* given it back.                                                          *)
(***************************************************************************)
EXTENDS ContextWords, Sequences, FiniteSets

CONSTANTS
    Goroutines,
    Untracked,           \* those whose thread is not in goroutines_map
    Contexts,            \* the callers' context.Context values
    FirstWord,           \* the word that Invoke's program reads through each
    StreamWord,          \* and NewStream's, through what gRPC derived from it
    Conns,               \* the client's connections, each with its loopyWriter
    ServerConns,         \* connections that the same process serves; same loopyWriter
    MaxConcurrent,       \* MAX_CONCURRENT, of both maps
    MaxConcurrentSpans,  \* MAX_CONCURRENT_SPANS, of the tracked contexts
    MaxCalls,            \* bound: calls made
    MaxOpens,            \* bound: streams that a call opens, the first and its retries
    ResponseIds,         \* bound: streams of the served connections that are answered
    Zero                 \* the id of every goroutine that is not tracked

ASSUME GoroutinesAssumption == Untracked \subseteq Goroutines /\ Zero \notin Goroutines
ASSUME ContextsAssumption ==
    FirstWord \in [Contexts -> Words] /\ StreamWord \in [Contexts -> Words]
ASSUME ConnsAssumption == Conns \cap ServerConns = {}
ASSUME BoundsAssumption ==
    /\ MaxConcurrent \in Nat /\ MaxConcurrentSpans \in Nat
    /\ MaxCalls \in Nat /\ MaxOpens \in Nat /\ ResponseIds \subseteq 1..MaxCalls

Mixed == -1   \* bytes of several contexts
Calls == 1..MaxCalls
StreamIds == 1..MaxCalls
Writers == Conns \cup ServerConns

VARIABLES
    doing,     \* what each goroutine is at: a call and how far it has come
    calls,     \* history: what became of each call
    internal,  \* internal_goid_to_span_contexts
    tracked,   \* tracked_spans
    byStream,  \* streamid_to_span_contexts
    nextId,    \* http2Client.nextID of each connection
    outbox,    \* frames waiting for each connection's writer
    writing,   \* what each writer's program has in hand
    passed,    \* history: the ids whose headers each writer has looked at
    wire       \* frames that each connection has carried, in order

clientVars == <<doing, calls, internal, tracked, byStream, nextId, outbox, writing, passed>>

Idle == [pc |-> "idle"]
Goids == Goroutines \cup {Zero}

\* get_current_goroutine
Goid(g) == IF g \in Untracked THEN Zero ELSE g

-------------------------------------------------------------------------------
(* bpf_map_update_elem with BPF_ANY: a new key is refused when the map is  *)
(* full.                                                                   *)
UpdatedOneMore(m, k, v, limit) ==
    IF m[k] # None \/ Cardinality(Entries(m)) <= limit THEN [m EXCEPT ![k] = v] ELSE m
Updated(m, k, v, limit) ==
    IF m[k] # None \/ Cardinality(Entries(m)) < limit THEN [m EXCEPT ![k] = v] ELSE m

-------------------------------------------------------------------------------
CallRecord ==
    [g : Goroutines, kind : {"unary", "stream"}, ctx : Contexts, opens : 0..MaxOpens,
     meant : Calls \cup {None}, stored : Calls \cup {None}, guess : StreamIds \cup {None},
     guesses : SUBSET StreamIds, conn : Conns \cup {None}, refusedBy : SUBSET {"internal", "byStream"},
     failed : BOOLEAN, id : StreamIds \cup {None}, sent : BOOLEAN,
     carried : Calls \cup {None, Mixed}, reused : BOOLEAN]

\* The types, and that no map outgrows its limit.
ClientTypeOK ==
    /\ \A g \in Goroutines : doing[g] \in [pc : {"idle"}]
           \cup [pc : {"calling", "opening"}, call : DOMAIN calls]
    /\ Len(calls) <= MaxCalls /\ \A c \in DOMAIN calls : calls[c] \in CallRecord
    /\ internal \in [Goids -> Calls \cup {None}]
    /\ tracked \in [Words -> Calls \cup {None}]
    /\ byStream \in [StreamIds -> Calls \cup {None}]
    /\ Cardinality(Entries(internal)) <= MaxConcurrent
    /\ Cardinality(Entries(tracked)) <= MaxConcurrentSpans
    /\ Cardinality(Entries(byStream)) <= MaxConcurrent
    /\ nextId \in [Conns -> 1..MaxCalls + 1]
    /\ \A k \in Conns : outbox[k] \in Seq(Calls) /\ wire[k] \in Seq(Calls)
    /\ \A w \in Writers : writing[w] = Idle \/ writing[w] \in
           [pc : {"found", "gone"}, call : Calls \cup {None}, id : StreamIds,
            may : SUBSET (Calls \cup {Mixed}), freed : BOOLEAN]
    /\ passed \subseteq [writer : Writers, id : StreamIds]

Init ==
    /\ doing = [g \in Goroutines |-> Idle]
    /\ calls = <<>>
    /\ internal = [k \in Goids |-> None]
    /\ tracked = [w \in Words |-> None]
    /\ byStream = [i \in StreamIds |-> None]
    /\ nextId = [k \in Conns |-> 1]
    /\ outbox = [k \in Conns |-> <<>>]
    /\ writing = [w \in Writers |-> Idle]
    /\ passed = {}
    /\ wire = [k \in Conns |-> <<>>]

-------------------------------------------------------------------------------
(* The calls.                                                              *)

\* A call's history: how many streams it has opened, the context its header is
\* meant to carry, what was put away for it under which ids, the last of them on
\* conn; the maps that refused it; the id it got, and what its header carried.
NewCall(g, kind, ctx) ==
    [g |-> g, kind |-> kind, ctx |-> ctx, opens |-> 0, meant |-> None, stored |-> None,
     guess |-> None, guesses |-> {}, conn |-> None, refusedBy |-> {}, failed |-> FALSE,
     id |-> None, sent |-> FALSE, carried |-> None, reused |-> FALSE]

\* Invoke: the context is put away for the goroutine and tracked under ctx's word.
Invoke(g, ctx) ==
    LET c == Len(calls) + 1
    IN  /\ doing[g] = Idle /\ c <= MaxCalls
        /\ internal' = Updated(internal, Goid(g), c, MaxConcurrent)
        /\ tracked' = Updated(tracked, FirstWord[ctx], c, MaxConcurrentSpans)
        /\ calls' = Append(calls, [NewCall(g, "unary", ctx) EXCEPT !.meant = c,
                          !.refusedBy = IF internal'[Goid(g)] # c THEN {"internal"} ELSE {}])
        /\ doing' = [doing EXCEPT ![g] = [pc |-> "calling", call |-> c]]
        /\ UNCHANGED <<byStream, nextId, outbox, writing, passed, wire>>

\* A streaming call: ClientConn.NewStream is not probed.
Stream(g, ctx) ==
    LET c == Len(calls) + 1
    IN  /\ doing[g] = Idle /\ c <= MaxCalls
        /\ calls' = Append(calls, NewCall(g, "stream", ctx))
        /\ doing' = [doing EXCEPT ![g] = [pc |-> "calling", call |-> c]]
        /\ UNCHANGED <<internal, tracked, byStream, nextId, outbox, writing, passed, wire>>

\* The call ends before it has opened a stream (again): no connection, cancelled.
GiveUp(g) ==
    /\ doing[g].pc = "calling"
    /\ calls' = [calls EXCEPT ![doing[g].call].failed = TRUE]
    /\ doing' = [doing EXCEPT ![g] = Idle]
    /\ UNCHANGED <<internal, tracked, byStream, nextId, outbox, writing, passed, wire>>

\* A stored context takes an element of the map that is free: it may be one that
\* a writer still has a pointer to.  The element replaced becomes free.
Reusing(id, v) ==
    [w \in Writers |->
        IF writing[w] = Idle THEN Idle
        ELSE IF writing[w].freed THEN [writing[w] EXCEPT !.may = @ \cup {v, Mixed}]
        ELSE [writing[w] EXCEPT !.freed = writing[w].id = id]]

\* What the program at NewStream puts away: the context waiting for the goroutine,
\* else the one that is found from gRPC's context on.
Chosen(g, ctx) ==
    IF internal[Goid(g)] # None THEN internal[Goid(g)] ELSE FoundSpan(tracked, StreamWord[ctx])

Unspent(g) == internal
Spent(g) == [internal EXCEPT ![Goid(g)] = None]

\* The id that the program takes the stream to get, read without the lock.
NextIdReadLate(k) == nextId[k] + 1
NextIdRead(k) == nextId[k]

\* The history of a call that opens a stream on k, when v is put under the id i,
\* or refused.
Opened(call, k, v, i, refused) ==
    [call EXCEPT
        !.opens = call.opens + 1, !.guess = nextId[k], !.stored = v, !.conn = k,
        !.guesses = IF v = None THEN call.guesses ELSE call.guesses \cup {i},
        !.refusedBy = IF v # None /\ refused THEN call.refusedBy \cup {"byStream"} ELSE call.refusedBy,
        !.meant = IF call.kind = "stream" THEN FoundSpan(tracked, StreamWord[call.ctx]) ELSE call.meant]

\* http2Client.NewStream is entered: the context is put under the next id.
NewStream(g, k) ==
    LET c == doing[g].call
        ctx == calls[c].ctx
        v == Chosen(g, ctx)
        i == NextIdRead(k)
    IN  /\ doing[g].pc = "calling" /\ i \in StreamIds
        /\ calls[c].opens < MaxOpens
        /\ IF v = None THEN UNCHANGED <<byStream, writing>>
           ELSE /\ byStream' = Updated(byStream, i, v, MaxConcurrent)
                /\ writing' = IF byStream'[i] = v THEN Reusing(i, v) ELSE writing
        /\ internal' = Spent(g)
        /\ calls' = [calls EXCEPT ![c] = Opened(calls[c], k, v, i, byStream'[i] # v)]
        /\ doing' = [doing EXCEPT ![g] = [pc |-> "opening", call |-> c]]
        /\ UNCHANGED <<tracked, nextId, outbox, passed, wire>>

\* gRPC assigns the id and queues the frame, under the connection's own lock.
AssignId(g) ==
    LET c == doing[g].call
        k == calls[c].conn
    IN  /\ doing[g].pc = "opening" /\ nextId[k] \in StreamIds
        /\ nextId' = [nextId EXCEPT ![k] = @ + 1]
        /\ outbox' = [outbox EXCEPT ![k] = Append(@, c)]
        /\ calls' = [calls EXCEPT ![c].id = nextId[k]]
        /\ doing' = [doing EXCEPT ![g] = Idle]
        /\ UNCHANGED <<internal, tracked, byStream, writing, passed, wire>>

\* The stream is not opened; the call is retried or ends.
OpenFails(g) ==
    /\ doing[g].pc = "opening"
    /\ doing' = [doing EXCEPT ![g].pc = "calling"]
    /\ UNCHANGED <<calls, internal, tracked, byStream, nextId, outbox, writing, passed, wire>>

-------------------------------------------------------------------------------
(* loopyWriter.headerHandler.                                              *)

\* A frame goes out with the context that its header carries; reused when the
\* element had been given out again meanwhile.
Send(w, c, v, reused) ==
    IF c = None THEN UNCHANGED <<calls, wire>>
    ELSE /\ calls' = [calls EXCEPT ![c] = [@ EXCEPT !.sent = TRUE, !.carried = v, !.reused = reused]]
         /\ wire' = [wire EXCEPT ![w] = Append(@, c)]

Lookup(w, c, id) ==
    /\ writing[w] = Idle
    /\ passed' = passed \cup {[writer |-> w, id |-> id]}
    /\ IF byStream[id] = None
       THEN Send(w, c, None, FALSE) /\ UNCHANGED writing
       ELSE /\ writing' = [writing EXCEPT ![w] = [pc |-> "found", call |-> c, id |-> id,
                                                  may |-> {byStream[id]}, freed |-> FALSE]]
            /\ UNCHANGED <<calls, wire>>
    /\ UNCHANGED <<doing, internal, tracked, byStream, nextId>>

LookupRequest(k) ==
    /\ outbox[k] # <<>>
    /\ Lookup(k, Head(outbox[k]), calls[Head(outbox[k])].id)
    /\ outbox' = [outbox EXCEPT ![k] = Tail(@)]

\* The headers of a response, on a connection that this process serves.
LookupResponse(w, id) ==
    /\ [writer |-> w, id |-> id] \notin passed
    /\ Lookup(w, None, id)
    /\ UNCHANGED outbox

\* The key is deleted, whichever element it has by now.
NotTaken(id) == byStream
Taken(id) == [byStream EXCEPT ![id] = None]
Delete(w) ==
    /\ writing[w].pc = "found"
    /\ byStream' = Taken(writing[w].id)
    /\ writing' = [v \in Writers |->
         IF v = w THEN [writing[w] EXCEPT !.pc = "gone", !.freed = TRUE]
         ELSE IF writing[v] # Idle /\ writing[v].id = writing[w].id
              THEN [writing[v] EXCEPT !.freed = TRUE] ELSE writing[v]]
    /\ UNCHANGED <<doing, calls, internal, tracked, nextId, outbox, passed, wire>>

\* The context is read through the old pointer and written to the frame.
Write(w) ==
    /\ writing[w].pc = "gone"
    /\ \E v \in writing[w].may : Send(w, writing[w].call, v, writing[w].may # {v})
    /\ writing' = [writing EXCEPT ![w] = Idle]
    /\ UNCHANGED <<doing, internal, tracked, byStream, nextId, outbox, passed>>

Next ==
    \/ \E g \in Goroutines :
          \/ \E ctx \in Contexts : Invoke(g, ctx) \/ Stream(g, ctx)
          \/ \E k \in Conns : NewStream(g, k)
          \/ GiveUp(g) \/ AssignId(g) \/ OpenFails(g)
    \/ \E k \in Conns : LookupRequest(k)
    \/ \E w \in ServerConns, id \in ResponseIds : LookupResponse(w, id)
    \/ \E w \in Writers : Delete(w) \/ Write(w)

-------------------------------------------------------------------------------

\* What is put away for a call is what its header is meant to carry, unless the
\* goroutine is not tracked; the map was full, or the stream is a retry, and then
\* it is of a unary call, of whatever goroutine, that was tracked under a word which
\* is found from this call's context on; or a unary call of the goroutine ended
\* before it had opened a stream, and left its context to this one.
StoredIsMeant ==
    \A c \in DOMAIN calls :
        LET s == calls[c].stored
        IN  calls[c].opens > 0 /\ s # calls[c].meant =>
            \/ calls[c].g \in Untracked
            \/ /\ calls[c].kind = "unary"
               /\ calls[c].opens > 1 \/ "internal" \in calls[c].refusedBy
               /\ s # None => /\ calls[s].kind = "unary"
                              /\ FirstWord[calls[s].ctx] # NoWord
                              /\ FirstWord[calls[s].ctx] \in Reachable(StreamWord[calls[c].ctx])
            \/ /\ calls[c].kind = "stream"
               /\ s \in 1..c - 1 /\ calls[s].g = calls[c].g
               /\ calls[s].failed /\ calls[s].opens = 0

\* Another call, or an earlier stream of this one, was put under the id that c got.
SharesId(c) ==
    \E d \in DOMAIN calls :
        calls[c].id \in calls[d].guesses /\ (d # c \/ calls[c].opens > 1)

\* Another connection's writer has looked at headers with the id that c got.
TakenElsewhere(c) ==
    \E p \in passed : p.id = calls[c].id /\ p.writer # calls[c].conn

\* A header carries what was put away for its call, unless the map was full, the id
\* was guessed wrong, somebody else used the same id, or the element was reused.
HeaderIsStored ==
    \A c \in DOMAIN calls : calls[c].sent /\ calls[c].carried # calls[c].stored =>
        \/ "byStream" \in calls[c].refusedBy
        \/ calls[c].guess # calls[c].id
        \/ SharesId(c)
        \/ TakenElsewhere(c)
        \/ calls[c].reused

\* A context that still waits under a stream id waits for a header that will be
\* written, or was put there for a call that has not got the id, and may never.
WaitingExplained ==
    \A i \in StreamIds : byStream[i] # None =>
        \E c \in DOMAIN calls : /\ i \in calls[c].guesses
                                /\ calls[c].id # i \/ ~calls[c].sent
===============================================================================
