------------------------------ MODULE GrpcServer ------------------------------
(***************************************************************************)
(* How a gRPC server's call gets its parent from the headers of its        *)
(* request (pkg/instrumentors/bpf/google/golang/org/grpc/server/bpf).  The *)
(* reader of a connection decodes the headers and puts the context they    *)
(* carry under the id of the stream; the goroutine that the transport then *)
(* starts for the stream looks for it under that id.                       *)
(*                                                                         *)
(* A request is named by the number of the client's call.  How the headers *)
(* are searched and read is in HeaderList; what the program at the entry   *)
(* of handleStream does to the maps of calls in flight is in SpanTracking. *)
(***************************************************************************)
EXTENDS Integers, Sequences, FiniteSets

CONSTANTS
    Conns,               \* the server's connections, each with its reader
    MaxConcurrent,       \* MAX_CONCURRENT
    MaxCalls             \* bound: requests made

None == 0   \* no context
Mixed == -1   \* a context of bytes of several
StreamIds == 1..MaxCalls
Requests == 1..MaxCalls

VARIABLES
    wire,      \* requests that each connection carries, in order
    header,    \* what a request's headers carry: [conn, id, sc], or Unsent
    streams,   \* streamid_to_grpc_events: the context kept for a stream id
    handler,   \* the goroutine of each request: "none", "started", "read", "runs"
    parent,    \* history: the parent that each request's call was given
    turnedAway,\* history: requests that got no goroutine
    dropped    \* history: requests whose context was refused by the full map

Unsent == [conn |-> None, id |-> None, sc |-> None]

Init ==
    /\ streams = [i \in StreamIds |-> None]
    /\ handler = [r \in Requests |-> "none"]
    /\ parent = [r \in Requests |-> None]
    /\ turnedAway = {} /\ dropped = {}

Entries(m) == {k \in DOMAIN m : m[k] # None}
Updated(m, k, v, limit) ==
    IF m[k] # None \/ Cardinality(Entries(m)) < limit THEN [m EXCEPT ![k] = v] ELSE m

ServerTypeOK ==
    /\ streams \in [StreamIds -> Requests \cup {None, Mixed}]
    /\ Cardinality(Entries(streams)) <= MaxConcurrent
    /\ handler \in [Requests -> {"none", "started", "read", "runs"}]
    /\ parent \in [Requests -> Requests \cup {None, Mixed}]
    /\ turnedAway \cup dropped \subseteq Requests

\* decodeState.decodeHeader: keeps the context, if the headers carry one.  The
\* transport then starts a goroutine for the stream, or turns it away.
Decode(k) ==
    /\ wire[k] # <<>>
    /\ wire' = [wire EXCEPT ![k] = Tail(@)]
    /\ LET r == Head(wire[k])
           h == header[r]
       IN  /\ streams' = IF h.sc = None THEN streams
                         ELSE Updated(streams, h.id, h.sc, MaxConcurrent)
           /\ dropped' = IF streams'[h.id] # h.sc /\ h.sc # None THEN dropped \cup {r} ELSE dropped
           /\ \/ handler' = [handler EXCEPT ![r] = "started"] /\ UNCHANGED turnedAway
              \/ turnedAway' = turnedAway \cup {r} /\ UNCHANGED handler
    /\ UNCHANGED parent

\* The stream's id, at stream_id_pos of its struct; another field's is a slip.
StreamIdMisread(r) == 1
StreamIdOf(r) == header[r].id

\* The program at the entry of handleStream reads what is kept for its stream ...
Read(r) ==
    /\ handler[r] = "started"
    /\ parent' = [parent EXCEPT ![r] = streams[StreamIdOf(r)]]
    /\ handler' = [handler EXCEPT ![r] = IF parent'[r] = None THEN "runs" ELSE "read"]
    /\ UNCHANGED <<wire, streams, turnedAway, dropped>>

\* ... and deletes it, or what has replaced it.
NotCleared(id) == streams
Cleared(id) == [streams EXCEPT ![id] = None]
Clear(r) ==
    /\ handler[r] = "read"
    /\ streams' = Cleared(StreamIdOf(r))
    /\ handler' = [handler EXCEPT ![r] = "runs"]
    /\ UNCHANGED <<wire, parent, turnedAway, dropped>>

Next ==
    \/ \E k \in Conns : Decode(k)
    \/ \E r \in Requests : Read(r) \/ Clear(r)

-------------------------------------------------------------------------------
Arrived == {r \in Requests : handler[r] # "none"} \cup turnedAway
Served == {r \in Requests : handler[r] \in {"read", "runs"}}

\* Another connection has brought a request with the same stream id.
IdShared(r) ==
    \E s \in Arrived : header[s].id = header[r].id /\ header[s].conn # header[r].conn

\* A call's parent is the context that its own headers carried, unless the map was
\* full or another connection's request had the same stream id.
ParentIsOwn ==
    \A r \in Served : parent[r] # header[r].sc => r \in dropped \/ IdShared(r)

\* What is kept under a stream id came with a request that has yet to be looked up,
\* or that was turned away: nothing else fills the map.
KeptExplained ==
    \A i \in StreamIds : streams[i] # None =>
        \E r \in Arrived : /\ header[r].id = i /\ header[r].sc = streams[i]
                           /\ \/ r \in turnedAway
                              \/ handler[r] \in {"started", "read"}
                              \/ IdShared(r)
===============================================================================
