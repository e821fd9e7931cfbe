---------------------------- MODULE GrpcPropagation ----------------------------
(***************************************************************************)
(* The client's process and the server's, and the connections between      *)
(* them: a call's context on its way from Invoke to the span of the        *)
(* server's call.                                                          *)
(***************************************************************************)
EXTENDS GrpcClient

VARIABLES streams, handler, parent, turnedAway, dropped

\* The headers of the requests that have been sent.
header == [r \in Calls |->
    IF r \in DOMAIN calls /\ calls[r].sent
    THEN [conn |-> calls[r].conn, id |-> calls[r].id, sc |-> calls[r].carried]
    ELSE [conn |-> None, id |-> None, sc |-> None]]

Server == INSTANCE GrpcServer

serverVars == <<streams, handler, parent, turnedAway, dropped>>
vars == <<clientVars, wire, serverVars>>

PropInit == Init /\ Server!Init

PropNext ==
    \/ Next /\ UNCHANGED serverVars
    \/ Server!Next /\ UNCHANGED clientVars

Spec == PropInit /\ [][PropNext]_vars

\* The types of both processes' state.
TypeOK == ClientTypeOK /\ Server!ServerTypeOK

\* handleStream's program gives each call the parent that its own headers carried,
\* but for what GrpcServer names.
ParentIsOwn == Server!ParentIsOwn

\* A context that the server's map keeps is of a request still to be looked up, or
\* lost to it as GrpcServer says.
KeptExplained == Server!KeptExplained

\* Nothing that the other properties name has crossed the call's way.
Undisturbed(c) ==
    /\ calls[c].g \notin Untracked /\ calls[c].opens = 1 /\ calls[c].refusedBy = {}
    /\ \A d \in 1..c - 1 : ~(calls[d].g = calls[c].g /\ calls[d].failed)
    /\ calls[c].guess = calls[c].id /\ ~SharesId(c) /\ ~TakenElsewhere(c) /\ ~calls[c].reused
    /\ c \notin dropped /\ ~Server!IdShared(c)

\* The span of an undisturbed call's server is the child of the call's own, or,
\* when the call is a stream, of the span tracked for its context.
ServedBelowCaller ==
    \A c \in Calls : handler[c] \in {"read", "runs"} /\ Undisturbed(c) => parent[c] = calls[c].meant
===============================================================================
