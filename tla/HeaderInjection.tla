---------------------------- MODULE HeaderInjection ----------------------------
(***************************************************************************)
(* The traceparent header of a request, of HTTP or of gRPC.                *)
(***************************************************************************)
EXTENDS HeaderMap, HeaderList

VARIABLE protocol

vars == <<mapVars, listVars, protocol>>

Init ==
    /\ protocol \in {"http", "grpc"}
    /\ MapInit /\ ListInit
    /\ protocol = "http" => Len(before) = 0 /\ spare = 0
    /\ protocol = "grpc" => buckets = 1

Next ==
    /\ \/ protocol = "http" /\ MapNext /\ UNCHANGED listVars
       \/ protocol = "grpc" /\ ListNext /\ UNCHANGED mapVars
    /\ UNCHANGED protocol

Spec == Init /\ [][Next]_vars

TypeOK == MapTypeOK /\ ListTypeOK
===============================================================================
