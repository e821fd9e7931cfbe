-------------------------- MODULE MCGrpcPropagation --------------------------
(* Two calls on two connections, from a tracked goroutine and two that are    *)
(* not, while the client's process serves a connection of its own.  One call  *)
(* may have the background context, which has no word; what gRPC derives has  *)
(* the other's word.                                                          *)
EXTENDS GrpcPropagation, TLC

CONSTANTS g1, u1, u2, request, background, cancel, k1, k2, s1

MCGoroutines == {g1, u1, u2}
MCUntracked == {u1, u2}
MCContexts == {request, background}
MCWords == {NoWord, cancel}
MCWordBehind == [w \in MCWords |-> NoWord]
MCFirstWord == [c \in MCContexts |-> IF c = request THEN cancel ELSE NoWord]
MCStreamWord == [c \in MCContexts |-> cancel]
MCConns == {k1, k2}
MCServerConns == {s1}
MCSymmetry == Permutations(MCUntracked) \cup Permutations(MCConns)
===============================================================================
