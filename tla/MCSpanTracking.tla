---------------------------- MODULE MCSpanTracking ----------------------------
(* A goroutine that is always known and one that is not.  Two requests, of one *)
(* type of context, and a context derived from the first; the background       *)
(* context; one that embeds a pointer, and one that embeds a pointer to        *)
(* something derived from that; a message and a log entry.                     *)
EXTENDS SpanTracking

CONSTANTS g1, g2, request, other, derived, background, wrapped, deeper, message, entry,
          cancel, timer, value, wrap, base, deep, msgAddr, entryAddr

MCGoroutines == {g1, g2}
MCUntracked == {g2}
MCContexts == {request, other, derived, background, wrapped, deeper, message, entry}

MCWords == {NoWord, cancel, timer, value, wrap, base, deep, msgAddr, entryAddr}
MCWordBehind == [w \in MCWords |-> IF w = deep THEN base ELSE NoWord]
MCTypeWord == [c \in MCContexts |->
    CASE c \in {request, other} -> cancel
      [] c = derived -> timer
      [] c = background -> value
      [] c \in {wrapped, deeper} -> wrap
      [] c = message -> msgAddr
      [] c = entry -> entryAddr]
MCFirstWord == [c \in MCContexts |->
    CASE c \in {request, other} -> value
      [] c = derived -> cancel
      [] c = wrapped -> base
      [] c = deeper -> deep
      [] c \in {background, message, entry} -> NoWord]
MCAddress == [c \in MCContexts |->
    IF c = message THEN msgAddr ELSE IF c = entry THEN entryAddr ELSE NoWord]

MCMaxConcurrent == [l \in Libs |-> IF l = "net/http server" THEN 2 ELSE 1]
MCSites ==
    {[g |-> g1, lib |-> l, ctx |-> request] : l \in {"net/http server", "gin"}}
    \cup {[g |-> g1, lib |-> l, ctx |-> derived] : l \in {"net/http client", "database/sql"}}
    \cup {[g |-> g2, lib |-> l, ctx |-> other] : l \in {"net/http server", "grpc server"}}
    \cup {[g |-> g2, lib |-> l, ctx |-> wrapped] : l \in {"grpc"}}
    \cup {[g |-> g2, lib |-> "database/sql", ctx |-> c] : c \in {background, deeper}}
    \cup {[g |-> g2, lib |-> "sarama", ctx |-> message], [g |-> g1, lib |-> "logrus", ctx |-> entry]}
===============================================================================
