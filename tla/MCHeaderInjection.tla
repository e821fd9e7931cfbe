-------------------------- MODULE MCHeaderInjection --------------------------
(* Buckets of three slots, two headers of the program's in different ones of  *)
(* two buckets, two calls with one request; the real sizes of gRPC's fields.  *)
EXTENDS HeaderInjection, TLC

CONSTANTS accept, cookie

MCNames == {accept, cookie}
MCBucketOf == [n \in MCNames |-> IF n = accept THEN 0 ELSE 1]
\* Bytes of every kind of digit.
MCContextOf == [c \in 1..MaxDos |->
    [TraceID |-> [i \in 0..TraceIdSize - 1 |-> (151 * c * i) % 256],
     SpanID |-> [i \in 0..SpanIdSize - 1 |-> (255 - 43 * c * i) % 256]]]
===============================================================================
