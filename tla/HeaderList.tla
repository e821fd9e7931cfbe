------------------------------ MODULE HeaderList ------------------------------
(***************************************************************************)
(* The traceparent header of a gRPC request: appended to the Go slice of   *)
(* the request's header fields by the program at loopyWriter.headerHandler *)
(* (internal/include/go_types.h), and found by the one at decodeHeader     *)
(* among the fields that the server received (pkg/instrumentors/bpf/       *)
(* google/golang/org/grpc/{bpf,server/bpf}).                               *)
(*                                                                         *)
(* The program writes to the process's memory, one write after another,    *)
(* each of which can fail.  Only one of them is checked.                   *)
(***************************************************************************)
EXTENDS Integers, Sequences

CONSTANTS
    ItemSize,         \* bytes of a hpack_header_field
    MaxReallocation,  \* MAX_REALLOCATION, bytes copied of an array without room
    MaxDataSize,      \* MAX_DATA_SIZE, bytes of a new array
    MaxHeaders,       \* MAX_HEADERS, fields that the server's program looks at
    MaxFields         \* bound: fields of a request

ASSUME ListAssumption ==
    /\ ItemSize \in Nat \ {0} /\ MaxReallocation \in Nat /\ MaxDataSize \in Nat
    /\ MaxReallocation + ItemSize > MaxDataSize
    /\ MaxHeaders \in Nat \ {0} /\ MaxFields \in Nat

\* What a field can be: one of the program's, a traceparent among them or not; the
\* probe's, as it should be, without a value, or with a pointer to nothing; bytes
\* that nobody wrote; zeros.
Field == {"other", "theirs", "ours", "empty", "broken", "junk", "zeros"}

VARIABLES
    array,     \* the fields that the array has memory for
    len, cap,  \* the slice's length and capacity
    before,    \* history: the fields that the request had
    spare,     \* history: 1 if it had room for one more, else 0
    item,      \* the probe's field
    at,        \* the probe's next write
    failures,  \* history: what has failed
    found      \* the traceparent that the server finds: "none", "theirs" or "ours"

listVars == <<array, len, cap, before, spare, item, at, failures, found>>

ListTypeOK ==
    /\ array \in Seq(Field) /\ len \in Nat /\ cap \in Nat
    /\ item \in {"ours", "empty", "broken"}
    /\ at \in {"key", "value", "append", "item", "copy", "array", "cap", "len", "send", "sent"}
    /\ failures \subseteq {"keyText", "keyString", "valueText", "valueString",
                           "item", "copy", "room", "array", "cap", "len"}
    /\ found \in {"none", "theirs", "ours"}

\* A request's fields, the program's own traceparent first or not there, and an array
\* with or without room for one more.
ListInit ==
    \E n \in 0..MaxFields, first \in {"other", "theirs"}, extra \in {0, 1} :
        /\ before = [i \in 1..n |-> IF i = 1 THEN first ELSE "other"]
        /\ array = before \o [i \in 1..extra |-> "junk"]
        /\ len = n /\ cap = n + extra /\ spare = extra
        /\ item = "ours" /\ at = "key" /\ failures = {} /\ found = "none"

-------------------------------------------------------------------------------
Failing(what) == failures' = failures \cup {what}

\* write_user_go_string of the key: without room for the string the probe gives up,
\* without room for its characters it does not.
WriteKeyString ==
    /\ at = "key"
    /\ \/ at' = "value" /\ UNCHANGED <<item, failures>>
       \/ at' = "value" /\ item' = "broken" /\ Failing("keyText")
       \/ at' = "send" /\ UNCHANGED item /\ Failing("keyString")
    /\ UNCHANGED <<array, len, cap, before, spare, found>>

\* ... and of the value: without room for the string its length becomes 0.
WriteValueString ==
    /\ at = "value" /\ at' = "append"
    /\ \/ UNCHANGED <<item, failures>>
       \/ item' = "broken" /\ Failing("valueText")
       \/ item' = (IF item = "broken" THEN "broken" ELSE "empty") /\ Failing("valueString")
    /\ UNCHANGED <<array, len, cap, before, spare, found>>

\* append_item_to_slice: whether the array has room, or a larger one can be had.
Smaller(m, n) == IF m < n THEN m ELSE n
CopiedBytes(n) == Smaller(ItemSize * n, MaxReallocation)
FitsByLength(n) == n >= 1 /\ n <= MaxDataSize
Fits(n) == n >= 1 /\ n <= MaxDataSize /\ CopiedBytes(n) + ItemSize <= MaxDataSize

Choose ==
    /\ at = "append"
    /\ at' = IF len < cap THEN "item" ELSE IF Fits(len) THEN "copy" ELSE "send"
    /\ UNCHANGED <<array, len, cap, before, spare, item, failures, found>>

WriteItem ==
    /\ at = "item" /\ at' = "len"
    /\ \/ array' = [array EXCEPT ![len + 1] = item] /\ UNCHANGED failures
       \/ UNCHANGED array /\ Failing("item")
    /\ UNCHANGED <<len, cap, before, spare, item, found>>

\* The new array in the area, of what was copied of the old one (zeros, when it could
\* not be read) and the field; and the pointer to it, null when there was no room.
OldSize(fields) == SubSeq(fields, 1, CopiedBytes(len) \div ItemSize)
NewArray(fields) == SubSeq(fields, 1, CopiedBytes(len) \div ItemSize) \o <<item>>

WriteArray ==
    /\ at = "copy" /\ at' = "cap"
    /\ \/ array' = NewArray(array) /\ UNCHANGED failures
       \/ array' = NewArray([i \in 1..len |-> "zeros"]) /\ Failing("copy")
       \/ array' = <<>> /\ Failing("room")
       \/ UNCHANGED array /\ Failing("array")
    /\ UNCHANGED <<len, cap, before, spare, item, found>>

WriteCap ==
    /\ at = "cap" /\ at' = "len"
    /\ \/ cap' = cap + 1 /\ UNCHANGED failures
       \/ UNCHANGED cap /\ Failing("cap")
    /\ UNCHANGED <<array, len, before, spare, item, found>>

WriteLen ==
    /\ at = "len" /\ at' = "send"
    /\ \/ len' = len + 1 /\ UNCHANGED failures
       \/ UNCHANGED len /\ Failing("len")
    /\ UNCHANGED <<array, cap, before, spare, item, found>>

-------------------------------------------------------------------------------
\* decodeHeader: the last traceparent of the first MaxHeaders fields.  An empty one
\* has not the length of a context.
LookedAll == len
Looked == Smaller(len, MaxHeaders)
TraceParentsAt == {i \in 1..Looked : array[i] \in {"theirs", "ours"}}

InMemory == len <= Len(array) /\ \A i \in 1..len : array[i] \notin {"broken", "junk"}

Decode ==
    /\ at = "send" /\ at' = "sent"
    /\ IF InMemory /\ TraceParentsAt # {}
       THEN \E i \in TraceParentsAt : /\ \A j \in TraceParentsAt : j <= i
                                      /\ found' = array[i]
       ELSE UNCHANGED found
    /\ UNCHANGED <<array, len, cap, before, spare, item, failures>>

ListNext ==
    \/ WriteKeyString \/ WriteValueString \/ Choose \/ WriteItem
    \/ WriteArray \/ WriteCap \/ WriteLen \/ Decode

-------------------------------------------------------------------------------

\* Between any two writes, the slice does not claim more than it has, unless there was
\* no room in the area or a write to the slice itself has failed.
SliceWithinArray ==
    \/ len <= cap /\ cap <= Len(array)
    \/ failures \cap {"room", "array", "cap"} # {}

\* Nothing is ever lost or cut short: the fields that the request had are there, in
\* order, unless the old array could not be read or there was no room for a new one.
FieldsKept ==
    failures \cap {"copy", "room"} = {} =>
        /\ len >= Len(before)
        /\ \A i \in 1..Len(before) : array[i] = before[i]

\* The server finds the probe's header where it could be appended without a failure,
\* among the fields that its program looks at; otherwise the program's own or none.
ServerFinds ==
    at = "sent" /\ failures = {} =>
        LET n == Len(before)
            appended == spare = 1 \/ (n >= 1 /\ (n + 1) * ItemSize <= MaxDataSize)
        IN  found = IF appended /\ n < MaxHeaders THEN "ours"
                    ELSE IF n >= 1 /\ before[1] = "theirs" THEN "theirs" ELSE "none"
===============================================================================
