------------------------------- MODULE HeaderMap -------------------------------
(***************************************************************************)
(* The traceparent header of an HTTP request: written by inject_header     *)
(* into the Go map of the request's headers, at the entry of Client.Do, and *)
(* found by extract_context_from_req_headers in the map that the server    *)
(* built (pkg/instrumentors/bpf/net/http/{client,server}/bpf).             *)
(*                                                                         *)
(* The program writes into the memory of the map, one write after another, *)
(* each of which can fail (a page is not there, the area is full); it      *)
(* takes the slot whose number is the count of headers.  The goroutine     *)
(* stands still meanwhile.  It may use the request again afterwards.       *)
(***************************************************************************)
EXTENDS Integers, FiniteSets, TraceHeader

CONSTANTS
    Names,         \* names of headers that the program itself sets
    TraceParent,   \* "traceparent"
    NoName,        \* no characters: a null pointer, or the length 0
    Slots,         \* the slots of a bucket (8)
    BucketCounts,  \* the numbers of buckets that a request's map may be made with
    BucketOf,      \* the bucket that a name's hash selects, of two
    ContextOf,     \* the span context of each call
    Added,         \* numbers of headers that the transport may add to a request
    MaxSteps,      \* bound: headers set and deleted
    MaxDos         \* bound: calls of Do with the request

ASSUME MapAssumption ==
    /\ TraceParent \notin Names /\ NoName \notin Names \cup {TraceParent}
    /\ Slots \in Nat \ {0} /\ BucketCounts \subseteq {1, 2}
    /\ BucketOf \in [Names -> {0, 1}] /\ Added \subseteq Nat
    /\ MaxSteps \in Nat /\ MaxDos \in Nat
    /\ ContextOf \in [1..MaxDos -> SpanContext]

Null == 0     \* of a value: no strings
Own == -1     \* of a value: one that the program gave
Broken == -2  \* of a value: a string without characters that has a length

VARIABLES
    buckets,   \* how many the map takes itself to have
    room,      \* the slots that there is memory for
    slots,     \* [top, chars, len, value]: whether the tophash says that it is taken,
               \* the key's pointer and length as the names they are of, the value
    count,     \* the map's count
    pc,        \* where the program or the probe is
    dos,       \* calls of Do made with this request
    steps,     \* history: headers set and deleted
    own,       \* history: the headers that the program has set and not deleted
    deleted,   \* history: whether it has deleted any
    failed,    \* history: what has failed
    crowded,   \* history: calls with too many headers for the probe at Do or the server's
    parent     \* history: the parent that the server finds for each call

mapVars == <<buckets, room, slots, count, pc, dos, steps, own, deleted, failed, crowded, parent>>

Empty == [top |-> FALSE, chars |-> NoName, len |-> NoName, value |-> Null]
AllSlots == 0..2 * Slots - 1
Places == {"program", "bucket", "tophash", "key", "keyLength", "value", "size", "sending"}
Failures == {"bucketRoom", "bucket", "tophash", "keyRoom", "key", "keyLength",
             "textRoom", "valueRoom", "value", "size"}

\* The types, and that no slot is taken but those of the map's buckets.
MapTypeOK ==
    /\ buckets \in BucketCounts /\ room \in {0, Slots, 2 * Slots}
    /\ slots \in [AllSlots -> [top : BOOLEAN, chars : Names \cup {TraceParent, NoName},
                               len : Names \cup {TraceParent, NoName},
                               value : 1..MaxDos \cup {Null, Own, Broken}]]
    /\ \A i \in AllSlots : slots[i].top => i < buckets * Slots
    /\ count \in 0..2 * Slots + MaxDos
    /\ pc \in Places /\ dos \in 0..MaxDos /\ steps \in 0..MaxSteps
    /\ own \subseteq Names /\ deleted \in BOOLEAN /\ failed \subseteq Failures
    /\ crowded \subseteq 1..dos
    /\ parent \in [1..MaxDos -> {{}} \cup {{ContextOf[c]} : c \in 1..MaxDos}]

MapInit ==
    /\ buckets \in BucketCounts
    /\ room = IF buckets = 1 THEN 0 ELSE 2 * Slots   \* one bucket is made when it is needed
    /\ slots = [i \in AllSlots |-> Empty]
    /\ count = 0 /\ pc = "program" /\ dos = 0 /\ steps = 0
    /\ own = {} /\ deleted = FALSE /\ failed = {} /\ crowded = {}
    /\ parent = [c \in 1..MaxDos |-> {}]

-------------------------------------------------------------------------------
(* The program's use of the map (the Go runtime, external).                *)

Bucket(name) == LET b == IF buckets = 1 THEN 0 ELSE BucketOf[name]
                IN  b * Slots..(b + 1) * Slots - 1
At(name) == {i \in Bucket(name) : slots[i].top /\ slots[i].chars = name /\ slots[i].len = name}
Free(name) == {i \in Bucket(name) : ~slots[i].top}

Program == pc = "program" /\ steps < MaxSteps /\ steps' = steps + 1

\* A header is set that was not: the first free slot of its bucket takes it.  A full
\* bucket is not modelled.
Set(name) ==
    /\ Program
    /\ At(name) = {}
    /\ \E i \in Free(name) :
          /\ \A j \in Free(name) : i <= j
          /\ slots' = [slots EXCEPT ![i] = [top |-> TRUE, chars |-> name, len |-> name, value |-> Own]]
    /\ count' = count + 1
    /\ own' = own \cup {name}
    /\ room' = IF room = 0 THEN Slots ELSE room
    /\ UNCHANGED <<buckets, pc, dos, deleted, failed, crowded, parent>>

Del(name) ==
    /\ Program
    /\ \E i \in At(name) : slots' = [slots EXCEPT ![i] = Empty]
    /\ count' = count - 1
    /\ own' = own \ {name} /\ deleted' = TRUE
    /\ UNCHANGED <<buckets, room, pc, dos, failed, crowded, parent>>

-------------------------------------------------------------------------------
(* inject_header.                                                          *)

InjectorVars == <<buckets, dos, steps, own, deleted, crowded, parent>>

TooMany(n) == n > Slots
Full(n) == n >= Slots

\* Do is entered: a map of Slots headers or more is left alone.
Do ==
    /\ pc = "program" /\ dos < MaxDos
    /\ dos' = dos + 1
    /\ pc' = IF Full(count) THEN "sending" ELSE IF count = 0 THEN "bucket" ELSE "tophash"
    /\ crowded' = IF Full(count) THEN crowded \cup {dos'} ELSE crowded
    /\ UNCHANGED <<buckets, room, slots, count, steps, own, deleted, failed, parent>>

\* A write: done, and on to the next, or failed, and the probe returns.
Fails(what) == pc' = "sending" /\ failed' = failed \cup {what}
Write(from, to, written) ==
    /\ pc = from
    /\ \/ pc' = to /\ slots' = written /\ UNCHANGED failed
       \/ Fails(from) /\ UNCHANGED slots
    /\ UNCHANGED <<room, count, InjectorVars>>

\* An empty map gets a new bucket, whatever the number of those it had.  Without room
\* for it the map's pointer becomes null, and the next write fails.
NewBucket ==
    /\ pc = "bucket"
    /\ \/ /\ slots' = [i \in AllSlots |-> Empty] /\ room' = Slots
          /\ pc' = "tophash" /\ UNCHANGED failed
       \/ /\ slots' = [i \in AllSlots |-> Empty] /\ room' = 0 /\ Fails("bucketRoom")
       \/ Fails("bucket") /\ UNCHANGED <<slots, room>>
    /\ UNCHANGED <<count, InjectorVars>>

\* The slot whose number is the count; the one before is a slip.
SlotBefore(n) == n - 1
Slot(n) == n

WriteTophash == Write("tophash", "key", [slots EXCEPT ![Slot(count)].top = TRUE])

\* The pointer to the key: null when there was no room for its characters.
WriteKey ==
    \/ Write("key", "keyLength", [slots EXCEPT ![Slot(count)].chars = TraceParent])
    \/ /\ pc = "key" /\ pc' = "keyLength" /\ failed' = failed \cup {"keyRoom"}
       /\ slots' = [slots EXCEPT ![Slot(count)].chars = NoName]
       /\ UNCHANGED <<room, count, InjectorVars>>

NoKeyLength == Write("keyLength", "value", slots)
WriteKeyLength == Write("keyLength", "value", [slots EXCEPT ![Slot(count)].len = TraceParent])

\* The value: a slice of one string.  Room for the string is checked, room for its
\* characters is not.
WriteValue ==
    \/ Write("value", "size", [slots EXCEPT ![Slot(count)].value = dos])
    \/ /\ pc = "value" /\ pc' = "size" /\ failed' = failed \cup {"textRoom"}
       /\ slots' = [slots EXCEPT ![Slot(count)].value = Broken]
       /\ UNCHANGED <<room, count, InjectorVars>>
    \/ /\ pc = "value" /\ Fails("valueRoom")
       /\ UNCHANGED <<room, slots, count, InjectorVars>>

WriteSize ==
    /\ pc = "size"
    /\ \/ count' = count + 1 /\ pc' = "sending" /\ UNCHANGED failed
       \/ Fails("size") /\ UNCHANGED count
    /\ UNCHANGED <<room, slots, InjectorVars>>

-------------------------------------------------------------------------------
(* The request goes out.                                                   *)

\* What a loop over the map yields: nothing when its count is 0.
Visible == IF count = 0 THEN {} ELSE {i \in 0..buckets * Slots - 1 : slots[i].top}
Sound(i) == /\ i < room /\ slots[i].chars = slots[i].len /\ slots[i].chars # NoName
            /\ slots[i].value # Broken
AllSound == \A i \in Visible : Sound(i)
TraceParents == {i \in Visible : slots[i].chars = TraceParent /\ slots[i].value > Null}

\* extract_context_from_req_headers, in the server's map, which also has the headers
\* that the transport adds, and one entry for all of a name, of which the first is read.
\* Of more headers than a bucket has slots, some may be where the program does not look.
Extract ==
    \E n \in Added :
       LET many == Cardinality(Visible) + n > Slots
       IN  /\ crowded' = IF many THEN crowded \cup {dos} ELSE crowded
           /\ \/ \E i \in TraceParents :
                    parent' = [parent EXCEPT ![dos] = {FromW3C(ToW3C(ContextOf[slots[i].value]))}]
              \/ (TraceParents = {} \/ many) /\ UNCHANGED parent

\* A request with headers that are not sound does not arrive.
Send ==
    /\ pc = "sending" /\ pc' = "program"
    /\ IF AllSound THEN Extract ELSE UNCHANGED <<parent, crowded>>
    /\ UNCHANGED <<buckets, room, slots, count, dos, steps, own, deleted, failed>>

MapNext ==
    \/ \E name \in Names : Set(name) \/ Del(name)
    \/ Do \/ NewBucket \/ WriteTophash \/ WriteKey \/ WriteKeyLength \/ WriteValue \/ WriteSize
    \/ Send

-------------------------------------------------------------------------------

\* The map takes itself to have more buckets than there is memory for.
OutOfMemory == room < buckets * Slots

\* What is sent is sound unless the key was not written behind its tophash, or there was
\* no room for the characters of key or value, now or in an earlier call with the
\* request; or the map, made for two buckets and still empty, has been given one.
RequestSound ==
    pc = "sending" /\ ~AllSound =>
        \/ failed \cap {"keyRoom", "key", "keyLength", "textRoom"} # {}
        \/ OutOfMemory

\* No header of the program's is lost unless it has deleted one, so that the count is
\* the number of a slot in use, or something failed, or there is not enough memory.
OwnHeadersKept ==
    pc = "sending" /\ ~deleted /\ failed = {} /\ ~OutOfMemory =>
        \A name \in own : \E i \in Visible :
            Sound(i) /\ slots[i].chars = name /\ slots[i].value = Own

\* The server's parent is the call's context as it was made, or an earlier call's that
\* the request still carries; there is none only when something failed, the headers were
\* too many for either probe, or there is not enough memory.
ParentIsCaller ==
    \A c \in 1..dos : c < dos \/ pc = "program" =>
        \/ \E d \in 1..c : parent[c] = {ContextOf[d]}
        \/ parent[c] = {} /\ (failed # {} \/ c \in crowded \/ OutOfMemory)
===============================================================================
