------------------------------ MODULE TargetAlloc ------------------------------
(***************************************************************************)
(* The allocator of memory in the target process (internal/include/alloc.h): *)
(* header values and strings are written to an area that the analyzer has  *)
(* mapped there.  The area is cut into one partition per CPU; a program    *)
(* appends to the partition of the CPU it runs on and starts over at its   *)
(* end.  The cursor and the end of each partition are two elements of      *)
(* alloc_map, a PERCPU_HASH: an update writes the value of the CPU that    *)
(* makes it, but a delete removes the element, on every CPU.               *)
(*                                                                         *)
(* A program is not preempted by another on its CPU; programs of several   *)
(* CPUs interleave between their accesses of the map.  Addresses are u64:  *)
(* arithmetic is modulo Word.                                              *)
(***************************************************************************)
EXTENDS Integers

CONSTANTS
    Cpus,          \* bpf_get_smp_processor_id() of the CPUs the target runs on
    TotalCpus,     \* total_cpus, from runtime.NumCPU() of the agent
    StartAddr,     \* start_addr: where mmap put the area, page aligned
    EndAddr,       \* end_addr
    Sizes,         \* sizes that the probes ask for
    MaxBufferSize, \* MAX_BUFFER_SIZE
    Word           \* 2^64

Partition == (EndAddr - StartAddr) \div TotalCpus

ASSUME AreaAssumption ==
    /\ StartAddr \in Nat \ {0} /\ EndAddr \in Nat /\ Word \in Nat
    /\ StartAddr < EndAddr /\ EndAddr < Word
ASSUME CpusAssumption == Cpus \subseteq Nat /\ TotalCpus \in Nat \ {0}
ASSUME SizesAssumption ==
    /\ MaxBufferSize \in Nat \ {0}
    /\ \A size \in Sizes : size \in 1..MaxBufferSize
    /\ MaxBufferSize <= Partition

Unset == 0  \* of an element of alloc_map: absent, or zero-filled for this CPU

VARIABLES
    cursor,  \* alloc_map[0] of each CPU: where its next block starts
    limit,   \* alloc_map[1] of each CPU: where its partition ends
    call,    \* what write_target_data is doing on each CPU
    blocks   \* history: blocks that each CPU wrote since it last ran out of room;
             \* swept, once another CPU has deleted the cursor behind them

vars == <<cursor, limit, call, blocks>>

Words == 0..(Word - 1)

Idle == [at |-> "idle"]

Calls == {Idle} \cup
    [at : {"found", "started", "restart", "ready", "written"}, size : Sizes, start : Words]

Blocks == [cpu : Cpus, from : Words, to : Nat, swept : BOOLEAN]

TypeOK ==
    /\ cursor \in [Cpus -> 0..EndAddr]
    /\ limit \in [Cpus -> 0..EndAddr]
    /\ call \in [Cpus -> Calls]
    /\ blocks \subseteq Blocks

Init ==
    /\ cursor = [c \in Cpus |-> Unset]
    /\ limit = [c \in Cpus |-> Unset]
    /\ call = [c \in Cpus |-> Idle]
    /\ blocks = {}

PartitionStart(c) == (StartAddr + Partition * c) % Word

At(c, pc) == call[c].at = pc

\* get_area_start finds no cursor and sets it to the start of the partition.
StartPartition(c, size) ==
    /\ cursor[c] = Unset
    /\ cursor' = [cursor EXCEPT ![c] = PartitionStart(c)]
    /\ call' = [call EXCEPT ![c] = [at |-> IF At(c, "idle") THEN "started" ELSE "ready",
                                    size |-> size, start |-> PartitionStart(c)]]
    /\ UNCHANGED <<limit, blocks>>

\* get_area_start finds one: its value is read again to be returned.
FindCursor(c, size) ==
    /\ cursor[c] # Unset
    /\ call' = [call EXCEPT ![c] = [at |-> "found", size |-> size, start |-> cursor[c]]]
    /\ UNCHANGED <<cursor, limit, blocks>>

\* The second read: another CPU may have deleted the element, and its memory
\* may have been used for a new one, zero-filled for this CPU.
ReadCursor(c) ==
    /\ At(c, "found")
    /\ \E start \in {call[c].start} \cup (IF cursor[c] = Unset THEN {0} ELSE {}) :
          call' = [call EXCEPT ![c].at = "started", ![c].start = start]
    /\ UNCHANGED <<cursor, limit, blocks>>

\* get_area_end: set the first time, to the end of the partition.
AreaEnd(c) ==
    IF limit[c] = Unset THEN (call[c].start + Partition) % Word ELSE limit[c]

\* A slip: only a partition without any room left counts as full.
NothingLeft(c) == (AreaEnd(c) - call[c].start) % Word = 0

NoRoom(c) == (AreaEnd(c) - call[c].start) % Word < call[c].size

\* The cursors of all CPUs are gone: c knows that its partition is used up, the
\* others will start over without having come to the end of theirs.
Swept(c) == {[b EXCEPT !.swept = TRUE] : b \in {x \in blocks : x.cpu # c}}

\* get_area_end and the test for room.  Without it the cursor is deleted.
CheckRoom(c) ==
    /\ At(c, "started")
    /\ limit' = [limit EXCEPT ![c] = AreaEnd(c)]
    /\ IF NoRoom(c)
         THEN /\ cursor' = [d \in Cpus |-> Unset]
              /\ call' = [call EXCEPT ![c].at = "restart"]
              /\ blocks' = Swept(c)
         ELSE /\ call' = [call EXCEPT ![c].at = "ready"]
              /\ UNCHANGED <<cursor, blocks>>

\* bpf_probe_write_user: it may fail for any address and always does at 0.
WriteFails(c) ==
    /\ At(c, "ready")
    /\ call' = [call EXCEPT ![c] = Idle]
    /\ UNCHANGED <<cursor, limit, blocks>>

Write(c) ==
    /\ At(c, "ready")
    /\ call[c].start # 0
    /\ blocks' = blocks \cup
          {[cpu |-> c, from |-> call[c].start, to |-> call[c].start + call[c].size,
            swept |-> FALSE]}
    /\ call' = [call EXCEPT ![c].at = "written"]
    /\ UNCHANGED <<cursor, limit>>

\* A slip: down instead of up.
AlignDown(a) == a - (a % 8)

AlignUp(a) == IF a % 8 = 0 THEN a ELSE a + (8 - (a % 8))

\* The cursor moves behind the block and write_target_data returns.
Advance(c) ==
    /\ At(c, "written")
    /\ cursor' = [cursor EXCEPT ![c] = AlignUp(call[c].start + call[c].size) % Word]
    /\ call' = [call EXCEPT ![c] = Idle]
    /\ UNCHANGED <<limit, blocks>>

Next ==
    \E c \in Cpus :
        \/ \E size \in Sizes : At(c, "idle") /\ (StartPartition(c, size) \/ FindCursor(c, size))
        \/ At(c, "restart") /\ StartPartition(c, call[c].size)
        \/ ReadCursor(c)
        \/ CheckRoom(c)
        \/ WriteFails(c)
        \/ Write(c)
        \/ Advance(c)

Spec == Init /\ [][Next]_vars

-------------------------------------------------------------------------------

\* CPUs that the agent has counted, and partitions of whole 8-byte words: what the
\* allocator needs and its code does not check.
CpusCounted == \A c \in Cpus : c < TotalCpus
PartitionsAligned == StartAddr % 8 = 0 /\ Partition % 8 = 0

\* No CPU writes outside of its own partition, so that no two of them write the
\* same address, although they read and delete each other's cursors.
WritesStayInPartition ==
    \A b \in blocks :
        PartitionStart(b.cpu) <= b.from /\ b.to <= PartitionStart(b.cpu) + Partition

Overlap(a, b) == a.from < b.to /\ b.from < a.to

\* A CPU overwrites a string that it wrote in this lap of its partition only after
\* another CPU has come to the end of its own and deleted everyone's cursor; and no
\* CPU ever overwrites a string of another one.
OverwrittenOnlyIfSwept ==
    \A a, b \in blocks :
        a # b /\ Overlap(a, b) => a.cpu = b.cpu /\ (a.swept \/ b.swept)

\* Nothing is ever written outside of the area that was mapped for it.
WritesStayInArea == \A b \in blocks : StartAddr <= b.from /\ b.to <= EndAddr
===============================================================================
