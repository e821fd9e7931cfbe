-------------------------- MODULE TargetAlloc_proofs --------------------------
(***************************************************************************)
(* For any number of CPUs, any area and any sizes that fit a partition: if *)
(* the CPUs are the ones counted and partitions are whole words, a CPU     *)
(* writes in its own partition only, and over a block of its current lap   *)
(* only after another CPU has deleted the cursor.                          *)
(* Neither hypothesis can be dropped (run alloc_unaligned drops one).      *)
(***************************************************************************)
EXTENDS TargetAlloc, TLAPS

PartitionEnd(c) == PartitionStart(c) + Partition

InPartition(c, a) == PartitionStart(c) <= a /\ a <= PartitionEnd(c) /\ a % 8 = 0

LEMMA PartitionNat == Partition \in Nat /\ Partition * TotalCpus <= EndAddr - StartAddr
<1>. DEFINE D == EndAddr - StartAddr
<1>1. D \in Nat /\ TotalCpus \in Nat \ {0}
  BY AreaAssumption, CpusAssumption
<1>. HIDE DEF D
<1>2. D \div TotalCpus \in Nat /\ (D \div TotalCpus) * TotalCpus <= D
  BY <1>1, Z3
<1>. QED
  BY <1>2 DEF Partition, D

\* The partitions of counted CPUs lie in the area, one behind the other.
LEMMA PartitionsInArea ==
    ASSUME CpusCounted, NEW c \in Cpus
    PROVE  /\ PartitionStart(c) = StartAddr + Partition * c
           /\ PartitionStart(c) \in Nat
           /\ StartAddr <= PartitionStart(c)
           /\ PartitionEnd(c) <= EndAddr
<1>. DEFINE P == Partition
<1>1. P \in Nat /\ P * TotalCpus <= EndAddr - StartAddr
  BY PartitionNat
<1>2. c \in Nat /\ TotalCpus \in Nat /\ c + 1 <= TotalCpus
  BY CpusAssumption DEF CpusCounted
<1>. HIDE DEF P
<1>3. P * c \in Nat /\ P * c + P = P * (c + 1) /\ P * (c + 1) <= P * TotalCpus
  BY <1>1, <1>2, Z3
<1>4. StartAddr + P * c \in 0..(Word - 1)
  BY <1>1, <1>2, <1>3, AreaAssumption
<1>5. (StartAddr + P * c) % Word = StartAddr + P * c
  BY <1>4, AreaAssumption
<1>6. PartitionStart(c) = StartAddr + P * c
  BY <1>5 DEF PartitionStart, P
<1>7. P * c + P <= EndAddr - StartAddr
  BY <1>1, <1>2, <1>3, AreaAssumption, Z3
<1>8. StartAddr + P * c + P <= EndAddr /\ StartAddr <= StartAddr + P * c
  BY <1>1, <1>3, <1>7, AreaAssumption
<1>9. PartitionStart(c) \in Nat /\ PartitionStart(c) + P <= EndAddr
  BY <1>4, <1>6, <1>8
<1>. QED
  BY <1>6, <1>8, <1>9 DEF PartitionEnd, P

LEMMA PartitionsApart ==
    ASSUME CpusCounted, NEW c \in Cpus, NEW d \in Cpus, c < d
    PROVE  PartitionEnd(c) <= PartitionStart(d)
<1>. DEFINE P == Partition
<1>1. P \in Nat /\ c \in Nat /\ d \in Nat /\ c + 1 <= d
  BY PartitionNat, CpusAssumption
<1>2. PartitionStart(c) = StartAddr + P * c /\ PartitionStart(d) = StartAddr + P * d
  BY PartitionsInArea
<1>. HIDE DEF P
<1>3. P * c + P = P * (c + 1) /\ P * (c + 1) <= P * d /\ P * c \in Nat /\ P * d \in Nat
  BY <1>1, Z3
<1>. QED
  BY <1>1, <1>2, <1>3, AreaAssumption DEF PartitionEnd, P

LEMMA PartitionsOfWords ==
    ASSUME CpusCounted, PartitionsAligned, NEW c \in Cpus
    PROVE  PartitionStart(c) % 8 = 0 /\ PartitionEnd(c) % 8 = 0
<1>. DEFINE P == Partition
<1>1. P \in Nat /\ c \in Nat /\ P % 8 = 0 /\ StartAddr \in Nat /\ StartAddr % 8 = 0
  BY PartitionNat, CpusAssumption, AreaAssumption DEF PartitionsAligned
<1>2. PartitionStart(c) = StartAddr + P * c
  BY PartitionsInArea
<1>. HIDE DEF P
<1>3. PICK k \in Nat : P = 8 * k
  BY <1>1, Z3
<1>4. P * c = 8 * (k * c) /\ k * c \in Nat
  BY <1>1, <1>3, Z3
<1>5. \A j \in Nat : (StartAddr + 8 * j) % 8 = 0
  BY <1>1, Z3
<1>6. PartitionStart(c) % 8 = 0 /\ PartitionStart(c) \in Nat
  BY <1>2, <1>4, <1>5, PartitionsInArea
<1>. QED
  BY <1>1, <1>6 DEF PartitionEnd, P

-------------------------------------------------------------------------------

\* What holds of a CPU's cursor, limit and call.
CpuOK(c) ==
    /\ cursor[c] # Unset => InPartition(c, cursor[c])
    /\ limit[c] \in {Unset, PartitionEnd(c)}
    /\ limit[c] = Unset =>
          \/ At(c, "idle") /\ cursor[c] = Unset
          \/ At(c, "started") /\ call[c].start = PartitionStart(c)
    /\ call[c].at \in {"found", "written"} => InPartition(c, call[c].start)
    /\ call[c].at \in {"started", "ready"} =>
          call[c].start = 0 \/ InPartition(c, call[c].start)
    /\ call[c].at \in {"ready", "written"} /\ call[c].start # 0 =>
          call[c].start + call[c].size <= PartitionEnd(c)
    /\ At(c, "restart") => cursor[c] = Unset

\* A block lies in its CPU's partition and, unless it is swept, before whatever
\* that CPU writes next.
BlockOK(b) ==
    /\ b.from < b.to
    /\ PartitionStart(b.cpu) <= b.from /\ b.to <= PartitionEnd(b.cpu)
    /\ ~b.swept =>
          /\ ~At(b.cpu, "written") => b.to <= cursor[b.cpu]
          /\ call[b.cpu].at \in {"found", "started", "ready"} =>
                b.to <= call[b.cpu].start \/ call[b.cpu].start = 0
          /\ At(b.cpu, "written") =>
                \/ b.to <= call[b.cpu].start
                \/ /\ b.from = call[b.cpu].start
                   /\ b.to = call[b.cpu].start + call[b.cpu].size

LapDisjoint ==
    \A a, b \in blocks :
        a # b /\ a.cpu = b.cpu /\ ~a.swept /\ ~b.swept => ~Overlap(a, b)

AllocInv ==
    /\ TypeOK
    /\ \A c \in Cpus : CpuOK(c)
    /\ \A b \in blocks : BlockOK(b)
    /\ LapDisjoint

LEMMA AllocInit == Init => AllocInv
BY AreaAssumption
   DEF Init, AllocInv, TypeOK, CpuOK, LapDisjoint, Calls, Idle, Unset, At

\* Facts of the constants that every step needs, without their arithmetic.
LEMMA CpuFacts ==
    ASSUME CpusCounted, PartitionsAligned, NEW c \in Cpus
    PROVE  /\ PartitionStart(c) \in Nat \ {0} /\ PartitionEnd(c) \in Nat
           /\ PartitionStart(c) % 8 = 0 /\ PartitionEnd(c) % 8 = 0
           /\ PartitionStart(c) + MaxBufferSize <= PartitionEnd(c)
           /\ PartitionEnd(c) <= EndAddr /\ EndAddr < Word
           /\ PartitionStart(c) \in Words
           /\ PartitionEnd(c) = PartitionStart(c) + Partition
           /\ Partition \in Nat /\ Word \in Nat /\ EndAddr \in Nat
<1>1. /\ PartitionStart(c) \in Nat
      /\ StartAddr <= PartitionStart(c)
      /\ PartitionEnd(c) <= EndAddr
  BY PartitionsInArea
<1>2. PartitionStart(c) % 8 = 0 /\ PartitionEnd(c) % 8 = 0
  BY PartitionsOfWords
<1>3. Partition \in Nat
  BY PartitionNat
<1>. QED
  BY <1>1, <1>2, <1>3, AreaAssumption, SizesAssumption DEF PartitionEnd, Words

\* A CPU that another one's step leaves alone, but for its cursor being deleted.
LEMMA OtherCpu ==
    ASSUME NEW d \in Cpus, CpuOK(d), call'[d] = call[d], limit'[d] = limit[d],
           cursor'[d] \in {cursor[d], Unset}
    PROVE  CpuOK(d)'
BY DEF CpuOK, At

LEMMA StepStartPartition ==
    ASSUME CpusCounted, PartitionsAligned, AllocInv, NEW c \in Cpus, NEW size \in Sizes,
           \/ At(c, "idle")
           \/ At(c, "restart") /\ size = call[c].size,
           StartPartition(c, size)
    PROVE  AllocInv'
<1>. USE CpuFacts
<1>1. TypeOK'
  BY DEF AllocInv, TypeOK, StartPartition, Calls
<1>2. /\ cursor' = [cursor EXCEPT ![c] = PartitionStart(c)]
      /\ cursor[c] = Unset
      /\ limit' = limit /\ blocks' = blocks
      /\ \A d \in Cpus \ {c} : call'[d] = call[d] /\ cursor'[d] = cursor[d]
      /\ call'[c] = [at |-> IF At(c, "idle") THEN "started" ELSE "ready",
                     size |-> size, start |-> PartitionStart(c)]
      /\ cursor'[c] = PartitionStart(c)
  BY DEF AllocInv, TypeOK, StartPartition
<1>3. size \in 1..MaxBufferSize
  BY SizesAssumption
<1>4. CpuOK(c)'
  BY <1>2, <1>3, SizesAssumption DEF AllocInv, CpuOK, At, InPartition, Unset
<1>5. \A d \in Cpus : CpuOK(d)'
  BY <1>2, <1>4, OtherCpu DEF AllocInv
<1>6. \A b \in blocks : b.cpu = c => b.swept
  <2>. SUFFICES ASSUME NEW b \in blocks, b.cpu = c, ~b.swept PROVE FALSE
    OBVIOUS
  <2>1. b.from \in Nat /\ b.to \in Nat /\ b.from < b.to /\ (~At(c, "written") => b.to <= 0)
    BY <1>2 DEF AllocInv, TypeOK, Blocks, BlockOK, Unset, Words
  <2>. QED
    BY <2>1 DEF At
<1>7. \A b \in blocks : BlockOK(b)'
  BY <1>2, <1>6 DEF AllocInv, BlockOK, At, TypeOK, Blocks
<1>. QED
  BY <1>1, <1>2, <1>5, <1>7 DEF AllocInv, LapDisjoint

LEMMA StepFindCursor ==
    ASSUME CpusCounted, PartitionsAligned, AllocInv, NEW c \in Cpus, NEW size \in Sizes,
           At(c, "idle"), FindCursor(c, size)
    PROVE  AllocInv'
<1>. USE CpuFacts
<1>1. TypeOK'
  BY DEF AllocInv, TypeOK, FindCursor, Calls, CpuOK, Words
<1>2. /\ UNCHANGED <<cursor, limit, blocks>>
      /\ cursor[c] # Unset
      /\ \A d \in Cpus \ {c} : call'[d] = call[d]
      /\ call'[c] = [at |-> "found", size |-> size, start |-> cursor[c]]
  BY DEF AllocInv, TypeOK, FindCursor
<1>3. CpuOK(c)'
  BY <1>2 DEF AllocInv, CpuOK, At
<1>4. \A d \in Cpus : CpuOK(d)'
  BY <1>2, <1>3, OtherCpu DEF AllocInv
<1>5. \A b \in blocks : BlockOK(b)'
  BY <1>2 DEF AllocInv, BlockOK, At, TypeOK, Blocks
<1>. QED
  BY <1>1, <1>2, <1>4, <1>5 DEF AllocInv, LapDisjoint

LEMMA StepReadCursor ==
    ASSUME CpusCounted, PartitionsAligned, AllocInv, NEW c \in Cpus, ReadCursor(c)
    PROVE  AllocInv'
<1>. USE CpuFacts
<1>1. PICK start \in {call[c].start} \cup (IF cursor[c] = Unset THEN {0} ELSE {}) :
          call' = [call EXCEPT ![c].at = "started", ![c].start = start]
  BY DEF ReadCursor
<1>2. /\ UNCHANGED <<cursor, limit, blocks>>
      /\ At(c, "found")
      /\ start = call[c].start \/ start = 0
  BY <1>1 DEF ReadCursor
<1>3. call[c] \in [at : {"found", "started", "restart", "ready", "written"},
                   size : Sizes, start : Words]
  BY <1>2 DEF AllocInv, TypeOK, Calls, Idle, At
<1>4. /\ \A d \in Cpus \ {c} : call'[d] = call[d]
      /\ call'[c] = [call[c] EXCEPT !.at = "started", !.start = start]
      /\ call'[c].at = "started" /\ call'[c].start = start /\ call'[c].size = call[c].size
      /\ start \in Words
  BY <1>1, <1>2, <1>3, AreaAssumption DEF AllocInv, TypeOK, Words
<1>5. TypeOK'
  BY <1>1, <1>2, <1>3, <1>4 DEF AllocInv, TypeOK, Calls
<1>6. CpuOK(c)'
  BY <1>2, <1>4 DEF AllocInv, CpuOK, At
<1>7. \A d \in Cpus : CpuOK(d)'
  BY <1>2, <1>4, <1>6, OtherCpu DEF AllocInv
<1>8. \A b \in blocks : BlockOK(b)'
  BY <1>2, <1>4 DEF AllocInv, BlockOK, At, TypeOK, Blocks
<1>. QED
  BY <1>2, <1>5, <1>7, <1>8 DEF AllocInv, LapDisjoint

\* The room that is computed is what is really left of the partition.
LEMMA RoomIsLeft ==
    ASSUME CpusCounted, PartitionsAligned, AllocInv, NEW c \in Cpus, At(c, "started")
    PROVE  /\ AreaEnd(c) = PartitionEnd(c)
           /\ ~NoRoom(c) /\ call[c].start # 0 =>
                call[c].start + call[c].size <= PartitionEnd(c)
<1>. USE CpuFacts
<1>1. /\ limit[c] \in {Unset, PartitionEnd(c)}
      /\ limit[c] = Unset => call[c].start = PartitionStart(c)
      /\ call[c].start = 0 \/ InPartition(c, call[c].start)
  BY DEF AllocInv, CpuOK, At
<1>2. call[c].start \in Words /\ call[c].size \in 1..MaxBufferSize
  BY SizesAssumption DEF AllocInv, TypeOK, Calls, Idle, At
<1>3. PartitionEnd(c) \in 0..(Word - 1) /\ PartitionEnd(c) % Word = PartitionEnd(c)
  BY AreaAssumption
<1>4. AreaEnd(c) = PartitionEnd(c)
  BY <1>1, <1>3 DEF AreaEnd
<1>5. ASSUME ~NoRoom(c), call[c].start # 0
      PROVE  call[c].start + call[c].size <= PartitionEnd(c)
  <2>1. PartitionEnd(c) - call[c].start \in 0..(Word - 1)
    BY <1>1, <1>2, <1>3, <1>5 DEF InPartition, Words
  <2>2. (PartitionEnd(c) - call[c].start) % Word = PartitionEnd(c) - call[c].start
    BY <2>1, AreaAssumption
  <2>3. ~(PartitionEnd(c) - call[c].start < call[c].size)
    BY <1>4, <1>5, <2>2 DEF NoRoom
  <2>. QED
    BY <1>2, <2>3 DEF Words
<1>. QED
  BY <1>4, <1>5

LEMMA StepCheckRoom ==
    ASSUME CpusCounted, PartitionsAligned, AllocInv, NEW c \in Cpus, CheckRoom(c)
    PROVE  AllocInv'
<1>. USE CpuFacts
<1>1. At(c, "started") /\ AreaEnd(c) = PartitionEnd(c) /\ limit' = [limit EXCEPT ![c] = AreaEnd(c)]
  BY RoomIsLeft DEF CheckRoom
<1>2. call[c] \in [at : {"found", "started", "restart", "ready", "written"},
                   size : Sizes, start : Words]
  BY <1>1 DEF AllocInv, TypeOK, Calls, Idle, At
<1>3. limit'[c] = PartitionEnd(c) /\ \A d \in Cpus \ {c} : limit'[d] = limit[d]
  BY <1>1 DEF AllocInv, TypeOK
<1>4. limit' \in [Cpus -> 0..EndAddr]
  BY <1>1 DEF AllocInv, TypeOK
<1>5. CASE NoRoom(c)
  <2>1. /\ cursor' = [d \in Cpus |-> Unset]
        /\ call' = [call EXCEPT ![c].at = "restart"]
        /\ blocks' = Swept(c)
    BY <1>5 DEF CheckRoom
  <2>2. /\ \A d \in Cpus \ {c} : call'[d] = call[d]
        /\ call'[c].at = "restart" /\ call'[c].start = call[c].start
        /\ call'[c].size = call[c].size
        /\ call'[c] \in Calls
    BY <1>2, <2>1 DEF AllocInv, TypeOK, Calls
  <2>6. ASSUME NEW b \in blocks'
        PROVE  /\ b \in Blocks /\ b.swept
               /\ \E x \in blocks : b.cpu = x.cpu /\ b.from = x.from /\ b.to = x.to
    <3>1. PICK x \in blocks : x.cpu # c /\ b = [x EXCEPT !.swept = TRUE]
      BY <2>1, <2>6 DEF Swept
    <3>2. x \in Blocks
      BY DEF AllocInv, TypeOK
    <3>. QED
      BY <3>1, <3>2 DEF Blocks
  <2>7. \A b \in blocks' : BlockOK(b)'
    BY <2>6 DEF AllocInv, BlockOK
  <2>8. LapDisjoint'
    BY <2>6 DEF LapDisjoint
  <2>3. TypeOK'
    BY <1>4, <2>1, <2>2, <2>6, AreaAssumption DEF AllocInv, TypeOK, Unset
  <2>4. CpuOK(c)'
    BY <1>3, <2>1, <2>2 DEF CpuOK, At, Unset
  <2>5. \A d \in Cpus : CpuOK(d)'
    BY <1>3, <2>1, <2>2, <2>4, OtherCpu DEF AllocInv
  <2>. QED
    BY <2>3, <2>5, <2>7, <2>8 DEF AllocInv
<1>6. CASE ~NoRoom(c)
  <2>1. /\ call' = [call EXCEPT ![c].at = "ready"]
        /\ UNCHANGED <<cursor, blocks>>
    BY <1>6 DEF CheckRoom
  <2>2. /\ \A d \in Cpus \ {c} : call'[d] = call[d]
        /\ call'[c].at = "ready" /\ call'[c].start = call[c].start
        /\ call'[c].size = call[c].size
        /\ call'[c] \in Calls
    BY <1>2, <2>1 DEF AllocInv, TypeOK, Calls
  <2>3. TypeOK'
    BY <1>4, <2>1, <2>2 DEF AllocInv, TypeOK
  <2>4. call[c].start # 0 => call[c].start + call[c].size <= PartitionEnd(c)
    BY <1>1, <1>6, RoomIsLeft
  <2>5. CpuOK(c)'
    BY <1>1, <1>3, <2>1, <2>2, <2>4 DEF AllocInv, CpuOK, At, Unset
  <2>6. \A d \in Cpus : CpuOK(d)'
    BY <1>3, <2>1, <2>2, <2>5, OtherCpu DEF AllocInv
  <2>7. \A b \in blocks : BlockOK(b)'
    BY <1>1, <2>1, <2>2 DEF AllocInv, BlockOK, At, TypeOK, Blocks
  <2>. QED
    BY <2>1, <2>3, <2>6, <2>7 DEF AllocInv, LapDisjoint
<1>. QED
  BY <1>5, <1>6

LEMMA StepWriteFails ==
    ASSUME CpusCounted, PartitionsAligned, AllocInv, NEW c \in Cpus, WriteFails(c)
    PROVE  AllocInv'
<1>1. /\ UNCHANGED <<cursor, limit, blocks>>
      /\ At(c, "ready")
      /\ \A d \in Cpus \ {c} : call'[d] = call[d]
      /\ call'[c] = Idle
  BY DEF AllocInv, TypeOK, WriteFails
<1>2. TypeOK'
  BY DEF AllocInv, TypeOK, WriteFails, Calls
<1>3. CpuOK(c)'
  BY <1>1 DEF AllocInv, CpuOK, At, Idle
<1>4. \A d \in Cpus : CpuOK(d)'
  BY <1>1, <1>3, OtherCpu DEF AllocInv
<1>5. \A b \in blocks : BlockOK(b)'
  BY <1>1 DEF AllocInv, BlockOK, At, Idle, TypeOK, Blocks
<1>. QED
  BY <1>1, <1>2, <1>4, <1>5 DEF AllocInv, LapDisjoint

LEMMA StepWrite ==
    ASSUME CpusCounted, PartitionsAligned, AllocInv, NEW c \in Cpus, Write(c)
    PROVE  AllocInv'
<1>. USE CpuFacts
<1>. DEFINE new == [cpu |-> c, from |-> call[c].start, to |-> call[c].start + call[c].size,
                    swept |-> FALSE]
<1>1. /\ UNCHANGED <<cursor, limit>>
      /\ At(c, "ready") /\ call[c].start # 0
      /\ call' = [call EXCEPT ![c].at = "written"]
      /\ blocks' = blocks \cup {new}
  BY DEF Write
<1>2. call[c] \in [at : {"found", "started", "restart", "ready", "written"},
                   size : Sizes, start : Words]
  BY <1>1 DEF AllocInv, TypeOK, Calls, Idle, At
<1>3. /\ \A d \in Cpus \ {c} : call'[d] = call[d]
      /\ call'[c].at = "written" /\ call'[c].start = call[c].start
      /\ call'[c].size = call[c].size
      /\ call'[c] \in Calls
  BY <1>1, <1>2 DEF AllocInv, TypeOK, Calls
<1>4. /\ call[c].start \in Nat \ {0} /\ call[c].size \in Nat \ {0}
      /\ InPartition(c, call[c].start)
      /\ call[c].start + call[c].size <= PartitionEnd(c)
  BY <1>1, <1>2, SizesAssumption DEF AllocInv, CpuOK, At, Words
<1>5. new \in Blocks
  BY <1>2, <1>4 DEF Blocks
<1>6. TypeOK'
  BY <1>1, <1>3, <1>5 DEF AllocInv, TypeOK
<1>7. CpuOK(c)'
  BY <1>1, <1>3, <1>4 DEF AllocInv, CpuOK, At
<1>8. \A d \in Cpus : CpuOK(d)'
  BY <1>1, <1>3, <1>7, OtherCpu DEF AllocInv
<1>9. \A b : b = new => BlockOK(b)'
  BY <1>3, <1>4 DEF BlockOK, At, InPartition
<1>10. \A b \in blocks : BlockOK(b)'
  BY <1>1, <1>3 DEF AllocInv, BlockOK, At, TypeOK, Blocks
<1>11. \A b \in blocks : b.cpu = c /\ ~b.swept => b.to <= new.from
  BY <1>1, <1>4 DEF AllocInv, BlockOK, At
<1>12. LapDisjoint'
  <2>1. \A b \in blocks : b.cpu = c /\ ~b.swept => ~Overlap(b, new) /\ ~Overlap(new, b)
    BY <1>4, <1>11 DEF Overlap, AllocInv, TypeOK, Blocks, Words
  <2>2. ASSUME NEW a \in blocks', NEW b \in blocks',
               a # b, a.cpu = b.cpu, ~a.swept, ~b.swept
        PROVE  ~Overlap(a, b)
    <3>1. CASE a \in blocks /\ b \in blocks
      BY <2>2, <3>1 DEF AllocInv, LapDisjoint
    <3>2. CASE a = new
      <4>1. b \in blocks /\ b.cpu = c
        BY <1>1, <2>2, <3>2
      <4>. QED
        BY <2>1, <2>2, <3>2, <4>1, Zenon
    <3>3. CASE b = new
      <4>1. a \in blocks /\ a.cpu = c
        BY <1>1, <2>2, <3>3
      <4>. QED
        BY <2>1, <2>2, <3>3, <4>1, Zenon
    <3>. QED
      BY <1>1, <2>2, <3>1, <3>2, <3>3, Zenon
  <2>. QED
    BY <2>2 DEF LapDisjoint
<1>. HIDE DEF new
<1>13. \A b \in blocks' : BlockOK(b)'
  BY <1>1, <1>9, <1>10, Zenon
<1>. QED
  BY <1>6, <1>8, <1>12, <1>13, Zenon DEF AllocInv

LEMMA StepAdvance ==
    ASSUME CpusCounted, PartitionsAligned, AllocInv, NEW c \in Cpus, Advance(c)
    PROVE  AllocInv'
<1>. USE CpuFacts
<1>. DEFINE to == call[c].start + call[c].size
<1>1. /\ UNCHANGED <<limit, blocks>>
      /\ At(c, "written")
      /\ call' = [call EXCEPT ![c] = Idle]
      /\ cursor' = [cursor EXCEPT ![c] = AlignUp(to) % Word]
  BY DEF Advance
<1>2. /\ call[c].start \in Nat /\ call[c].size \in Nat \ {0}
      /\ InPartition(c, call[c].start)
  BY <1>1, SizesAssumption DEF AllocInv, TypeOK, Calls, Idle, CpuOK, At, Words
<1>3. call[c].start # 0
  BY <1>2 DEF InPartition
<1>4. to \in Nat /\ to <= PartitionEnd(c)
  BY <1>1, <1>2, <1>3 DEF AllocInv, CpuOK, At
<1>5. AlignUp(to) \in Nat /\ to <= AlignUp(to) /\ AlignUp(to) <= PartitionEnd(c) /\ AlignUp(to) % 8 = 0
  BY <1>4 DEF AlignUp
<1>6. AlignUp(to) % Word = AlignUp(to)
  <2>1. AlignUp(to) \in 0..(Word - 1)
    BY <1>5
  <2>. QED
    BY <2>1
<1>7. /\ cursor'[c] = AlignUp(to) /\ call'[c] = Idle
      /\ \A d \in Cpus \ {c} : call'[d] = call[d] /\ cursor'[d] = cursor[d]
  BY <1>1, <1>6 DEF AllocInv, TypeOK
<1>8. TypeOK'
  BY <1>1, <1>5, <1>6 DEF AllocInv, TypeOK, Calls
<1>9. InPartition(c, AlignUp(to))
  BY <1>2, <1>5 DEF InPartition
<1>10. CpuOK(c)'
  BY <1>1, <1>7, <1>9 DEF AllocInv, CpuOK, At, Idle, InPartition
<1>11. \A d \in Cpus : CpuOK(d)'
  BY <1>1, <1>7, <1>10, OtherCpu DEF AllocInv
<1>12. \A b \in blocks : BlockOK(b)'
  <2>. SUFFICES ASSUME NEW b \in blocks PROVE BlockOK(b)'
    OBVIOUS
  <2>1. b.cpu \in Cpus /\ b.from \in Nat /\ b.to \in Nat /\ BlockOK(b)
    BY DEF AllocInv, TypeOK, Blocks, Words
  <2>2. CASE b.cpu = c
    <3>1. ~b.swept => b.to <= call[c].start \/ b.to = to
      BY <1>1, <2>1, <2>2 DEF BlockOK
    <3>2. ~b.swept => b.to <= AlignUp(to)
      BY <1>2, <1>5, <2>1, <3>1
    <3>. QED
      BY <1>7, <2>1, <2>2, <3>2 DEF BlockOK, At, Idle
  <2>3. CASE b.cpu # c
    BY <1>1, <1>7, <2>1, <2>3 DEF BlockOK, At
  <2>. QED
    BY <2>2, <2>3
<1>. QED
  BY <1>1, <1>8, <1>11, <1>12 DEF AllocInv, LapDisjoint

LEMMA AllocStep ==
    CpusCounted /\ PartitionsAligned /\ AllocInv /\ [Next]_vars => AllocInv'
<1>. SUFFICES ASSUME CpusCounted, PartitionsAligned, AllocInv, [Next]_vars PROVE AllocInv'
  OBVIOUS
<1>1. CASE UNCHANGED vars
  BY <1>1 DEF vars, AllocInv, TypeOK, CpuOK, BlockOK, LapDisjoint, At
<1>2. ASSUME NEW c \in Cpus, NEW size \in Sizes, At(c, "idle"),
             StartPartition(c, size) \/ FindCursor(c, size)
      PROVE  AllocInv'
  BY <1>2, StepStartPartition, StepFindCursor
<1>3. ASSUME NEW c \in Cpus, At(c, "restart"), StartPartition(c, call[c].size)
      PROVE  AllocInv'
  <2>1. call[c].size \in Sizes
    BY <1>3 DEF AllocInv, TypeOK, Calls, Idle, At
  <2>. QED
    BY <1>3, <2>1, StepStartPartition
<1>4. ASSUME NEW c \in Cpus, ReadCursor(c) PROVE AllocInv'
  BY <1>4, StepReadCursor
<1>5. ASSUME NEW c \in Cpus, CheckRoom(c) PROVE AllocInv'
  BY <1>5, StepCheckRoom
<1>6. ASSUME NEW c \in Cpus, WriteFails(c) PROVE AllocInv'
  BY <1>6, StepWriteFails
<1>7. ASSUME NEW c \in Cpus, Write(c) PROVE AllocInv'
  BY <1>7, StepWrite
<1>8. ASSUME NEW c \in Cpus, Advance(c) PROVE AllocInv'
  BY <1>8, StepAdvance
<1>. QED
  BY <1>1, <1>2, <1>3, <1>4, <1>5, <1>6, <1>7, <1>8 DEF Next

LEMMA AllocInvariant ==
    ASSUME CpusCounted, PartitionsAligned
    PROVE  Spec => []AllocInv
<1>1. AllocInv /\ [Next]_vars => AllocInv'
  BY AllocStep
<1>. QED
  BY AllocInit, <1>1, PTL DEF Spec

-------------------------------------------------------------------------------

\* alloc_map's values and the blocks written have their types; in particular no
\* cursor leaves the area.
THEOREM AllocTypeCorrect ==
    ASSUME CpusCounted, PartitionsAligned
    PROVE  Spec => []TypeOK
<1>1. AllocInv => TypeOK
  BY DEF AllocInv
<1>. QED
  BY <1>1, AllocInvariant, PTL

\* write_target_data writes in the partition of its CPU only.
THEOREM PartitionCorrect ==
    ASSUME CpusCounted, PartitionsAligned
    PROVE  Spec => []WritesStayInPartition
<1>1. AllocInv => WritesStayInPartition
  BY DEF AllocInv, BlockOK, WritesStayInPartition, PartitionEnd
<1>. QED
  BY <1>1, AllocInvariant, PTL

\* Blocks of two CPUs do not meet.
LEMMA BlocksApart ==
    ASSUME CpusCounted, PartitionsAligned, AllocInv, NEW a \in blocks, NEW b \in blocks,
           a.cpu < b.cpu
    PROVE  ~Overlap(a, b) /\ ~Overlap(b, a)
<1>1. /\ a.cpu \in Cpus /\ a.from \in Nat /\ a.to \in Nat /\ a.to <= PartitionEnd(a.cpu)
      /\ b.cpu \in Cpus /\ b.from \in Nat /\ b.to \in Nat /\ PartitionStart(b.cpu) <= b.from
  BY DEF AllocInv, TypeOK, Blocks, BlockOK, Words
<1>2. /\ PartitionEnd(a.cpu) <= PartitionStart(b.cpu)
      /\ PartitionEnd(a.cpu) \in Nat /\ PartitionStart(b.cpu) \in Nat
  BY <1>1, PartitionsApart, CpuFacts
<1>3. a.to <= b.from
  BY <1>1, <1>2
<1>. QED
  BY <1>1, <1>3 DEF Overlap

\* Without another CPU's restart no CPU overwrites what it wrote in its lap, and no
\* CPU overwrites what another one wrote.
THEOREM SweptCorrect ==
    ASSUME CpusCounted, PartitionsAligned
    PROVE  Spec => []OverwrittenOnlyIfSwept
<1>1. AllocInv => OverwrittenOnlyIfSwept
  <2>. SUFFICES ASSUME AllocInv, NEW a \in blocks, NEW b \in blocks, a # b, Overlap(a, b)
                PROVE  a.cpu = b.cpu /\ (a.swept \/ b.swept)
    BY DEF OverwrittenOnlyIfSwept
  <2>1. a.cpu \in Nat /\ b.cpu \in Nat
    BY CpusAssumption DEF AllocInv, TypeOK, Blocks
  <2>2. ~(a.cpu < b.cpu) /\ ~(b.cpu < a.cpu)
    BY BlocksApart
  <2>3. a.cpu = b.cpu
    BY <2>1, <2>2
  <2>. QED
    BY <2>3 DEF AllocInv, LapDisjoint
<1>. QED
  BY <1>1, AllocInvariant, PTL

\* With whole-word partitions nothing is written outside of the mapped area, which
\* run alloc_unaligned shows does not hold without them.
THEOREM AreaCorrect ==
    ASSUME CpusCounted, PartitionsAligned
    PROVE  Spec => []WritesStayInArea
<1>1. AllocInv => WritesStayInArea
  <2>. SUFFICES ASSUME AllocInv, NEW b \in blocks PROVE StartAddr <= b.from /\ b.to <= EndAddr
    BY DEF WritesStayInArea
  <2>1. /\ b.cpu \in Cpus /\ b.from \in Nat /\ b.to \in Nat
        /\ PartitionStart(b.cpu) <= b.from /\ b.to <= PartitionEnd(b.cpu)
    BY DEF AllocInv, TypeOK, Blocks, BlockOK, Words
  <2>2. /\ PartitionStart(b.cpu) \in Nat /\ StartAddr <= PartitionStart(b.cpu)
        /\ PartitionEnd(b.cpu) <= EndAddr
    BY <2>1, PartitionsInArea
  <2>3. PartitionEnd(b.cpu) \in Nat
    BY <2>1, CpuFacts
  <2>. QED
    BY <2>1, <2>2, <2>3, AreaAssumption
<1>. QED
  BY <1>1, AllocInvariant, PTL
===============================================================================
