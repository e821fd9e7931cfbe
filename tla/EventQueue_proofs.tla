-------------------------- MODULE EventQueue_proofs --------------------------
(***************************************************************************)
(* Proofs about the event queue, for every set of events, every delay,     *)
(* queue size and perf-buffer size.                                        *)
(*                                                                         *)
(* The order of pops cannot be proved from itself: what protects it is a   *)
(* fact about the items still in the heap (HeapNeverUndercuts), which in   *)
(* turn needs the ages of popped items (Aged): an item is popped Delay     *)
(* after it arrived, and it arrived after the instant its priority names,  *)
(* so whatever arrives later with a smaller priority is late.              *)
(* PopCorrect is what of QueuedIsPopped is safety.                         *)
(***************************************************************************)
EXTENDS EventQueue, FiniteSetTheorems, WellFoundedInduction, TLAPS

PoppedStages == {"handling", "unhandled", "absorbed", "tracing", "traced"}

ArrivedStages == {"queued"} \cup PoppedStages

\* How the times of an event are related to its stage and to the clock.
Aged ==
    /\ now \in Nat \ {0}
    /\ \A e \in Events : stage[e] # "idle" => start[e] \in 1..now
    /\ \A e \in Events : stage[e] \in ArrivedStages =>
          Priority(e) <= arriveAt[e] /\ arriveAt[e] <= now
    /\ \A e \in Events : stage[e] \in PoppedStages <=> rank[e] > 0
    /\ \A e \in Popped : arriveAt[e] + Delay <= now

\* The newest rank is the number of popped events.
RanksCount == \A e \in Popped : rank[e] <= Cardinality(Popped)

\* previousPriority is the priority of some popped event.
PreviousIsPopped ==
    previousPriority = 0 \/ \E e \in Popped : previousPriority = Priority(e)

OrderInv ==
    /\ TypeOK
    /\ Aged
    /\ RanksCount
    /\ HeapNeverUndercuts
    /\ OrderUnlessLate
    /\ PreviousIsPopped
    /\ flagged \subseteq Popped
    /\ FlaggedAreLate

-------------------------------------------------------------------------------

LEMMA MaxTimeType == MaxTime \in Nat
BY HorizonAssumption, DelayAssumption DEF MaxTime

\* A priority is a stamp or the nanosecond before one.
LEMMA PriorityType ==
    ASSUME TypeOK, NEW e \in Events
    PROVE  /\ Priority(e) \in Int
           /\ start[e] \in Int
           /\ arriveAt[e] \in Int
           /\ Priority(e) <= start[e]
           /\ start[e] >= 1 => Priority(e) \in 0..MaxTime
BY MaxTimeType DEF TypeOK, Priority

-------------------------------------------------------------------------------
(* The inductive step, conjunct by conjunct.                               *)

LEMMA TypeStep ==
    ASSUME TypeOK, Aged, [Next]_vars
    PROVE  TypeOK'
<1>. USE MaxTimeType DEF TypeOK, Stages
<1>1. CASE \E e \in Events : Begin(e)
  <2>1. PICK e \in Events : Begin(e)
    BY <1>1
  <2>2. now \in 0..MaxTime /\ start' = [start EXCEPT ![e] = now]
    BY <2>1 DEF Begin
  <2>. QED
    BY <2>1, <2>2 DEF Begin
<1>2. CASE \E e \in Events : Emit(e)
  <2>1. PICK e \in Events : Emit(e)
    BY <1>2
  <2>2. (IF Cardinality(InPerfBuffer(TypeOf[e])) < PerfSize THEN "perf" ELSE "lost") \in Stages
    BY DEF Stages
  <2>. QED
    BY <2>1, <2>2 DEF Emit
<1>3. CASE \E e \in Events : Push(e)
  BY <1>3 DEF Push
<1>4. CASE \E t \in Types : Register(t)
  BY <1>4 DEF Register
<1>5. CASE \E t \in Types : Unregister(t)
  BY <1>5 DEF Unregister
<1>6. CASE \E e \in Events : Dispatch(e)
  <2>1. PICK e \in Events : Dispatch(e)
    BY <1>6
  <2>2. start[e] >= 1
    BY <2>1 DEF Dispatch, Aged
  <2>3. Priority(e) \in 0..MaxTime
    BY <2>2, PriorityType
  <2>4. Cardinality(Popped) \in Nat
    BY EventsAssumption, FS_Subset, FS_CardinalityType DEF Popped
  <2>5. rank' \in [Events -> Nat]
    BY <2>1, <2>4 DEF Dispatch
  <2>6. stage' \in [Events -> Stages]
    BY <2>1 DEF Dispatch
  <2>7. flagged' \in SUBSET Events
    BY <2>1 DEF Dispatch
  <2>. QED
    BY <2>1, <2>3, <2>5, <2>6, <2>7 DEF Dispatch
<1>7. CASE \E e \in Events : HandlerReturns(e)
  BY <1>7 DEF HandlerReturns
<1>8. CASE \E e \in Events : HandlerSends(e)
  BY <1>8 DEF HandlerSends
<1>9. CASE \E e \in Events : TraceDone(e)
  BY <1>9 DEF TraceDone
<1>10. CASE Tick
  BY <1>10 DEF Tick
<1>11. CASE Poll \/ UNCHANGED vars
  BY <1>11 DEF Poll, vars
<1>. QED
  BY <1>1, <1>2, <1>3, <1>4, <1>5, <1>6, <1>7, <1>8, <1>9, <1>10, <1>11 DEF Next

LEMMA AgedStep ==
    ASSUME TypeOK, Aged, [Next]_vars
    PROVE  Aged'
<1>. USE DelayAssumption DEF TypeOK, Aged, ArrivedStages, PoppedStages, Popped, Priority
<1>1. CASE \E e \in Events : Begin(e)
  BY <1>1 DEF Begin
<1>2. CASE \E e \in Events : Emit(e)
  BY <1>2 DEF Emit
<1>3. CASE \E e \in Events : Push(e)
  BY <1>3 DEF Push
<1>4. CASE \E t \in Types : Register(t)
  BY <1>4 DEF Register
<1>5. CASE \E t \in Types : Unregister(t)
  BY <1>5 DEF Unregister
<1>6. CASE \E e \in Events : Dispatch(e)
  <2>1. PICK e \in Events : Dispatch(e)
    BY <1>6
  <2>2. Cardinality(Popped) \in Nat
    BY EventsAssumption, FS_Subset, FS_CardinalityType DEF Popped
  <2>. QED
    BY <2>1, <2>2 DEF Dispatch, Ripe
<1>7. CASE \E e \in Events : HandlerReturns(e)
  BY <1>7 DEF HandlerReturns
<1>8. CASE \E e \in Events : HandlerSends(e)
  BY <1>8 DEF HandlerSends
<1>9. CASE \E e \in Events : TraceDone(e)
  BY <1>9 DEF TraceDone
<1>10. CASE Tick
  BY <1>10 DEF Tick
<1>11. CASE Poll \/ UNCHANGED vars
  BY <1>11 DEF Poll, vars
<1>. QED
  BY <1>1, <1>2, <1>3, <1>4, <1>5, <1>6, <1>7, <1>8, <1>9, <1>10, <1>11 DEF Next

\* Everything but Push and Dispatch leaves the order facts alone: they speak of
\* popped events, of the heap and of the times of both, which do not change.
QuietForOrder ==
    /\ UNCHANGED <<arriveAt, rank, previousPriority, flagged>>
    /\ In("queued")' = In("queued")
    /\ \A e \in Events : stage[e] \in ArrivedStages => start'[e] = start[e]

LEMMA OrderQuiet ==
    ASSUME OrderInv, QuietForOrder, TypeOK', Aged'
    PROVE  OrderInv'
<1>1. Popped' = Popped
  BY DEF QuietForOrder, Popped
<1>2. \A e \in Popped : stage[e] \in ArrivedStages
  BY DEF OrderInv, Aged, ArrivedStages, Popped
<1>3. \A e \in In("queued") : stage[e] \in ArrivedStages
  BY DEF In, ArrivedStages
<1>4. \A e \in Popped \cup In("queued") :
        /\ e \in Events
        /\ Priority(e)' = Priority(e)
        /\ Late(e)' = Late(e)
  BY <1>2, <1>3 DEF QuietForOrder, Priority, Late, Popped, In
<1>5. RanksCount'
  BY <1>1 DEF OrderInv, RanksCount, QuietForOrder
<1>6. HeapNeverUndercuts'
  BY <1>1, <1>4 DEF OrderInv, HeapNeverUndercuts, QuietForOrder
<1>7. OrderUnlessLate'
  BY <1>1, <1>4 DEF OrderInv, OrderUnlessLate, QuietForOrder
<1>8. PreviousIsPopped'
  BY <1>1, <1>4 DEF OrderInv, PreviousIsPopped, QuietForOrder
<1>9. FlaggedAreLate' /\ flagged' \subseteq Popped'
  BY <1>1, <1>4 DEF OrderInv, FlaggedAreLate, QuietForOrder
<1>. QED
  BY <1>5, <1>6, <1>7, <1>8, <1>9 DEF OrderInv

\* The heart of the matter: an event that arrives after e was popped, with a
\* smaller priority, is late.
LEMMA OrderPush ==
    ASSUME OrderInv, NEW f \in Events, Push(f), TypeOK', Aged'
    PROVE  OrderInv'
<1>1. CASE Full
  <2>1. QuietForOrder
    BY <1>1 DEF Push, QuietForOrder, In, ArrivedStages, PoppedStages, OrderInv, TypeOK
  <2>. QED
    BY <2>1, OrderQuiet
<1>2. CASE ~Full
  <2>1. /\ stage' = [stage EXCEPT ![f] = "queued"]
        /\ arriveAt' = [arriveAt EXCEPT ![f] = now]
        /\ stage[f] = "perf"
        /\ UNCHANGED <<now, start, rank, previousPriority, flagged>>
    BY <1>2 DEF Push
  <2>2. Popped' = Popped /\ f \notin Popped
    BY <2>1 DEF Popped, OrderInv, Aged, PoppedStages
  <2>3. \A e \in Events : Priority(e)' = Priority(e)
    BY <2>1 DEF Priority
  <2>4. \A e \in Events \ {f} : Late(e)' = Late(e) /\ arriveAt'[e] = arriveAt[e]
    BY <2>1, <2>3 DEF Late, OrderInv, TypeOK
  <2>5. In("queued")' = In("queued") \cup {f}
    BY <2>1 DEF In, OrderInv, TypeOK
  <2>6. ASSUME NEW e \in Popped, Priority(f) < Priority(e) PROVE Late(f)'
    <3>1. arriveAt[e] + Delay <= now /\ Priority(e) <= arriveAt[e]
      BY DEF OrderInv, Aged, Popped, ArrivedStages
    <3>2. arriveAt'[f] = now
      BY <2>1 DEF OrderInv, TypeOK
    <3>3. /\ Priority(e) \in Int /\ Priority(f) \in Int /\ now \in Int
          /\ arriveAt[e] \in Int /\ Delay \in Int
      BY PriorityType, DelayAssumption DEF OrderInv, Popped, Aged
    <3>4. now > Priority(f) + Delay
      BY <2>6, <3>1, <3>3
    <3>. QED
      BY <2>3, <3>2, <3>4 DEF Late
  <2>7. HeapNeverUndercuts'
    <3>. SUFFICES ASSUME NEW e \in Popped, NEW g \in In("queued")',
                         Priority(g)' < Priority(e)'
                  PROVE  Late(g)'
      BY <2>2 DEF HeapNeverUndercuts
    <3>1. e \in Events /\ g \in Events
      BY DEF Popped, In
    <3>2. CASE g = f
      BY <2>3, <2>6, <3>1, <3>2
    <3>3. CASE g # f
      BY <2>3, <2>4, <2>5, <3>1, <3>3 DEF OrderInv, HeapNeverUndercuts
    <3>. QED
      BY <3>2, <3>3
  <2>8. OrderUnlessLate'
    BY <2>1, <2>2, <2>3, <2>4 DEF OrderInv, OrderUnlessLate, Popped
  <2>9. RanksCount'
    BY <2>1, <2>2 DEF OrderInv, RanksCount
  <2>10. PreviousIsPopped'
    BY <2>1, <2>2, <2>3 DEF OrderInv, PreviousIsPopped, Popped
  <2>11. FlaggedAreLate' /\ flagged' \subseteq Popped'
    BY <2>1, <2>2, <2>4 DEF OrderInv, FlaggedAreLate, Popped
  <2>. QED
    BY <2>7, <2>8, <2>9, <2>10, <2>11 DEF OrderInv
<1>. QED
  BY <1>1, <1>2

\* A pop takes the least item, so it undercuts nothing that is still queued.
LEMMA OrderDispatch ==
    ASSUME OrderInv, NEW e \in Events, Dispatch(e), TypeOK', Aged'
    PROVE  OrderInv'
<1>1. /\ stage[e] = "queued"
      /\ rank' = [rank EXCEPT ![e] = Cardinality(Popped) + 1]
      /\ UNCHANGED <<now, start, arriveAt>>
      /\ previousPriority' = Priority(e)
      /\ flagged' = IF OutOfOrder(e) THEN flagged \cup {e} ELSE flagged
  BY DEF Dispatch
<1>2. IsFiniteSet(Popped) /\ Cardinality(Popped) \in Nat
  BY EventsAssumption, FS_Subset, FS_CardinalityType DEF Popped
<1>3. e \notin Popped
  BY <1>1 DEF Popped, OrderInv, Aged, PoppedStages
<1>4. Popped' = Popped \cup {e}
  BY <1>1, <1>2 DEF Popped, OrderInv, TypeOK
<1>5. Cardinality(Popped') = Cardinality(Popped) + 1
  BY <1>2, <1>3, <1>4, FS_AddElement
<1>6. \A f \in Events : Priority(f)' = Priority(f) /\ Late(f)' = Late(f)
  BY <1>1 DEF Priority, Late
<1>7. /\ \A f \in Popped : rank'[f] = rank[f] /\ rank[f] <= Cardinality(Popped)
      /\ rank'[e] = Cardinality(Popped) + 1
  BY <1>1, <1>3 DEF OrderInv, TypeOK, RanksCount, Popped
<1>8. In("queued")' \subseteq In("queued") \ {e}
  BY <1>1 DEF Dispatch, In, OrderInv, TypeOK
<1>9. \A f \in Popped : rank[f] \in Nat
  BY DEF OrderInv, TypeOK, Popped
<1>10. RanksCount'
  BY <1>2, <1>4, <1>5, <1>7, <1>9 DEF RanksCount
<1>11. HeapNeverUndercuts'
  <2>. SUFFICES ASSUME NEW d \in Popped \cup {e}, NEW g \in In("queued"), g # e,
                       Priority(g) < Priority(d)
                PROVE  Late(g)
    BY <1>3, <1>4, <1>6, <1>8 DEF HeapNeverUndercuts, In, Popped
  <2>1. CASE d = e
    <3>1. Priority(e) <= Priority(g)
      BY DEF Dispatch, Least
    <3>2. Priority(e) \in Int /\ Priority(g) \in Int
      BY PriorityType DEF OrderInv, In
    <3>. QED
      BY <2>1, <3>1, <3>2
  <2>2. CASE d # e
    BY <2>2 DEF OrderInv, HeapNeverUndercuts
  <2>. QED
    BY <2>1, <2>2
<1>12. OrderUnlessLate'
  <2>. SUFFICES ASSUME NEW d \in Popped \cup {e}, NEW g \in Popped \cup {e},
                       rank'[d] < rank'[g], Priority(g) < Priority(d)
                PROVE  Late(g)
    BY <1>4, <1>6 DEF OrderUnlessLate, Popped
  <2>1. CASE g = e
    <3>1. d \in Popped
      BY <1>2, <1>7, <2>1
    <3>2. e \in In("queued")
      BY <1>1 DEF In
    <3>. QED
      BY <2>1, <3>1, <3>2 DEF OrderInv, HeapNeverUndercuts
  <2>2. CASE g # e
    <3>1. d # e
      BY <1>2, <1>7, <1>9, <2>2
    <3>. QED
      BY <1>7, <2>2, <3>1 DEF OrderInv, OrderUnlessLate
  <2>. QED
    BY <2>1, <2>2
<1>13. PreviousIsPopped'
  BY <1>1, <1>4, <1>6 DEF PreviousIsPopped
<1>14. flagged' \subseteq Popped'
  BY <1>1, <1>4 DEF OrderInv
<1>15. FlaggedAreLate'
  <2>1. OutOfOrder(e) => Late(e)
    <3>. SUFFICES ASSUME Priority(e) < previousPriority PROVE Late(e)
      BY DEF OutOfOrder
    <3>1. e \in In("queued")
      BY <1>1 DEF In
    <3>2. Priority(e) \in 0..MaxTime
      BY <1>1, PriorityType DEF OrderInv, Aged
    <3>3. previousPriority # 0
      BY <3>2, MaxTimeType
    <3>4. PICK d \in Popped : previousPriority = Priority(d)
      BY <3>3 DEF OrderInv, PreviousIsPopped
    <3>. QED
      BY <3>1, <3>4 DEF OrderInv, HeapNeverUndercuts
  <2>2. \A f \in flagged : Late(f)
    BY DEF OrderInv, FlaggedAreLate
  <2>3. flagged \subseteq Events
    BY DEF OrderInv, TypeOK
  <2>. QED
    BY <1>1, <1>6, <2>1, <2>2, <2>3 DEF FlaggedAreLate
<1>. QED
  BY <1>10, <1>11, <1>12, <1>13, <1>14, <1>15 DEF OrderInv

LEMMA OrderStep ==
    ASSUME OrderInv, [Next]_vars
    PROVE  OrderInv'
<1>1. TypeOK' /\ Aged'
  BY TypeStep, AgedStep DEF OrderInv
<1>2. CASE \E e \in Events : Push(e)
  BY <1>1, <1>2, OrderPush
<1>3. CASE \E e \in Events : Dispatch(e)
  BY <1>1, <1>3, OrderDispatch
<1>. USE DEF QuietForOrder, In, ArrivedStages, PoppedStages
<1>4. TypeOK
  BY DEF OrderInv
<1>5. CASE \E e \in Events : Begin(e)
  <2>1. QuietForOrder
    BY <1>4, <1>5 DEF Begin, TypeOK
  <2>. QED
    BY <1>1, <2>1, OrderQuiet
<1>6. CASE \E e \in Events : Emit(e)
  <2>1. QuietForOrder
    BY <1>4, <1>6 DEF Emit, TypeOK
  <2>. QED
    BY <1>1, <2>1, OrderQuiet
<1>7. CASE (\E t \in Types : Register(t) \/ Unregister(t)) \/ Poll \/ Tick \/ UNCHANGED vars
  <2>1. QuietForOrder
    BY <1>7 DEF Register, Unregister, Poll, Tick, vars
  <2>. QED
    BY <1>1, <2>1, OrderQuiet
<1>8. CASE \E e \in Events : HandlerReturns(e) \/ HandlerSends(e) \/ TraceDone(e)
  <2>1. QuietForOrder
    BY <1>4, <1>8 DEF HandlerReturns, HandlerSends, TraceDone, TypeOK
  <2>. QED
    BY <1>1, <2>1, OrderQuiet
<1>. QED
  BY <1>2, <1>3, <1>5, <1>6, <1>7, <1>8 DEF Next

LEMMA OrderInit == Init => OrderInv
BY HorizonAssumption, DelayAssumption
DEF Init, OrderInv, TypeOK, Aged, RanksCount, HeapNeverUndercuts, OrderUnlessLate,
    PreviousIsPopped, FlaggedAreLate, Popped, In, Stages, MaxTime, ArrivedStages,
    PoppedStages

LEMMA OrderInvariant == Spec => []OrderInv
BY OrderInit, OrderStep, PTL DEF Spec

-------------------------------------------------------------------------------

\* Type correctness of every variable, for all parameters: in particular a
\* priority never wraps below zero, although placeholders use StartTime-1.
THEOREM TypeCorrect == Spec => []TypeOK
BY OrderInvariant, PTL DEF OrderInv

\* Handlers see events by priority, except those that reached the heap more
\* than Delay late.
THEOREM OrderCorrect == Spec => []OrderUnlessLate
BY OrderInvariant, PTL DEF OrderInv

\* The heap never holds an item that undercuts one already handled, unless late.
THEOREM HeapCorrect == Spec => []HeapNeverUndercuts
BY OrderInvariant, PTL DEF OrderInv

\* The queue's own order check blames late events only.
THEOREM FlagCorrect == Spec => []FlaggedAreLate
BY OrderInvariant, PTL DEF OrderInv

-------------------------------------------------------------------------------

\* Push keeps the heap within QUEUE_MAX_SIZE for every limit and every set of
\* events: the limit is tested before the item is added, under the same lock.
THEOREM BoundCorrect == Spec => []QueueBounded
<1>1. Init => QueueBounded
  <2>1. Init => In("queued") = {}
    BY DEF Init, In
  <2>. QED
    BY <2>1, FS_EmptySet, MaxSizeAssumption DEF QueueBounded
<1>2. ASSUME TypeOK, QueueBounded, [Next]_vars PROVE QueueBounded'
  <2>. SUFFICES ASSUME MaxSize > 0 PROVE Cardinality(In("queued")') <= MaxSize
    BY <1>2 DEF QueueBounded
  <2>1. IsFiniteSet(In("queued")) /\ Cardinality(In("queued")) \in Nat
    BY EventsAssumption, FS_Subset, FS_CardinalityType DEF In
  <2>2. Cardinality(In("queued")) <= MaxSize
    BY <1>2 DEF QueueBounded
  <2>3. CASE \E e \in Events : Push(e) /\ ~Full
    <3>1. PICK e \in Events : Push(e) /\ ~Full
      BY <2>3
    <3>2. In("queued")' = In("queued") \cup {e}
      <4>1. stage' = [stage EXCEPT ![e] = "queued"]
        BY <3>1 DEF Push
      <4>. QED
        BY <1>2, <4>1 DEF In, TypeOK
    <3>3. Cardinality(In("queued")) < MaxSize
      BY <2>1, <3>1, MaxSizeAssumption DEF Full
    <3>4. Cardinality(In("queued")') <= Cardinality(In("queued")) + 1
      BY <2>1, <3>2, FS_AddElement
    <3>5. Cardinality(In("queued")') \in Nat
      BY <2>1, <3>2, FS_AddElement, FS_CardinalityType
    <3>. QED
      BY <2>1, <3>3, <3>4, <3>5, MaxSizeAssumption
  <2>4. CASE ~ \E e \in Events : Push(e) /\ ~Full
    <3>1. In("queued")' \subseteq In("queued")
      <4>. USE DEF In, TypeOK
      <4>1. CASE \E e \in Events : Begin(e) \/ Emit(e) \/ Push(e)
        BY <1>2, <2>4, <4>1 DEF Begin, Emit, Push
      <4>2. CASE \E e \in Events : Dispatch(e)
        BY <1>2, <4>2 DEF Dispatch
      <4>3. CASE \E e \in Events : HandlerReturns(e) \/ HandlerSends(e) \/ TraceDone(e)
        BY <1>2, <4>3 DEF HandlerReturns, HandlerSends, TraceDone
      <4>4. CASE (\E t \in Types : Register(t) \/ Unregister(t)) \/ Poll \/ Tick \/ UNCHANGED vars
        BY <1>2, <4>4 DEF Register, Unregister, Poll, Tick, vars
      <4>. QED
        BY <1>2, <4>1, <4>2, <4>3, <4>4 DEF Next
    <3>2. Cardinality(In("queued")') <= Cardinality(In("queued"))
      BY <2>1, <3>1, FS_Subset
    <3>3. Cardinality(In("queued")') \in Nat
      BY <2>1, <3>1, FS_Subset, FS_CardinalityType
    <3>. QED
      BY <2>1, <2>2, <3>2, <3>3, MaxSizeAssumption
  <2>. QED
    BY <2>3, <2>4
<1>. QED
  BY <1>1, <1>2, TypeCorrect, PTL DEF Spec

-------------------------------------------------------------------------------
(* The queue implements OrderedRelay.                                      *)

\* arriveAt is unset until the event is in the heap.
Unarrived == \A e \in Events : stage[e] \notin ArrivedStages => arriveAt[e] = 0

LEMMA UnarrivedStep ==
    ASSUME TypeOK, Unarrived, [Next]_vars
    PROVE  Unarrived'
<1>1. CASE \E e \in Events : Begin(e) \/ Emit(e) \/ HandlerReturns(e) \/ HandlerSends(e)
                            \/ TraceDone(e)
  BY <1>1 DEF Unarrived, ArrivedStages, PoppedStages, TypeOK, Begin, Emit,
     HandlerReturns, HandlerSends, TraceDone
<1>2. CASE \E e \in Events : Push(e)
  BY <1>2 DEF Unarrived, ArrivedStages, PoppedStages, TypeOK, Push
<1>3. CASE \E e \in Events : Dispatch(e)
  BY <1>3 DEF Unarrived, ArrivedStages, PoppedStages, TypeOK, Dispatch
<1>4. CASE UNCHANGED <<stage, arriveAt>>
  BY <1>4 DEF Unarrived
<1>. QED
  BY <1>1, <1>2, <1>3, <1>4 DEF Next, vars, Register, Unregister, Poll, Tick

LEMMA RelayInit == Init => Relay!Init
BY DEF Init, Relay!Init, Relay!Unstamped, stampBar, Popped, Overdue

\* Begin gives an event its stamp, Push may miss its deadline, Dispatch hands it
\* over, all else stutters.
LEMMA RelayStep ==
    ASSUME OrderInv, Unarrived, [Next]_vars
    PROVE  [Relay!Next]_(Relay!relayVars)
<1>1. TypeOK /\ TypeOK' /\ Aged /\ Aged'
  BY OrderStep DEF OrderInv
<1>2. CASE \E e \in Events : Begin(e)
  <2>1. PICK e \in Events : Begin(e)
    BY <1>2
  <2>2. stampBar[e] = -1
    BY <2>1 DEF Begin, stampBar
  <2>3. start'[e] >= 1 /\ stage'[e] = "open"
    BY <1>1, <2>1 DEF Begin, Aged, TypeOK
  <2>4. Priority(e)' \in 0..MaxTime
    BY <1>1, <2>3, MaxTimeType DEF TypeOK, Priority
  <2>5. stampBar' = [stampBar EXCEPT ![e] = Priority(e)']
    BY <1>1, <2>1, <2>3 DEF stampBar, Begin, TypeOK, Priority
  <2>6. Popped' = Popped
    BY <2>1 DEF Begin, Popped
  <2>7. ~Late(e)'
    <3>1. arriveAt'[e] = 0
      BY <2>1 DEF Unarrived, Begin, ArrivedStages, PoppedStages
    <3>. QED
      BY <2>4, <3>1, DelayAssumption, MaxTimeType DEF Late
  <2>8. Overdue' = Overdue
    BY <1>1, <2>1, <2>7 DEF Overdue, Late, Priority, Begin, TypeOK
  <2>9. Relay!GetStamp(e)
    BY <2>2, <2>4, <2>5, <2>6, <2>8 DEF Relay!GetStamp, Relay!Unstamped
  <2>. QED
    BY <2>9 DEF Relay!Next
<1>3. CASE \E e \in Events : Push(e)
  <2>1. PICK e \in Events : Push(e)
    BY <1>3
  <2>2. stage[e] = "perf" /\ e \notin Popped
    BY <1>1, <2>1 DEF Push, Popped, Aged, PoppedStages
  <2>3. stampBar' = stampBar /\ stampBar[e] = Priority(e)
    BY <1>1, <2>1, <2>2 DEF Push, stampBar, Priority, TypeOK
  <2>4. Popped' = Popped
    BY <2>1 DEF Push, Popped
  <2>5. Priority(e) \in 0..MaxTime
    BY <1>1, <2>2, PriorityType DEF Aged
  <2>6. e \notin Overdue
    BY <2>2, <2>5, DelayAssumption, MaxTimeType
       DEF Overdue, Late, Unarrived, ArrivedStages, PoppedStages
  <2>7. \A f \in Events \ {e} : f \in Overdue' <=> f \in Overdue
    BY <1>1, <2>1 DEF Overdue, Late, Priority, Push, TypeOK
  <2>8. Overdue' = Overdue \/ Overdue' = Overdue \cup {e}
    BY <2>6, <2>7 DEF Overdue
  <2>9. Relay!MissDeadline(e) \/ UNCHANGED Relay!relayVars
    BY <2>2, <2>3, <2>4, <2>5, <2>8, MaxTimeType
       DEF Relay!MissDeadline, Relay!Unstamped, Relay!relayVars
  <2>. QED
    BY <2>9 DEF Relay!Next
<1>4. CASE \E e \in Events : Dispatch(e)
  <2>1. PICK e \in Events : Dispatch(e)
    BY <1>4
  <2>2. stage[e] = "queued" /\ e \notin Popped
    BY <1>1, <2>1 DEF Dispatch, Popped, Aged, PoppedStages
  <2>3. Popped' = Popped \cup {e}
    <3>1. Cardinality(Popped) \in Nat
      BY EventsAssumption, FS_Subset, FS_CardinalityType DEF Popped
    <3>. QED
      BY <1>1, <2>1, <3>1 DEF Dispatch, Popped, TypeOK
  <2>4. stampBar' = stampBar /\ stampBar[e] = Priority(e) /\ Overdue' = Overdue
    BY <1>1, <2>1, <2>2 DEF Dispatch, stampBar, Overdue, Late, Priority, TypeOK
  <2>5. Priority(e) \in 0..MaxTime
    BY <1>1, <2>2, PriorityType DEF Aged
  <2>6. e \in Overdue \/ \A d \in Popped : stampBar[d] <= stampBar[e]
    <3>1. SUFFICES ASSUME ~Late(e), NEW d \in Popped
                   PROVE  stampBar[d] <= stampBar[e]
      BY <2>2 DEF Overdue, Popped
    <3>2. stage[d] \in PoppedStages /\ stampBar[d] = Priority(d)
      BY <1>1, <3>1 DEF Aged, Popped, PoppedStages, stampBar
    <3>3. Priority(d) \in Int
      BY <1>1, PriorityType DEF Popped
    <3>4. ~(Priority(e) < Priority(d))
      BY <2>2, <3>1 DEF OrderInv, HeapNeverUndercuts, In
    <3>. QED
      BY <2>4, <2>5, <3>2, <3>3, <3>4, MaxTimeType
  <2>7. stampBar[e] # -1
    BY <2>4, <2>5, MaxTimeType
  <2>8. Relay!HandOver(e)
    BY <2>2, <2>3, <2>4, <2>6, <2>7 DEF Relay!HandOver, Relay!Unstamped
  <2>. QED
    BY <2>8 DEF Relay!Next
<1>5. CASE ~(\E e \in Events : Begin(e) \/ Push(e) \/ Dispatch(e))
  <2>1. stampBar' = stampBar /\ Overdue' = Overdue
    BY <1>1, <1>5 DEF stampBar, Overdue, Late, Priority, TypeOK, Next, vars, Emit,
       Register, Unregister, Poll, HandlerReturns, HandlerSends, TraceDone, Tick
  <2>2. Popped' = Popped
    BY <1>5 DEF Popped, Next, vars, Emit, Register, Unregister, Poll,
       HandlerReturns, HandlerSends, TraceDone, Tick
  <2>. QED
    BY <2>1, <2>2 DEF Relay!relayVars
<1>. QED
  BY <1>2, <1>3, <1>4, <1>5

\* Whatever is lost, dropped or late, the queue is a relay that hands an event
\* over after one of a greater stamp only if it was pushed late.
THEOREM RelayCorrect == Spec => RelaySpec
<1>1. Init => Unarrived
  BY DEF Init, Unarrived
<1>2. OrderInv /\ Unarrived /\ [Next]_vars => Unarrived'
  BY UnarrivedStep DEF OrderInv
<1>3. OrderInv /\ Unarrived /\ [Next]_vars => [Relay!Next]_(Relay!relayVars)
  BY RelayStep
<1>. QED
  BY RelayInit, OrderInvariant, <1>1, <1>2, <1>3, PTL DEF Spec, RelaySpec, Relay!Spec

-------------------------------------------------------------------------------
(* Why an item of the heap is popped in the end: whatever the state, a fair *)
(* action is open that is not a return to the same state, and steps only    *)
(* take events forward, so only so many of them come before the item.       *)

\* What an event has still to go through, from the start of its call.
StagesLeft(e) ==
    CASE stage[e] = "idle" -> 6
      [] stage[e] = "open" -> 5
      [] stage[e] = "perf" -> 4
      [] stage[e] = "queued" -> 3
      [] stage[e] = "handling" -> 2
      [] stage[e] = "tracing" -> 1
      [] OTHER -> 0

\* What was pushed will be Delay old before the clock stops.
RipensInTime == \A e \in In("queued") : arriveAt[e] <= Horizon

\* The runner is in one handler at most, the manager in one Trace at most.
OneAtATime == \A s \in {"handling", "tracing"} : \A e, f \in In(s) : e = f

\* While an item waits, time can pass, or a handler holds the mutex (and may
\* return, or send if the manager is not in Trace), or the runner finds a ripe head.
NeverStuck ==
    In("queued") # {} =>
        \/ now < MaxTime
        \/ In("handling") # {}
        \/ MuFree /\ \E e \in In("queued") : Least(e) /\ Ripe(e)

\* A step leaves the events where they are or takes one of them, and no other,
\* forward; and an item keeps its place in the order as long as it waits.
MovesForward ==
    /\ now <= now'
    /\ stage' # stage =>
          \E e \in Events :
              /\ StagesLeft(e)' < StagesLeft(e)
              /\ \A f \in Events \ {e} : stage'[f] = stage[f]
    /\ \A e \in In("queued") : e \in In("queued")' =>
          arriveAt'[e] = arriveAt[e] /\ Priority(e)' = Priority(e)

\* Finitely many events have a least priority among them: otherwise a smallest
\* set of them that has none, less one of its elements, has one.
LEMMA LeastExists ==
    ASSUME TypeOK, NEW S \in SUBSET Events, S # {}
    PROVE  \E e \in S : \A f \in S : Priority(e) <= Priority(f)
<1>. DEFINE Headless == {T \in SUBSET S : T # {} /\ ~ \E e \in T : \A f \in T : Priority(e) <= Priority(f)}
<1>. SUFFICES ASSUME Headless # {} PROVE FALSE
  <2>1. S \notin Headless => \E e \in S : \A f \in S : Priority(e) <= Priority(f)
    OBVIOUS
  <2>. QED
    BY <2>1
<1>1. \A e \in S : Priority(e) \in Int
  BY PriorityType
<1>2. Headless \subseteq FiniteSubsetsOf(S)
  <2>1. IsFiniteSet(S)
    BY EventsAssumption, FS_Subset
  <2>2. ASSUME NEW T \in Headless PROVE T \in SUBSET S /\ IsFiniteSet(T)
    BY <2>1, <2>2, FS_Subset
  <2>. QED
    BY <2>2 DEF FiniteSubsetsOf
<1>3. PICK T \in Headless : \A U \in Headless : <<U, T>> \notin StrictSubsetOrdering(S)
  <2>1. IsFiniteSet(S)
    BY EventsAssumption, FS_Subset
  <2>. HIDE DEF Headless
  <2>. QED
    BY <1>2, <2>1, FS_StrictSubsetOrderingWellFounded, WFMin
<1>4. PICK x \in T : TRUE
  OBVIOUS
<1>. DEFINE U == T \ {x}
<1>5. U \notin Headless
  BY <1>3, <1>4 DEF StrictSubsetOrdering
<1>6. CASE U = {}
  <2>1. T = {x} /\ Priority(x) <= Priority(x)
    BY <1>1, <1>4, <1>6
  <2>. QED
    BY <1>4, <2>1
<1>7. CASE U # {}
  <2>1. PICK m \in U : \A f \in U : Priority(m) <= Priority(f)
    BY <1>5, <1>7
  <2>2. CASE Priority(m) <= Priority(x)
    <3>1. \A f \in T : Priority(m) <= Priority(f)
      BY <2>1, <2>2
    <3>. QED
      BY <2>1, <3>1
  <2>3. CASE ~(Priority(m) <= Priority(x))
    <3>1. \A f \in U : Priority(x) <= Priority(f)
      BY <1>1, <1>4, <2>1, <2>3
    <3>2. \A f \in T : Priority(x) <= Priority(f)
      BY <1>1, <1>4, <3>1
    <3>. QED
      BY <1>4, <3>2
  <2>. QED
    BY <2>2, <2>3
<1>. QED
  BY <1>6, <1>7

\* When the clock has stopped every item of the heap is ripe, its head too.
LEMMA NotStuck ==
    ASSUME TypeOK, RipensInTime
    PROVE  NeverStuck
<1>. SUFFICES ASSUME In("queued") # {}, ~(now < MaxTime), In("handling") = {}
              PROVE  MuFree /\ \E e \in In("queued") : Least(e) /\ Ripe(e)
  BY DEF NeverStuck
<1>1. PICK e \in In("queued") : \A f \in In("queued") : Priority(e) <= Priority(f)
  BY LeastExists DEF In
<1>2. now = Horizon + Delay
  BY MaxTimeType DEF TypeOK, MaxTime
<1>3. arriveAt[e] \in Int /\ arriveAt[e] <= Horizon
  BY <1>1, PriorityType DEF RipensInTime, In
<1>4. Ripe(e)
  BY <1>2, <1>3, HorizonAssumption, DelayAssumption DEF Ripe
<1>. QED
  BY <1>1, <1>4 DEF MuFree, Least

LEMMA OneAtATimeStep ==
    ASSUME TypeOK, RipensInTime, OneAtATime, [Next]_vars
    PROVE  RipensInTime' /\ OneAtATime'
<1>. USE DEF RipensInTime, OneAtATime, In, TypeOK
<1>1. CASE \E e \in Events : Begin(e) \/ Emit(e)
  BY <1>1 DEF Begin, Emit
<1>2. CASE \E e \in Events : Push(e)
  BY <1>2, HorizonAssumption DEF Push
<1>3. CASE \E e \in Events : Dispatch(e)
  BY <1>3 DEF Dispatch, MuFree
<1>4. CASE \E e \in Events : HandlerReturns(e)
  BY <1>4 DEF HandlerReturns
<1>5. CASE \E e \in Events : HandlerSends(e)
  BY <1>5 DEF HandlerSends
<1>6. CASE \E e \in Events : TraceDone(e)
  BY <1>6 DEF TraceDone
<1>7. CASE (\E t \in Types : Register(t) \/ Unregister(t)) \/ Poll \/ Tick \/ UNCHANGED vars
  BY <1>7 DEF Register, Unregister, Poll, Tick, vars
<1>. QED
  BY <1>1, <1>2, <1>3, <1>4, <1>5, <1>6, <1>7 DEF Next

\* An event that leaves its stage goes to a later one.
LEMMA StageAdvances ==
    ASSUME TypeOK, NEW e \in Events,
           \/ Begin(e) \/ Emit(e) \/ Push(e) \/ Dispatch(e)
           \/ HandlerReturns(e) \/ HandlerSends(e) \/ TraceDone(e)
    PROVE  /\ StagesLeft(e)' < StagesLeft(e)
           /\ \A f \in Events \ {e} : stage'[f] = stage[f]
<1>. USE DEF StagesLeft, TypeOK
<1>1. CASE Begin(e)
  BY <1>1 DEF Begin
<1>2. CASE Emit(e)
  BY <1>2 DEF Emit
<1>3. CASE Push(e)
  BY <1>3 DEF Push
<1>4. CASE Dispatch(e)
  BY <1>4 DEF Dispatch
<1>5. CASE HandlerReturns(e)
  BY <1>5 DEF HandlerReturns
<1>6. CASE HandlerSends(e)
  BY <1>6 DEF HandlerSends
<1>7. CASE TraceDone(e)
  BY <1>7 DEF TraceDone
<1>. QED
  BY <1>1, <1>2, <1>3, <1>4, <1>5, <1>6, <1>7

LEMMA ForwardStep ==
    ASSUME TypeOK, Next
    PROVE  MovesForward
<1>1. now <= now'
  BY DEF TypeOK, Next, Begin, Emit, Push, Register, Unregister, Poll, Dispatch,
     HandlerReturns, HandlerSends, TraceDone, Tick, vars
<1>2. ASSUME NEW e \in In("queued"), e \in In("queued")'
      PROVE  arriveAt'[e] = arriveAt[e] /\ Priority(e)' = Priority(e)
  <2>1. start'[e] = start[e]
    BY <1>2 DEF TypeOK, In, Next, Begin, Emit, Push, Register, Unregister, Poll, Dispatch,
       HandlerReturns, HandlerSends, TraceDone, Tick, vars
  <2>2. arriveAt'[e] = arriveAt[e]
    BY <1>2 DEF TypeOK, In, Next, Begin, Emit, Push, Register, Unregister, Poll, Dispatch,
       HandlerReturns, HandlerSends, TraceDone, Tick, vars
  <2>. QED
    BY <2>1, <2>2 DEF Priority
<1>3. ASSUME stage' # stage
      PROVE  \E e \in Events :
                 /\ StagesLeft(e)' < StagesLeft(e)
                 /\ \A f \in Events \ {e} : stage'[f] = stage[f]
  <2>1. PICK e \in Events : \/ Begin(e) \/ Emit(e) \/ Push(e) \/ Dispatch(e)
                            \/ HandlerReturns(e) \/ HandlerSends(e) \/ TraceDone(e)
    BY <1>3 DEF Next, Register, Unregister, Poll, Tick, vars
  <2>. QED
    BY <2>1, StageAdvances
<1>. QED
  BY <1>1, <1>2, <1>3 DEF MovesForward

\* The safety half of QueuedIsPopped, for every set of events and every delay:
\* the runner, the handlers and the manager never wait for each other in a circle
\* while an item waits, and what they do before it is popped comes to an end.
THEOREM PopCorrect == Spec => [](NeverStuck /\ OneAtATime) /\ [][MovesForward]_vars
<1>1. Init => RipensInTime /\ OneAtATime
  BY DEF Init, RipensInTime, OneAtATime, In
<1>2. TypeOK /\ RipensInTime /\ OneAtATime /\ [Next]_vars => RipensInTime' /\ OneAtATime'
  BY OneAtATimeStep
<1>3. TypeOK /\ RipensInTime => NeverStuck
  BY NotStuck
<1>4. TypeOK /\ [Next]_vars => [MovesForward]_vars
  BY ForwardStep
<1>. QED
  BY <1>1, <1>2, <1>3, <1>4, TypeCorrect, PTL DEF Spec
===============================================================================
