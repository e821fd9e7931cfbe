------------------------- MODULE SpanRegistry_proofs -------------------------
(***************************************************************************)
(* The goroutine tree of the registry names real parents, the spans it     *)
(* makes for goroutines hang below spans of their ancestors, and every     *)
(* span lies in the trace of its parent and after its start, for any       *)
(* number of goroutines, go statements, spans and retries, with or without *)
(* losses and expiry.  The parent table is filled from the pc table, so    *)
(* the pc table has to be right first; a goroutine's creator and gopc      *)
(* never change, so what was right stays right.  And a walk up the tree    *)
(* meets no goroutine twice.                                               *)
(***************************************************************************)
EXTENDS SpanRegistry, TLAPS

\* Some goroutine made at pc was made by g.
RanGoStatement(g, pc) == \E h \in Goroutines : creator[h] = g /\ pcOf[h] = pc

\* An uncreated goroutine has no gopc, so Spawn overwrites nothing that a
\* witness of RanGoStatement needs.
TreeInv ==
    /\ TreeTypeOK
    /\ \A pc \in PCs : goPc2PGoId[pc] # NoGoid => RanGoStatement(goPc2PGoId[pc], pc)
    /\ \A g \in Goroutines : goId2PGoId[g] # NoGoid => RanGoStatement(goId2PGoId[g], pcOf[g])
    /\ \A g \in Goroutines : pcOf[g] # NoPc => Created(g)
    /\ \A g \in Goroutines : goId2PGoId[g] # NoGoid => Created(g)

LEMMA TreeInit == Init => TreeInv
BY GoroutinesAssumption DEF Init, TreeInv, TreeTypeOK

\* The steps of the target's calls and of the handlers leave the tree alone.
LEMMA TreeQuiet ==
    ASSUME TreeInv, UNCHANGED <<creator, pcOf, goPc2PGoId, goId2PGoId>>
    PROVE  TreeInv'
BY DEF TreeInv, TreeTypeOK, RanGoStatement, Created

LEMMA TreeSpawn ==
    ASSUME TreeInv, NEW g \in Goroutines, NEW h \in Goroutines, NEW pc \in PCs,
           Spawn(g, h, pc)
    PROVE  TreeInv'
<1>1. /\ creator' = [creator EXCEPT ![h] = g]
      /\ pcOf' = [pcOf EXCEPT ![h] = pc]
      /\ goPc2PGoId' = [goPc2PGoId EXCEPT ![pc] = g] \/ goPc2PGoId' = goPc2PGoId
      /\ goId2PGoId' = goId2PGoId
      /\ ~Created(h)
  BY DEF Spawn, Recorded
<1>2. TreeTypeOK'
  BY <1>1 DEF TreeInv, TreeTypeOK
<1>3. \A k \in Goroutines \ {h} : creator'[k] = creator[k] /\ pcOf'[k] = pcOf[k]
  BY <1>1 DEF TreeInv, TreeTypeOK
<1>4. creator'[h] = g /\ pcOf'[h] = pc
  BY <1>1 DEF TreeInv, TreeTypeOK
<1>5. ASSUME NEW p \in Goroutines, NEW q, RanGoStatement(p, q)
      PROVE  \E k \in Goroutines : creator'[k] = p /\ pcOf'[k] = q
  <2>1. PICK k \in Goroutines : creator[k] = p /\ pcOf[k] = q
    BY <1>5 DEF RanGoStatement
  <2>2. k # h
    BY <1>1, <2>1, GoroutinesAssumption DEF Created
  <2>. QED
    BY <1>3, <2>1, <2>2
<1>6. ASSUME NEW q \in PCs, goPc2PGoId'[q] # NoGoid
      PROVE  \E k \in Goroutines : creator'[k] = goPc2PGoId'[q] /\ pcOf'[k] = q
  <2>1. CASE goPc2PGoId'[q] = goPc2PGoId[q]
    <3>1. goPc2PGoId[q] \in Goroutines /\ RanGoStatement(goPc2PGoId[q], q)
      BY <1>6, <2>1 DEF TreeInv, TreeTypeOK
    <3>. QED
      BY <1>5, <2>1, <3>1
  <2>2. CASE goPc2PGoId'[q] # goPc2PGoId[q]
    <3>1. q = pc /\ goPc2PGoId'[q] = g
      BY <1>1, <2>2 DEF TreeInv, TreeTypeOK
    <3>. QED
      BY <1>4, <3>1
  <2>. QED
    BY <2>1, <2>2
<1>7. ASSUME NEW k \in Goroutines, goId2PGoId'[k] # NoGoid
      PROVE  \E j \in Goroutines : creator'[j] = goId2PGoId'[k] /\ pcOf'[j] = pcOf'[k]
  <2>1. goId2PGoId'[k] = goId2PGoId[k] /\ goId2PGoId[k] \in Goroutines
    BY <1>1, <1>7 DEF TreeInv, TreeTypeOK
  <2>2. RanGoStatement(goId2PGoId[k], pcOf[k])
    BY <1>7, <2>1 DEF TreeInv
  <2>3. k # h
    BY <1>1, <1>7 DEF TreeInv
  <2>. QED
    BY <1>3, <1>5, <2>1, <2>2, <2>3
<1>8. ASSUME NEW k \in Goroutines, pcOf'[k] # NoPc
      PROVE  k = Main \/ creator'[k] # NoGoid
  BY <1>3, <1>4, <1>8, GoroutinesAssumption DEF TreeInv, Created
<1>9. \A k \in Goroutines : goId2PGoId'[k] # NoGoid => Created(k)'
  BY <1>1, <1>3, <1>4, GoroutinesAssumption DEF TreeInv, Created
<1>. QED
  BY <1>2, <1>6, <1>7, <1>8, <1>9 DEF TreeInv, RanGoStatement, Created

LEMMA TreeSchedule ==
    ASSUME TreeInv, NEW g \in Goroutines, Schedule(g)
    PROVE  TreeInv'
<1>1. /\ UNCHANGED <<creator, pcOf, goPc2PGoId>>
      /\ \/ goId2PGoId' = goId2PGoId
         \/ /\ goPc2PGoId[pcOf[g]] # NoGoid
            /\ goId2PGoId' = [goId2PGoId EXCEPT ![g] = goPc2PGoId[pcOf[g]]]
      /\ Created(g)
      /\ pcOf[g] \in PCs
  BY DEF Schedule, Learned, TreeInv, TreeTypeOK
<1>2. CASE goId2PGoId' = goId2PGoId
  BY <1>1, <1>2, TreeQuiet
<1>3. CASE /\ goPc2PGoId[pcOf[g]] # NoGoid
           /\ goId2PGoId' = [goId2PGoId EXCEPT ![g] = goPc2PGoId[pcOf[g]]]
  <2>1. RanGoStatement(goPc2PGoId[pcOf[g]], pcOf[g])
    BY <1>1, <1>3 DEF TreeInv
  <2>2. TreeTypeOK'
    BY <1>1, <1>3 DEF TreeInv, TreeTypeOK
  <2>3. \A k \in Goroutines : \/ goId2PGoId'[k] = goId2PGoId[k]
                             \/ (k = g /\ goId2PGoId'[k] = goPc2PGoId[pcOf[g]])
    BY <1>3 DEF TreeInv, TreeTypeOK
  <2>. QED
    BY <1>1, <2>1, <2>2, <2>3 DEF TreeInv, RanGoStatement, Created
<1>. QED
  BY <1>1, <1>2, <1>3

\* Whatever expires, what is left in the tables was right before.
LEMMA TreeExpires ==
    ASSUME TreeInv,
           \/ \E pc \in PCs : ExpirePc(pc)
           \/ \E g \in Goroutines : ExpireParent(g)
    PROVE  TreeInv'
<1>1. /\ UNCHANGED <<creator, pcOf>>
      /\ \A pc \in PCs : goPc2PGoId'[pc] \in {goPc2PGoId[pc], NoGoid}
      /\ \A g \in Goroutines : goId2PGoId'[g] \in {goId2PGoId[g], NoGoid}
      /\ goPc2PGoId' \in [PCs -> Goroutines \cup {NoGoid}]
      /\ goId2PGoId' \in [Goroutines -> Goroutines \cup {NoGoid}]
  BY DEF ExpirePc, ExpireParent, TreeInv, TreeTypeOK, target
<1>. QED
  BY <1>1 DEF TreeInv, TreeTypeOK, RanGoStatement, Created

LEMMA TreeStep == TreeInv /\ [Next]_vars => TreeInv'
<1>. SUFFICES ASSUME TreeInv, [Next]_vars PROVE TreeInv'
  OBVIOUS
<1>1. ASSUME NEW g \in Goroutines, NEW h \in Goroutines, NEW pc \in PCs, Spawn(g, h, pc)
      PROVE  TreeInv'
  BY <1>1, TreeSpawn
<1>2. ASSUME NEW g \in Goroutines, Schedule(g) PROVE TreeInv'
  BY <1>2, TreeSchedule
<1>3. ASSUME NEW g \in Goroutines, NEW kind, NEW psc, NEW late, Enter(g, kind, psc, late)
      PROVE  TreeInv'
  BY <1>3, TreeQuiet DEF Enter, caches
<1>4. ASSUME NEW g \in Goroutines, Return(g) PROVE TreeInv'
  BY <1>4, TreeQuiet DEF Return, caches
<1>5. ASSUME HandlerStep PROVE TreeInv'
  <2>1. UNCHANGED <<creator, pcOf, goPc2PGoId, goId2PGoId>>
    BY <1>5 DEF HandlerStep, Handle, RegisterTaken, RegisterNew, WalkEndsAtUnknown,
                WalkClimbs, WalkSpinsAtMain, WalkFinds, HandleMain, RegisterRoot,
                vars, target, caches
  <2>. QED
    BY <2>1, TreeQuiet
<1>6. ASSUME NEW pc \in PCs, ExpirePc(pc) PROVE TreeInv'
  BY <1>6, TreeExpires
<1>7. ASSUME NEW g \in Goroutines, ExpireParent(g) PROVE TreeInv'
  BY <1>7, TreeExpires
<1>8. ASSUME NEW g \in Goroutines, ExpireSc(g) PROVE TreeInv'
  BY <1>8, TreeQuiet DEF ExpireSc, target
<1>9. CASE UNCHANGED vars
  BY <1>9, TreeQuiet DEF vars, target, caches
<1>. QED
  BY <1>1, <1>2, <1>3, <1>4, <1>5, <1>6, <1>7, <1>8, <1>9 DEF Next

\* A goroutine's parent in the registry (goId2PGoId, which EventHandler fills and
\* getAncestorSc climbs) is a goroutine that ran the go statement it was made by.
THEOREM TreeCorrect == Spec => []ParentRanGoStatement
<1>1. TreeInv => ParentRanGoStatement
  BY DEF TreeInv, RanGoStatement, ParentRanGoStatement
<1>. QED
  BY TreeInit, TreeStep, <1>1, PTL DEF Spec

-------------------------------------------------------------------------------
(* The spans made for goroutines.  A context in goId2Sc is that of a span  *)
(* of the very goroutine, and a walk stays among the ancestors of the one  *)
(* it started from, as long as no go statement was run by two goroutines.  *)

IsIssued(table, i, g) == i \in DOMAIN table /\ table[i].goid = g

\* c's id was issued for c, and so not for a goroutine's span.
CallIssued(table, c) == IsIssued(table, c.id, c.goid) /\ table[c.id].kind = c.kind

IssuedInv ==
    /\ \A g \in Goroutines : \A i \in DOMAIN stack[g] : CallIssued(issued, stack[g][i])
    /\ job # Idle => CallIssued(issued, job.call)
    /\ \A g \in Goroutines : goId2Sc[g] # NoSc => IsIssued(issued, goId2Sc[g].span, g)

OnPath(k, g) == k = g \/ k \in Ancestors(g)

WalkInv == job.at = "walk" => OnPath(job.cursor, job.call.goid)

\* A goroutine's span that is exported, and the parent it is exported with.
BelowAncestor(x) ==
    /\ x.id \in DOMAIN issued
    /\ issued[x.id].kind = "goroutine" =>
          /\ x.parent \in DOMAIN issued
          /\ issued[x.parent].goid \in Ancestors(issued[x.id].goid)

BelowInv == \A x \in spans : BelowAncestor(x)

SpanInv ==
    /\ TreeInv
    /\ SpanTypeOK
    /\ IssuedInv
    /\ SoloGoStatements => WalkInv /\ BelowInv

LEMMA SpanInit == Init => SpanInv
<1>. SUFFICES ASSUME Init PROVE SpanInv
  OBVIOUS
<1>1. TreeInv
  BY TreeInit
<1>2. SpanTypeOK
  BY DEF Init, SpanTypeOK, Scs, Jobs, NoSc, NoSpan
<1>3. IssuedInv /\ WalkInv /\ BelowInv
  BY DEF Init, IssuedInv, WalkInv, BelowInv, Idle
<1>. QED
  BY <1>1, <1>2, <1>3 DEF SpanInv

\* No one loses an ancestor, whatever go statement is run.
LEMMA AncestorsGrow ==
    ASSUME \A k \in Goroutines : creator[k] # NoGoid => creator'[k] = creator[k],
           NEW g \in Goroutines
    PROVE  Ancestors(g) \subseteq Ancestors(g)'
<1>1. SUFFICES ASSUME NEW p \in Ancestors(g), NEW S \in SUBSET Goroutines,
                      \A k \in S \cup {g} : creator'[k] # NoGoid => creator'[k] \in S
               PROVE  p \in S
  BY DEF Ancestors
<1>2. \A k \in S \cup {g} : creator[k] # NoGoid => creator[k] \in S
  BY <1>1
<1>. QED
  BY <1>2 DEF Ancestors

\* A walk's next stop is an ancestor: without shared go statements the parent
\* that the registry knows is the creator.
LEMMA ParentIsAncestor ==
    ASSUME TreeInv, SoloGoStatements, NEW g \in Goroutines, NEW k \in Goroutines,
           OnPath(k, g), goId2PGoId[k] # NoGoid
    PROVE  goId2PGoId[k] \in Ancestors(g)
<1>1. goId2PGoId[k] \in Goroutines /\ Created(k)
  BY DEF TreeInv, TreeTypeOK
<1>2. PICK h \in Goroutines : creator[h] = goId2PGoId[k] /\ pcOf[h] = pcOf[k]
  BY DEF TreeInv, RanGoStatement
<1>3. creator[k] = goId2PGoId[k]
  BY <1>1, <1>2 DEF SoloGoStatements, Created
<1>4. SUFFICES ASSUME NEW S \in SUBSET Goroutines,
                      \A j \in S \cup {g} : creator[j] # NoGoid => creator[j] \in S
               PROVE  goId2PGoId[k] \in S
  BY <1>1 DEF Ancestors
<1>5. k \in S \cup {g}
  BY <1>4 DEF OnPath, Ancestors
<1>. QED
  BY <1>3, <1>4, <1>5

\* What the target's go statements, the tracker and the tables' expiry change
\* disturbs nothing but the tree.
LEMMA SpanQuiet ==
    ASSUME SpanInv, TreeInv',
           UNCHANGED <<creator, pcOf, stack, goroutineSc, goId2Sc, job, issued, spans>>
    PROVE  SpanInv'
<1>1. SpanTypeOK' /\ IssuedInv'
  BY DEF SpanInv, SpanTypeOK, IssuedInv, CallIssued, IsIssued
<1>2. \A g : Ancestors(g)' = Ancestors(g)
  BY DEF Ancestors
<1>3. SoloGoStatements' => SoloGoStatements
  BY DEF SoloGoStatements, Created
<1>4. SoloGoStatements' => WalkInv' /\ BelowInv'
  BY <1>2, <1>3 DEF SpanInv, WalkInv, OnPath, BelowInv, BelowAncestor
<1>. QED
  BY <1>1, <1>4 DEF SpanInv

LEMMA SpanSpawn ==
    ASSUME SpanInv, NEW g \in Goroutines, NEW h \in Goroutines, NEW pc \in PCs,
           Spawn(g, h, pc)
    PROVE  SpanInv'
<1>1. /\ TreeInv
      /\ creator' = [creator EXCEPT ![h] = g]
      /\ pcOf' = [pcOf EXCEPT ![h] = pc]
      /\ UNCHANGED <<stack, goroutineSc, goId2Sc, job, issued, spans>>
      /\ ~Created(h)
  BY DEF SpanInv, Spawn, history
<1>2. TreeInv'
  BY <1>1, TreeSpawn
<1>3. SpanTypeOK' /\ IssuedInv'
  BY <1>1 DEF SpanInv, SpanTypeOK, IssuedInv, CallIssued, IsIssued
<1>4. \A k \in Goroutines : Created(k) =>
          creator'[k] = creator[k] /\ pcOf'[k] = pcOf[k] /\ Created(k)'
  BY <1>1 DEF TreeInv, TreeTypeOK, Created
<1>5. \A k \in Goroutines : Ancestors(k) \subseteq Ancestors(k)'
  BY <1>4, AncestorsGrow DEF Created
<1>6. ASSUME SoloGoStatements' PROVE WalkInv' /\ BelowInv'
  <2>1. SoloGoStatements
    BY <1>4, <1>6 DEF SoloGoStatements
  <2>2. job.at = "walk" => job.call.goid \in Goroutines
    BY DEF SpanInv, SpanTypeOK, Jobs, Calls, Idle
  <2>3. WalkInv'
    BY <1>1, <1>5, <2>1, <2>2 DEF SpanInv, WalkInv, OnPath
  <2>4. ASSUME NEW i \in DOMAIN issued PROVE issued[i].goid \in Goroutines
    <3>1. issued \in Seq(Issues)
      BY DEF SpanInv, SpanTypeOK
    <3>2. issued[i] \in Issues
      BY <3>1
    <3>. QED
      BY <3>2 DEF Issues
  <2>5. BelowInv'
    <3>1. SUFFICES ASSUME NEW x \in spans PROVE BelowAncestor(x)'
      BY <1>1 DEF BelowInv
    <3>2. BelowAncestor(x)
      BY <2>1 DEF SpanInv, BelowInv
    <3>. QED
      BY <1>1, <1>5, <2>4, <3>2 DEF BelowAncestor
  <2>. QED
    BY <2>3, <2>5
<1>. QED
  BY <1>2, <1>3, <1>6 DEF SpanInv

\* A new id leaves the older ones as they were.
LEMMA IssueGrows ==
    ASSUME SpanTypeOK, NEW g \in Goroutines, NEW b \in Nat, NEW k \in Kinds, NEW t \in Int,
           issued' = Issue(g, b, k, t)
    PROVE  /\ issued' \in Seq(Issues)
           /\ NextId \in Nat
           /\ NextId \in DOMAIN issued' /\ NextId \notin DOMAIN issued
           /\ issued'[NextId].goid = g /\ issued'[NextId].kind = k
           /\ \A i \in DOMAIN issued : i \in DOMAIN issued' /\ issued'[i] = issued[i]
BY DEF SpanTypeOK, Issues, Issue, NextId

\* Neither does it disturb what is known of them.
LEMMA IssueKeeps ==
    ASSUME \A i \in DOMAIN issued : i \in DOMAIN issued' /\ issued'[i] = issued[i],
           creator' = creator
    PROVE  /\ \A i, g : IsIssued(issued, i, g) => IsIssued(issued', i, g)
           /\ \A c : CallIssued(issued, c) => CallIssued(issued', c)
           /\ \A x : BelowAncestor(x) => BelowAncestor(x)'
<1>1. \A g : Ancestors(g)' = Ancestors(g)
  BY DEF Ancestors
<1>. QED
  BY <1>1 DEF IsIssued, CallIssued, BelowAncestor

LEMMA SpanEnter ==
    ASSUME SpanInv, NEW g \in Goroutines, NEW kind \in {"server", "client"},
           NEW psc \in Scs, NEW late \in BOOLEAN, Enter(g, kind, psc, late)
    PROVE  SpanInv'
<1>1. SpanTypeOK /\ IssuedInv
  BY DEF SpanInv
<1>. DEFINE c == [id |-> NextId, goid |-> g, kind |-> kind,
                  trace |-> IF psc = NoSc THEN NextId ELSE psc.trace,
                  psc |-> psc, late |-> late]
<1>2. /\ UNCHANGED <<creator, pcOf, goPc2PGoId, goId2PGoId, goId2Sc, spans>>
      /\ stack' = [stack EXCEPT ![g] = Append(@, c)]
      /\ issued' = Issue(g, c.id, kind, c.trace)
      /\ \/ goroutineSc' = goroutineSc
         \/ goroutineSc' = [goroutineSc EXCEPT ![g] = [trace |-> c.trace, span |-> c.id]]
      /\ \/ job' \in {[at |-> "placeholder", call |-> c], [at |-> "main", call |-> c]}
         \/ job' = Idle
  BY DEF Enter, caches
<1>3. NextId \in Nat
  BY <1>1 DEF SpanTypeOK, NextId
<1>4. c \in Calls /\ c.id = NextId /\ c.goid = g /\ c.kind = kind /\ c.trace \in Int
  BY <1>3 DEF Calls, Scs
<1>5. /\ issued' \in Seq(Issues)
      /\ NextId \in DOMAIN issued'
      /\ issued'[NextId].goid = g /\ issued'[NextId].kind = kind
      /\ \A i \in DOMAIN issued : i \in DOMAIN issued' /\ issued'[i] = issued[i]
  BY <1>1, <1>2, <1>3, <1>4, IssueGrows DEF Kinds
<1>. HIDE DEF c
<1>6. TreeInv'
  BY <1>2, TreeQuiet DEF SpanInv
<1>7. SpanTypeOK'
  <2>1. stack' \in [Goroutines -> Seq(Calls)]
    BY <1>1, <1>2, <1>4 DEF SpanTypeOK
  <2>2. goroutineSc' \in [Goroutines -> Scs]
    <3>1. [trace |-> c.trace, span |-> c.id] \in Scs
      BY <1>3, <1>4 DEF Scs
    <3>. QED
      BY <1>1, <1>2, <3>1 DEF SpanTypeOK
  <2>3. job' \in Jobs
    BY <1>2, <1>4 DEF Jobs
  <2>. QED
    BY <1>1, <1>2, <1>5, <2>1, <2>2, <2>3 DEF SpanTypeOK
<1>8. CallIssued(issued', c)
  BY <1>4, <1>5 DEF CallIssued, IsIssued
<1>9. IssuedInv'
  <2>1. \A k \in Goroutines : \A i \in DOMAIN stack'[k] :
            stack'[k][i] = c \/ (i \in DOMAIN stack[k] /\ stack'[k][i] = stack[k][i])
    BY <1>1, <1>2, <1>4 DEF SpanTypeOK
  <2>2. \A k \in Goroutines : \A i \in DOMAIN stack'[k] : CallIssued(issued', stack'[k][i])
    BY <1>1, <1>2, <1>5, <1>8, <2>1, IssueKeeps DEF IssuedInv
  <2>3. job' # Idle => CallIssued(issued', job'.call)
    BY <1>2, <1>8
  <2>4. \A k \in Goroutines : goId2Sc'[k] # NoSc => IsIssued(issued', goId2Sc'[k].span, k)
    BY <1>1, <1>2, <1>5, IssueKeeps DEF IssuedInv
  <2>. QED
    BY <2>2, <2>3, <2>4 DEF IssuedInv
<1>10. WalkInv'
  BY <1>2 DEF WalkInv, Idle
<1>11. SoloGoStatements' => BelowInv'
  BY <1>2, <1>5, IssueKeeps DEF SpanInv, BelowInv, SoloGoStatements, Created
<1>. QED
  BY <1>6, <1>7, <1>9, <1>10, <1>11 DEF SpanInv

LEMMA SpanReturn ==
    ASSUME SpanInv, NEW g \in Goroutines, Return(g)
    PROVE  SpanInv'
<1>1. SpanTypeOK /\ IssuedInv
  BY DEF SpanInv
<1>. DEFINE c == stack[g][Len(stack[g])]
<1>2. /\ UNCHANGED <<creator, pcOf, goPc2PGoId, goId2PGoId, goId2Sc, issued, spans>>
      /\ stack[g] # <<>>
      /\ stack' = [stack EXCEPT ![g] = SubSeq(@, 1, Len(@) - 1)]
      /\ \/ goroutineSc' = goroutineSc
         \/ goroutineSc' = [goroutineSc EXCEPT ![g] = NoSc]
      /\ job = Idle
      /\ job' \in {Idle, [at |-> "main", call |-> c]}
  BY DEF Return, caches, history, RunnerFree
<1>3. stack[g] \in Seq(Calls)
  BY <1>1 DEF SpanTypeOK
<1>4. Len(stack[g]) \in DOMAIN stack[g] /\ c \in Calls
  BY <1>2, <1>3
<1>5. CallIssued(issued, c)
  BY <1>1, <1>4 DEF IssuedInv
<1>. HIDE DEF c
<1>6. TreeInv'
  BY <1>2, TreeQuiet DEF SpanInv
<1>7. SpanTypeOK'
  <2>1. SubSeq(stack[g], 1, Len(stack[g]) - 1) \in Seq(Calls)
    BY <1>2, <1>3
  <2>2. stack' \in [Goroutines -> Seq(Calls)]
    BY <1>1, <1>2, <2>1 DEF SpanTypeOK
  <2>3. NoSc \in Scs
    BY DEF NoSc, NoSpan, Scs
  <2>4. goroutineSc' \in [Goroutines -> Scs]
    BY <1>1, <1>2, <2>3 DEF SpanTypeOK
  <2>5. job' \in Jobs
    BY <1>2, <1>4 DEF Jobs
  <2>. QED
    BY <1>1, <1>2, <2>2, <2>4, <2>5 DEF SpanTypeOK
<1>8. IssuedInv'
  <2>1. \A i \in DOMAIN SubSeq(stack[g], 1, Len(stack[g]) - 1) :
            i \in DOMAIN stack[g] /\ SubSeq(stack[g], 1, Len(stack[g]) - 1)[i] = stack[g][i]
    BY <1>2, <1>3
  <2>2. \A k \in Goroutines : \A i \in DOMAIN stack'[k] :
            i \in DOMAIN stack[k] /\ stack'[k][i] = stack[k][i]
    BY <1>1, <1>2, <2>1 DEF SpanTypeOK
  <2>3. \A k \in Goroutines : \A i \in DOMAIN stack'[k] : CallIssued(issued', stack'[k][i])
    BY <1>1, <1>2, <2>2 DEF IssuedInv
  <2>4. job' # Idle => CallIssued(issued', job'.call)
    BY <1>2, <1>5
  <2>. QED
    BY <1>1, <1>2, <2>3, <2>4 DEF IssuedInv
<1>9. WalkInv'
  BY <1>2 DEF WalkInv, Idle
<1>10. SoloGoStatements' => BelowInv'
  <2>1. \A x : BelowAncestor(x) => BelowAncestor(x)'
    BY <1>2, IssueKeeps
  <2>. QED
    BY <1>2, <2>1 DEF SpanInv, BelowInv, SoloGoStatements, Created
<1>. QED
  BY <1>6, <1>8, <1>7, <1>9, <1>10 DEF SpanInv

\* The handler's steps: its call c has been issued, and the job it goes on to is
\* another stage of c or none.
LEMMA SpanHandler ==
    ASSUME SpanInv, HandlerStep
    PROVE  SpanInv'
<1>. DEFINE c == job.call
<1>1. SpanTypeOK /\ IssuedInv /\ TreeInv /\ job # Idle
  BY DEF SpanInv, HandlerStep
<1>2. c \in Calls /\ CallIssued(issued, c) /\ job \in Jobs
  BY <1>1 DEF SpanTypeOK, IssuedInv, Jobs
<1>3. /\ UNCHANGED <<creator, pcOf, goPc2PGoId, goId2PGoId, stack, goroutineSc>>
      /\ Handle(c)
  BY DEF HandlerStep, Handle, RegisterTaken, RegisterNew, WalkEndsAtUnknown,
         WalkClimbs, WalkSpinsAtMain, WalkFinds, HandleMain, RegisterRoot,
         vars, target, caches
<1>4. c.goid \in Goroutines /\ c.id \in Nat /\ c.trace \in Int
      /\ c.kind \in {"server", "client"}
  BY <1>2 DEF Calls
<1>5. ScOf(c) \in Scs /\ ScOf(c).span = c.id
  BY <1>4 DEF ScOf, Scs
<1>. HIDE DEF c
<1>6. TreeInv'
  BY <1>1, <1>3, TreeQuiet
<1>7. SoloGoStatements' => SoloGoStatements
  BY <1>3 DEF SoloGoStatements, Created
<1>8. \A g : Ancestors(g)' = Ancestors(g)
  BY <1>3 DEF Ancestors
<1>. DEFINE Registers(i) ==
         /\ goId2Sc' \in [Goroutines -> Scs]
         /\ \A g \in Goroutines : \/ goId2Sc'[g] = goId2Sc[g]
                                  \/ g = c.goid /\ goId2Sc'[g].span = i
\* Steps that issue no id: what they put in goId2Sc is c's own context.
<1>9. ASSUME issued' = issued, Registers(c.id),
             job' \in Jobs, job' = Idle \/ job'.call = c,
             SoloGoStatements' => WalkInv' /\ BelowInv'
      PROVE  SpanInv'
  <2>1. SpanTypeOK'
    BY <1>1, <1>3, <1>9 DEF SpanTypeOK
  <2>2. \A g \in Goroutines : goId2Sc'[g] # NoSc => IsIssued(issued', goId2Sc'[g].span, g)
    BY <1>1, <1>2, <1>9 DEF IssuedInv, CallIssued, IsIssued
  <2>3. IssuedInv'
    BY <1>1, <1>2, <1>3, <1>9, <2>2 DEF IssuedInv
  <2>. QED
    BY <1>6, <1>9, <2>1, <2>3 DEF SpanInv
<1>10. ASSUME goId2Sc' = [goId2Sc EXCEPT ![c.goid] = ScOf(c)] \/ goId2Sc' = goId2Sc
       PROVE  Registers(c.id)
  BY <1>1, <1>4, <1>5, <1>10 DEF SpanTypeOK
<1>11. ASSUME AfterPlaceholder(c)
       PROVE  /\ job' \in Jobs
              /\ job' = Idle \/ job'.call = c
              /\ WalkInv'
  BY <1>2, <1>11 DEF AfterPlaceholder, Jobs, WalkInv, Idle
<1>12. ASSUME issued' = issued, spans' = spans
       PROVE  SoloGoStatements' => BelowInv'
  BY <1>3, <1>7, <1>8, <1>12 DEF SpanInv, BelowInv, BelowAncestor
<1>13. CASE RegisterTaken(c) \/ (WalkEndsAtUnknown(c) /\ RegisterRoot(c))
  BY <1>9, <1>10, <1>11, <1>12, <1>13 DEF RegisterTaken, RegisterRoot, history
<1>14. CASE RegisterNew(c)
  <2>1. job' \in Jobs /\ job'.call = c
    BY <1>2, <1>4, <1>14 DEF RegisterNew, Jobs
  <2>2. WalkInv'
    BY <1>14 DEF RegisterNew, WalkInv, OnPath
  <2>. QED
    BY <1>9, <1>10, <1>12, <1>14, <2>1, <2>2 DEF RegisterNew, caches, history
<1>15. ASSUME Walking(c)
       PROVE  /\ job \in [at : {"walk"}, call : Calls, cursor : Goroutines, tries : Int]
              /\ SoloGoStatements => OnPath(job.cursor, c.goid)
  BY <1>2, <1>15 DEF Walking, Jobs, Idle, SpanInv, WalkInv
<1>16. CASE /\ Walking(c)
            /\ job' = [job EXCEPT !.cursor = c.goid, !.tries = NextTry]
            /\ UNCHANGED <<target, caches, history>>
  <2>1. job' \in Jobs /\ job'.call = c /\ job'.cursor = c.goid
    <3>1. job \in [at : {"walk"}, call : Calls, cursor : Goroutines, tries : Int]
      BY <1>15, <1>16
    <3>2. NextTry \in Int
      BY <3>1 DEF NextTry
    <3>3. job' \in [at : {"walk"}, call : Calls, cursor : Goroutines, tries : Int]
      BY <1>4, <1>16, <3>1, <3>2
    <3>4. job'.call = job.call /\ job'.cursor = c.goid
      BY <1>16, <3>1
    <3>. QED
      BY <1>16, <3>3, <3>4 DEF Jobs, Walking
  <2>2. WalkInv'
    BY <2>1 DEF WalkInv, OnPath
  <2>. QED
    BY <1>9, <1>10, <1>12, <1>16, <2>1, <2>2 DEF caches, history
<1>17. CASE WalkClimbs(c)
  <2>1. /\ Walking(c)
        /\ goId2PGoId[job.cursor] # NoGoid
        /\ job' = [job EXCEPT !.cursor = goId2PGoId[job.cursor]]
        /\ goId2Sc' = goId2Sc /\ issued' = issued /\ spans' = spans
    BY <1>17 DEF WalkClimbs, caches, history
  <2>2. goId2PGoId[job.cursor] \in Goroutines
    BY <1>1, <1>15, <2>1 DEF TreeInv, TreeTypeOK
  <2>3. job' \in Jobs /\ job'.call = c /\ job'.cursor = goId2PGoId[job.cursor]
    BY <1>15, <2>1, <2>2 DEF Jobs, Walking
  <2>4. SoloGoStatements => goId2PGoId[job.cursor] \in Ancestors(c.goid)
    BY <1>1, <1>4, <1>15, <2>1, ParentIsAncestor
  <2>5. SoloGoStatements' => WalkInv'
    BY <1>7, <1>8, <2>3, <2>4 DEF WalkInv, OnPath
  <2>. QED
    BY <1>9, <1>10, <1>12, <2>1, <2>3, <2>5
<1>18. CASE WalkSpinsAtMain(c)
  <2>1. UNCHANGED <<job, goId2Sc, issued, spans>>
    BY <1>18 DEF WalkSpinsAtMain, vars, caches, history
  <2>. QED
    BY <1>6, <1>3, <2>1, SpanQuiet
<1>19. CASE HandleMain(c)
  <2>1. /\ goId2Sc' = goId2Sc /\ issued' = issued /\ job' = Idle
        /\ \A x \in spans' : x \in spans \/ x.id = c.id
    BY <1>19 DEF HandleMain, caches
  <2>2. \A x : x.id = c.id => BelowAncestor(x)'
    BY <1>2, <1>4, <2>1 DEF CallIssued, IsIssued, BelowAncestor
  <2>3. \A x : BelowAncestor(x) => BelowAncestor(x)'
    BY <1>3, <2>1, IssueKeeps
  <2>4. SoloGoStatements' => BelowInv'
    BY <1>7, <2>1, <2>2, <2>3 DEF SpanInv, BelowInv
  <2>5. WalkInv' /\ job' \in Jobs
    BY <2>1 DEF WalkInv, Idle, Jobs
  <2>. QED
    BY <1>9, <1>10, <2>1, <2>4, <2>5
<1>20. CASE WalkFinds(c)
  <2>. DEFINE p == goId2PGoId[job.cursor]
              t == goId2Sc[p].trace
              k == IF c.kind = "server" THEN "phantom" ELSE "goroutine"
              sc == [trace |-> t, span |-> NextId]
  <2>1. /\ Walking(c)
        /\ p # NoGoid
        /\ goId2Sc[p] # NoSc
        /\ goId2Sc' = [goId2Sc EXCEPT ![c.goid] = sc]
        /\ issued' = Issue(c.goid, c.id, k, t)
        /\ \A x \in spans' : x \in spans \/ (x.id = NextId /\ x.parent = goId2Sc[p].span)
        /\ AfterPlaceholder(c)
    BY <1>20 DEF WalkFinds, MiddlewareTrace
  <2>2. p \in Goroutines
    BY <1>1, <1>15, <2>1 DEF TreeInv, TreeTypeOK
  <2>3. t \in Int
    BY <1>1, <2>2 DEF SpanTypeOK, Scs
  <2>4. /\ issued' \in Seq(Issues)
        /\ NextId \in Nat
        /\ NextId \in DOMAIN issued'
        /\ issued'[NextId].goid = c.goid
        /\ \A i \in DOMAIN issued : i \in DOMAIN issued' /\ issued'[i] = issued[i]
    BY <1>1, <1>4, <2>1, <2>3, IssueGrows DEF Kinds
  <2>5. sc \in Scs /\ sc.span = NextId
    BY <2>3, <2>4 DEF Scs
  <2>6. IsIssued(issued, goId2Sc[p].span, p)
    BY <1>1, <2>1, <2>2 DEF IssuedInv
  <2>7. SoloGoStatements => p \in Ancestors(c.goid)
    BY <1>1, <1>4, <1>15, <2>1, ParentIsAncestor
  <2>. HIDE DEF p, t, k, sc
  <2>8. Registers(NextId)
    BY <1>1, <1>4, <2>1, <2>5 DEF SpanTypeOK
  <2>9. SpanTypeOK'
    BY <1>1, <1>3, <1>11, <2>1, <2>4, <2>8 DEF SpanTypeOK
  <2>10. IssuedInv'
    <3>1. \A g \in Goroutines : goId2Sc'[g] # NoSc => IsIssued(issued', goId2Sc'[g].span, g)
      BY <1>1, <2>4, <2>8 DEF IssuedInv, IsIssued
    <3>2. \A d : CallIssued(issued, d) => CallIssued(issued', d)
      BY <1>3, <2>4, IssueKeeps
    <3>. QED
      BY <1>1, <1>2, <1>3, <1>11, <2>1, <3>1, <3>2 DEF IssuedInv
  <2>11. ASSUME SoloGoStatements' PROVE BelowInv'
    <3>1. \A x : BelowAncestor(x) => BelowAncestor(x)'
      BY <1>3, <2>4, IssueKeeps
    <3>2. \A x : x.id = NextId /\ x.parent = goId2Sc[p].span => BelowAncestor(x)'
      BY <1>7, <1>8, <2>4, <2>6, <2>7, <2>11 DEF BelowAncestor, IsIssued
    <3>. QED
      BY <1>7, <2>1, <2>11, <3>1, <3>2 DEF SpanInv, BelowInv
  <2>. QED
    BY <1>6, <1>11, <2>1, <2>9, <2>10, <2>11 DEF SpanInv
<1>. QED
  BY <1>3, <1>13, <1>14, <1>16, <1>17, <1>18, <1>19, <1>20 DEF Handle, WalkEndsAtUnknown

\* A context that expires takes nothing with it that the others need.
LEMMA SpanExpireSc ==
    ASSUME SpanInv, NEW g \in Goroutines, ExpireSc(g)
    PROVE  SpanInv'
<1>1. /\ UNCHANGED <<creator, pcOf, goPc2PGoId, goId2PGoId, stack, goroutineSc, job, issued, spans>>
      /\ goId2Sc' = [goId2Sc EXCEPT ![g] = NoSc]
  BY DEF ExpireSc, target, history
<1>2. TreeInv'
  BY <1>1, TreeQuiet DEF SpanInv
<1>3. NoSc \in Scs
  BY DEF NoSc, NoSpan, Scs
<1>4. goId2Sc' \in [Goroutines -> Scs]
      /\ \A k \in Goroutines : goId2Sc'[k] = goId2Sc[k] \/ goId2Sc'[k] = NoSc
  BY <1>1, <1>3 DEF SpanInv, SpanTypeOK
<1>5. SpanTypeOK' /\ IssuedInv'
  BY <1>1, <1>4 DEF SpanInv, SpanTypeOK, IssuedInv, CallIssued, IsIssued
<1>6. \A k : Ancestors(k)' = Ancestors(k)
  BY <1>1 DEF Ancestors
<1>7. SoloGoStatements' => WalkInv' /\ BelowInv'
  BY <1>1, <1>6 DEF SpanInv, SoloGoStatements, Created, WalkInv, OnPath, BelowInv, BelowAncestor
<1>. QED
  BY <1>2, <1>5, <1>7 DEF SpanInv

LEMMA SpanStep == SpanInv /\ [Next]_vars => SpanInv'
<1>. SUFFICES ASSUME SpanInv, [Next]_vars PROVE SpanInv'
  OBVIOUS
<1>1. TreeInv'
  BY TreeStep DEF SpanInv
<1>2. ASSUME NEW g \in Goroutines, NEW h \in Goroutines, NEW pc \in PCs, Spawn(g, h, pc)
      PROVE  SpanInv'
  BY <1>2, SpanSpawn
<1>3. ASSUME NEW g \in Goroutines, Schedule(g) PROVE SpanInv'
  BY <1>1, <1>3, SpanQuiet DEF Schedule, history
<1>4. ASSUME NEW g \in Goroutines, NEW late \in Late, NEW psc \in ServerParents,
             Enter(g, "server", psc, late)
      PROVE  SpanInv'
  <2>1. psc \in Scs
    BY DEF ServerParents, Scs, NoSc, NoSpan, RemoteTrace, Remote
  <2>. QED
    BY <1>4, <2>1, FlagsAssumption, SpanEnter
<1>5. ASSUME NEW g \in Goroutines, NEW late \in Late, NEW psc \in ClientParents(g),
             Enter(g, "client", psc, late)
      PROVE  SpanInv'
  <2>1. goroutineSc[g] \in Scs
    BY DEF SpanInv, SpanTypeOK
  <2>2. \A i \in DOMAIN issued : issued[i].trace \in Int /\ i \in Int
    <3>1. issued \in Seq(Issues)
      BY DEF SpanInv, SpanTypeOK
    <3>2. \A i \in DOMAIN issued :
              i \in Int /\ issued[i] \in Issues
      BY <3>1
    <3>. QED
      BY <3>2 DEF Issues
  <2>3. \A sc \in ContextScs : sc \in Scs
    BY <2>2 DEF ContextScs, Scs, NoSc, NoSpan
  <2>4. psc \in Scs
    BY <2>1, <2>3 DEF ClientParents
  <2>. QED
    BY <1>5, <2>4, FlagsAssumption, SpanEnter
<1>6. ASSUME NEW g \in Goroutines, Return(g) PROVE SpanInv'
  BY <1>6, SpanReturn
<1>7. CASE HandlerStep
  BY <1>7, SpanHandler
<1>8. ASSUME NEW pc \in PCs, ExpirePc(pc) PROVE SpanInv'
  BY <1>1, <1>8, SpanQuiet DEF ExpirePc, target, history
<1>9. ASSUME NEW g \in Goroutines, ExpireParent(g) PROVE SpanInv'
  BY <1>1, <1>9, SpanQuiet DEF ExpireParent, target, history
<1>10. ASSUME NEW g \in Goroutines, ExpireSc(g) PROVE SpanInv'
  BY <1>10, SpanExpireSc
<1>11. CASE UNCHANGED vars
  BY <1>1, <1>11, SpanQuiet DEF vars, target, caches, history
<1>. QED
  BY <1>2, <1>3, <1>4, <1>5, <1>6, <1>7, <1>8, <1>9, <1>10, <1>11 DEF Next

\* The span that RegisterSpan makes for a goroutine, and a client handler exports,
\* hangs below a span of a goroutine whose go statements led to it, when no go
\* statement was run by two goroutines: the code tells parents by go statement
\* alone, so nothing weaker would do.
THEOREM GoroutineSpansHang == Spec => []GoroutineSpanHasAncestor
<1>1. SpanInv => GoroutineSpanHasAncestor
  BY DEF SpanInv, BelowInv, BelowAncestor, GoroutineSpanHasAncestor
<1>. QED
  BY SpanInit, SpanStep, <1>1, PTL DEF Spec

\* The tree, the contexts, the handler's job and the history of issued spans keep
\* their types, whatever is lost and whatever expires.
THEOREM RegistryTypeCorrect == Spec => []TypeOK
<1>1. SpanInv => TypeOK
  BY DEF SpanInv, TreeInv, TypeOK
<1>. QED
  BY SpanInit, SpanStep, <1>1, PTL DEF Spec

-------------------------------------------------------------------------------
(* The traces and the starts of spans.  A context, wherever it is kept, is *)
(* of an issued span and carries its trace, and while the runner is with   *)
(* a call that has not outlived the delay, nothing began after that call.  *)

Carried(table, sc) == sc.span \in DOMAIN table /\ table[sc.span].trace = sc.trace

\* The parent is a span of that trace, or it is none of this process.
ParentKnown(table, parent, trace) ==
    parent <= 0 \/ (parent \in DOMAIN table /\ table[parent].trace = trace)

CallKnown(table, c) ==
    /\ Carried(table, ScOf(c)) /\ table[c.id].began = c.id
    /\ ParentKnown(table, c.psc.span, c.trace) /\ c.psc.span < c.id

SpanKnown(table, x) ==
    /\ x.id \in DOMAIN table /\ x.parent \in Int
    /\ ParentKnown(table, x.parent, x.trace)
    /\ x.parent \in DOMAIN table /\ ~x.late => table[x.parent].began <= table[x.id].began

\* The handler is with a call that was entered last: any but one that is late.
WithLatest == job # Idle /\ (job.at = "main" => ~job.call.late)

LineageInv ==
    /\ \A i \in DOMAIN issued : issued[i].began <= i
    /\ \A g \in Goroutines : \A i \in DOMAIN stack[g] : CallKnown(issued, stack[g][i])
    /\ \A g \in Goroutines : goroutineSc[g] # NoSc => Carried(issued, goroutineSc[g])
    /\ \A g \in Goroutines : goId2Sc[g] # NoSc => Carried(issued, goId2Sc[g])
    /\ job # Idle => CallKnown(issued, job.call)
    /\ WithLatest => \A i \in DOMAIN issued : issued[i].began <= job.call.id
    /\ \A x \in spans : SpanKnown(issued, x)

LEMMA LineageInit == Init => LineageInv
BY DEF Init, LineageInv, WithLatest

\* What is known of the ids issued before stays known when one more is issued.
LEMMA KnownKeeps ==
    ASSUME \A i \in DOMAIN issued : i \in DOMAIN issued' /\ issued'[i] = issued[i],
           DOMAIN issued' \subseteq Nat \ {0}
    PROVE  /\ \A sc : Carried(issued, sc) => Carried(issued', sc)
           /\ \A c : CallKnown(issued, c) => CallKnown(issued', c)
           /\ \A x : SpanKnown(issued, x) => SpanKnown(issued', x)
<1>1. /\ \A sc : Carried(issued, sc) => Carried(issued', sc)
      /\ \A p, t : ParentKnown(issued, p, t) => ParentKnown(issued', p, t)
  BY DEF Carried, ParentKnown
<1>2. ASSUME NEW c, CallKnown(issued, c) PROVE CallKnown(issued', c)
  <2>1. c.id \in DOMAIN issued
    BY <1>2 DEF CallKnown, Carried, ScOf
  <2>. QED
    BY <1>1, <1>2, <2>1 DEF CallKnown
<1>3. ASSUME NEW x, SpanKnown(issued, x) PROVE SpanKnown(issued', x)
  <2>1. x.parent \in DOMAIN issued' => x.parent \in DOMAIN issued
    BY <1>3 DEF SpanKnown, ParentKnown
  <2>. QED
    BY <1>1, <1>3, <2>1 DEF SpanKnown
<1>. QED
  BY <1>1, <1>2, <1>3

LEMMA IssuedTyped ==
    ASSUME SpanTypeOK
    PROVE  \A i \in DOMAIN issued : i \in Nat \ {0} /\ issued[i].began \in Nat /\ issued[i].trace \in Int
<1>1. \A i \in DOMAIN issued : i \in Nat \ {0} /\ issued[i] \in Issues
  BY DEF SpanTypeOK
<1>. QED
  BY <1>1 DEF Issues

\* One more id: the next number, with what it was issued with.
LEMMA IssueAppends ==
    ASSUME SpanTypeOK, NEW g \in Goroutines, NEW b \in Nat, NEW k \in Kinds, NEW t \in Int,
           issued' = Issue(g, b, k, t)
    PROVE  /\ NextId \in Nat /\ DOMAIN issued' = DOMAIN issued \cup {NextId}
           /\ DOMAIN issued' \subseteq Nat \ {0}
           /\ \A i \in DOMAIN issued : /\ issued'[i] = issued[i] /\ i \in Nat /\ i < NextId
                                       /\ issued[i].began \in Nat /\ issued[i].trace \in Int
           /\ issued'[NextId].began = b /\ issued'[NextId].trace = t
<1>. DEFINE e == [goid |-> g, began |-> b, kind |-> k, trace |-> t]
<1>1. issued \in Seq(Issues) /\ e \in Issues /\ issued' = Append(issued, e) /\ NextId = Len(issued) + 1
  BY DEF SpanTypeOK, Issues, Issue, NextId
<1>2. e.began = b /\ e.trace = t
  OBVIOUS
<1>. HIDE DEF e
<1>3. /\ NextId \in Nat /\ DOMAIN issued' = DOMAIN issued \cup {NextId}
      /\ DOMAIN issued' \subseteq Nat \ {0} /\ issued'[NextId] = e
      /\ \A i \in DOMAIN issued : issued'[i] = issued[i] /\ i \in Nat /\ i < NextId /\ issued[i] \in Issues
  BY <1>1
<1>. QED
  BY <1>2, <1>3 DEF Issues

\* Nothing that a step of the tree or an expiry changes is in it, but goId2Sc.
LEMMA LineageQuiet ==
    ASSUME LineageInv, UNCHANGED <<stack, goroutineSc, job, issued, spans>>,
           \A g \in Goroutines : goId2Sc'[g] \in {goId2Sc[g], NoSc}
    PROVE  LineageInv'
BY DEF LineageInv, WithLatest

LEMMA LineageEnter ==
    ASSUME SpanInv, LineageInv, NEW g \in Goroutines, NEW kind \in {"server", "client"},
           NEW psc \in Scs, NEW late \in BOOLEAN, Enter(g, kind, psc, late),
           psc = NoSc \/ psc.span = Remote \/ Carried(issued, psc)
    PROVE  LineageInv'
<1>. DEFINE c == [id |-> NextId, goid |-> g, kind |-> kind,
                  trace |-> IF psc = NoSc THEN NextId ELSE psc.trace,
                  psc |-> psc, late |-> late]
            sc == [trace |-> c.trace, span |-> c.id]
<1>1. SpanTypeOK /\ RunnerFree
  BY DEF SpanInv, Enter
<1>2. /\ goId2Sc' = goId2Sc /\ spans' = spans
      /\ stack' = [stack EXCEPT ![g] = Append(@, c)]
      /\ issued' = Issue(g, c.id, kind, c.trace)
      /\ goroutineSc' \in {goroutineSc, [goroutineSc EXCEPT ![g] = sc]}
      /\ job' \in {[at |-> "placeholder", call |-> c], [at |-> "main", call |-> c], Idle}
  BY DEF Enter, caches
<1>3. NextId \in Nat /\ issued \in Seq(Issues) /\ NextId = Len(issued) + 1
  BY <1>1 DEF SpanTypeOK, NextId
<1>4. /\ c.id = NextId /\ c.trace \in Int /\ c.psc = psc /\ c \in Calls
      /\ c.trace = IF psc = NoSc THEN NextId ELSE psc.trace
  BY <1>3 DEF Scs, Calls
<1>5. /\ DOMAIN issued' = DOMAIN issued \cup {NextId} /\ DOMAIN issued' \subseteq Nat \ {0}
      /\ \A i \in DOMAIN issued : issued'[i] = issued[i] /\ i < NextId /\ issued[i].began <= i
                                  /\ i \in Nat /\ issued[i].began \in Nat
      /\ issued'[NextId].began = NextId /\ issued'[NextId].trace = c.trace
  <2>1. issued' = Issue(g, NextId, kind, c.trace) /\ kind \in Kinds /\ c.trace \in Int
    BY <1>2, <1>4 DEF Kinds
  <2>2. \A i \in DOMAIN issued : issued[i].began <= i
    BY DEF LineageInv
  <2>. HIDE DEF c
  <2>. QED
    BY <1>1, <1>3, <2>1, <2>2, IssueAppends
<1>6. /\ \A d : CallKnown(issued, d) => CallKnown(issued', d)
      /\ \A d : Carried(issued, d) => Carried(issued', d)
      /\ \A d : SpanKnown(issued, d) => SpanKnown(issued', d)
  BY <1>5, KnownKeeps
<1>7. CallKnown(issued', c) /\ Carried(issued', sc)
  <2>1. psc.span \in Int /\ psc.span < NextId
    BY <1>3, <1>5 DEF Scs, NoSc, NoSpan, Remote, Carried
  <2>2. ParentKnown(issued', psc.span, c.trace)
    BY <1>4, <1>5 DEF ParentKnown, Carried, NoSc, NoSpan, Remote
  <2>. QED
    BY <1>4, <1>5, <2>1, <2>2 DEF CallKnown, Carried, ScOf
<1>. HIDE DEF c, sc
<1>8. \A k \in Goroutines : \A i \in DOMAIN stack'[k] : CallKnown(issued', stack'[k][i])
  <2>1. stack \in [Goroutines -> Seq(Calls)]
    BY <1>1 DEF SpanTypeOK
  <2>2. \A k \in Goroutines : \A i \in DOMAIN stack'[k] :
            stack'[k][i] = c \/ (i \in DOMAIN stack[k] /\ stack'[k][i] = stack[k][i])
    BY <1>2, <1>4, <2>1
  <2>. QED
    BY <1>6, <1>7, <2>2 DEF LineageInv
<1>9. \A k \in Goroutines : goroutineSc'[k] # NoSc => Carried(issued', goroutineSc'[k])
  BY <1>1, <1>2, <1>6, <1>7 DEF LineageInv, SpanTypeOK
<1>10. job' # Idle => CallKnown(issued', job'.call)
  BY <1>2, <1>7
<1>11. job' # Idle => \A i \in DOMAIN issued' : issued'[i].began <= job'.call.id
  <2>1. job' # Idle => job'.call = c
    BY <1>2
  <2>2. \A i \in DOMAIN issued' : issued'[i].began <= NextId
    BY <1>3, <1>5
  <2>. QED
    BY <1>4, <2>1, <2>2
<1>12. \A i \in DOMAIN issued' : issued'[i].began <= i
  BY <1>3, <1>5
<1>. QED
  BY <1>2, <1>6, <1>8, <1>9, <1>10, <1>11, <1>12 DEF LineageInv, WithLatest

LEMMA LineageReturn ==
    ASSUME SpanInv, LineageInv, NEW g \in Goroutines, Return(g)
    PROVE  LineageInv'
<1>. DEFINE c == stack[g][Len(stack[g])]
<1>1. SpanTypeOK
  BY DEF SpanInv
<1>2. /\ UNCHANGED <<goId2Sc, issued, spans>>
      /\ stack[g] # <<>>
      /\ stack' = [stack EXCEPT ![g] = SubSeq(@, 1, Len(@) - 1)]
      /\ goroutineSc' \in {goroutineSc, [goroutineSc EXCEPT ![g] = NoSc]}
      /\ \/ job' = Idle
         \/ job' = [at |-> "main", call |-> c] /\ c.late
  BY DEF Return, caches, history, RunnerFree, HandledAtReturn
<1>3. stack[g] \in Seq(Calls) /\ stack \in [Goroutines -> Seq(Calls)]
  BY <1>1 DEF SpanTypeOK
<1>4. CallKnown(issued, c)
  BY <1>2, <1>3 DEF LineageInv
<1>. HIDE DEF c
<1>5. \A k \in Goroutines : \A i \in DOMAIN stack'[k] :
          i \in DOMAIN stack[k] /\ stack'[k][i] = stack[k][i]
  BY <1>2, <1>3
<1>6. \A k \in Goroutines : \A i \in DOMAIN stack'[k] : CallKnown(issued', stack'[k][i])
  BY <1>2, <1>5 DEF LineageInv
<1>7. \A k \in Goroutines : goroutineSc'[k] # NoSc => Carried(issued', goroutineSc'[k])
  BY <1>1, <1>2 DEF LineageInv, SpanTypeOK
<1>8. job' # Idle => CallKnown(issued', job'.call)
  BY <1>2, <1>4
<1>9. ~WithLatest'
  BY <1>2 DEF WithLatest
<1>. QED
  BY <1>2, <1>6, <1>7, <1>8, <1>9 DEF LineageInv

\* The handler's steps.  What they keep and export is c's, or what is known of
\* the context that they find.
LEMMA LineageHandler ==
    ASSUME SpanInv, LineageInv, HandlerStep
    PROVE  LineageInv'
<1>. DEFINE c == job.call
<1>1. SpanTypeOK /\ job # Idle /\ issued \in Seq(Issues)
  BY DEF SpanInv, HandlerStep, SpanTypeOK
<1>2. c \in Calls /\ CallKnown(issued, c) /\ job \in Jobs
  BY <1>1 DEF SpanTypeOK, LineageInv, Jobs
<1>3. stack' = stack /\ goroutineSc' = goroutineSc /\ Handle(c)
  BY DEF HandlerStep, Handle, RegisterTaken, RegisterNew, WalkEndsAtUnknown,
         WalkClimbs, WalkSpinsAtMain, WalkFinds, HandleMain, RegisterRoot, vars, target
<1>4. /\ c.goid \in Goroutines /\ c.id \in Nat /\ c.trace \in Int /\ c.psc.span \in Int
      /\ c.kind \in {"server", "client"} /\ c.late \in BOOLEAN
      /\ ScOf(c).span = c.id /\ ScOf(c).trace = c.trace /\ ScOf(c) \in Scs
  BY <1>2 DEF Calls, Scs, ScOf
<1>5. job.at # "main" => WithLatest
  BY <1>1 DEF WithLatest
<1>. HIDE DEF c
\* Steps that issue no id.
<1>6. ASSUME issued' = issued,
             goId2Sc' \in {goId2Sc, [goId2Sc EXCEPT ![c.goid] = ScOf(c)]},
             job' = Idle \/ (job'.call = c /\ (WithLatest' => WithLatest)),
             \A x \in spans' : x \in spans \/ SpanKnown(issued, x)
      PROVE  LineageInv'
  <2>1. \A g \in Goroutines : goId2Sc'[g] # NoSc => Carried(issued', goId2Sc'[g])
    <3>1. Carried(issued, ScOf(c))
      BY <1>2 DEF CallKnown
    <3>2. goId2Sc \in [Goroutines -> Scs]
      BY <1>1 DEF SpanTypeOK
    <3>. QED
      BY <1>6, <3>1, <3>2 DEF LineageInv
  <2>2. WithLatest' => \A i \in DOMAIN issued' : issued'[i].began <= job'.call.id
    BY <1>6 DEF LineageInv, WithLatest, c
  <2>. QED
    BY <1>2, <1>3, <1>6, <2>1, <2>2 DEF LineageInv
<1>7. ASSUME AfterPlaceholder(c)
      PROVE  /\ job' = Idle \/ job'.call = c
             /\ WithLatest' => job'.call = c
  BY <1>4, <1>7 DEF AfterPlaceholder, WithLatest, HandledAtReturn
<1>8. CASE RegisterTaken(c) \/ (WalkEndsAtUnknown(c) /\ RegisterRoot(c))
  <2>1. job.at # "main"
    BY <1>8 DEF RegisterTaken, WalkEndsAtUnknown, Walking
  <2>. QED
    BY <1>5, <1>6, <1>7, <1>8, <2>1 DEF RegisterTaken, RegisterRoot, history
<1>9. CASE RegisterNew(c)
  <2>1. job.at # "main" /\ job'.call = c /\ issued' = issued /\ spans' = spans /\ goId2Sc' = goId2Sc
    BY <1>9 DEF RegisterNew, caches, history
  <2>. QED
    BY <1>5, <1>6, <2>1
<1>10. CASE /\ Walking(c)
            /\ \/ \E cursor, tries : job' = [job EXCEPT !.cursor = cursor, !.tries = tries]
               \/ \E cursor : job' = [job EXCEPT !.cursor = cursor]
               \/ job' = job
            /\ UNCHANGED <<caches, history>>
  <2>1. job \in [at : {"walk"}, call : Calls, cursor : Goroutines, tries : Int]
    <3>1. job.at = "walk" /\ job \in Jobs
      BY <1>2, <1>10 DEF Walking
    <3>. QED
      BY <3>1 DEF Jobs, Idle
  <2>2. job'.call = c /\ job.at # "main"
    BY <1>10, <2>1 DEF Walking
  <2>. QED
    BY <1>5, <1>6, <1>10, <2>2 DEF caches, history
<1>11. CASE WalkEndsAtUnknown(c) /\ ~RegisterRoot(c)
  BY <1>10, <1>11 DEF WalkEndsAtUnknown
<1>12. CASE WalkClimbs(c)
  BY <1>10, <1>12 DEF WalkClimbs
<1>13. CASE WalkSpinsAtMain(c)
  BY <1>10, <1>13 DEF WalkSpinsAtMain, vars
<1>14. CASE HandleMain(c)
  <2>. DEFINE x == [id |-> c.id, trace |-> Enriched(c).trace,
                    parent |-> Enriched(c).parent, late |-> c.late]
  <2>1. /\ job = [at |-> "main", call |-> c] /\ job' = Idle
        /\ goId2Sc' = goId2Sc /\ issued' = issued
        /\ spans' \in {spans, spans \cup {x}}
    BY <1>14 DEF HandleMain, caches
  <2>2. c.id \in DOMAIN issued /\ issued[c.id].began = c.id
    BY <1>2 DEF CallKnown, Carried, ScOf
  <2>3. \A i \in DOMAIN issued : issued[i].began \in Nat /\ i \in Nat
    BY <1>1, IssuedTyped
  <2>4. ~c.late => \A i \in DOMAIN issued : issued[i].began <= c.id
    BY <1>1, <2>1 DEF LineageInv, WithLatest
  <2>5. Enriched(c).parent \in Int /\ ParentKnown(issued, Enriched(c).parent, Enriched(c).trace)
    <3>1. CASE goId2Sc[c.goid] # NoSc /\ goId2Sc[c.goid].span # c.id
      <4>1. Carried(issued, goId2Sc[c.goid]) /\ goId2Sc[c.goid] \in Scs
        BY <1>1, <1>4, <3>1 DEF LineageInv, SpanTypeOK
      <4>2. Enriched(c).parent = goId2Sc[c.goid].span /\ Enriched(c).trace = goId2Sc[c.goid].trace
        BY <3>1 DEF Enriched
      <4>. QED
        BY <4>1, <4>2 DEF Carried, ParentKnown, Scs
    <3>2. CASE ~(goId2Sc[c.goid] # NoSc /\ goId2Sc[c.goid].span # c.id)
      <4>1. Enriched(c).parent = c.psc.span /\ Enriched(c).trace = c.trace
        BY <3>2 DEF Enriched
      <4>. QED
        BY <1>2, <1>4, <4>1 DEF CallKnown
    <3>. QED
      BY <3>1, <3>2
  <2>6. SpanKnown(issued, x)
    BY <2>2, <2>4, <2>5 DEF SpanKnown
  <2>. QED
    BY <1>6, <2>1, <2>6
<1>15. CASE WalkFinds(c)
  <2>. DEFINE p == goId2PGoId[job.cursor]
              t == goId2Sc[p].trace
              k == IF c.kind = "server" THEN "phantom" ELSE "goroutine"
              sc == [trace |-> t, span |-> NextId]
              x == [id |-> NextId, trace |-> t, parent |-> goId2Sc[p].span, late |-> FALSE]
  <2>1. /\ Walking(c) /\ p # NoGoid /\ goId2Sc[p] # NoSc
        /\ goId2Sc' = [goId2Sc EXCEPT ![c.goid] = sc]
        /\ issued' = Issue(c.goid, c.id, k, t)
        /\ spans' \in {spans, spans \cup {x}}
        /\ AfterPlaceholder(c)
    BY <1>15 DEF WalkFinds, MiddlewareTrace
  <2>2. job.cursor \in Goroutines /\ job.at = "walk"
    BY <1>2, <2>1 DEF Walking, Jobs, Idle
  <2>3. p \in Goroutines
    BY <2>1, <2>2 DEF SpanInv, TreeInv, TreeTypeOK
  <2>4. goId2Sc[p] \in Scs /\ Carried(issued, goId2Sc[p])
    BY <1>1, <2>1, <2>3 DEF SpanTypeOK, LineageInv
  <2>5. t \in Int /\ goId2Sc[p].span \in Int /\ k \in Kinds
    BY <2>4 DEF Scs, Kinds
  <2>6. /\ sc.trace = t /\ sc.span = NextId
        /\ x.id = NextId /\ x.trace = t /\ x.parent = goId2Sc[p].span
    OBVIOUS
  <2>. HIDE DEF p, t, k, sc, x
  <2>7. /\ NextId \in Nat /\ DOMAIN issued' = DOMAIN issued \cup {NextId}
        /\ DOMAIN issued' \subseteq Nat \ {0}
        /\ \A i \in DOMAIN issued : issued'[i] = issued[i] /\ i \in Nat /\ i < NextId
                                    /\ issued[i].began \in Nat
        /\ issued'[NextId].began = c.id /\ issued'[NextId].trace = t
    BY <1>1, <1>4, <2>1, <2>5, IssueAppends
  <2>8. /\ \A d : CallKnown(issued, d) => CallKnown(issued', d)
        /\ \A d : Carried(issued, d) => Carried(issued', d)
        /\ \A d : SpanKnown(issued, d) => SpanKnown(issued', d)
    BY <2>7, KnownKeeps
  <2>9. c.id \in DOMAIN issued /\ \A i \in DOMAIN issued : issued[i].began <= c.id
    BY <1>2, <1>5, <2>2 DEF CallKnown, Carried, ScOf, LineageInv, c
  <2>10. /\ \A i \in DOMAIN issued' : issued'[i].began <= i
         /\ \A i \in DOMAIN issued' : issued'[i].began <= c.id
    <3>1. \A i \in DOMAIN issued : issued[i].began <= i
      BY DEF LineageInv
    <3>. QED
      BY <1>4, <2>7, <2>9, <3>1
  <2>11. \A g \in Goroutines : goId2Sc'[g] # NoSc => Carried(issued', goId2Sc'[g])
    <3>1. Carried(issued', sc)
      BY <2>6, <2>7 DEF Carried
    <3>2. goId2Sc \in [Goroutines -> Scs]
      BY <1>1 DEF SpanTypeOK
    <3>. QED
      BY <2>1, <2>8, <3>1, <3>2 DEF LineageInv
  <2>12. SpanKnown(issued', x)
    <3>1. goId2Sc[p].span \in DOMAIN issued' /\ issued'[goId2Sc[p].span].trace = t
      BY <2>4, <2>7 DEF Carried, t
    <3>2. issued'[goId2Sc[p].span].began <= issued'[NextId].began
      BY <2>7, <2>10, <3>1
    <3>. QED
      BY <2>5, <2>6, <2>7, <3>1, <3>2 DEF SpanKnown, ParentKnown
  <2>13. \A d \in spans' : SpanKnown(issued', d)
    BY <2>1, <2>8, <2>12 DEF LineageInv
  <2>14. /\ \A g \in Goroutines : \A i \in DOMAIN stack'[g] : CallKnown(issued', stack'[g][i])
         /\ \A g \in Goroutines : goroutineSc'[g] # NoSc => Carried(issued', goroutineSc'[g])
    BY <1>3, <2>8 DEF LineageInv
  <2>15. /\ job' # Idle => CallKnown(issued', job'.call)
         /\ WithLatest' => \A i \in DOMAIN issued' : issued'[i].began <= job'.call.id
    BY <1>2, <1>7, <2>1, <2>8, <2>10
  <2>. QED
    BY <2>10, <2>11, <2>13, <2>14, <2>15 DEF LineageInv
<1>. QED
  BY <1>3, <1>8, <1>9, <1>11, <1>12, <1>13, <1>14, <1>15 DEF Handle

LEMMA LineageStep == SpanInv /\ LineageInv /\ [Next]_vars => LineageInv'
<1>. SUFFICES ASSUME SpanInv, LineageInv, [Next]_vars PROVE LineageInv'
  OBVIOUS
<1>1. ASSUME NEW g \in Goroutines, NEW h \in Goroutines, NEW pc \in PCs, Spawn(g, h, pc)
      PROVE  LineageInv'
  BY <1>1, LineageQuiet DEF Spawn, history
<1>2. ASSUME NEW g \in Goroutines, Schedule(g) PROVE LineageInv'
  BY <1>2, LineageQuiet DEF Schedule, history
<1>3. ASSUME NEW g \in Goroutines, NEW late \in Late, NEW psc \in ServerParents,
             Enter(g, "server", psc, late)
      PROVE  LineageInv'
  <2>1. psc \in Scs /\ (psc = NoSc \/ psc.span = Remote)
    BY DEF ServerParents, Scs, NoSc, NoSpan, RemoteTrace, Remote
  <2>. QED
    BY <1>3, <2>1, FlagsAssumption, LineageEnter
<1>4. ASSUME NEW g \in Goroutines, NEW late \in Late, NEW psc \in ClientParents(g),
             Enter(g, "client", psc, late)
      PROVE  LineageInv'
  <2>1. issued \in Seq(Issues) /\ goroutineSc[g] \in Scs
    BY DEF SpanInv, SpanTypeOK
  <2>2. \A i \in DOMAIN issued : issued[i].trace \in Int /\ i \in Int
    BY IssuedTyped DEF SpanInv
  <2>3. \A sc \in ContextScs : sc \in Scs /\ (sc = NoSc \/ Carried(issued, sc))
    BY <2>2 DEF ContextScs, Scs, NoSc, NoSpan, Carried
  <2>4. psc \in Scs /\ (psc = NoSc \/ Carried(issued, psc))
    BY <2>1, <2>3 DEF ClientParents, LineageInv
  <2>. QED
    BY <1>4, <2>4, FlagsAssumption, LineageEnter
<1>5. ASSUME NEW g \in Goroutines, Return(g) PROVE LineageInv'
  BY <1>5, LineageReturn
<1>6. CASE HandlerStep
  BY <1>6, LineageHandler
<1>7. ASSUME NEW pc \in PCs, ExpirePc(pc) PROVE LineageInv'
  BY <1>7, LineageQuiet DEF ExpirePc, target, history
<1>8. ASSUME NEW g \in Goroutines, ExpireParent(g) PROVE LineageInv'
  BY <1>8, LineageQuiet DEF ExpireParent, target, history
<1>9. ASSUME NEW g \in Goroutines, ExpireSc(g) PROVE LineageInv'
  <2>1. \A k \in Goroutines : goId2Sc'[k] \in {goId2Sc[k], NoSc}
    BY <1>9 DEF ExpireSc, SpanInv, SpanTypeOK
  <2>. QED
    BY <1>9, <2>1, LineageQuiet DEF ExpireSc, target, history
<1>10. CASE UNCHANGED vars
  BY <1>10, LineageQuiet DEF vars, target, caches, history
<1>. QED
  BY <1>1, <1>2, <1>3, <1>4, <1>5, <1>6, <1>7, <1>8, <1>9, <1>10 DEF Next

LEMMA LineageInvariant == Spec => [](SpanInv /\ LineageInv)
<1>1. SpanInv /\ LineageInv /\ [Next]_vars => (SpanInv /\ LineageInv)'
  BY SpanStep, LineageStep
<1>. QED
  BY SpanInit, LineageInit, <1>1, PTL DEF Spec

\* A span is exported in the trace of the context that it takes for its parent
\* (MustEnrichSpan, RegisterSpan), so a child and its parent part only if the parent
\* was itself moved off that trace, whatever is lost, late or expires.
THEOREM TracesCorrect == Spec => []TracesPartOnlyAtMovedSpans
<1>1. ASSUME SpanInv, LineageInv PROVE TracesPartOnlyAtMovedSpans
  <2>. SUFFICES ASSUME NEW x \in spans, NEW y \in spans, x.parent = y.id, x.trace # y.trace
                PROVE  y.trace # issued[y.id].trace
    BY DEF TracesPartOnlyAtMovedSpans
  <2>1. SpanKnown(issued, x) /\ y.id \in DOMAIN issued
    BY <1>1 DEF LineageInv, SpanKnown
  <2>2. issued \in Seq(Issues)
    BY <1>1 DEF SpanInv, SpanTypeOK
  <2>3. y.id > 0
    BY <2>1, <2>2
  <2>. QED
    BY <2>1, <2>3 DEF SpanKnown, ParentKnown
<1>. QED
  BY LineageInvariant, <1>1, PTL

\* The handlers of a call that has not outlived the delay run before anything that
\* began after it, so that no context they find can have begun later.
THEOREM StartsCorrect == Spec => []ParentStartsFirst
<1>1. ASSUME SpanInv, LineageInv PROVE ParentStartsFirst
  <2>. SUFFICES ASSUME NEW x \in spans, x.parent \in Ids, ~x.late
                PROVE  issued[x.parent].began <= issued[x.id].began
    BY DEF ParentStartsFirst
  <2>1. x.parent > 0
    BY BoundsAssumption DEF Ids
  <2>. QED
    BY <1>1, <2>1 DEF LineageInv, SpanKnown, ParentKnown
<1>. QED
  BY LineageInvariant, <1>1, PTL

-------------------------------------------------------------------------------
(* A walk gets on: the safety half of WalkEnds.                             *)

\* Go statements make a tree: a goroutine that runs one has been made, and no goroutine is
\* its own ancestor.
RootedInv ==
    /\ creator[Main] = NoGoid
    /\ ran \subseteq {g \in Goroutines : Created(g)}
    /\ \A g \in Goroutines : creator[g] # NoGoid => Created(creator[g])
    /\ \A g \in Goroutines : g \notin Ancestors(g)

\* Each step of a walk leaves it fewer ancestors to climb to, or is one of its retries; all
\* others end it, but for the one that spins at the main goroutine.
WalkGetsOn ==
    SoloGoStatements /\ job.at = "walk" /\ job'.at = "walk" /\ job' # job =>
        /\ job'.call = job.call
        /\ \/ /\ job'.tries = job.tries
              /\ Ancestors(job'.cursor) \subseteq Ancestors(job.cursor) \ {job'.cursor}
              /\ job'.cursor \in Ancestors(job.cursor)
           \/ job'.tries = job.tries + 1 /\ job.tries < MaxRetry

\* An ancestor's ancestors are one's own.
LEMMA AncestorsOfAncestor ==
    ASSUME NEW g \in Goroutines, NEW p \in Ancestors(g)
    PROVE  Ancestors(p) \subseteq Ancestors(g)
<1>. SUFFICES ASSUME NEW q \in Ancestors(p), NEW S \in SUBSET Goroutines,
                     \A k \in S \cup {g} : creator[k] # NoGoid => creator[k] \in S
              PROVE  q \in S
  BY DEF Ancestors
<1>1. p \in S
  BY DEF Ancestors
<1>2. \A k \in S \cup {p} : creator[k] # NoGoid => creator[k] \in S
  BY <1>1
<1>. QED
  BY <1>2 DEF Ancestors

LEMMA RootedInit == Init => RootedInv
<1>. SUFFICES ASSUME Init PROVE RootedInv
  OBVIOUS
<1>1. \A g \in Goroutines : creator[g] = NoGoid
  BY DEF Init
<1>2. ASSUME NEW g \in Goroutines PROVE g \notin Ancestors(g)
  <2>1. \A k \in {} \cup {g} : creator[k] # NoGoid => creator[k] \in {}
    BY <1>1
  <2>2. {} \in SUBSET Goroutines /\ g \notin {}
    OBVIOUS
  <2>. QED
    BY <2>1, <2>2 DEF Ancestors
<1>. QED
  BY <1>1, <1>2, GoroutinesAssumption DEF Init, RootedInv, Created

LEMMA RootedSpawn ==
    ASSUME TreeInv, RootedInv, NEW g \in Goroutines, NEW h \in Goroutines, NEW pc \in PCs,
           Spawn(g, h, pc)
    PROVE  RootedInv'
<1>1. /\ creator \in [Goroutines -> Goroutines \cup {NoGoid}]
      /\ creator' = [creator EXCEPT ![h] = g] /\ ran' = ran
      /\ g \in ran /\ Created(g) /\ ~Created(h)
  BY DEF Spawn, TreeInv, TreeTypeOK, RootedInv
<1>2. /\ h # Main /\ h # g /\ creator[h] = NoGoid
      /\ creator'[h] = g /\ \A k \in Goroutines \ {h} : creator'[k] = creator[k]
  BY <1>1 DEF Created
<1>3. \A k \in Goroutines : creator[k] # h
  BY <1>1, GoroutinesAssumption DEF RootedInv
<1>4. \A k \in Goroutines : Created(k) => Created(k)'
  BY <1>2, GoroutinesAssumption DEF Created
<1>5. (\A k \in Goroutines : creator[k] # NoGoid => Created(creator[k]))'
  <2>. SUFFICES ASSUME NEW k \in Goroutines, creator'[k] # NoGoid PROVE Created(creator[k])'
    OBVIOUS
  <2>1. PICK p : p = creator'[k]
    OBVIOUS
  <2>2. p \in Goroutines /\ Created(p)
    BY <1>1, <1>2, <2>1 DEF RootedInv
  <2>. QED
    BY <1>4, <2>1, <2>2 DEF Created
<1>6. ASSUME NEW k \in Goroutines PROVE k \notin Ancestors(k)'
  <2>1. CASE k = h
    <3>1. \A j \in (Goroutines \ {h}) \cup {h} : creator'[j] # NoGoid => creator'[j] \in Goroutines \ {h}
      BY <1>1, <1>2, <1>3
    <3>. QED
      BY <2>1, <3>1 DEF Ancestors
  <2>2. CASE k # h
    <3>1. PICK S \in SUBSET Goroutines : /\ \A j \in S \cup {k} : creator[j] # NoGoid => creator[j] \in S
                                         /\ k \notin S
      BY DEF RootedInv, Ancestors
    <3>2. \A j \in (S \ {h}) \cup {k} : creator'[j] # NoGoid => creator'[j] \in S \ {h}
      BY <1>2, <1>3, <2>2, <3>1
    <3>. QED
      BY <3>1, <3>2 DEF Ancestors
  <2>. QED
    BY <2>1, <2>2
<1>7. creator'[Main] = NoGoid
  BY <1>2, GoroutinesAssumption DEF RootedInv
<1>8. ran' \subseteq {k \in Goroutines : Created(k)'}
  BY <1>1, <1>4 DEF RootedInv
<1>. QED
  BY <1>5, <1>6, <1>7, <1>8 DEF RootedInv

LEMMA RootedStep == TreeInv /\ RootedInv /\ [Next]_vars => RootedInv'
<1>. SUFFICES ASSUME TreeInv, RootedInv, [Next]_vars PROVE RootedInv'
  OBVIOUS
<1>1. ASSUME creator' = creator, ran' \subseteq {g \in Goroutines : Created(g)} PROVE RootedInv'
  BY <1>1 DEF RootedInv, Created, Ancestors
<1>2. ASSUME NEW g \in Goroutines, Schedule(g) PROVE RootedInv'
  BY <1>1, <1>2 DEF Schedule, RootedInv
<1>3. ASSUME UNCHANGED <<creator, ran>> PROVE RootedInv'
  BY <1>1, <1>3 DEF RootedInv
<1>4. ASSUME NEW g \in Goroutines, NEW kind, NEW psc, NEW late, Enter(g, kind, psc, late)
      PROVE  UNCHANGED <<creator, ran>>
  BY <1>4 DEF Enter
<1>5. ASSUME NEW g \in Goroutines, Return(g) PROVE UNCHANGED <<creator, ran>>
  BY <1>5 DEF Return
<1>6. CASE HandlerStep
  BY <1>3, <1>6 DEF HandlerStep, Handle, RegisterTaken, RegisterNew, WalkEndsAtUnknown, RegisterRoot, WalkClimbs,
                    WalkSpinsAtMain, WalkFinds, HandleMain, target, vars
<1>7. (\E pc \in PCs : ExpirePc(pc)) \/ (\E g \in Goroutines : ExpireParent(g) \/ ExpireSc(g))
      => UNCHANGED <<creator, ran>>
  BY DEF ExpirePc, ExpireParent, ExpireSc, target
<1>8. UNCHANGED vars => UNCHANGED <<creator, ran>>
  BY DEF vars, target
<1>. QED
  BY <1>2, <1>3, <1>4, <1>5, <1>6, <1>7, <1>8, RootedSpawn DEF Next

LEMMA WalkStep == SpanInv /\ RootedInv /\ [Next]_vars => WalkGetsOn
<1>. SUFFICES ASSUME SpanInv, RootedInv, [Next]_vars, SoloGoStatements, job.at = "walk", job'.at = "walk", job' # job
              PROVE  WalkGetsOn
  BY DEF WalkGetsOn
<1>1. HandlerStep
  <2>1. job # Idle
    BY DEF Idle
  <2>2. ASSUME NEW g, NEW h, NEW pc, Spawn(g, h, pc) \/ Schedule(g) PROVE FALSE
    BY <2>1, <2>2 DEF Spawn, Schedule, RunnerFree
  <2>3. ASSUME NEW g, NEW kind, NEW psc, NEW late, Enter(g, kind, psc, late) \/ Return(g) PROVE FALSE
    BY <2>1, <2>3 DEF Enter, Return, RunnerFree
  <2>4. ASSUME NEW g, NEW pc, ExpirePc(pc) \/ ExpireParent(g) \/ ExpireSc(g) PROVE FALSE
    BY <2>4 DEF ExpirePc, ExpireParent, ExpireSc
  <2>5. ~ UNCHANGED vars
    BY DEF vars
  <2>. QED
    BY <2>2, <2>3, <2>4, <2>5 DEF Next
<1>2. PICK c : c = job.call
  OBVIOUS
<1>3. job \in [at : {"walk"}, call : Calls, cursor : Goroutines, tries : Int]
  BY DEF SpanInv, SpanTypeOK, Jobs, Idle
<1>4. job'.at # "walk" \/ job' = job \/ WalkEndsAtUnknown(c) \/ WalkClimbs(c)
  BY <1>1, <1>2 DEF HandlerStep, Handle, RegisterTaken, RegisterNew, WalkSpinsAtMain, WalkFinds, HandleMain,
                    AfterPlaceholder, Idle, vars
<1>5. CASE WalkEndsAtUnknown(c)
  <2>1. CASE job.cursor = Main /\ RetryLeft
    <3>1. job' = [job EXCEPT !.cursor = c.goid, !.tries = job.tries + 1] /\ job.tries < MaxRetry
      BY <1>5, <2>1 DEF WalkEndsAtUnknown, NextTry, RetryLeft
    <3>2. job'.call = job.call /\ job'.tries = job.tries + 1
      BY <1>3, <3>1
    <3>. QED
      BY <3>1, <3>2 DEF WalkGetsOn
  <2>2. CASE ~(job.cursor = Main /\ RetryLeft)
    BY <1>5, <2>2 DEF WalkEndsAtUnknown, RegisterRoot, AfterPlaceholder, Idle
  <2>. QED
    BY <2>1, <2>2
<1>6. CASE WalkClimbs(c)
  <2>1. PICK p : p = goId2PGoId[job.cursor]
    OBVIOUS
  <2>2. job' = [job EXCEPT !.cursor = p] /\ p # NoGoid
    BY <1>6, <2>1 DEF WalkClimbs
  <2>3. job'.cursor = p /\ job'.tries = job.tries /\ job'.call = job.call
    BY <1>3, <2>2
  <2>4. p \in Ancestors(job.cursor)
    BY <1>3, <2>1, <2>2, ParentIsAncestor DEF SpanInv, OnPath
  <2>5. p \in Goroutines /\ p \notin Ancestors(p)
    BY <2>4 DEF Ancestors, RootedInv
  <2>6. Ancestors(p) \subseteq Ancestors(job.cursor)
    BY <1>3, <2>4, AncestorsOfAncestor
  <2>. QED
    BY <2>3, <2>4, <2>5, <2>6 DEF WalkGetsOn
<1>. QED
  BY <1>4, <1>5, <1>6

\* getAncestorSc climbs a tree: while no go statement is shared its walk meets no goroutine twice
\* and retries no more than MAX_RETRY times, whatever was lost or expires meanwhile.  What is left
\* of WalkEnds is the walk that spins at the main goroutine.
THEOREM WalkCorrect == Spec => [][WalkGetsOn]_vars
<1>1. SpanInv /\ RootedInv /\ [Next]_vars => (SpanInv /\ RootedInv)'
  BY SpanStep, RootedStep DEF SpanInv
<1>2. SpanInv /\ RootedInv /\ [Next]_vars => [WalkGetsOn]_vars
  BY WalkStep
<1>. QED
  BY SpanInit, RootedInit, <1>1, <1>2, PTL DEF Spec
===============================================================================
