------------------------- MODULE SpanTracking_proofs --------------------------
(***************************************************************************)
(* What the entry and return programs report and leave behind, for any     *)
(* number of goroutines, known or not, any contexts, calls and nesting and *)
(* any limits of the maps.  The argument is about one slot at a time: the  *)
(* record of the goroutine's calls of one library is, as long as such a    *)
(* call is open, that call's or a later one's.                             *)
(***************************************************************************)
EXTENDS SpanTracking, FiniteSetTheorems, WellFoundedInduction, TLAPS

\* Whatever its members are: nothing here depends on the contexts and the parents.
IsSequence(s) == \E S : s \in Seq(S)

Fates == {"open", "returned", "unwound"}

TrackTypes ==
    /\ stack \in [Goroutines -> Seq(Nat)]
    /\ inFlight \in [Libs -> [Goroutines -> Nat]]
    /\ goroutineSc \in [Goids -> Nat]
    /\ IsSequence(calls)
    /\ \A i \in 1..Len(calls) : /\ calls[i].g \in Goroutines /\ calls[i].lib \in Libs
                                 /\ calls[i].goid \in {calls[i].g, Zero}
    /\ fate \in Seq(Fates)
    /\ Len(fate) = Len(calls)

\* The calls on a stack are the open ones of its goroutine, the outer ones first.
StackInv ==
    /\ \A g \in Goroutines : \A i \in DOMAIN stack[g] :
          /\ stack[g][i] \in 1..Len(calls)
          /\ calls[stack[g][i]].g = g
          /\ fate[stack[g][i]] = "open"
          /\ \A j \in DOMAIN stack[g] : i < j => stack[g][i] < stack[g][j]
    /\ \A c \in 1..Len(calls) : fate[c] = "open" =>
          \E i \in DOMAIN stack[calls[c].g] : stack[calls[c].g][i] = c

\* A record is of a call that lost none and has not returned; an open call's slot
\* holds its record, or it is lost and the slot holds none or a later one.
RecordInv ==
    /\ lost \subseteq 1..Len(calls)
    /\ \A l \in Libs, g \in Goroutines : inFlight[l][g] # None =>
          /\ inFlight[l][g] \in 1..Len(calls)
          /\ calls[inFlight[l][g]].g = g
          /\ calls[inFlight[l][g]].lib = l
          /\ fate[inFlight[l][g]] # "returned"
    /\ \A c \in 1..Len(calls) : fate[c] = "open" =>
          \/ inFlight[calls[c].lib][calls[c].g] = c
          \/ /\ c \in lost
             /\ \/ inFlight[calls[c].lib][calls[c].g] = None
                \/ inFlight[calls[c].lib][calls[c].g] > c

\* The other maps name calls that were made; that of a goroutine's id is a server's
\* call that was recorded with it.
ScInv ==
    /\ trackedBySc \subseteq 1..Len(calls)
    /\ \A k \in Goids : goroutineSc[k] # None =>
          /\ goroutineSc[k] \in 1..Len(calls)
          /\ calls[goroutineSc[k]].goid = k
          /\ calls[goroutineSc[k]].lib \in Servers

\* A call that was reported has left its slot.
ReportInv ==
    \A r \in reports :
        /\ r.by \in 1..Len(calls)
        /\ r.of # None => /\ r.of \in 1..Len(calls)
                          /\ fate[r.of] # "open"
                          /\ \A l \in Libs, g \in Goroutines : inFlight[l][g] # r.of

TrackInv ==
    /\ TrackTypes /\ StackInv /\ RecordInv /\ ScInv /\ ReportInv
    /\ ReportedOnce /\ WrongReportsExplained /\ EntriesExplained /\ LatestServerHeld

LEMMA TrackInit == Init => TrackInv
<1>. SUFFICES ASSUME Init PROVE TrackInv
  OBVIOUS
<1>1. TrackTypes
  <2>1. calls \in Seq({}) /\ fate \in Seq(Fates) /\ Len(calls) = 0 /\ Len(fate) = 0
    BY DEF Init
  <2>. QED
    BY <2>1 DEF Init, TrackTypes, IsSequence, None
<1>2. Len(calls) = 0 /\ DOMAIN calls = {} /\ \A g \in Goroutines : DOMAIN stack[g] = {}
  BY DEF Init
<1>3. StackInv /\ RecordInv /\ ScInv /\ ReportInv
  BY <1>2 DEF Init, StackInv, RecordInv, ScInv, ReportInv
<1>4. ReportedOnce /\ WrongReportsExplained /\ EntriesExplained /\ LatestServerHeld
  BY <1>2 DEF Init, ReportedOnce, WrongReportsExplained, EntriesExplained, LatestServerHeld
<1>. QED
  BY <1>1, <1>3, <1>4 DEF TrackInv

\* A full map refuses a new key; an old one is always replaced.
LEMMA UpdatedCases ==
    ASSUME NEW m, NEW k, NEW v, NEW limit
    PROVE  \/ Updated(m, k, v, limit) = [m EXCEPT ![k] = v]
           \/ m[k] = None /\ Updated(m, k, v, limit) = m
BY DEF Updated

LEMMA SequenceDomain ==
    ASSUME NEW s, IsSequence(s)
    PROVE  DOMAIN s = 1..Len(s) /\ Len(s) \in Nat
BY DEF IsSequence

LEMMA TrackEnter ==
    ASSUME TrackInv, NEW g \in Goroutines, NEW lib \in Libs, NEW ctx \in Contexts,
           NEW goid \in GoidsOf(g), NEW parent, Enter(g, lib, ctx, goid, parent)
    PROVE  TrackInv'
<1>. DEFINE c == Len(calls) + 1
            call == [g |-> g, goid |-> goid, lib |-> lib, ctx |-> ctx, parent |-> parent]
<1>0. goid \in {g, Zero} /\ goid \in Goids
  BY DEF GoidsOf, Goids
<1>1. TrackTypes /\ StackInv /\ RecordInv /\ ScInv /\ ReportInv
  BY DEF TrackInv
<1>7. /\ Len(calls) \in Nat /\ DOMAIN calls = 1..Len(calls)
      /\ c \in Nat /\ c > 0 /\ c \in 1..c
      /\ \A i \in 1..Len(calls) : i \in 1..c /\ i < c /\ i # c
      /\ \A i \in 1..c : i = c \/ i \in 1..Len(calls)
  <2>1. Len(calls) \in Nat /\ DOMAIN calls = 1..Len(calls)
    BY <1>1, SequenceDomain DEF TrackTypes
  <2>. QED
    BY <2>1
<1>2. /\ stack' = [stack EXCEPT ![g] = Append(@, c)]
      /\ calls' = Append(calls, call)
      /\ fate' = Append(fate, "open")
      /\ reports' = reports
      /\ trackedBySc' \in {trackedBySc, trackedBySc \cup {c}}
      /\ lib \notin Servers => goroutineSc' = goroutineSc /\ refused' = refused
      /\ lib \in Servers => refused' = IF goroutineSc'[goid] # c THEN refused \cup {c} ELSE refused
      /\ lost' = lost \cup ({inFlight[lib][g], c} \ {None, inFlight'[lib][g]})
  BY DEF Enter
<1>3. /\ inFlight' \in [Libs -> [Goroutines -> Nat]]
      /\ \A l \in Libs, k \in Goroutines :
            l # lib \/ k # g => inFlight'[l][k] = inFlight[l][k]
      /\ inFlight'[lib][g] = c \/ (inFlight[lib][g] = None /\ inFlight'[lib][g] = None)
  <2>1. inFlight' = [inFlight EXCEPT ![lib] =
                        Updated(inFlight[lib], g, c, MaxConcurrent[lib])]
    BY DEF Enter
  <2>2. \/ Updated(inFlight[lib], g, c, MaxConcurrent[lib]) = [inFlight[lib] EXCEPT ![g] = c]
        \/ /\ inFlight[lib][g] = None
           /\ Updated(inFlight[lib], g, c, MaxConcurrent[lib]) = inFlight[lib]
    BY UpdatedCases
  <2>3. inFlight[lib] \in [Goroutines -> Nat]
    BY <1>1 DEF TrackTypes
  <2>. DEFINE slots == Updated(inFlight[lib], g, c, MaxConcurrent[lib])
  <2>4. /\ slots \in [Goroutines -> Nat]
        /\ \A k \in Goroutines : k # g => slots[k] = inFlight[lib][k]
        /\ slots[g] = c \/ (inFlight[lib][g] = None /\ slots[g] = None)
    BY <1>7, <2>2, <2>3
  <2>5. inFlight' = [inFlight EXCEPT ![lib] = slots]
    BY <2>1
  <2>. HIDE DEF slots
  <2>. QED
    BY <1>1, <2>4, <2>5 DEF TrackTypes
<1>4. /\ goroutineSc' \in [Goids -> Nat]
      /\ \A k \in Goids : k # goid => goroutineSc'[k] = goroutineSc[k]
      /\ lib \in Servers => \/ goroutineSc'[goid] = c
                            \/ goroutineSc[goid] = None /\ goroutineSc'[goid] = None
      /\ lib \notin Servers => goroutineSc'[goid] = goroutineSc[goid]
  <2>1. lib \in Servers => goroutineSc' = Updated(goroutineSc, goid, c, MaxSystemThreads)
    BY DEF Enter
  <2>2. \/ Updated(goroutineSc, goid, c, MaxSystemThreads) = [goroutineSc EXCEPT ![goid] = c]
        \/ /\ goroutineSc[goid] = None
           /\ Updated(goroutineSc, goid, c, MaxSystemThreads) = goroutineSc
    BY UpdatedCases
  <2>. QED
    BY <1>0, <1>1, <1>2, <1>7, <2>1, <2>2 DEF TrackTypes
<1>5. /\ IsSequence(calls') /\ Len(calls') = c
      /\ \A i \in 1..Len(calls) : calls'[i] = calls[i]
      /\ calls'[c].g = g /\ calls'[c].goid = goid /\ calls'[c].lib = lib
  <2>1. PICK S : calls \in Seq(S)
    BY <1>1 DEF TrackTypes, IsSequence
  <2>2. calls \in Seq(S \cup {call}) /\ call \in S \cup {call}
    BY <2>1
  <2>3. /\ calls' \in Seq(S \cup {call}) /\ Len(calls') = c
        /\ \A i \in 1..Len(calls) : calls'[i] = calls[i]
        /\ calls'[c] = call
    BY <1>2, <2>2
  <2>. QED
    BY <2>3 DEF IsSequence
<1>6. /\ fate' \in Seq(Fates) /\ Len(fate') = c
      /\ \A i \in 1..Len(calls) : fate'[i] = fate[i]
      /\ fate'[c] = "open"
  BY <1>1, <1>2 DEF TrackTypes, Fates
<1>9. /\ stack' \in [Goroutines -> Seq(Nat)]
      /\ \A k \in Goroutines : k # g => stack'[k] = stack[k]
      /\ Len(stack'[g]) = Len(stack[g]) + 1 /\ stack'[g][Len(stack[g]) + 1] = c
      /\ \A i \in DOMAIN stack[g] : i \in DOMAIN stack'[g] /\ stack'[g][i] = stack[g][i]
      /\ DOMAIN stack'[g] = 1..Len(stack[g]) + 1 /\ DOMAIN stack[g] = 1..Len(stack[g])
      /\ Len(stack[g]) \in Nat /\ Len(stack[g]) + 1 \in DOMAIN stack'[g]
  BY <1>1, <1>2, <1>7 DEF TrackTypes
<1>. HIDE DEF c, call
<1>10. TrackTypes'
  BY <1>0, <1>1, <1>3, <1>4, <1>5, <1>6, <1>7, <1>9 DEF TrackTypes
<1>11. StackInv'
  <2>1. ASSUME NEW k \in Goroutines, NEW i \in DOMAIN stack'[k]
        PROVE  /\ stack'[k][i] \in 1..c
               /\ calls'[stack'[k][i]].g = k
               /\ fate'[stack'[k][i]] = "open"
               /\ \A j \in DOMAIN stack'[k] : i < j => stack'[k][i] < stack'[k][j]
    <3>1. CASE k # g
      <4>1. stack'[k] = stack[k]
        BY <1>9, <3>1
      <4>2. /\ stack[k][i] \in 1..Len(calls)
            /\ calls[stack[k][i]].g = k
            /\ fate[stack[k][i]] = "open"
            /\ \A j \in DOMAIN stack[k] : i < j => stack[k][i] < stack[k][j]
        BY <1>1, <2>1, <4>1 DEF StackInv
      <4>. QED
        BY <1>5, <1>6, <1>7, <4>1, <4>2
    <3>2. CASE k = g /\ i \in DOMAIN stack[g]
      <4>1. \A j \in DOMAIN stack'[g] : j \in DOMAIN stack[g] \/ stack'[g][j] = c
        BY <1>9
      <4>2. /\ stack[g][i] \in 1..Len(calls)
            /\ calls[stack[g][i]].g = g
            /\ fate[stack[g][i]] = "open"
            /\ \A j \in DOMAIN stack[g] : i < j => stack[g][i] < stack[g][j]
        BY <1>1, <3>2 DEF StackInv
      <4>3. \A j \in DOMAIN stack'[g] : i < j => stack'[g][i] < stack'[g][j]
        BY <1>7, <1>9, <3>2, <4>1, <4>2
      <4>. QED
        BY <1>5, <1>6, <1>7, <1>9, <3>2, <4>2, <4>3
    <3>3. CASE k = g /\ i = Len(stack[g]) + 1
      BY <1>5, <1>6, <1>7, <1>9, <3>3
    <3>. QED
      BY <1>9, <2>1, <3>1, <3>2, <3>3
  <2>2. ASSUME NEW d \in 1..c, fate'[d] = "open"
        PROVE  \E i \in DOMAIN stack'[calls'[d].g] : stack'[calls'[d].g][i] = d
    <3>1. CASE d = c
      BY <1>5, <1>9, <3>1
    <3>2. CASE d \in 1..Len(calls)
      <4>1. PICK i \in DOMAIN stack[calls[d].g] : stack[calls[d].g][i] = d
        BY <1>1, <1>6, <2>2, <3>2 DEF StackInv
      <4>2. calls[d].g \in Goroutines /\ calls'[d] = calls[d]
        BY <1>1, <1>5, <3>2 DEF TrackTypes
      <4>. QED
        BY <1>9, <4>1, <4>2
    <3>. QED
      BY <1>7, <3>1, <3>2
  <2>. QED
    BY <1>5, <2>1, <2>2 DEF StackInv
<1>12. RecordInv'
  <2>1. lost' \subseteq 1..c
    <3>1. inFlight[lib][g] = None \/ inFlight[lib][g] \in 1..Len(calls)
      BY <1>1 DEF RecordInv
    <3>2. \A d \in lost' : d \in lost \/ d = c \/ d \in 1..Len(calls)
      BY <1>2, <3>1
    <3>. QED
      BY <1>1, <1>7, <3>2 DEF RecordInv
  <2>2. ASSUME NEW l \in Libs, NEW k \in Goroutines, inFlight'[l][k] # None
        PROVE  /\ inFlight'[l][k] \in 1..c
               /\ calls'[inFlight'[l][k]].g = k
               /\ calls'[inFlight'[l][k]].lib = l
               /\ fate'[inFlight'[l][k]] # "returned"
    <3>1. CASE l = lib /\ k = g
      BY <1>3, <1>5, <1>6, <1>7, <2>2, <3>1
    <3>2. CASE l # lib \/ k # g
      <4>1. inFlight'[l][k] = inFlight[l][k]
        BY <1>3, <3>2
      <4>2. /\ inFlight[l][k] \in 1..Len(calls)
            /\ calls[inFlight[l][k]].g = k
            /\ calls[inFlight[l][k]].lib = l
            /\ fate[inFlight[l][k]] # "returned"
        BY <1>1, <2>2, <4>1 DEF RecordInv
      <4>. QED
        BY <1>5, <1>6, <1>7, <4>1, <4>2
    <3>. QED
      BY <3>1, <3>2
  <2>3. ASSUME NEW d \in 1..c, fate'[d] = "open"
        PROVE  \/ inFlight'[calls'[d].lib][calls'[d].g] = d
               \/ /\ d \in lost'
                  /\ \/ inFlight'[calls'[d].lib][calls'[d].g] = None
                     \/ inFlight'[calls'[d].lib][calls'[d].g] > d
    <3>1. CASE d = c
      BY <1>2, <1>3, <1>5, <1>7, <3>1 DEF None
    <3>2. CASE d \in 1..Len(calls) /\ calls[d].lib = lib /\ calls[d].g = g
      <4>1. calls'[d] = calls[d] /\ fate[d] = "open" /\ d < c /\ d \in Nat /\ c # None
        BY <1>5, <1>6, <1>7, <2>3, <3>2 DEF None
      <4>2. \/ inFlight[lib][g] = d
            \/ d \in lost /\ (inFlight[lib][g] = None \/ inFlight[lib][g] > d)
        BY <1>1, <3>2, <4>1 DEF RecordInv
      <4>3. inFlight'[lib][g] = c \/ inFlight[lib][g] = None
        BY <1>3
      <4>4. d # None
        BY <1>7, <3>2 DEF None
      <4>5. CASE inFlight'[lib][g] = c
        BY <1>2, <3>2, <4>1, <4>2, <4>4, <4>5
      <4>6. CASE inFlight[lib][g] = None /\ inFlight'[lib][g] = None
        BY <1>2, <3>2, <4>1, <4>2, <4>4, <4>6
      <4>. QED
        BY <1>3, <4>5, <4>6
    <3>3. CASE d \in 1..Len(calls) /\ ~(calls[d].lib = lib /\ calls[d].g = g)
      <4>1. calls'[d] = calls[d] /\ fate[d] = "open"
        BY <1>5, <1>6, <2>3, <3>3
      <4>2. calls[d].lib \in Libs /\ calls[d].g \in Goroutines
        BY <1>1, <3>3 DEF TrackTypes
      <4>3. inFlight'[calls[d].lib][calls[d].g] = inFlight[calls[d].lib][calls[d].g]
        BY <1>3, <3>3, <4>2
      <4>. QED
        BY <1>1, <1>2, <3>3, <4>1, <4>3 DEF RecordInv
    <3>. QED
      BY <1>7, <3>1, <3>2, <3>3
  <2>. QED
    BY <1>5, <2>1, <2>2, <2>3 DEF RecordInv
<1>13. ScInv'
  <2>1. trackedBySc' \subseteq 1..c
    BY <1>1, <1>2, <1>7 DEF ScInv
  <2>2. ASSUME NEW k \in Goids, goroutineSc'[k] # None
        PROVE  /\ goroutineSc'[k] \in 1..c
               /\ calls'[goroutineSc'[k]].goid = k
               /\ calls'[goroutineSc'[k]].lib \in Servers
    <3>1. goroutineSc'[k] = goroutineSc[k] \/ (k = goid /\ lib \in Servers /\ goroutineSc'[k] = c)
      BY <1>4, <2>2
    <3>. QED
      BY <1>1, <1>5, <1>7, <2>2, <3>1 DEF ScInv
  <2>. QED
    BY <1>5, <2>1, <2>2 DEF ScInv
<1>14. ReportInv'
  BY <1>1, <1>2, <1>3, <1>5, <1>6, <1>7 DEF ReportInv
<1>15. ReportedOnce'
  BY <1>2 DEF TrackInv, ReportedOnce
<1>16. WrongReportsExplained'
  BY <1>1, <1>2, <1>5, <1>6 DEF TrackInv, WrongReportsExplained, ReportInv
<1>17. EntriesExplained'
  <2>1. SUFFICES ASSUME NEW d \in 1..c, fate'[d] = "returned", d \notin lost'
                 PROVE  /\ \A l \in Libs, k \in Goroutines : inFlight'[l][k] # d
                        /\ \A k \in Goids : goroutineSc'[k] # d
                        /\ d \notin trackedBySc'
    BY <1>5, <1>10 DEF EntriesExplained, TrackTypes, IsSequence
  <2>2. d \in 1..Len(calls) /\ d # c /\ d # None /\ fate[d] = "returned" /\ d \notin lost
    BY <1>2, <1>6, <1>7, <2>1 DEF None
  <2>3. /\ \A l \in Libs, k \in Goroutines : inFlight[l][k] # d
        /\ \A k \in Goids : goroutineSc[k] # d
        /\ d \notin trackedBySc
    BY <1>7, <2>2 DEF TrackInv, EntriesExplained
  <2>. QED
    BY <1>2, <1>3, <1>4, <2>2, <2>3
<1>18. DOMAIN calls' = 1..c /\ Len(calls') = c
  BY <1>5 DEF IsSequence
<1>19. LatestServerHeld'
  <2>1. SUFFICES ASSUME NEW d \in 1..c, calls'[d].lib \in Servers, fate'[d] = "open",
                        d \notin refused', calls'[d].goid # Zero,
                        \A e \in d + 1..c :
                            ~(calls'[e].goid = calls'[d].goid /\ calls'[e].lib \in Servers)
                 PROVE  goroutineSc'[calls'[d].goid] = d
    BY <1>18 DEF LatestServerHeld
  <2>2. CASE d = c
    BY <1>2, <1>4, <1>5, <2>1, <2>2
  <2>3. CASE d \in 1..Len(calls)
    <3>1. ~(calls[d].goid = goid /\ lib \in Servers)
      BY <1>5, <1>7, <2>1, <2>3
    <3>2. \A e \in d + 1..Len(calls) :
              ~(calls[e].goid = calls[d].goid /\ calls[e].lib \in Servers)
      BY <1>5, <1>7, <2>1, <2>3
    <3>3. d \notin refused
      BY <1>2, <2>1
    <3>4. goroutineSc[calls[d].goid] = d
      <4>1. calls[d].lib \in Servers /\ fate[d] = "open" /\ calls[d].goid # Zero
        BY <1>5, <1>6, <2>1, <2>3
      <4>. QED
        BY <1>7, <2>3, <3>2, <3>3, <4>1 DEF TrackInv, LatestServerHeld
    <3>. QED
      <4>1. calls[d].goid \in Goids
        BY <1>1, <2>3 DEF TrackTypes, Goids
      <4>. QED
        BY <1>0, <1>4, <1>5, <2>3, <3>1, <3>4, <4>1
  <2>. QED
    BY <1>7, <2>2, <2>3
<1>. QED
  BY <1>10, <1>11, <1>12, <1>13, <1>14, <1>15, <1>16, <1>17, <1>19 DEF TrackInv

\* The innermost call of g is over, one way or the other.
Innermost(g) == stack[g][Len(stack[g])]

LEMMA InnermostIsLast ==
    ASSUME TrackTypes, StackInv, NEW g \in Goroutines, stack[g] # <<>>
    PROVE  /\ Len(stack[g]) \in DOMAIN stack[g]
           /\ Innermost(g) \in 1..Len(calls) /\ Innermost(g) \in Nat
           /\ calls[Innermost(g)].g = g /\ calls[Innermost(g)].lib \in Libs
           /\ fate[Innermost(g)] = "open"
           /\ \A d \in 1..Len(calls) :
                 fate[d] = "open" /\ calls[d].g = g => d <= Innermost(g)
<1>1. stack[g] \in Seq(Nat) /\ Len(stack[g]) \in Nat /\ DOMAIN stack[g] = 1..Len(stack[g])
  BY DEF TrackTypes
<1>2. Len(stack[g]) \in DOMAIN stack[g]
  BY <1>1
<1>3. /\ Innermost(g) \in 1..Len(calls)
      /\ calls[Innermost(g)].g = g
      /\ fate[Innermost(g)] = "open"
  BY <1>2 DEF StackInv, Innermost
<1>4. calls[Innermost(g)].lib \in Libs
  BY <1>3 DEF TrackTypes
<1>5. Len(calls) \in Nat
  BY SequenceDomain DEF TrackTypes
<1>6. ASSUME NEW d \in 1..Len(calls), fate[d] = "open", calls[d].g = g
      PROVE  d <= Innermost(g)
  <2>1. PICK i \in DOMAIN stack[g] : stack[g][i] = d
    BY <1>6 DEF StackInv
  <2>2. CASE i = Len(stack[g])
    BY <1>3, <1>5, <2>1, <2>2 DEF Innermost
  <2>3. CASE i < Len(stack[g])
    <3>1. stack[g][i] < stack[g][Len(stack[g])]
      BY <1>2, <2>3 DEF StackInv
    <3>. QED
      BY <1>3, <1>5, <2>1, <3>1 DEF Innermost
  <2>. QED
    BY <1>1, <2>2, <2>3
<1>. QED
  BY <1>2, <1>3, <1>4, <1>5, <1>6

LEMMA StackPops ==
    ASSUME TrackTypes, StackInv, NEW g \in Goroutines, stack[g] # <<>>,
           NEW f \in {"returned", "unwound"},
           stack' = [stack EXCEPT ![g] = SubSeq(@, 1, Len(@) - 1)],
           fate' = [fate EXCEPT ![Innermost(g)] = f],
           calls' = calls
    PROVE  /\ StackInv'
           /\ stack' \in [Goroutines -> Seq(Nat)]
           /\ fate' \in Seq(Fates) /\ Len(fate') = Len(calls)
           /\ fate'[Innermost(g)] = f
           /\ \A d \in 1..Len(calls) : d # Innermost(g) => fate'[d] = fate[d]
<1>1. stack[g] \in Seq(Nat) /\ Len(stack[g]) \in Nat /\ DOMAIN stack[g] = 1..Len(stack[g])
  BY DEF TrackTypes
<1>2. /\ Len(stack[g]) \in DOMAIN stack[g]
      /\ Innermost(g) \in 1..Len(calls)
  BY InnermostIsLast
<1>3. /\ stack' \in [Goroutines -> Seq(Nat)]
      /\ \A k \in Goroutines : k # g => stack'[k] = stack[k]
      /\ DOMAIN stack'[g] = 1..Len(stack[g]) - 1
      /\ \A i \in DOMAIN stack'[g] : i \in DOMAIN stack[g] /\ stack'[g][i] = stack[g][i]
      /\ \A i \in DOMAIN stack[g] : i \in DOMAIN stack'[g] \/ i = Len(stack[g])
  BY <1>1, <1>2 DEF TrackTypes
<1>4. fate \in Seq(Fates) /\ Len(fate) = Len(calls) /\ f \in Fates
  BY DEF TrackTypes, Fates
<1>5. /\ fate' \in Seq(Fates) /\ Len(fate') = Len(calls)
      /\ fate'[Innermost(g)] = f
      /\ \A d \in 1..Len(calls) : d # Innermost(g) => fate'[d] = fate[d]
  BY <1>2, <1>4
<1>6. ASSUME NEW k \in Goroutines, NEW i \in DOMAIN stack'[k]
      PROVE  /\ stack'[k][i] \in 1..Len(calls)
             /\ calls[stack'[k][i]].g = k
             /\ fate'[stack'[k][i]] = "open"
             /\ \A j \in DOMAIN stack'[k] : i < j => stack'[k][i] < stack'[k][j]
  <2>1. /\ i \in DOMAIN stack[k] /\ stack'[k][i] = stack[k][i]
        /\ \A j \in DOMAIN stack'[k] : j \in DOMAIN stack[k] /\ stack'[k][j] = stack[k][j]
    BY <1>3, <1>6
  <2>2. /\ stack[k][i] \in 1..Len(calls)
        /\ calls[stack[k][i]].g = k
        /\ fate[stack[k][i]] = "open"
        /\ \A j \in DOMAIN stack[k] : i < j => stack[k][i] < stack[k][j]
    BY <2>1 DEF StackInv
  <2>3. stack[k][i] # Innermost(g)
    <3>1. CASE k # g
      BY <1>2, <2>2, <3>1, InnermostIsLast
    <3>2. CASE k = g
      <4>1. i < Len(stack[g])
        BY <1>1, <1>3, <1>6, <3>2
      <4>2. stack[g][i] < Innermost(g)
        BY <1>2, <2>2, <3>2, <4>1 DEF Innermost
      <4>3. Innermost(g) \in Nat /\ stack[g][i] \in Nat
        BY <1>1, <2>1, <3>2, InnermostIsLast
      <4>. QED
        BY <3>2, <4>2, <4>3
    <3>. QED
      BY <3>1, <3>2
  <2>. QED
    BY <1>5, <2>1, <2>2, <2>3
<1>7. ASSUME NEW d \in 1..Len(calls), fate'[d] = "open"
      PROVE  \E i \in DOMAIN stack'[calls[d].g] : stack'[calls[d].g][i] = d
  <2>1. d # Innermost(g) /\ fate[d] = "open"
    BY <1>5, <1>7
  <2>2. PICK i \in DOMAIN stack[calls[d].g] : stack[calls[d].g][i] = d
    BY <2>1 DEF StackInv
  <2>3. calls[d].g \in Goroutines
    BY DEF TrackTypes
  <2>4. CASE calls[d].g # g
    BY <1>3, <2>2, <2>3, <2>4
  <2>5. CASE calls[d].g = g
    BY <1>3, <2>1, <2>2, <2>5 DEF Innermost
  <2>. QED
    BY <2>4, <2>5
<1>8. StackInv'
  BY <1>6, <1>7 DEF StackInv
<1>. QED
  BY <1>3, <1>5, <1>8

LEMMA TrackReturn ==
    ASSUME TrackInv, NEW g \in Goroutines, ServerReturns(g) \/ ClientReturns(g)
    PROVE  TrackInv'
<1>. DEFINE c == Innermost(g)
            lib == calls[c].lib
            record == inFlight[lib][g]
<1>1. TrackTypes /\ StackInv /\ RecordInv /\ ScInv /\ ReportInv
  BY DEF TrackInv
<1>2. /\ stack[g] # <<>>
      /\ stack' = [stack EXCEPT ![g] = SubSeq(@, 1, Len(@) - 1)]
      /\ fate' = [fate EXCEPT ![c] = "returned"]
      /\ reports' = reports \cup {[by |-> c, of |-> record]}
      /\ inFlight' = [inFlight EXCEPT ![lib][g] = None]
      /\ trackedBySc' = trackedBySc \ {record}
      /\ goroutineSc' = IF lib \in Servers THEN Forgotten(record) ELSE goroutineSc
      /\ calls' = calls /\ lost' = lost /\ refused' = refused
  BY DEF ServerReturns, ClientReturns, Report, Innermost, RecordDeleted, StopTracking, Held
<1>3. /\ c \in 1..Len(calls) /\ c \in Nat
      /\ calls[c].g = g /\ lib \in Libs
      /\ fate[c] = "open"
      /\ \A d \in 1..Len(calls) : fate[d] = "open" /\ calls[d].g = g => d <= c
  BY <1>1, <1>2, InnermostIsLast
<1>4. /\ StackInv'
      /\ stack' \in [Goroutines -> Seq(Nat)]
      /\ fate' \in Seq(Fates) /\ Len(fate') = Len(calls)
      /\ fate'[c] = "returned"
      /\ \A d \in 1..Len(calls) : d # c => fate'[d] = fate[d]
  BY <1>1, <1>2, StackPops
<1>5. Len(calls) \in Nat /\ DOMAIN calls = 1..Len(calls)
  BY <1>1, SequenceDomain DEF TrackTypes
<1>6. /\ record # None => /\ record \in 1..Len(calls) /\ record \in Nat
                          /\ calls[record].g = g
                          /\ calls[record].lib = lib
                          /\ fate[record] # "returned"
      /\ record = c \/ (c \in lost /\ (record = None \/ record > c))
  BY <1>1, <1>3, <1>5 DEF RecordInv
<1>7. /\ inFlight' \in [Libs -> [Goroutines -> Nat]]
      /\ inFlight'[lib][g] = None
      /\ \A l \in Libs, k \in Goroutines : l # lib \/ k # g => inFlight'[l][k] = inFlight[l][k]
  <2>1. inFlight \in [Libs -> [Goroutines -> Nat]] /\ None \in Nat
    BY <1>1 DEF TrackTypes, None
  <2>. HIDE DEF lib, record
  <2>. QED
    BY <1>2, <1>3, <2>1
<1>8. /\ goroutineSc' \in [Goids -> Nat]
      /\ \A k \in Goids :
            goroutineSc'[k] = IF /\ lib \in Servers
                                 /\ k = IF record = None THEN Zero ELSE calls[record].goid
                              THEN None ELSE goroutineSc[k]
  <2>. HIDE DEF c, lib, record
  <2>1. goroutineSc' = IF lib \in Servers
                       THEN [goroutineSc EXCEPT
                               ![IF record = None THEN Zero ELSE calls[record].goid] = None]
                       ELSE goroutineSc
    BY <1>2 DEF Forgotten
  <2>2. goroutineSc \in [Goids -> Nat] /\ None \in Nat
    BY <1>1 DEF TrackTypes, None
  <2>. QED
    BY <2>1, <2>2
<1>. HIDE DEF c, lib, record
<1>9. /\ lib = calls[c].lib /\ record = inFlight[lib][g] /\ c # None
      /\ \A d \in 1..Len(calls) : fate'[d] = "open" => d # c /\ fate[d] = "open"
      /\ \A d \in 1..Len(calls) : fate[d] # "open" => fate'[d] = fate[d]
  BY <1>3, <1>4 DEF c, lib, record, None
\* A record of another call than the one that returns is of one that panicked inside.
<1>10. record # c => c \in lost /\ (record # None => record > c /\ fate[record] = "unwound")
  <2>1. SUFFICES ASSUME record # c, record # None PROVE record > c /\ fate[record] = "unwound"
    BY <1>6
  <2>2. record > c /\ fate[record] # "open"
    BY <1>3, <1>6, <2>1
  <2>3. fate[record] \in Fates
    BY <1>1, <1>6, <2>1 DEF TrackTypes
  <2>. QED
    BY <1>6, <2>1, <2>2, <2>3 DEF Fates
<1>11. TrackTypes'
  BY <1>1, <1>2, <1>4, <1>7, <1>8 DEF TrackTypes
<1>12. RecordInv'
  <2>1. ASSUME NEW l \in Libs, NEW k \in Goroutines, inFlight'[l][k] # None
        PROVE  /\ inFlight'[l][k] \in 1..Len(calls)
               /\ calls[inFlight'[l][k]].g = k
               /\ calls[inFlight'[l][k]].lib = l
               /\ fate'[inFlight'[l][k]] # "returned"
    <3>1. (l # lib \/ k # g) /\ inFlight'[l][k] = inFlight[l][k]
      BY <1>7, <2>1
    <3>2. /\ inFlight[l][k] \in 1..Len(calls)
          /\ calls[inFlight[l][k]].g = k
          /\ calls[inFlight[l][k]].lib = l
          /\ fate[inFlight[l][k]] # "returned"
      BY <1>1, <2>1, <3>1 DEF RecordInv
    <3>3. inFlight[l][k] # c
      BY <1>3, <1>9, <3>1, <3>2
    <3>. QED
      BY <1>4, <3>1, <3>2, <3>3
  <2>2. ASSUME NEW d \in 1..Len(calls), fate'[d] = "open"
        PROVE  \/ inFlight'[calls[d].lib][calls[d].g] = d
               \/ /\ d \in lost
                  /\ \/ inFlight'[calls[d].lib][calls[d].g] = None
                     \/ inFlight'[calls[d].lib][calls[d].g] > d
    <3>1. d # c /\ fate[d] = "open"
      BY <1>9, <2>2
    <3>2. \/ inFlight[calls[d].lib][calls[d].g] = d
          \/ /\ d \in lost
             /\ \/ inFlight[calls[d].lib][calls[d].g] = None
                \/ inFlight[calls[d].lib][calls[d].g] > d
      BY <1>1, <3>1 DEF RecordInv
    <3>3. calls[d].lib \in Libs /\ calls[d].g \in Goroutines
      BY <1>1 DEF TrackTypes
    <3>4. CASE calls[d].lib = lib /\ calls[d].g = g
      <4>1. d < c /\ d # None
        BY <1>3, <1>5, <3>1, <3>4 DEF None
      <4>2. record = None \/ record = c \/ (record \in Nat /\ record > c)
        BY <1>6
      <4>3. record # d
        BY <1>3, <1>5, <4>1, <4>2
      <4>. QED
        BY <1>7, <1>9, <3>2, <3>4, <4>3
    <3>5. CASE ~(calls[d].lib = lib /\ calls[d].g = g)
      BY <1>7, <3>2, <3>3, <3>5
    <3>. QED
      BY <3>4, <3>5
  <2>. QED
    BY <1>1, <1>2, <2>1, <2>2 DEF RecordInv
<1>13. ScInv'
  <2>1. trackedBySc' \subseteq 1..Len(calls)
    BY <1>1, <1>2 DEF ScInv
  <2>2. ASSUME NEW k \in Goids, goroutineSc'[k] # None
        PROVE  goroutineSc'[k] = goroutineSc[k]
    BY <1>8, <2>2
  <2>. QED
    BY <1>1, <1>2, <2>1, <2>2 DEF ScInv
<1>14. \A l \in Libs, k \in Goroutines : \A d : inFlight'[l][k] = d /\ d # None => inFlight[l][k] = d
  BY <1>7
<1>15. ReportInv'
  <2>1. SUFFICES ASSUME NEW r \in reports'
                 PROVE  /\ r.by \in 1..Len(calls)
                        /\ r.of # None =>
                              /\ r.of \in 1..Len(calls)
                              /\ fate'[r.of] # "open"
                              /\ \A l \in Libs, k \in Goroutines : inFlight'[l][k] # r.of
    BY <1>2 DEF ReportInv
  <2>2. CASE r \in reports
    BY <1>1, <1>9, <1>14, <2>2 DEF ReportInv
  <2>3. CASE r = [by |-> c, of |-> record]
    <3>1. r.by = c /\ r.of = record
      BY <2>3
    <3>2. record # None => fate'[record] # "open"
      BY <1>4, <1>6, <1>10, <1>9
    <3>3. ASSUME record # None, NEW l \in Libs, NEW k \in Goroutines
          PROVE  inFlight'[l][k] # record
      <4>1. CASE l = lib /\ k = g
        BY <1>7, <3>3, <4>1
      <4>2. CASE l # lib \/ k # g
        <5>1. inFlight'[l][k] = inFlight[l][k]
          BY <1>7, <4>2
        <5>. QED
          BY <1>1, <1>6, <3>3, <4>2, <5>1 DEF RecordInv
      <4>. QED
        BY <4>1, <4>2
    <3>. QED
      BY <1>3, <1>6, <3>1, <3>2, <3>3
  <2>. QED
    BY <1>2, <2>1, <2>2, <2>3
<1>16. ReportedOnce'
  <2>1. \A r \in reports : r.of # None => r.of # record
    BY <1>1, <1>3, <1>9 DEF ReportInv
  <2>. QED
    BY <1>2, <2>1 DEF TrackInv, ReportedOnce
<1>17. WrongReportsExplained'
  <2>1. ASSUME NEW r \in reports, r.of # r.by
        PROVE  /\ r.by \in lost
               /\ r.of # None => /\ r.of > r.by /\ fate'[r.of] = "unwound"
                                 /\ calls[r.of].g = calls[r.by].g
                                 /\ calls[r.of].lib = calls[r.by].lib
    <3>1. r.of # None => r.of \in 1..Len(calls) /\ fate[r.of] # "open"
      BY <1>1 DEF ReportInv
    <3>. QED
      BY <1>9, <2>1, <3>1 DEF TrackInv, WrongReportsExplained
  <2>2. record # c => /\ c \in lost
                      /\ record # None => /\ record > c /\ fate'[record] = "unwound"
                                          /\ calls[record].g = calls[c].g
                                          /\ calls[record].lib = calls[c].lib
    BY <1>3, <1>6, <1>9, <1>10
  <2>. QED
    BY <1>2, <2>1, <2>2 DEF WrongReportsExplained
<1>18. EntriesExplained'
  <2>1. SUFFICES ASSUME NEW d \in 1..Len(calls), fate'[d] = "returned", d \notin lost
                 PROVE  /\ \A l \in Libs, k \in Goroutines : inFlight'[l][k] # d
                        /\ \A k \in Goids : goroutineSc'[k] # d
                        /\ d \notin trackedBySc'
    BY <1>2, <1>5 DEF EntriesExplained
  <2>2. CASE d # c
    <3>1. fate[d] = "returned" /\ d # None
      BY <1>4, <1>5, <2>1, <2>2 DEF None
    <3>2. /\ \A l \in Libs, k \in Goroutines : inFlight[l][k] # d
          /\ \A k \in Goids : goroutineSc[k] # d
          /\ d \notin trackedBySc
      BY <1>5, <2>1, <3>1 DEF TrackInv, EntriesExplained
    <3>. QED
      BY <1>2, <1>8, <1>14, <3>1, <3>2
  <2>3. CASE d = c
    <3>1. record = c
      BY <1>6, <2>1, <2>3
    <3>2. \A l \in Libs, k \in Goroutines : inFlight'[l][k] # c
      BY <1>3, <1>9, <1>11, <1>12, <1>4, <1>2 DEF RecordInv
    <3>3. ASSUME NEW k \in Goids PROVE goroutineSc'[k] # c
      <4>1. goroutineSc[k] = c => k = calls[c].goid /\ lib \in Servers
        BY <1>1, <1>3, <1>9 DEF ScInv
      <4>. QED
        BY <1>8, <1>9, <3>1, <4>1
    <3>. QED
      BY <1>2, <2>3, <3>1, <3>2, <3>3
  <2>. QED
    BY <2>2, <2>3
<1>19. LatestServerHeld'
  <2>1. SUFFICES ASSUME NEW d \in 1..Len(calls), calls[d].lib \in Servers, fate'[d] = "open",
                        d \notin refused, calls[d].goid # Zero,
                        \A e \in d + 1..Len(calls) :
                            ~(calls[e].goid = calls[d].goid /\ calls[e].lib \in Servers)
                 PROVE  goroutineSc'[calls[d].goid] = d
    BY <1>2, <1>5 DEF LatestServerHeld
  <2>2. d # c /\ fate[d] = "open" /\ calls[d].goid \in Goids /\ calls[d].goid = calls[d].g
    BY <1>1, <1>9, <2>1 DEF TrackTypes, Goids
  <2>3. goroutineSc[calls[d].goid] = d
    BY <1>5, <2>1, <2>2 DEF TrackInv, LatestServerHeld
  \* The record forgotten is not d's, nor that of a server's call with d's goroutine id.
  <2>4. ~(lib \in Servers /\ record # None /\ calls[record].goid = calls[d].goid)
    <3>1. SUFFICES ASSUME lib \in Servers, record # None, calls[record].goid = calls[d].goid
                   PROVE  FALSE
      OBVIOUS
    <3>2. calls[record].g = g /\ calls[record].lib = lib /\ record \in 1..Len(calls)
      BY <1>6, <3>1
    <3>3. calls[d].g = g
      BY <1>1, <2>1, <2>2, <3>1, <3>2 DEF TrackTypes
    <3>4. d < c /\ (record = c \/ record > c)
      BY <1>3, <1>5, <1>6, <2>2, <3>1, <3>3
    <3>5. record \in d + 1..Len(calls)
      BY <1>3, <1>5, <3>2, <3>4
    <3>. QED
      BY <2>1, <3>1, <3>2, <3>5
  <2>. QED
    BY <1>8, <2>1, <2>2, <2>3, <2>4
<1>. QED
  BY <1>4, <1>11, <1>12, <1>13, <1>15, <1>16, <1>17, <1>18, <1>19 DEF TrackInv

LEMMA TrackUnwind ==
    ASSUME TrackInv, NEW g \in Goroutines, Unwind(g)
    PROVE  TrackInv'
<1>1. TrackTypes /\ StackInv /\ RecordInv /\ ScInv /\ ReportInv
  BY DEF TrackInv
<1>2. /\ stack[g] # <<>>
      /\ stack' = [stack EXCEPT ![g] = SubSeq(@, 1, Len(@) - 1)]
      /\ fate' = [fate EXCEPT ![Innermost(g)] = "unwound"]
      /\ UNCHANGED <<inFlight, goroutineSc, trackedBySc, calls, lost, refused, reports>>
  BY DEF Unwind, Innermost, maps
<1>3. Innermost(g) \in 1..Len(calls) /\ fate[Innermost(g)] = "open"
  BY <1>1, <1>2, InnermostIsLast
<1>4. /\ StackInv'
      /\ stack' \in [Goroutines -> Seq(Nat)]
      /\ fate' \in Seq(Fates) /\ Len(fate') = Len(calls)
      /\ fate'[Innermost(g)] = "unwound"
      /\ \A d \in 1..Len(calls) : d # Innermost(g) => fate'[d] = fate[d]
  BY <1>1, <1>2, StackPops
<1>5. DOMAIN calls = 1..Len(calls)
  BY <1>1, SequenceDomain DEF TrackTypes
<1>6. \A d \in 1..Len(calls) :
          /\ fate'[d] = "open" => fate[d] = "open"
          /\ fate[d] # "open" => fate'[d] = fate[d]
          /\ fate'[d] = "returned" => fate[d] = "returned"
  BY <1>3, <1>4
<1>7. TrackTypes'
  BY <1>1, <1>2, <1>4 DEF TrackTypes
<1>8. RecordInv'
  BY <1>1, <1>2, <1>6 DEF RecordInv
<1>9. ScInv' /\ ReportInv'
  BY <1>1, <1>2, <1>6 DEF ScInv, ReportInv
<1>10. ReportedOnce'
  BY <1>2 DEF TrackInv, ReportedOnce
<1>11. WrongReportsExplained'
  BY <1>1, <1>2, <1>6 DEF TrackInv, WrongReportsExplained, ReportInv
<1>12. EntriesExplained' /\ LatestServerHeld'
  BY <1>2, <1>5, <1>6 DEF TrackInv, EntriesExplained, LatestServerHeld
<1>. QED
  BY <1>4, <1>7, <1>8, <1>9, <1>10, <1>11, <1>12 DEF TrackInv

\* Every entry program is Enter with a parent of its own.
Entry(g, ctx) ==
    \/ ServeMux(g, ctx) \/ HandleStream(g, ctx) \/ GinServe(g, ctx)
    \/ Do(g, ctx) \/ Invoke(g, ctx) \/ QueryDC(g, ctx)
    \/ SendMessage(g, ctx) \/ EntryWrite(g, ctx)

LEMMA EntryIsEnter ==
    ASSUME NEW g \in Goroutines, NEW ctx \in Contexts, Entry(g, ctx)
    PROVE  \E lib \in Libs, goid \in GoidsOf(g) : \E parent : Enter(g, lib, ctx, goid, parent)
<1>1. CASE ServeMux(g, ctx) \/ HandleStream(g, ctx) \/ GinServe(g, ctx)
  BY <1>1 DEF ServeMux, HandleStream, GinServe, Libs, Servers
<1>2. CASE Do(g, ctx) \/ Invoke(g, ctx) \/ QueryDC(g, ctx)
  BY <1>2 DEF Do, Invoke, QueryDC, Libs
<1>3. CASE SendMessage(g, ctx) \/ EntryWrite(g, ctx)
  BY <1>3 DEF SendMessage, EntryWrite, Libs
<1>. QED
  BY <1>1, <1>2, <1>3 DEF Entry

LEMMA TrackStep == TrackInv /\ [Next]_vars => TrackInv'
<1>. SUFFICES ASSUME TrackInv, [Next]_vars PROVE TrackInv'
  OBVIOUS
<1>1. ASSUME NEW g \in Goroutines, NEW ctx \in Contexts, Entry(g, ctx) PROVE TrackInv'
  BY <1>1, EntryIsEnter, TrackEnter
<1>2. ASSUME NEW g \in Goroutines, ServerReturns(g) \/ ClientReturns(g) PROVE TrackInv'
  BY <1>2, TrackReturn
<1>3. ASSUME NEW g \in Goroutines, Unwind(g) PROVE TrackInv'
  BY <1>3, TrackUnwind
<1>4. CASE UNCHANGED vars
  <2>1. UNCHANGED <<stack, inFlight, goroutineSc, trackedBySc, calls, fate, lost, refused, reports>>
    BY <1>4 DEF vars, maps
  <2>. QED
    BY <2>1 DEF TrackInv, TrackTypes, StackInv, RecordInv, ScInv, ReportInv, ReportedOnce,
                WrongReportsExplained, EntriesExplained, LatestServerHeld
<1>. QED
  BY <1>1, <1>2, <1>3, <1>4 DEF Next, Entry

\* No record reaches the agent twice, although a return sends whatever record it
\* finds (UPROBE_RETURN): a record that is sent is deleted, and no slot had a copy.
THEOREM ReportsCorrect == Spec => []ReportedOnce
<1>1. TrackInv => ReportedOnce
  BY DEF TrackInv
<1>. QED
  BY TrackInit, TrackStep, <1>1, PTL DEF Spec

\* A return that does not report its own call (UPROBE_RETURN) is of a call whose
\* record was overwritten or refused, and reports zeros or a call that panicked.
THEOREM WrongReportsCorrect == Spec => []WrongReportsExplained
<1>1. TrackInv => WrongReportsExplained
  BY DEF TrackInv
<1>. QED
  BY TrackInit, TrackStep, <1>1, PTL DEF Spec

\* The return of a call that kept its record leaves nothing of it in the maps of
\* events in flight, in goroutine_sc_map and in tracked_spans_by_sc.
THEOREM EntriesCorrect == Spec => []EntriesExplained
<1>1. TrackInv => EntriesExplained
  BY DEF TrackInv
<1>. QED
  BY TrackInit, TrackStep, <1>1, PTL DEF Spec

\* A client called directly in a server's call (goroutine_sc_map) finds that call,
\* unless the map was full or another server's call was nested before.
THEOREM ServerHeldCorrect == Spec => []LatestServerHeld
<1>1. TrackInv => LatestServerHeld
  BY DEF TrackInv
<1>. QED
  BY TrackInit, TrackStep, <1>1, PTL DEF Spec

-------------------------------------------------------------------------------
(* Parents.                                                                *)

\* What the tracked words and the parents name.
NamesInv ==
    /\ tracked \in [Words -> Nat]
    /\ \A w \in Words : tracked[w] # None =>
          /\ tracked[w] \in 1..Len(calls)
          /\ ContextWord(calls[tracked[w]].lib, calls[tracked[w]].ctx) = w
    /\ \A i \in 1..Len(calls) : calls[i].parent # None => calls[i].parent \in 1..Len(calls)

ParentInv == TrackInv /\ NamesInv /\ ParentRelated

\* Why p may be the parent of a call of lib with ctx, on g, recorded with goid.
Related(p, g, lib, ctx, goid) ==
    \/ /\ lib \notin {"sarama", "logrus"}
       /\ ContextWord(calls[p].lib, calls[p].ctx) # NoWord
       /\ ContextWord(calls[p].lib, calls[p].ctx) \in Reachable(ContextWord(lib, ctx))
    \/ /\ calls[p].lib \in Servers
       /\ calls[p].g = g \/ (calls[p].goid = Zero /\ (goid = Zero \/ lib = "logrus"))
       /\ lib = "logrus" => calls[p].goid = Zero

LEMMA LeastNatural ==
    ASSUME NEW T \in SUBSET Nat, T # {}
    PROVE  \E n \in T : \A m \in T : n <= m
<1>1. \E n \in T : \A m \in T : ~(<<m, n>> \in OpToRel(<, Nat))
  BY NatLessThanWellFounded, WFMin, ZenonT(30)
<1>2. PICK n \in T : \A m \in T : ~(<<m, n>> \in OpToRel(<, Nat))
  BY <1>1
<1>3. \A m \in T : ~(m < n)
  BY <1>2, ZenonT(30) DEF OpToRel
<1>. QED
  BY <1>3

LEMMA FoundSpanIsReachable ==
    ASSUME NEW m, NEW w, FoundSpan(m, w) # None
    PROVE  /\ FoundKey(m, w) \in Reachable(w) \cap Entries(m) /\ FoundKey(m, w) # NoWord
           /\ FoundSpan(m, w) = m[FoundKey(m, w)]
<1>. DEFINE rounds == {n \in 0..MaxDistance - 1 : WordAt(w, n) \in Entries(m)}
            least == CHOOSE n \in rounds : \A k \in rounds : n <= k
<1>1. FoundKey(m, w) # NoWord /\ FoundSpan(m, w) = m[FoundKey(m, w)]
  BY DEF FoundSpan
<1>2. rounds # {}
  BY <1>1 DEF FoundKey
<1>3. rounds \in SUBSET Nat
  BY WordsAssumption
<1>4. least \in rounds
  BY <1>2, <1>3, LeastNatural
<1>5. FoundKey(m, w) = WordAt(w, least)
  BY <1>2 DEF FoundKey
<1>. QED
  BY <1>1, <1>4, <1>5 DEF Reachable

LEMMA ContextWordIsWord ==
    ASSUME NEW lib, NEW ctx \in Contexts
    PROVE  ContextWord(lib, ctx) \in Words
BY ContextsAssumption DEF ContextWord

LEMMA ContextRelated ==
    ASSUME NamesInv, NEW g, NEW lib \in Libs \ {"sarama", "logrus"}, NEW ctx \in Contexts,
           NEW goid, FromContext(lib, ctx) # None
    PROVE  /\ FromContext(lib, ctx) \in 1..Len(calls)
           /\ Related(FromContext(lib, ctx), g, lib, ctx, goid)
<1>. DEFINE word == ContextWord(lib, ctx)
            key == FoundKey(tracked, word)
<1>1. key \in Reachable(word) \cap Entries(tracked) /\ key # NoWord /\ FromContext(lib, ctx) = tracked[key]
  BY FoundSpanIsReachable DEF FromContext
<1>2. key \in Words /\ tracked[key] # None
  BY <1>1 DEF NamesInv, Entries
<1>. QED
  BY <1>1, <1>2 DEF NamesInv, Related

\* A goroutine's entry: the key is the id recorded, or 0 for a log entry.
LEMMA GoroutineRelated ==
    ASSUME TrackInv, NEW g \in Goroutines, NEW lib \in Libs, NEW ctx, NEW goid \in GoidsOf(g),
           NEW key, key = (IF lib = "logrus" THEN Zero ELSE goid), goroutineSc[key] # None
    PROVE  goroutineSc[key] \in 1..Len(calls) /\ Related(goroutineSc[key], g, lib, ctx, goid)
<1>1. key \in Goids
  BY DEF GoidsOf, Goids
<1>2. LET p == goroutineSc[key] IN
      p \in 1..Len(calls) /\ calls[p].goid = key /\ calls[p].lib \in Servers /\ calls[p].goid \in {calls[p].g, Zero}
  BY <1>1 DEF TrackInv, ScInv, TrackTypes
<1>3. goid \in {g, Zero}
  BY DEF GoidsOf
<1>. QED
  BY <1>2, <1>3 DEF Related

LEMMA EntryRelated ==
    ASSUME ParentInv, NEW g \in Goroutines, NEW ctx \in Contexts, Entry(g, ctx)
    PROVE  \E lib \in Libs, goid \in GoidsOf(g) : \E parent :
              /\ Enter(g, lib, ctx, goid, parent)
              /\ parent # None => parent \in 1..Len(calls) /\ Related(parent, g, lib, ctx, goid)
<1>. TrackInv /\ NamesInv
  BY DEF ParentInv
<1>1. CASE ServeMux(g, ctx) \/ HandleStream(g, ctx) \/ GinServe(g, ctx)
  BY <1>1 DEF ServeMux, HandleStream, GinServe, Libs, Servers
<1>2. CASE Do(g, ctx) \/ Invoke(g, ctx)
  <2>1. PICK lib \in {"net/http client", "grpc"}, goid \in GoidsOf(g) :
            Enter(g, lib, ctx, goid, Either(goroutineSc[goid], FromContext(lib, ctx)))
    BY <1>2 DEF Do, Invoke
  <2>2. lib \in Libs \ {"sarama", "logrus"}
    BY DEF Libs
  <2>3. goroutineSc[goid] # None =>
            goroutineSc[goid] \in 1..Len(calls) /\ Related(goroutineSc[goid], g, lib, ctx, goid)
    BY <2>2, GoroutineRelated
  <2>4. FromContext(lib, ctx) # None =>
            /\ FromContext(lib, ctx) \in 1..Len(calls)
            /\ Related(FromContext(lib, ctx), g, lib, ctx, goid)
    BY <2>2, ContextRelated
  <2>. QED
    BY <2>1, <2>2, <2>3, <2>4 DEF Either
<1>3. CASE QueryDC(g, ctx)
  <2>1. PICK goid \in GoidsOf(g) :
            Enter(g, "database/sql", ctx, goid,
                  Either(FromContext("database/sql", ctx), goroutineSc[goid]))
    BY <1>3 DEF QueryDC
  <2>2. "database/sql" \in Libs \ {"sarama", "logrus"}
    BY DEF Libs
  <2>3. goroutineSc[goid] # None =>
            goroutineSc[goid] \in 1..Len(calls) /\ Related(goroutineSc[goid], g, "database/sql", ctx, goid)
    BY <2>2, GoroutineRelated
  <2>4. FromContext("database/sql", ctx) # None =>
            /\ FromContext("database/sql", ctx) \in 1..Len(calls)
            /\ Related(FromContext("database/sql", ctx), g, "database/sql", ctx, goid)
    BY <2>2, ContextRelated
  <2>. QED
    BY <2>1, <2>2, <2>3, <2>4 DEF Either
<1>4. CASE SendMessage(g, ctx)
  <2>1. PICK goid \in GoidsOf(g) : Enter(g, "sarama", ctx, goid, goroutineSc[goid])
    BY <1>4 DEF SendMessage
  <2>2. "sarama" \in Libs
    BY DEF Libs
  <2>. QED
    BY <2>1, <2>2, GoroutineRelated
<1>5. CASE EntryWrite(g, ctx)
  <2>1. PICK goid \in GoidsOf(g) : Enter(g, "logrus", ctx, goid, goroutineSc[Zero])
    BY <1>5 DEF EntryWrite
  <2>2. "logrus" \in Libs
    BY DEF Libs
  <2>. QED
    BY <2>1, <2>2, GoroutineRelated
<1>. QED
  BY <1>1, <1>2, <1>3, <1>4, <1>5 DEF Entry

LEMMA ParentEnter ==
    ASSUME ParentInv, NEW g \in Goroutines, NEW lib \in Libs, NEW ctx \in Contexts,
           NEW goid \in GoidsOf(g), NEW parent, Enter(g, lib, ctx, goid, parent),
           parent # None => parent \in 1..Len(calls) /\ Related(parent, g, lib, ctx, goid)
    PROVE  NamesInv' /\ ParentRelated'
<1>. DEFINE c == Len(calls) + 1
            call == [g |-> g, goid |-> goid, lib |-> lib, ctx |-> ctx, parent |-> parent]
<1>1. /\ calls' = Append(calls, call)
      /\ tracked' = Updated(tracked, ContextWord(lib, ctx), c, MaxConcurrentSpans)
  BY DEF Enter
<1>2. PICK S : calls \in Seq(S)
  BY DEF ParentInv, TrackInv, TrackTypes, IsSequence
<1>3. /\ Len(calls) \in Nat /\ DOMAIN calls = 1..Len(calls)
      /\ Len(calls') = c /\ DOMAIN calls' = 1..c
      /\ \A i \in 1..Len(calls) : calls'[i] = calls[i]
      /\ calls'[c] = call
  <2>1. calls \in Seq(S \cup {call}) /\ call \in S \cup {call}
    BY <1>2
  <2>. QED
    BY <1>1, <2>1
<1>4. c \in Nat /\ c # None /\ \A i \in 1..c : i = c \/ i \in 1..Len(calls)
  BY <1>3 DEF None
<1>5. \A i \in 1..Len(calls) : i \in 1..c
  BY <1>3
<1>6. c \in 1..c
  BY <1>3
<1>. HIDE DEF c
<1>7. NamesInv
  BY DEF ParentInv
<1>8. /\ tracked' \in [Words -> Nat]
      /\ \A w \in Words :
            tracked'[w] = tracked[w] \/ (w = ContextWord(lib, ctx) /\ tracked'[w] = c)
  BY <1>1, <1>4, <1>7, UpdatedCases, ContextWordIsWord DEF NamesInv
<1>9. NamesInv'
  <2>1. ASSUME NEW w \in Words, tracked'[w] # None
        PROVE  /\ tracked'[w] \in 1..c
               /\ ContextWord(calls'[tracked'[w]].lib, calls'[tracked'[w]].ctx) = w
    BY <1>3, <1>5, <1>6, <1>7, <1>8, <2>1 DEF NamesInv
  <2>2. ASSUME NEW i \in 1..c, calls'[i].parent # None
        PROVE  calls'[i].parent \in 1..c
    BY <1>3, <1>4, <1>5, <1>7, <2>2 DEF NamesInv
  <2>. QED
    BY <1>3, <1>8, <2>1, <2>2 DEF NamesInv
<1>10. ParentRelated'
  <2>. DEFINE Fits(i) == calls'[i].parent # None =>
            LET p == calls'[calls'[i].parent]
                word == ContextWord(p.lib, p.ctx)
            IN  \/ /\ calls'[i].lib \notin {"sarama", "logrus"}
                   /\ word # NoWord
                   /\ word \in Reachable(ContextWord(calls'[i].lib, calls'[i].ctx))
                \/ /\ p.lib \in Servers
                   /\ \/ p.g = calls'[i].g
                      \/ p.goid = Zero /\ (calls'[i].goid = Zero \/ calls'[i].lib = "logrus")
                   /\ calls'[i].lib = "logrus" => p.goid = Zero
  <2>1. ASSUME NEW i \in 1..Len(calls) PROVE Fits(i)
    <3>1. calls[i].parent # None => calls'[calls[i].parent] = calls[calls[i].parent]
      BY <1>3, <1>7 DEF NamesInv
    <3>. QED
      BY <1>3, <3>1 DEF ParentInv, ParentRelated
  <2>2. Fits(c)
    <3>1. parent # None => calls'[parent] = calls[parent]
      BY <1>3
    <3>. QED
      BY <1>3, <3>1 DEF Related
  <2>3. \A i \in DOMAIN calls' : Fits(i)
    BY <1>3, <1>4, <2>1, <2>2
  <2>. QED
    BY <2>3 DEF ParentRelated
<1>. QED
  BY <1>9, <1>10

LEMMA ParentStep == ParentInv /\ [Next]_vars => ParentInv'
<1>. SUFFICES ASSUME ParentInv, [Next]_vars PROVE NamesInv' /\ ParentRelated'
  BY TrackStep DEF ParentInv
<1>1. ASSUME NEW g \in Goroutines, NEW ctx \in Contexts, Entry(g, ctx)
      PROVE  NamesInv' /\ ParentRelated'
  BY <1>1, EntryRelated, ParentEnter
<1>2. ASSUME UNCHANGED <<calls, tracked>> PROVE NamesInv' /\ ParentRelated'
  BY <1>2 DEF ParentInv, NamesInv, ParentRelated
<1>3. ASSUME NEW g \in Goroutines, ServerReturns(g) \/ ClientReturns(g) \/ Unwind(g)
      PROVE  UNCHANGED <<calls, tracked>>
  BY <1>3 DEF ServerReturns, ClientReturns, Unwind, Report, maps
<1>4. UNCHANGED vars => UNCHANGED <<calls, tracked>>
  BY DEF vars, maps
<1>. QED
  BY <1>1, <1>2, <1>3, <1>4 DEF Next, Entry

\* Where a parent comes from (uprobe_HttpClient_Do, uprobe_queryDC and the others):
\* from a call tracked under a word that is found from the context on, which need
\* not be the context's (run span_tracking_unrelated), from the same goroutine, or
\* neither's goroutine was known.
THEOREM ParentsCorrect == Spec => []ParentRelated
<1>1. Init => ParentInv
  <2>1. Init => NamesInv /\ ParentRelated
    BY DEF Init, NamesInv, ParentRelated, None
  <2>. QED
    BY <2>1, TrackInit DEF ParentInv
<1>2. ParentInv => ParentRelated
  BY DEF ParentInv
<1>. QED
  BY ParentStep, <1>1, <1>2, PTL DEF Spec

-------------------------------------------------------------------------------
(* The room in the maps.                                                    *)

Bounded(m, limit) == IsFiniteSet(Entries(m)) /\ Cardinality(Entries(m)) <= limit

\* No update makes a map outgrow its limit.
LEMMA UpdateBounded ==
    ASSUME NEW K, NEW m \in [K -> Nat], NEW k \in K, NEW v \in Nat, v # None, NEW limit \in Nat,
           Bounded(m, limit)
    PROVE  Bounded(Updated(m, k, v, limit), limit)
<1>. DEFINE new == [m EXCEPT ![k] = v]
<1>1. Entries(new) = Entries(m) \cup {k}
  BY DEF Entries
<1>2. IsFiniteSet(Entries(m)) /\ Cardinality(Entries(m)) \in Nat /\ Cardinality(Entries(m)) <= limit
  BY FS_CardinalityType DEF Bounded
<1>3. k \in Entries(m) <=> m[k] # None
  BY DEF Entries
<1>4. /\ IsFiniteSet(Entries(m) \cup {k})
      /\ Cardinality(Entries(m) \cup {k}) =
            IF k \in Entries(m) THEN Cardinality(Entries(m)) ELSE Cardinality(Entries(m)) + 1
  BY <1>2, FS_AddElement
<1>5. CASE m[k] # None
  BY <1>1, <1>2, <1>3, <1>4, <1>5 DEF Updated, Bounded
<1>6. CASE m[k] = None /\ Cardinality(Entries(m)) < limit
  <2>1. Updated(m, k, v, limit) = new
    BY <1>6 DEF Updated, Room
  <2>2. Cardinality(Entries(new)) = Cardinality(Entries(m)) + 1
    BY <1>1, <1>3, <1>4, <1>6
  <2>3. \A n \in Nat, l \in Nat : n < l => n + 1 <= l
    OBVIOUS
  <2>4. Cardinality(Entries(new)) <= limit
    BY <1>2, <1>6, <2>2, <2>3
  <2>. QED
    BY <1>1, <1>4, <2>1, <2>4 DEF Bounded
<1>7. CASE m[k] = None /\ ~(Cardinality(Entries(m)) < limit)
  BY <1>7 DEF Updated, Room
<1>. QED
  BY <1>5, <1>6, <1>7

LEMMA DeleteBounded ==
    ASSUME NEW K, NEW m \in [K -> Nat], NEW k, NEW limit \in Nat, Bounded(m, limit)
    PROVE  Bounded([m EXCEPT ![k] = None], limit)
<1>1. Entries([m EXCEPT ![k] = None]) = Entries(m) \ {k}
  BY DEF Entries
<1>2. IsFiniteSet(Entries(m)) /\ Cardinality(Entries(m)) \in Nat /\ Cardinality(Entries(m)) <= limit
  BY FS_CardinalityType DEF Bounded
<1>3. /\ IsFiniteSet(Entries(m) \ {k})
      /\ Cardinality(Entries(m) \ {k}) \in {Cardinality(Entries(m)), Cardinality(Entries(m)) - 1}
  BY <1>2, FS_RemoveElement
<1>4. \A n \in Nat, l \in Nat : n <= l => \A o \in {n, n - 1} : o <= l
  OBVIOUS
<1>5. Cardinality(Entries(m) \ {k}) <= limit
  BY <1>2, <1>3, <1>4
<1>. QED
  BY <1>1, <1>3, <1>5 DEF Bounded

Call == [g : Goroutines, goid : Goids, lib : Libs, ctx : Contexts, parent : Ids \cup {None}]

LimitInv ==
    /\ calls \in Seq(Call) /\ Len(calls) <= MaxCalls /\ refused \subseteq 1..Len(calls)
    /\ \A l \in Libs : Bounded(inFlight[l], MaxConcurrent[l])
    /\ Bounded(goroutineSc, MaxSystemThreads)
    /\ Bounded(tracked, MaxConcurrentSpans)
    /\ IsFiniteSet(trackedBySc) /\ Cardinality(trackedBySc) <= MaxConcurrentSpans

SizeInv == ParentInv /\ LimitInv

LEMMA LimitInitially == Init => LimitInv
<1>. SUFFICES ASSUME Init PROVE LimitInv
  OBVIOUS
<1>1. ASSUME NEW K, NEW limit \in Nat PROVE Bounded([k \in K |-> None], limit)
  <2>1. Entries([k \in K |-> None]) = {}
    BY DEF Entries
  <2>. QED
    BY <2>1, FS_EmptySet DEF Bounded
<1>2. ASSUME NEW l \in Libs PROVE Bounded(inFlight[l], MaxConcurrent[l])
  <2>1. inFlight[l] = [g \in Goroutines |-> None]
    BY DEF Init
  <2>2. MaxConcurrent[l] \in Nat
    BY LimitsAssumption
  <2>. QED
    BY <1>1, <2>1, <2>2
<1>3. Bounded(goroutineSc, MaxSystemThreads) /\ Bounded(tracked, MaxConcurrentSpans)
  <2>1. goroutineSc = [k \in Goids |-> None] /\ tracked = [w \in Words |-> None]
    BY DEF Init
  <2>. QED
    BY <1>1, <2>1, LimitsAssumption
<1>4. IsFiniteSet(trackedBySc) /\ Cardinality(trackedBySc) <= MaxConcurrentSpans
  BY FS_EmptySet, LimitsAssumption DEF Init
<1>5. calls \in Seq(Call) /\ Len(calls) <= MaxCalls /\ refused \subseteq 1..Len(calls)
  BY LimitsAssumption DEF Init
<1>. QED
  BY <1>2, <1>3, <1>4, <1>5 DEF LimitInv

LEMMA LimitEnter ==
    ASSUME SizeInv, NEW g \in Goroutines, NEW lib \in Libs, NEW ctx \in Contexts,
           NEW goid \in GoidsOf(g), NEW parent, Enter(g, lib, ctx, goid, parent),
           parent # None => parent \in 1..Len(calls)
    PROVE  LimitInv'
<1>. DEFINE c == Len(calls) + 1
            call == [g |-> g, goid |-> goid, lib |-> lib, ctx |-> ctx, parent |-> parent]
<1>1. /\ c <= MaxCalls /\ calls' = Append(calls, call)
      /\ goroutineSc' = IF lib \in Servers
             THEN Updated(goroutineSc, goid, c, MaxSystemThreads) ELSE goroutineSc
      /\ refused' = refused \/ refused' = refused \cup {c}
      /\ inFlight' = [inFlight EXCEPT ![lib] = Updated(@, g, c, MaxConcurrent[lib])]
      /\ tracked' = Updated(tracked, ContextWord(lib, ctx), c, MaxConcurrentSpans)
      /\ trackedBySc' = IF Room(Cardinality(trackedBySc), MaxConcurrentSpans)
             THEN trackedBySc \cup {c} ELSE trackedBySc
  BY DEF Enter
<1>2. /\ LimitInv /\ TrackTypes /\ tracked \in [Words -> Nat]
  BY DEF SizeInv, ParentInv, TrackInv, NamesInv
<1>3. Len(calls) \in Nat /\ c \in Nat /\ c # None /\ MaxCalls \in Nat
  BY <1>2, LimitsAssumption DEF LimitInv, None
<1>4. goid \in Goids
  BY DEF GoidsOf, Goids
<1>5. calls' \in Seq(Call) /\ Len(calls') = c
  <2>1. parent \in Ids \cup {None}
    <3>1. 1..Len(calls) \subseteq Ids
      BY <1>2, <1>3 DEF LimitInv, Ids
    <3>. QED
      BY <3>1
  <2>2. call \in Call
    BY <1>4, <2>1 DEF Call
  <2>. QED
    BY <1>1, <1>2, <2>2 DEF LimitInv
<1>6. refused' \subseteq 1..Len(calls')
  <2>1. refused \subseteq 1..Len(calls)
    BY <1>2 DEF LimitInv
  <2>2. 1..Len(calls) \subseteq 1..c /\ c \in 1..c
    BY <1>3
  <2>. QED
    BY <1>1, <1>5, <2>1, <2>2
<1>. HIDE DEF c, call
<1>7. ASSUME NEW l \in Libs PROVE Bounded(inFlight'[l], MaxConcurrent[l])
  <2>1. inFlight[lib] \in [Goroutines -> Nat] /\ MaxConcurrent[lib] \in Nat
    BY <1>2, LimitsAssumption DEF TrackTypes
  <2>2. Bounded(Updated(inFlight[lib], g, c, MaxConcurrent[lib]), MaxConcurrent[lib])
    BY <1>2, <1>3, <2>1, UpdateBounded DEF LimitInv
  <2>3. inFlight'[l] = IF l = lib THEN Updated(inFlight[lib], g, c, MaxConcurrent[lib]) ELSE inFlight[l]
    BY <1>1, <1>2 DEF TrackTypes
  <2>. QED
    BY <1>2, <2>2, <2>3 DEF LimitInv
<1>8. Bounded(goroutineSc', MaxSystemThreads)
  <2>1. goroutineSc \in [Goids -> Nat] /\ MaxSystemThreads \in Nat
    BY <1>2, LimitsAssumption DEF TrackTypes
  <2>2. Bounded(Updated(goroutineSc, goid, c, MaxSystemThreads), MaxSystemThreads)
    BY <1>2, <1>3, <1>4, <2>1, UpdateBounded DEF LimitInv
  <2>. QED
    BY <1>1, <1>2, <2>2 DEF LimitInv
<1>9. Bounded(tracked', MaxConcurrentSpans)
  BY <1>1, <1>2, <1>3, UpdateBounded, LimitsAssumption, ContextWordIsWord DEF LimitInv
<1>10. IsFiniteSet(trackedBySc') /\ Cardinality(trackedBySc') <= MaxConcurrentSpans
  <2>1. /\ IsFiniteSet(trackedBySc) /\ Cardinality(trackedBySc) \in Nat
        /\ Cardinality(trackedBySc) <= MaxConcurrentSpans /\ MaxConcurrentSpans \in Nat
    BY <1>2, FS_CardinalityType, LimitsAssumption DEF LimitInv
  <2>2. /\ IsFiniteSet(trackedBySc \cup {c})
        /\ Cardinality(trackedBySc \cup {c}) \in {Cardinality(trackedBySc), Cardinality(trackedBySc) + 1}
    BY <2>1, FS_AddElement
  <2>. QED
    BY <1>1, <2>1, <2>2 DEF Room
<1>. QED
  BY <1>1, <1>5, <1>6, <1>7, <1>8, <1>9, <1>10 DEF LimitInv

LEMMA LimitReturn ==
    ASSUME SizeInv, NEW g \in Goroutines, ServerReturns(g) \/ ClientReturns(g)
    PROVE  LimitInv'
<1>1. /\ LimitInv /\ TrackTypes
  BY DEF SizeInv, ParentInv, TrackInv
<1>. DEFINE c == stack[g][Len(stack[g])]
            lib == calls[c].lib
            record == inFlight[lib][g]
<1>2. /\ UNCHANGED <<calls, refused, tracked>>
      /\ inFlight' = [inFlight EXCEPT ![lib][g] = None]
      /\ trackedBySc' = trackedBySc \ {record}
      /\ goroutineSc' = goroutineSc \/ \E k : goroutineSc' = [goroutineSc EXCEPT ![k] = None]
  BY DEF ServerReturns, ClientReturns, Report, RecordDeleted, StopTracking, Forgotten, Held
<1>. HIDE DEF c, lib, record
<1>3. ASSUME NEW l \in Libs PROVE Bounded(inFlight'[l], MaxConcurrent[l])
  <2>1. inFlight[l] \in [Goroutines -> Nat] /\ MaxConcurrent[l] \in Nat /\ Bounded(inFlight[l], MaxConcurrent[l])
    BY <1>1, LimitsAssumption DEF TrackTypes, LimitInv
  <2>2. inFlight'[l] = inFlight[l] \/ inFlight'[l] = [inFlight[l] EXCEPT ![g] = None]
    BY <1>1, <1>2 DEF TrackTypes
  <2>. QED
    BY <2>1, <2>2, DeleteBounded
<1>4. Bounded(goroutineSc', MaxSystemThreads)
  <2>1. goroutineSc \in [Goids -> Nat] /\ MaxSystemThreads \in Nat /\ Bounded(goroutineSc, MaxSystemThreads)
    BY <1>1, LimitsAssumption DEF TrackTypes, LimitInv
  <2>2. CASE goroutineSc' = goroutineSc
    BY <2>1, <2>2
  <2>3. ASSUME NEW k, goroutineSc' = [goroutineSc EXCEPT ![k] = None]
        PROVE  Bounded(goroutineSc', MaxSystemThreads)
    BY <2>1, <2>3, DeleteBounded
  <2>. QED
    BY <1>2, <2>2, <2>3
<1>5. IsFiniteSet(trackedBySc') /\ Cardinality(trackedBySc') <= MaxConcurrentSpans
  <2>1. /\ IsFiniteSet(trackedBySc) /\ Cardinality(trackedBySc) \in Nat
        /\ Cardinality(trackedBySc) <= MaxConcurrentSpans /\ MaxConcurrentSpans \in Nat
    BY <1>1, FS_CardinalityType, LimitsAssumption DEF LimitInv
  <2>2. /\ IsFiniteSet(trackedBySc \ {record})
        /\ Cardinality(trackedBySc \ {record}) \in {Cardinality(trackedBySc), Cardinality(trackedBySc) - 1}
    BY <2>1, FS_RemoveElement
  <2>. QED
    BY <1>2, <2>1, <2>2
<1>. QED
  BY <1>1, <1>2, <1>3, <1>4, <1>5 DEF LimitInv

LEMMA LimitStep == SizeInv /\ [Next]_vars => SizeInv'
<1>. SUFFICES ASSUME SizeInv, [Next]_vars PROVE LimitInv'
  BY ParentStep DEF SizeInv
<1>1. ASSUME NEW g \in Goroutines, NEW ctx \in Contexts, Entry(g, ctx) PROVE LimitInv'
  <2>1. ParentInv
    BY DEF SizeInv
  <2>. QED
    BY <1>1, <2>1, EntryRelated, LimitEnter
<1>2. ASSUME NEW g \in Goroutines, ServerReturns(g) \/ ClientReturns(g) PROVE LimitInv'
  BY <1>2, LimitReturn
<1>3. ASSUME UNCHANGED <<maps, calls, refused>> PROVE LimitInv'
  BY <1>3 DEF SizeInv, LimitInv, Bounded, Entries, maps
<1>4. ASSUME NEW g \in Goroutines, Unwind(g) PROVE UNCHANGED <<maps, calls, refused>>
  BY <1>4 DEF Unwind
<1>5. UNCHANGED vars => UNCHANGED <<maps, calls, refused>>
  BY DEF vars
<1>. QED
  BY <1>1, <1>2, <1>3, <1>4, <1>5 DEF Next, Entry

\* The types; and no map outgrows its limit, whatever is entered, returned from or unwound:
\* bpf_map_update_elem refuses a new key when there is no room for it.
THEOREM TypesCorrect == Spec => []TypeOK
<1>1. Init => SizeInv
  <2>1. Init => NamesInv /\ ParentRelated
    BY DEF Init, NamesInv, ParentRelated, None
  <2>. QED
    BY <2>1, TrackInit, LimitInitially DEF ParentInv, SizeInv
<1>2. ASSUME SizeInv PROVE TypeOK
  <2>1. LimitInv /\ TrackTypes /\ StackInv /\ RecordInv /\ ScInv /\ NamesInv
    BY <1>2 DEF SizeInv, ParentInv, TrackInv
  <2>2. /\ Len(calls) \in Nat /\ DOMAIN calls = 1..Len(calls) /\ DOMAIN fate = 1..Len(calls)
        /\ 1..Len(calls) \subseteq Ids
    BY <2>1, LimitsAssumption DEF LimitInv, TrackTypes, Ids
  <2>3. \A i \in DOMAIN calls : calls[i] \in Call
    BY <2>1, <2>2 DEF LimitInv
  <2>4. \A g \in Goroutines : \A i \in DOMAIN stack[g] : stack[g][i] \in DOMAIN calls
    BY <2>1, <2>2 DEF StackInv
  <2>5. inFlight \in [Libs -> [Goroutines -> Ids \cup {None}]]
    <3>1. \A l \in Libs : inFlight[l] \in [Goroutines -> Ids \cup {None}]
      BY <2>1, <2>2 DEF TrackTypes, RecordInv
    <3>. QED
      BY <2>1, <3>1 DEF TrackTypes
  <2>6. goroutineSc \in [Goids -> Ids \cup {None}]
    BY <2>1, <2>2 DEF TrackTypes, ScInv
  <2>7. tracked \in [Words -> Ids \cup {None}]
    BY <2>1, <2>2 DEF NamesInv
  <2>8. trackedBySc \subseteq Ids /\ lost \cup refused \subseteq DOMAIN calls
    BY <2>1, <2>2 DEF ScInv, RecordInv, LimitInv
  <2>. QED
    BY <2>1, <2>2, <2>3, <2>4, <2>5, <2>6, <2>7, <2>8 DEF TypeOK, LimitInv, Bounded, Call
<1>. QED
  BY <1>1, <1>2, LimitStep, PTL DEF Spec
===============================================================================
