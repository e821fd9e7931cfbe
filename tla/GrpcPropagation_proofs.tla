------------------------ MODULE GrpcPropagation_proofs ------------------------
(***************************************************************************)
(* A gRPC call's context, for any goroutines, connections and bounds: what *)
(* is put away for it at NewStream, what waits under a stream id, what its *)
(* header carries, which parents its ends find and which requests the      *)
(* server keeps, each with the exceptions that its property names.         *)
(*                                                                         *)
(* StoredIsMeant rests on what a goroutine that is tracked can find under  *)
(* its own id: the context of the call that it is making, or of a unary    *)
(* call that has ended before it opened a stream.  WaitingExplained rests  *)
(* on a frame's way: a call that is still opening a stream has no id yet,  *)
(* and when a writer has deleted what it found, it has also deleted it for *)
(* every other call with that id.                                          *)
(*                                                                         *)
(* The others rest on NetInv: a call's frame is in one place until it      *)
(* arrives, ids are given once for each connection and in order, a call    *)
(* that has met none of the exceptions finds its context under its id, and *)
(* the requests with one id on one connection are one.                     *)
(***************************************************************************)
EXTENDS GrpcPropagation, FiniteSetTheorems, WellFoundedInduction, TLAPS

Doing == {Idle} \cup [pc : {"calling", "opening"}, call : Calls]
InHand == {Idle} \cup [pc : {"found", "gone"}, call : Calls \cup {None}, id : StreamIds,
                       may : SUBSET (Calls \cup {None, Mixed}), freed : BOOLEAN]
Record ==
    [g : Goroutines, kind : {"unary", "stream"}, ctx : Contexts, opens : Nat,
     meant : Calls \cup {None}, stored : Calls \cup {None}, guess : Nat,
     guesses : SUBSET StreamIds, conn : Conns \cup {None}, refusedBy : SUBSET {"internal", "byStream"},
     failed : BOOLEAN, id : StreamIds \cup {None}, sent : BOOLEAN,
     carried : Calls \cup {None, Mixed}, reused : BOOLEAN]

Types ==
    /\ doing \in [Goroutines -> Doing]
    /\ calls \in Seq(Record) /\ Len(calls) <= MaxCalls
    /\ internal \in [Goids -> Calls \cup {None}]
    /\ tracked \in [Words -> Calls \cup {None}]
    /\ byStream \in [StreamIds -> Calls \cup {None}]
    /\ nextId \in [Conns -> Nat \ {0}]
    /\ outbox \in [Conns -> Seq(Calls)]
    /\ writing \in [Writers -> InHand]

\* A goroutine's call is its own and not over.
CallingInv ==
    \A g \in Goroutines : doing[g] # Idle =>
        LET c == doing[g].call
        IN  /\ c \in DOMAIN calls /\ calls[c].g = g /\ ~calls[c].failed
            /\ calls[c].id = None /\ ~calls[c].sent
            /\ doing[g].pc = "opening" => calls[c].opens > 0 /\ calls[c].conn \in Conns

Ended(s, g, cs) ==
    s \in DOMAIN cs /\ cs[s].g = g /\ cs[s].failed /\ cs[s].opens = 0

\* What may wait for the goroutine g, which is at d, when it is tracked.
MayWait(s, g, d, cs) ==
    /\ d = Idle => (s # None => Ended(s, g, cs))
    /\ d # Idle =>
        LET c == d.call
        IN  /\ cs[c].opens > 0 => s = None
            /\ cs[c].opens = 0 /\ cs[c].kind = "unary" =>
                  s = c \/ (s = None /\ "internal" \in cs[c].refusedBy)
            /\ cs[c].opens = 0 /\ cs[c].kind = "stream" /\ s # None => Ended(s, g, cs) /\ s < c

InternalInv ==
    \A g \in Goroutines \ Untracked : MayWait(internal[g], g, doing[g], calls)

TrackedInv ==
    \A w \in Words :
        LET s == tracked[w]
        IN  s # None => s \in DOMAIN calls /\ calls[s].kind = "unary" /\ FirstWord[calls[s].ctx] = w

\* What is put away, for a goroutine or for a call, is of a call made.
KnownInv ==
    /\ \A k \in Goids : internal[k] \in DOMAIN calls \cup {None}
    /\ \A c \in DOMAIN calls : calls[c].stored \in DOMAIN calls \cup {None}

MeantInv ==
    \A c \in DOMAIN calls : calls[c].kind = "unary" => calls[c].meant = c

\* A call's frame is somewhere only when the call has got its id.
FrameInv ==
    /\ \A k \in Conns : \A n \in DOMAIN outbox[k] :
          LET c == outbox[k][n] IN c \in DOMAIN calls /\ calls[c].id # None
    /\ \A w \in Writers : writing[w] # Idle /\ writing[w].call # None =>
          LET c == writing[w].call IN c \in DOMAIN calls /\ calls[c].id = writing[w].id

\* A call whose frame has not been past the deletion.
Before(c) == ~calls[c].sent /\ \A w \in Writers : ~(writing[w] # Idle /\ writing[w].pc = "gone"
                                                      /\ writing[w].call = c)
WaitingInv ==
    \A i \in StreamIds : byStream[i] # None =>
        \E c \in DOMAIN calls : i \in calls[c].guesses /\ (calls[c].id # i \/ Before(c))

ClientInv ==
    /\ Types /\ CallingInv /\ InternalInv /\ TrackedInv /\ KnownInv /\ MeantInv /\ FrameInv /\ WaitingInv
    /\ StoredIsMeant

-------------------------------------------------------------------------------
(* Sequences of records, and maps.                                          *)

LEMMA Replaced ==
    ASSUME NEW s \in Seq(Record), NEW c \in DOMAIN s, NEW r \in Record
    PROVE  LET t == [s EXCEPT ![c] = r]
           IN  /\ t \in Seq(Record) /\ Len(t) = Len(s) /\ DOMAIN t = DOMAIN s
               /\ t[c] = r /\ \A d \in DOMAIN s \ {c} : t[d] = s[d]
OBVIOUS

LEMMA Appended ==
    ASSUME NEW s \in Seq(Record), NEW r \in Record
    PROVE  LET t == Append(s, r)
               c == Len(s) + 1
           IN  /\ t \in Seq(Record) /\ Len(t) = c /\ DOMAIN t = DOMAIN s \cup {c} /\ c \notin DOMAIN s
               /\ t[c] = r /\ \A d \in DOMAIN s : t[d] = s[d] /\ d \in Nat /\ d < c
OBVIOUS

LEMMA MapUpdated ==
    ASSUME NEW D, NEW V, NEW m \in [D -> V], NEW k \in D, NEW v \in V, NEW limit
    PROVE  LET n == Updated(m, k, v, limit)
           IN  /\ n \in [D -> V] /\ \A j \in D \ {k} : n[j] = m[j]
               /\ n[k] = v \/ (n = m /\ m[k] = None)
BY DEF Updated

LEMMA GoidOf ==
    ASSUME NEW g \in Goroutines
    PROVE  /\ Goid(g) \in Goids
           /\ \A h \in Goroutines \ Untracked : Goid(g) = h <=> g = h
BY GoroutinesAssumption DEF Goid, Goids

LEMMA LeastNatural ==
    ASSUME NEW T \in SUBSET Nat, T # {}
    PROVE  \E n \in T : \A m \in T : n <= m
<1>1. \E n \in T : \A m \in T : ~(<<m, n>> \in OpToRel(<, Nat))
    BY NatLessThanWellFounded, WFMin, ZenonT(30)
<1>2. PICK n \in T : \A m \in T : ~(<<m, n>> \in OpToRel(<, Nat))
    BY <1>1
<1>3. \A m \in T : ~(m < n)
    BY <1>2, ZenonT(30) DEF OpToRel
<1>4. QED
    BY <1>3

\* What is found from a word on is tracked under a word that can be reached from it.
LEMMA FoundSpanIsReachable ==
    ASSUME NEW m, NEW w, FoundSpan(m, w) # None
    PROVE  /\ FoundKey(m, w) \in Reachable(w) \cap Entries(m) /\ FoundKey(m, w) # NoWord
           /\ FoundSpan(m, w) = m[FoundKey(m, w)]
<1> DEFINE rounds == {n \in 0..MaxDistance - 1 : WordAt(w, n) \in Entries(m)}
           least == CHOOSE n \in rounds : \A k \in rounds : n <= k
<1>1. FoundKey(m, w) # NoWord /\ FoundSpan(m, w) = m[FoundKey(m, w)]
    BY DEF FoundSpan
<1>2. rounds # {}
    BY <1>1 DEF FoundKey
<1>3. rounds \in SUBSET Nat
    BY WordsAssumption
<1>4. least \in rounds
    BY <1>2, <1>3, LeastNatural
<1>5. FoundKey(m, w) = WordAt(w, least)
    BY <1>2 DEF FoundKey
<1>6. QED
    BY <1>1, <1>4, <1>5 DEF Reachable

\* It is then the context of a unary call.
LEMMA FoundIsUnary ==
    ASSUME Types, TrackedInv, NEW w
    PROVE  LET s == FoundSpan(tracked, w)
           IN  /\ s \in Calls \cup {None}
               /\ s # None => /\ s \in DOMAIN calls /\ calls[s].kind = "unary"
                              /\ FirstWord[calls[s].ctx] # NoWord
                              /\ FirstWord[calls[s].ctx] \in Reachable(w)
<1>1. CASE FoundSpan(tracked, w) = None
    BY <1>1
<1>2. CASE FoundSpan(tracked, w) # None
  <2>1. /\ FoundKey(tracked, w) \in Reachable(w) /\ FoundKey(tracked, w) \in Entries(tracked)
        /\ FoundKey(tracked, w) # NoWord /\ FoundSpan(tracked, w) = tracked[FoundKey(tracked, w)]
      BY <1>2, FoundSpanIsReachable
  <2>2. FoundKey(tracked, w) \in Words /\ tracked[FoundKey(tracked, w)] \in Calls
      BY <1>2, <2>1 DEF Entries, Types
  <2>3. QED
      BY <1>2, <2>1, <2>2 DEF TrackedInv
<1>3. QED
    BY <1>1, <1>2

LEMMA ChosenIsKnown ==
    ASSUME ClientInv, NEW g \in Goroutines, NEW ctx
    PROVE  Chosen(g, ctx) \in Calls \cup {None} /\ Chosen(g, ctx) \in DOMAIN calls \cup {None}
<1>1. internal[Goid(g)] \in Calls \cup {None} /\ internal[Goid(g)] \in DOMAIN calls \cup {None}
    BY GoidOf DEF ClientInv, Types, KnownInv
<1>2. /\ FoundSpan(tracked, StreamWord[ctx]) \in Calls \cup {None}
      /\ FoundSpan(tracked, StreamWord[ctx]) \in DOMAIN calls \cup {None}
    BY FoundIsUnary DEF ClientInv
<1>3. QED
    BY <1>1, <1>2 DEF Chosen

\* A program that stores a context changes no writer's frame or progress.
LEMMA ReusingKeeps ==
    ASSUME Types, NEW i \in StreamIds, NEW v \in Calls, writing' = Reusing(i, v)
    PROVE  /\ writing' \in [Writers -> InHand]
           /\ \A w \in Writers : writing'[w] # Idle => /\ writing[w] # Idle
                                                     /\ writing'[w].pc = writing[w].pc
                                                     /\ writing'[w].call = writing[w].call
                                                     /\ writing'[w].id = writing[w].id
<1>1. /\ DOMAIN writing' = Writers
      /\ writing' = [w \in Writers |-> writing'[w]]
    BY DEF Reusing
<1>2. ASSUME NEW w \in Writers
      PROVE  /\ writing'[w] \in InHand
             /\ writing'[w] # Idle => /\ writing[w] # Idle
                                     /\ writing'[w].pc = writing[w].pc
                                     /\ writing'[w].call = writing[w].call
                                     /\ writing'[w].id = writing[w].id
  <2>1. writing[w] \in InHand
      BY DEF Types
  <2>2. CASE writing[w] = Idle
      BY <2>1, <2>2 DEF Reusing
  <2>3. CASE writing[w] # Idle
      BY <2>1, <2>3 DEF Reusing, InHand, Idle
  <2>4. QED
      BY <2>2, <2>3
<1>3. QED
    BY <1>1, <1>2

-------------------------------------------------------------------------------
(* Every step of the client preserves the invariant.                       *)

LEMMA InitInv == Init => ClientInv
<1> SUFFICES ASSUME Init PROVE ClientInv
    OBVIOUS
<1>1. calls = <<>> /\ Len(calls) = 0 /\ DOMAIN calls = {} /\ calls \in Seq(Record)
    BY DEF Init
<1>2. Types
    BY <1>1, BoundsAssumption DEF Init, Types, Doing, InHand
<1>3. QED
    BY <1>1, <1>2, GoroutinesAssumption DEF Init, ClientInv, CallingInv, InternalInv, TrackedInv, KnownInv,
       MeantInv, FrameInv, WaitingInv, StoredIsMeant, Goids, Idle, MayWait

LEMMA InvokeInv ==
    ASSUME ClientInv, NEW g \in Goroutines, NEW ctx \in Contexts, Invoke(g, ctx)
    PROVE  ClientInv'
<1> DEFINE c == Len(calls) + 1
           r == [NewCall(g, "unary", ctx) EXCEPT !.meant = c,
                     !.refusedBy = IF internal'[Goid(g)] # c THEN {"internal"} ELSE {}]
<1> USE DEF ClientInv
<1>1. c \in Calls /\ r \in Record
  <2>1. Len(calls) \in Nat /\ c <= MaxCalls
      BY DEF Types, Invoke
  <2>2. c \in Calls
      BY <2>1, BoundsAssumption DEF Calls
  <2>3. NewCall(g, "unary", ctx) \in Record
      BY DEF NewCall, Record, None
  <2>4. (IF internal'[Goid(g)] # c THEN {"internal"} ELSE {}) \in SUBSET {"internal", "byStream"}
      OBVIOUS
  <2> HIDE DEF c
  <2>5. r \in Record
      BY <2>2, <2>3, <2>4 DEF Record
  <2>6. QED
      BY <2>2, <2>5
<1>2. /\ calls' \in Seq(Record) /\ Len(calls') = c /\ DOMAIN calls' = DOMAIN calls \cup {c}
      /\ c \notin DOMAIN calls /\ calls'[c] = r
      /\ \A d \in DOMAIN calls : calls'[d] = calls[d] /\ d \in Nat /\ d < c
    BY <1>1, Appended DEF Types, Invoke
<1>3. /\ internal' \in [Goids -> Calls \cup {None}]
      /\ \A j \in Goids \ {Goid(g)} : internal'[j] = internal[j]
      /\ internal'[Goid(g)] = c \/ (internal' = internal /\ internal[Goid(g)] = None)
  <2>1. internal' = Updated(internal, Goid(g), c, MaxConcurrent)
      BY DEF Invoke
  <2>2. internal \in [Goids -> Calls \cup {None}] /\ Goid(g) \in Goids /\ c \in Calls \cup {None}
      BY <1>1, GoidOf DEF Types
  <2> HIDE DEF c
  <2>3. QED
      BY <2>1, <2>2 DEF Updated
<1>4. /\ tracked' \in [Words -> Calls \cup {None}]
      /\ \A j \in Words \ {FirstWord[ctx]} : tracked'[j] = tracked[j]
      /\ tracked'[FirstWord[ctx]] = c \/ tracked'[FirstWord[ctx]] = tracked[FirstWord[ctx]]
  <2>1. tracked' = Updated(tracked, FirstWord[ctx], c, MaxConcurrentSpans)
      BY DEF Invoke
  <2>2. tracked \in [Words -> Calls \cup {None}] /\ FirstWord[ctx] \in Words /\ c \in Calls \cup {None}
      BY <1>1, ContextsAssumption DEF Types
  <2> HIDE DEF c
  <2>3. QED
      BY <2>1, <2>2 DEF Updated
<1>5. /\ doing[g] = Idle /\ doing' = [doing EXCEPT ![g] = [pc |-> "calling", call |-> c]]
      /\ UNCHANGED <<byStream, nextId, outbox, writing>>
    BY DEF Invoke
<1>6. /\ r.g = g /\ r.kind = "unary" /\ r.ctx = ctx /\ r.opens = 0 /\ r.meant = c /\ r.stored = None
      /\ ~r.failed /\ r.id = None /\ ~r.sent
      /\ r.refusedBy = IF internal'[Goid(g)] # c THEN {"internal"} ELSE {}
    BY DEF NewCall
<1> HIDE DEF c, r
<1>7. Types'
    BY <1>1, <1>2, <1>3, <1>4, <1>5 DEF Types, Doing, Calls
<1>8. CallingInv'
    BY <1>2, <1>5, <1>6 DEF CallingInv, Idle, Types, Doing
<1>9. InternalInv'
  <2> SUFFICES ASSUME NEW h \in Goroutines \ Untracked
               PROVE  MayWait(internal'[h], h, doing'[h], calls')
      BY DEF InternalInv
  <2>1. CASE h = g
    <3>1. doing'[h].call = c /\ doing'[h] # Idle /\ Goid(g) = h
        BY <2>1, <1>5, GoidOf DEF Types, Idle
    <3>2. calls'[c].opens = 0 /\ calls'[c].kind = "unary"
        BY <1>2, <1>6
    <3>3. internal'[h] = c \/ (internal'[h] = None /\ "internal" \in calls'[c].refusedBy)
        BY <1>2, <1>3, <1>6, <3>1
    <3>4. QED
        BY <3>1, <3>2, <3>3 DEF MayWait
  <2>2. CASE h # g
    <3>1. internal'[h] = internal[h] /\ doing'[h] = doing[h]
        BY <2>2, <1>3, <1>5, GoidOf DEF Types, Goids
    <3>2. \A s : Ended(s, h, calls) => Ended(s, h, calls')
        BY <1>2 DEF Ended
    <3>3. doing[h] # Idle => doing[h].call \in DOMAIN calls
        BY DEF CallingInv
    <3>4. MayWait(internal[h], h, doing[h], calls)
        BY DEF InternalInv
    <3>5. QED
        BY <3>1, <3>2, <3>3, <3>4, <1>2 DEF MayWait
  <2>3. QED
      BY <2>1, <2>2
<1>10. TrackedInv'
    BY <1>2, <1>4, <1>6 DEF TrackedInv
<1>11. KnownInv'
    BY <1>2, <1>3, <1>6, GoidOf DEF KnownInv
<1>12. MeantInv'
    BY <1>2, <1>6 DEF MeantInv
<1>13. FrameInv'
    BY <1>2, <1>5 DEF FrameInv
<1>14. WaitingInv'
    BY <1>2, <1>5 DEF WaitingInv, Before
<1>15. StoredIsMeant'
    BY <1>2, <1>6 DEF StoredIsMeant, KnownInv, None
<1>16. QED
    BY <1>7, <1>8, <1>9, <1>10, <1>11, <1>12, <1>13, <1>14, <1>15

LEMMA StreamInv ==
    ASSUME ClientInv, NEW g \in Goroutines, NEW ctx \in Contexts, Stream(g, ctx)
    PROVE  ClientInv'
<1> DEFINE c == Len(calls) + 1
           r == NewCall(g, "stream", ctx)
<1> USE DEF ClientInv
<1>1. c \in Calls /\ r \in Record
  <2>1. Len(calls) \in Nat /\ c <= MaxCalls
      BY DEF Types, Stream
  <2>2. QED
      BY <2>1, BoundsAssumption DEF Calls, NewCall, Record, None
<1>2. /\ calls' \in Seq(Record) /\ Len(calls') = c /\ DOMAIN calls' = DOMAIN calls \cup {c}
      /\ c \notin DOMAIN calls /\ calls'[c] = r
      /\ \A d \in DOMAIN calls : calls'[d] = calls[d] /\ d \in Nat /\ d < c
    BY <1>1, Appended DEF Types, Stream
<1>3. /\ doing[g] = Idle /\ doing' = [doing EXCEPT ![g] = [pc |-> "calling", call |-> c]]
      /\ UNCHANGED <<internal, tracked, byStream, nextId, outbox, writing>>
    BY DEF Stream
<1>4. /\ r.g = g /\ r.kind = "stream" /\ r.ctx = ctx /\ r.opens = 0 /\ r.stored = None
      /\ ~r.failed /\ r.id = None /\ ~r.sent
    BY DEF NewCall
<1> HIDE DEF c, r
<1>5. Types'
    BY <1>1, <1>2, <1>3 DEF Types, Doing, Calls
<1>6. CallingInv'
  <2> SUFFICES ASSUME NEW h \in Goroutines, doing'[h] # Idle
               PROVE  LET d == doing'[h].call
                      IN  /\ d \in DOMAIN calls' /\ calls'[d].g = h /\ ~calls'[d].failed
                          /\ calls'[d].id = None /\ ~calls'[d].sent
                          /\ doing'[h].pc = "opening" => calls'[d].opens > 0 /\ calls'[d].conn \in Conns
      BY DEF CallingInv
  <2>1. CASE h = g
    <3>1. doing'[h].call = c /\ doing'[h].pc = "calling"
        BY <1>3, <2>1 DEF Types
    <3>2. QED
        BY <1>2, <1>4, <2>1, <3>1
  <2>2. CASE h # g
    <3>1. doing'[h] = doing[h]
        BY <1>3, <2>2 DEF Types
    <3>2. QED
        BY <1>2, <3>1 DEF CallingInv
  <2>3. QED
      BY <2>1, <2>2
<1>7. InternalInv'
  <2> SUFFICES ASSUME NEW h \in Goroutines \ Untracked
               PROVE  MayWait(internal'[h], h, doing'[h], calls')
      BY DEF InternalInv
  <2>1. /\ internal'[h] = internal[h] /\ MayWait(internal[h], h, doing[h], calls)
        /\ doing[h] # Idle => doing[h].call \in DOMAIN calls
      BY <1>3 DEF InternalInv, CallingInv
  <2>2. \A s : Ended(s, h, calls) => Ended(s, h, calls') /\ s < c
      BY <1>2 DEF Ended
  <2>3. CASE h = g
    <3>1. doing'[h].call = c /\ doing'[h] # Idle
        BY <2>3, <1>3 DEF Types, Idle
    <3>2. QED
        BY <2>1, <2>2, <2>3, <3>1, <1>2, <1>3, <1>4 DEF MayWait
  <2>4. CASE h # g
    <3>1. doing'[h] = doing[h]
        BY <2>4, <1>3 DEF Types
    <3>2. QED
        BY <2>1, <2>2, <3>1, <1>2 DEF MayWait
  <2>5. QED
      BY <2>3, <2>4
<1>8. TrackedInv' /\ KnownInv' /\ MeantInv' /\ FrameInv'
    BY <1>2, <1>3, <1>4 DEF TrackedInv, KnownInv, MeantInv, FrameInv
<1>9. WaitingInv'
    BY <1>2, <1>3 DEF WaitingInv, Before
<1>10. StoredIsMeant'
    BY <1>2, <1>4 DEF StoredIsMeant, KnownInv, None
<1>11. QED
    BY <1>5, <1>6, <1>7, <1>8, <1>9, <1>10

LEMMA GiveUpInv ==
    ASSUME ClientInv, NEW g \in Goroutines, GiveUp(g)
    PROVE  ClientInv'
<1> DEFINE c == doing[g].call
           r == [calls[c] EXCEPT !.failed = TRUE]
<1> USE DEF ClientInv
<1>1. /\ doing[g].pc = "calling" /\ doing[g] # Idle
      /\ c \in DOMAIN calls /\ calls[c].g = g /\ calls[c].id = None
    BY DEF GiveUp, CallingInv, Idle
<1>2. calls[c] \in Record
    BY <1>1 DEF Types
<1> HIDE DEF c
<1>3. /\ r \in Record /\ r.failed
      /\ r.g = calls[c].g /\ r.kind = calls[c].kind /\ r.ctx = calls[c].ctx /\ r.opens = calls[c].opens
      /\ r.meant = calls[c].meant /\ r.stored = calls[c].stored /\ r.guesses = calls[c].guesses
      /\ r.refusedBy = calls[c].refusedBy /\ r.id = calls[c].id /\ r.sent = calls[c].sent
    BY <1>2 DEF Record
<1>4. /\ calls' = [calls EXCEPT ![c] = r]
      /\ doing' = [doing EXCEPT ![g] = Idle]
      /\ UNCHANGED <<internal, tracked, byStream, nextId, outbox, writing>>
    BY DEF GiveUp, c
<1> HIDE DEF r
<1>5. /\ calls' \in Seq(Record) /\ Len(calls') = Len(calls) /\ DOMAIN calls' = DOMAIN calls
      /\ calls'[c] = r /\ \A d \in DOMAIN calls \ {c} : calls'[d] = calls[d]
    BY <1>1, <1>3, <1>4, Replaced DEF Types
<1>6. Types'
    BY <1>4, <1>5 DEF Types, Doing
<1>7. \A h \in Goroutines : h # g /\ doing[h] # Idle => doing[h].call \in DOMAIN calls \ {c}
    BY <1>1 DEF CallingInv
<1>8. CallingInv'
    BY <1>4, <1>5, <1>7 DEF CallingInv, Types
<1>9. InternalInv'
  <2> SUFFICES ASSUME NEW h \in Goroutines \ Untracked
               PROVE  MayWait(internal'[h], h, doing'[h], calls')
      BY DEF InternalInv
  <2>1. internal'[h] = internal[h] /\ MayWait(internal[h], h, doing[h], calls)
      BY <1>4 DEF InternalInv
  <2>2. \A s : Ended(s, h, calls) => Ended(s, h, calls')
      BY <1>3, <1>5 DEF Ended
  <2>3. CASE h = g
    <3>1. doing'[h] = Idle /\ doing[h] # Idle /\ doing[h].call = c
        BY <1>1, <1>4, <2>3 DEF Types, c
    <3>2. calls[c].opens = 0 => Ended(c, g, calls')
        BY <1>1, <1>3, <1>5 DEF Ended
    <3>3. calls[c].kind \in {"unary", "stream"} /\ (calls[c].opens = 0 \/ calls[c].opens > 0)
        BY <1>2 DEF Record
    <3>4. internal[h] # None => calls[c].opens = 0 /\ (internal[h] = c \/ Ended(internal[h], h, calls))
        BY <2>1, <3>1, <3>3 DEF MayWait
    <3>5. QED
        BY <2>1, <2>2, <2>3, <3>1, <3>2, <3>4 DEF MayWait
  <2>4. CASE h # g
    <3>1. doing'[h] = doing[h] /\ (doing[h] # Idle => calls'[doing[h].call] = calls[doing[h].call])
        BY <2>4, <1>4, <1>5, <1>7 DEF Types
    <3>2. QED
        BY <2>1, <2>2, <3>1 DEF MayWait
  <2>5. QED
      BY <2>3, <2>4
<1>10. TrackedInv' /\ KnownInv' /\ MeantInv'
    BY <1>3, <1>4, <1>5 DEF TrackedInv, KnownInv, MeantInv
<1>11. FrameInv'
    BY <1>3, <1>4, <1>5 DEF FrameInv
<1>12. WaitingInv'
    BY <1>3, <1>4, <1>5 DEF WaitingInv, Before
<1>13. StoredIsMeant'
  <2> SUFFICES ASSUME NEW d \in DOMAIN calls
               PROVE  LET s == calls'[d].stored
                      IN  calls'[d].opens > 0 /\ s # calls'[d].meant =>
                            \/ calls'[d].g \in Untracked
                            \/ /\ calls'[d].kind = "unary"
                               /\ calls'[d].opens > 1 \/ "internal" \in calls'[d].refusedBy
                               /\ s # None =>
                                     /\ calls'[s].kind = "unary"
                                     /\ FirstWord[calls'[s].ctx] # NoWord
                                     /\ FirstWord[calls'[s].ctx] \in Reachable(StreamWord[calls'[d].ctx])
                            \/ /\ calls'[d].kind = "stream"
                               /\ s \in 1..d - 1 /\ calls'[s].g = calls'[d].g
                               /\ calls'[s].failed /\ calls'[s].opens = 0
      BY <1>5 DEF StoredIsMeant
  <2>1. calls[d].stored \in DOMAIN calls \cup {None}
      BY DEF KnownInv
  <2>2. \A e \in DOMAIN calls :
            /\ calls'[e].g = calls[e].g /\ calls'[e].kind = calls[e].kind /\ calls'[e].ctx = calls[e].ctx
            /\ calls'[e].opens = calls[e].opens /\ calls'[e].meant = calls[e].meant
            /\ calls'[e].stored = calls[e].stored /\ calls'[e].refusedBy = calls[e].refusedBy
            /\ calls[e].failed => calls'[e].failed
      BY <1>3, <1>5
  <2>3. \A s \in 1..d - 1 : s \in DOMAIN calls
      BY DEF Types
  <2>4. QED
      BY <2>1, <2>2, <2>3 DEF StoredIsMeant
<1>14. QED
    BY <1>6, <1>8, <1>9, <1>10, <1>11, <1>12, <1>13

\* What a call's id, its frame and what it carried have no part in.
LEMMA OriginKept ==
    ASSUME ClientInv, UNCHANGED <<internal, tracked>>, DOMAIN calls' = DOMAIN calls,
           \A c \in DOMAIN calls :
               /\ calls'[c].g = calls[c].g /\ calls'[c].kind = calls[c].kind /\ calls'[c].ctx = calls[c].ctx
               /\ calls'[c].opens = calls[c].opens /\ calls'[c].meant = calls[c].meant
               /\ calls'[c].stored = calls[c].stored /\ calls'[c].refusedBy = calls[c].refusedBy
               /\ calls'[c].failed = calls[c].failed
    PROVE  /\ TrackedInv' /\ KnownInv' /\ MeantInv' /\ StoredIsMeant'
           /\ \A h \in Goroutines \ Untracked :
                 /\ doing[h] # Idle => MayWait(internal'[h], h, doing[h], calls')
                 /\ internal[h] # None /\ doing[h] = Idle => Ended(internal'[h], h, calls')
                 /\ internal'[h] = internal[h]
<1> USE DEF ClientInv
<1>1. TrackedInv' /\ KnownInv' /\ MeantInv'
    BY DEF TrackedInv, KnownInv, MeantInv
<1>2. StoredIsMeant'
  <2> SUFFICES ASSUME NEW d \in DOMAIN calls
               PROVE  LET s == calls'[d].stored
                      IN  calls'[d].opens > 0 /\ s # calls'[d].meant =>
                            \/ calls'[d].g \in Untracked
                            \/ /\ calls'[d].kind = "unary"
                               /\ calls'[d].opens > 1 \/ "internal" \in calls'[d].refusedBy
                               /\ s # None =>
                                     /\ calls'[s].kind = "unary"
                                     /\ FirstWord[calls'[s].ctx] # NoWord
                                     /\ FirstWord[calls'[s].ctx] \in Reachable(StreamWord[calls'[d].ctx])
                            \/ /\ calls'[d].kind = "stream"
                               /\ s \in 1..d - 1 /\ calls'[s].g = calls'[d].g
                               /\ calls'[s].failed /\ calls'[s].opens = 0
      BY DEF StoredIsMeant
  <2>1. calls[d].stored \in DOMAIN calls \cup {None}
      BY DEF KnownInv
  <2>2. \A s \in 1..d - 1 : s \in DOMAIN calls
      BY DEF Types
  <2>3. QED
      BY <2>1, <2>2 DEF StoredIsMeant
<1>3. ASSUME NEW h \in Goroutines \ Untracked
      PROVE  /\ doing[h] # Idle => MayWait(internal'[h], h, doing[h], calls')
             /\ internal[h] # None /\ doing[h] = Idle => Ended(internal'[h], h, calls')
             /\ internal'[h] = internal[h]
  <2>1. MayWait(internal[h], h, doing[h], calls) /\ internal'[h] = internal[h]
      BY DEF InternalInv
  <2>2. doing[h] # Idle => doing[h].call \in DOMAIN calls
      BY DEF CallingInv
  <2>3. \A s : Ended(s, h, calls) => Ended(s, h, calls')
      BY DEF Ended
  <2>4. QED
      BY <2>1, <2>2, <2>3 DEF MayWait
<1>4. QED
    BY <1>1, <1>2, <1>3

LEMMA OpenFailsInv ==
    ASSUME ClientInv, NEW g \in Goroutines, OpenFails(g)
    PROVE  ClientInv'
<1> USE DEF ClientInv
<1>1. /\ doing[g].pc = "opening" /\ doing[g] \in Doing /\ doing[g] # Idle
      /\ doing' = [doing EXCEPT ![g].pc = "calling"]
      /\ UNCHANGED <<calls, internal, tracked, byStream, nextId, outbox, writing>>
    BY DEF OpenFails, Types, Idle
<1>2. /\ doing'[g] \in Doing /\ doing'[g] # Idle /\ doing'[g].call = doing[g].call
      /\ doing'[g].pc = "calling"
    BY <1>1 DEF Doing, Idle, Types
<1>3. \A h \in Goroutines \ {g} : doing'[h] = doing[h]
    BY <1>1 DEF Types
<1>4. doing' \in [Goroutines -> Doing]
    BY <1>1, <1>2, <1>3 DEF Types
<1>5. Types'
    BY <1>1, <1>4 DEF Types
<1>6. CallingInv'
    BY <1>1, <1>2, <1>3 DEF CallingInv
<1>7. InternalInv'
    BY <1>1, <1>2, <1>3 DEF InternalInv, MayWait
<1>8. TrackedInv' /\ KnownInv' /\ MeantInv' /\ FrameInv' /\ WaitingInv' /\ StoredIsMeant'
    BY <1>1 DEF TrackedInv, KnownInv, MeantInv, FrameInv, WaitingInv, Before, StoredIsMeant
<1>9. QED
    BY <1>5, <1>6, <1>7, <1>8

LEMMA AssignIdInv ==
    ASSUME ClientInv, NEW g \in Goroutines, AssignId(g)
    PROVE  ClientInv'
<1> DEFINE c == doing[g].call
           k == calls[c].conn
           r == [calls[c] EXCEPT !.id = nextId[k]]
<1> USE DEF ClientInv
<1>1. /\ doing[g].pc = "opening" /\ doing[g] # Idle /\ nextId[k] \in StreamIds /\ k \in Conns
      /\ c \in DOMAIN calls /\ calls[c].g = g /\ calls[c].id = None /\ ~calls[c].sent /\ calls[c].opens > 0
    BY DEF AssignId, CallingInv, Idle
<1>2. calls[c] \in Record /\ c \in Calls /\ nextId[k] # None
    BY <1>1, BoundsAssumption DEF Types, Calls, StreamIds, None
<1>3. /\ calls' = [calls EXCEPT ![c] = r]
      /\ doing' = [doing EXCEPT ![g] = Idle]
      /\ nextId' = [nextId EXCEPT ![k] = @ + 1]
      /\ outbox' = [outbox EXCEPT ![k] = Append(@, c)]
      /\ UNCHANGED <<internal, tracked, byStream, writing>>
    BY DEF AssignId
<1>4. doing[g].call = c
    OBVIOUS
<1> HIDE DEF c, k
<1>5. /\ r \in Record /\ r.id = nextId[k] /\ r.id # None
      /\ r.g = calls[c].g /\ r.kind = calls[c].kind /\ r.ctx = calls[c].ctx /\ r.opens = calls[c].opens
      /\ r.meant = calls[c].meant /\ r.stored = calls[c].stored /\ r.guesses = calls[c].guesses
      /\ r.refusedBy = calls[c].refusedBy /\ r.failed = calls[c].failed /\ r.sent = calls[c].sent
    BY <1>1, <1>2 DEF Record
<1> HIDE DEF r
<1>6. /\ calls' \in Seq(Record) /\ Len(calls') = Len(calls) /\ DOMAIN calls' = DOMAIN calls
      /\ calls'[c] = r /\ \A d \in DOMAIN calls \ {c} : calls'[d] = calls[d]
    BY <1>1, <1>3, <1>5, Replaced DEF Types
<1>7. /\ TrackedInv' /\ KnownInv' /\ MeantInv' /\ StoredIsMeant'
      /\ \A h \in Goroutines \ Untracked :
            /\ doing[h] # Idle => MayWait(internal'[h], h, doing[h], calls')
            /\ internal[h] # None /\ doing[h] = Idle => Ended(internal'[h], h, calls')
            /\ internal'[h] = internal[h]
  <2>1. \A d \in DOMAIN calls :
            /\ calls'[d].g = calls[d].g /\ calls'[d].kind = calls[d].kind /\ calls'[d].ctx = calls[d].ctx
            /\ calls'[d].opens = calls[d].opens /\ calls'[d].meant = calls[d].meant
            /\ calls'[d].stored = calls[d].stored /\ calls'[d].refusedBy = calls[d].refusedBy
            /\ calls'[d].failed = calls[d].failed
      BY <1>5, <1>6
  <2>2. QED
      BY <1>3, <1>6, <2>1, OriginKept
<1>8. outbox' \in [Conns -> Seq(Calls)]
    BY <1>1, <1>2, <1>3 DEF Types
<1>9. nextId' \in [Conns -> Nat \ {0}]
    BY <1>1, <1>3 DEF Types
<1>10. Types'
    BY <1>3, <1>6, <1>8, <1>9 DEF Types, Doing
<1>11. CallingInv'
  <2>1. \A h \in Goroutines \ {g} : doing[h] # Idle => doing[h].call \in DOMAIN calls \ {c}
      BY <1>1 DEF CallingInv
  <2>2. QED
      BY <1>3, <1>6, <2>1 DEF CallingInv, Types
<1>12. InternalInv'
  <2> SUFFICES ASSUME NEW h \in Goroutines \ Untracked
               PROVE  MayWait(internal'[h], h, doing'[h], calls')
      BY DEF InternalInv
  <2>1. CASE h = g
    <3>1. internal[h] = None
        BY <1>1, <1>4, <2>1 DEF InternalInv, MayWait
    <3>2. QED
        BY <1>3, <1>7, <2>1, <3>1 DEF MayWait, Types
  <2>2. CASE h # g
      BY <1>3, <1>7, <2>2 DEF MayWait, Types
  <2>3. QED
      BY <2>1, <2>2
<1>13. FrameInv'
  <2>1. ASSUME NEW j \in Conns, NEW n \in DOMAIN outbox'[j]
        PROVE  outbox'[j][n] \in DOMAIN calls' /\ calls'[outbox'[j][n]].id # None
    <3>1. outbox'[j][n] = c \/ (n \in DOMAIN outbox[j] /\ outbox'[j][n] = outbox[j][n])
        BY <1>3 DEF Types
    <3>2. QED
        BY <1>1, <1>5, <1>6, <3>1 DEF FrameInv
  <2>2. \A w \in Writers : writing[w] # Idle /\ writing[w].call # None => writing[w].call # c
      BY <1>1, <1>2 DEF FrameInv, Types, InHand, StreamIds, None
  <2>3. QED
      BY <1>3, <1>6, <2>1, <2>2 DEF FrameInv
<1>14. WaitingInv'
  <2>1. \A w \in Writers : ~(writing[w] # Idle /\ writing[w].pc = "gone" /\ writing[w].call = c)
      BY <1>1, <1>2, BoundsAssumption DEF FrameInv, Types, InHand, StreamIds, None, Calls
  <2>2. \A d \in DOMAIN calls : d = c \/ Before(d) => Before(d)'
      BY <1>1, <1>3, <1>5, <1>6, <2>1 DEF Before
  <2>3. \A d \in DOMAIN calls : /\ calls'[d].guesses = calls[d].guesses
                                /\ d # c => calls'[d].id = calls[d].id
      BY <1>5, <1>6
  <2>4. ASSUME NEW i \in StreamIds, byStream'[i] # None
        PROVE  \E d \in DOMAIN calls' : i \in calls'[d].guesses /\ (calls'[d].id # i \/ Before(d)')
    <3>1. PICK d \in DOMAIN calls : i \in calls[d].guesses /\ (calls[d].id # i \/ Before(d))
        BY <1>3, <2>4 DEF WaitingInv
    <3>2. i \in calls'[d].guesses /\ (calls'[d].id # i \/ Before(d)')
        BY <2>2, <2>3, <3>1
    <3>3. QED
        BY <1>6, <3>2
  <2>5. QED
      BY <2>4 DEF WaitingInv
<1>15. QED
    BY <1>7, <1>10, <1>11, <1>12, <1>13, <1>14

LEMMA NewStreamInv ==
    ASSUME ClientInv, NEW g \in Goroutines, NEW k \in Conns, NewStream(g, k)
    PROVE  ClientInv'
<1> USE DEF ClientInv
<1>1. PICK c : c = doing[g].call
    OBVIOUS
<1>2. PICK v : v = Chosen(g, calls[c].ctx)
    OBVIOUS
<1>3. PICK i : i = nextId[k] /\ i \in StreamIds
    BY DEF NewStream, NextIdRead
<1>4. /\ doing[g].pc = "calling" /\ doing[g] # Idle
      /\ c \in DOMAIN calls /\ calls[c].g = g /\ calls[c].id = None /\ ~calls[c].sent
      /\ ~calls[c].failed /\ calls[c] \in Record /\ c \in Calls
  <2>1. doing[g].pc = "calling" /\ doing[g] # Idle
      BY DEF NewStream, Idle
  <2>2. /\ c \in DOMAIN calls /\ calls[c].g = g /\ calls[c].id = None /\ ~calls[c].sent
        /\ ~calls[c].failed
      BY <1>1, <2>1 DEF CallingInv
  <2>3. calls[c] \in Record /\ c \in 1..Len(calls) /\ Len(calls) <= MaxCalls /\ Len(calls) \in Nat
      BY <2>2 DEF Types
  <2>4. QED
      BY <2>1, <2>2, <2>3, BoundsAssumption DEF Calls
<1>5. v \in Calls \cup {None} /\ v \in DOMAIN calls \cup {None}
    BY <1>2, ChosenIsKnown
<1>6. PICK r : r = Opened(calls[c], k, v, i, byStream'[i] # v)
    OBVIOUS
<1>7. /\ calls' = [calls EXCEPT ![c] = r]
      /\ internal' = [internal EXCEPT ![Goid(g)] = None]
      /\ doing' = [doing EXCEPT ![g] = [pc |-> "opening", call |-> c]]
      /\ UNCHANGED <<tracked, nextId, outbox>>
    BY <1>1, <1>2, <1>3, <1>6 DEF NewStream, Spent, NextIdRead
<1>8. /\ byStream' \in [StreamIds -> Calls \cup {None}]
      /\ \A j \in StreamIds : byStream'[j] = byStream[j] \/ (j = i /\ v # None)
  <2>1. byStream' = byStream \/ (v # None /\ byStream' = Updated(byStream, i, v, MaxConcurrent))
      BY <1>1, <1>2, <1>3 DEF NewStream, NextIdRead
  <2>2. QED
      BY <1>3, <1>5, <2>1 DEF Types, Updated
<1>9. /\ writing' \in [Writers -> InHand]
      /\ \A w \in Writers : writing'[w] # Idle =>
            /\ writing[w] # Idle
            /\ writing'[w].pc = writing[w].pc
            /\ writing'[w].call = writing[w].call
            /\ writing'[w].id = writing[w].id
  <2>1. \/ writing' = writing
        \/ v # None /\ writing' = Reusing(i, v)
      BY <1>1, <1>2, <1>3 DEF NewStream, NextIdRead
  <2>2. CASE writing' = writing
      BY <2>2 DEF Types
  <2>3. CASE v # None /\ writing' = Reusing(i, v)
    <3>1. v \in Calls
        BY <1>5, <2>3
    <3>2. QED
        BY <1>3, <2>3, <3>1, ReusingKeeps
  <2>4. QED
      BY <2>1, <2>2, <2>3
<1>10. PICK found : found = FoundSpan(tracked, StreamWord[calls[c].ctx])
    OBVIOUS
<1>11. /\ r \in Record /\ r.opens = calls[c].opens + 1 /\ r.stored = v /\ r.conn = k
       /\ r.guesses = (IF v = None THEN calls[c].guesses ELSE calls[c].guesses \cup {i})
       /\ calls[c].refusedBy \subseteq r.refusedBy
       /\ r.meant = (IF calls[c].kind = "stream" THEN found ELSE calls[c].meant)
       /\ r.g = calls[c].g /\ r.kind = calls[c].kind /\ r.ctx = calls[c].ctx
       /\ r.failed = calls[c].failed /\ r.id = calls[c].id /\ r.sent = calls[c].sent
  <2>1. i \in Nat /\ calls[c].opens + 1 \in Nat
      BY <1>3, <1>4 DEF StreamIds, Record
  <2>2. PICK b : b = (IF v = None THEN calls[c].guesses ELSE calls[c].guesses \cup {i})
      OBVIOUS
  <2>3. PICK f : f = (IF v # None /\ byStream'[i] # v THEN calls[c].refusedBy \cup {"byStream"}
                      ELSE calls[c].refusedBy)
      OBVIOUS
  <2>4. PICK m : m = (IF calls[c].kind = "stream" THEN found ELSE calls[c].meant)
      OBVIOUS
  <2>5. b \in SUBSET StreamIds
      BY <1>3, <1>4, <2>2 DEF Record
  <2>6. f \in SUBSET {"internal", "byStream"} /\ calls[c].refusedBy \subseteq f
      BY <1>4, <2>3 DEF Record
  <2>7. m \in Calls \cup {None}
    <3>1. found \in Calls \cup {None}
        BY <1>10, FoundIsUnary
    <3>2. QED
        BY <1>4, <2>4, <3>1 DEF Record
  <2>8. r = [calls[c] EXCEPT !.opens = calls[c].opens + 1, !.guess = i, !.stored = v, !.conn = k,
                             !.guesses = b, !.refusedBy = f, !.meant = m]
      BY <1>3, <1>6, <1>10, <2>2, <2>3, <2>4 DEF Opened
  <2>9. r \in Record
    <3>1. PICK q \in Record : q = calls[c]
        BY <1>4
    <3>2. PICK n \in Nat : n = calls[c].opens + 1
        BY <2>1
    <3>3. i \in Nat /\ v \in Calls \cup {None}
        BY <1>5, <2>1
    <3>4. [q EXCEPT !.opens = n, !.guess = i, !.stored = v, !.conn = k,
                    !.guesses = b, !.refusedBy = f, !.meant = m] \in Record
        BY <2>5, <2>6, <2>7, <3>3 DEF Record
    <3>5. QED
        BY <2>8, <3>1, <3>2, <3>4, Zenon
  <2>10. /\ r.opens = calls[c].opens + 1 /\ r.stored = v /\ r.conn = k /\ r.guesses = b
         /\ r.refusedBy = f /\ r.meant = m
      BY <1>4, <2>8 DEF Record
  <2>11. /\ r.g = calls[c].g /\ r.kind = calls[c].kind /\ r.ctx = calls[c].ctx
         /\ r.failed = calls[c].failed /\ r.id = calls[c].id /\ r.sent = calls[c].sent
      BY <1>4, <2>8 DEF Record
  <2>12. QED
      BY <2>2, <2>4, <2>6, <2>9, <2>10, <2>11
<1>12. /\ calls' \in Seq(Record) /\ Len(calls') = Len(calls) /\ DOMAIN calls' = DOMAIN calls
       /\ calls'[c] = r /\ \A d \in DOMAIN calls \ {c} : calls'[d] = calls[d]
    BY <1>4, <1>7, <1>11, Replaced DEF Types
<1>13. \A h \in Goroutines \ {g} : /\ doing'[h] = doing[h]
                                   /\ doing[h] # Idle => doing[h].call \in DOMAIN calls \ {c}
    BY <1>4, <1>7 DEF CallingInv, Types
<1>14. doing'[g] = [pc |-> "opening", call |-> c]
    BY <1>7 DEF Types
<1>15. internal' \in [Goids -> Calls \cup {None}]
    BY <1>7, GoidOf DEF Types
<1>16. doing' \in [Goroutines -> Doing]
    BY <1>4, <1>7 DEF Types, Doing
<1>17. Types'
    BY <1>7, <1>8, <1>9, <1>12, <1>15, <1>16 DEF Types
<1>18. CallingInv'
  <2>1. \A h \in Goroutines \ {g} : doing'[h] # Idle => doing'[h].call \in DOMAIN calls /\
                                      calls'[doing'[h].call] = calls[doing[h].call] /\ doing'[h] = doing[h]
      BY <1>12, <1>13
  <2>2. r.opens > 0
      BY <1>4, <1>11 DEF Record
  <2>3. QED
      BY <1>4, <1>11, <1>12, <1>14, <2>1, <2>2 DEF CallingInv
<1>19. \A h \in Goroutines : \A s : Ended(s, h, calls) => s # c /\ Ended(s, h, calls')
    BY <1>4, <1>12 DEF Ended
<1>20. InternalInv'
  <2> SUFFICES ASSUME NEW h \in Goroutines \ Untracked
               PROVE  MayWait(internal'[h], h, doing'[h], calls')
      BY DEF InternalInv
  <2>1. CASE h = g
    <3>1. internal'[h] = None
        BY <1>7, <2>1, GoidOf DEF Types
    <3>2. calls'[c].opens > 0 /\ calls'[c].opens # 0
        BY <1>4, <1>11, <1>12 DEF Record
    <3>3. doing'[h] # Idle /\ doing'[h].call = c
        BY <1>14, <2>1 DEF Idle
    <3>4. QED
        BY <3>1, <3>2, <3>3 DEF MayWait
  <2>2. CASE h # g
    <3>1. internal'[h] = internal[h]
        BY <1>7, <2>2, GoidOf DEF Types, Goids
    <3>2. MayWait(internal[h], h, doing[h], calls)
        BY DEF InternalInv
    <3>3. doing'[h] = doing[h] /\ (doing[h] # Idle => calls'[doing[h].call] = calls[doing[h].call])
        BY <1>12, <1>13, <2>2
    <3>4. QED
        BY <1>19, <3>1, <3>2, <3>3 DEF MayWait
  <2>3. QED
      BY <2>1, <2>2
<1>21. TrackedInv'
    BY <1>7, <1>11, <1>12 DEF TrackedInv
<1>22. KnownInv'
  <2>1. \A j \in Goids : internal'[j] = internal[j] \/ internal'[j] = None
      BY <1>7 DEF Types
  <2>2. QED
      BY <1>5, <1>11, <1>12, <2>1 DEF KnownInv
<1>23. MeantInv'
    BY <1>11, <1>12 DEF MeantInv
<1>24. FrameInv'
  <2>1. \A d \in DOMAIN calls : calls'[d].id = calls[d].id
      BY <1>11, <1>12
  <2>2. \A j \in Conns : \A n \in DOMAIN outbox'[j] :
            outbox'[j][n] \in DOMAIN calls' /\ calls'[outbox'[j][n]].id # None
      BY <1>7, <1>12, <2>1 DEF FrameInv
  <2>3. ASSUME NEW w \in Writers, writing'[w] # Idle, writing'[w].call # None
        PROVE  writing'[w].call \in DOMAIN calls' /\ calls'[writing'[w].call].id = writing'[w].id
      BY <1>9, <1>12, <2>1, <2>3 DEF FrameInv
  <2>4. QED
      BY <2>2, <2>3 DEF FrameInv
<1>25. WaitingInv'
  <2>1. \A d \in DOMAIN calls : /\ calls[d].guesses \subseteq calls'[d].guesses
                                /\ calls'[d].id = calls[d].id /\ calls'[d].sent = calls[d].sent
      BY <1>11, <1>12
  <2>2. ASSUME NEW d \in DOMAIN calls, Before(d)
        PROVE  Before(d)'
    <3>1. ~calls'[d].sent
        BY <2>1, <2>2 DEF Before
    <3>2. \A w \in Writers : ~(writing'[w] # Idle /\ writing'[w].pc = "gone" /\ writing'[w].call = d)
        BY <1>9, <2>2 DEF Before
    <3>3. QED
        BY <3>1, <3>2 DEF Before
  <2>3. ASSUME NEW j \in StreamIds, byStream'[j] # None
        PROVE  \E d \in DOMAIN calls' : j \in calls'[d].guesses /\ (calls'[d].id # j \/ Before(d)')
    <3>1. CASE byStream'[j] = byStream[j]
      <4>1. PICK d \in DOMAIN calls : j \in calls[d].guesses /\ (calls[d].id # j \/ Before(d))
          BY <2>3, <3>1 DEF WaitingInv
      <4>2. j \in calls'[d].guesses /\ (calls'[d].id # j \/ Before(d)')
          BY <2>1, <2>2, <4>1
      <4>3. QED
          BY <1>12, <4>2
    <3>2. CASE j = i /\ v # None
      <4>1. j \in calls'[c].guesses /\ calls'[c].id # j
          BY <1>4, <1>11, <1>12, <3>2 DEF StreamIds, None
      <4>2. QED
          BY <1>4, <1>12, <4>1
    <3>3. QED
        BY <1>8, <3>1, <3>2
  <2>4. QED
      BY <2>3 DEF WaitingInv
<1>26. StoredIsMeant'
  <2> SUFFICES ASSUME NEW d \in DOMAIN calls
               PROVE  LET s == calls'[d].stored
                      IN  calls'[d].opens > 0 /\ s # calls'[d].meant =>
                            \/ calls'[d].g \in Untracked
                            \/ /\ calls'[d].kind = "unary"
                               /\ calls'[d].opens > 1 \/ "internal" \in calls'[d].refusedBy
                               /\ s # None =>
                                     /\ calls'[s].kind = "unary"
                                     /\ FirstWord[calls'[s].ctx] # NoWord
                                     /\ FirstWord[calls'[s].ctx] \in Reachable(StreamWord[calls'[d].ctx])
                            \/ /\ calls'[d].kind = "stream"
                               /\ s \in 1..d - 1 /\ calls'[s].g = calls'[d].g
                               /\ calls'[s].failed /\ calls'[s].opens = 0
      BY <1>12 DEF StoredIsMeant
  <2>1. \A e \in DOMAIN calls : /\ calls'[e].g = calls[e].g /\ calls'[e].ctx = calls[e].ctx
                                /\ calls'[e].failed = calls[e].failed /\ calls'[e].kind = calls[e].kind
      BY <1>11, <1>12
  <2>2. CASE d # c
    <3>1. \A s \in 1..d - 1 : s \in DOMAIN calls
        BY DEF Types
    <3>2. calls'[d] = calls[d] /\ calls[d].stored \in DOMAIN calls \cup {None}
        BY <1>12, <2>2 DEF KnownInv
    <3>3. \A s \in DOMAIN calls : calls[s].failed => calls'[s].opens = calls[s].opens
        BY <1>4, <1>12
    <3>4. QED
        BY <2>1, <3>1, <3>2, <3>3 DEF StoredIsMeant
  <2>3. CASE d = c /\ g \notin Untracked
    <3>1. /\ v = (IF internal[g] # None THEN internal[g] ELSE found)
          /\ MayWait(internal[g], g, doing[g], calls) /\ doing[g].call = c
        BY <1>1, <1>2, <1>10, <2>3 DEF Chosen, Goid, InternalInv
    <3>2. found # None => /\ calls'[found].kind = "unary"
                          /\ FirstWord[calls'[found].ctx] # NoWord
                          /\ FirstWord[calls'[found].ctx] \in Reachable(StreamWord[calls[c].ctx])
      <4>1. found # None => /\ found \in DOMAIN calls /\ calls[found].kind = "unary"
                            /\ FirstWord[calls[found].ctx] # NoWord
                            /\ FirstWord[calls[found].ctx] \in Reachable(StreamWord[calls[c].ctx])
          BY <1>10, FoundIsUnary
      <4>2. QED
          BY <2>1, <4>1
    <3>3. calls[c].opens \in Nat /\ calls[c].kind \in {"unary", "stream"}
        BY <1>4 DEF Record
    <3>4. CASE calls[c].kind = "unary"
      <4>1. calls[c].meant = c
          BY <1>4, <3>4 DEF MeantInv
      <4>2. CASE calls[c].opens > 0
        <5>1. v = found
            BY <1>4, <3>1, <4>2 DEF MayWait
        <5>2. calls'[d].opens > 1
            BY <1>11, <1>12, <2>3, <3>3, <4>2
        <5>3. /\ calls'[d].kind = "unary" /\ calls'[d].stored = v /\ calls'[d].ctx = calls[c].ctx
              /\ v # None => /\ calls'[v].kind = "unary"
                             /\ FirstWord[calls'[v].ctx] # NoWord
                             /\ FirstWord[calls'[v].ctx] \in Reachable(StreamWord[calls'[d].ctx])
            BY <1>11, <1>12, <2>3, <3>2, <3>4, <5>1
        <5>4. QED
            BY <5>2, <5>3
      <4>3. CASE calls[c].opens = 0
        <5>1. internal[g] = c \/ (internal[g] = None /\ "internal" \in calls[c].refusedBy)
            BY <1>4, <3>1, <3>4, <4>3 DEF MayWait
        <5>2. /\ calls'[d].kind = "unary" /\ calls'[d].stored = v /\ calls'[d].ctx = calls[c].ctx
              /\ calls'[d].meant = c /\ calls[c].refusedBy \subseteq calls'[d].refusedBy
            BY <1>11, <1>12, <2>3, <3>4, <4>1
        <5>3. CASE internal[g] = c
            BY <3>1, <5>2, <5>3, <1>4 DEF Calls, None
        <5>4. CASE internal[g] = None /\ "internal" \in calls[c].refusedBy
            BY <3>1, <3>2, <5>2, <5>4
        <5>5. QED
            BY <5>1, <5>3, <5>4
      <4>4. QED
          BY <3>3, <4>2, <4>3
    <3>5. CASE calls[c].kind = "stream"
      <4>1. calls'[d].meant = found /\ calls'[d].stored = v
          BY <1>11, <1>12, <2>3, <3>5
      <4>2. CASE internal[g] = None
          BY <3>1, <4>1, <4>2
      <4>3. CASE internal[g] # None
        <5>1. calls[c].opens = 0
            BY <1>4, <3>1, <3>3, <4>3 DEF MayWait
        <5>2. v = internal[g] /\ Ended(v, g, calls) /\ v < c
            BY <1>4, <3>1, <3>5, <4>3, <5>1 DEF MayWait
        <5>3. v \in 1..d - 1 /\ calls'[v] = calls[v]
            BY <1>4, <1>12, <2>3, <5>2 DEF Ended, Types
        <5>4. QED
            BY <1>4, <1>11, <1>12, <2>3, <3>5, <4>1, <5>2, <5>3 DEF Ended
      <4>4. QED
          BY <4>2, <4>3
    <3>6. QED
        BY <3>3, <3>4, <3>5
  <2>4. CASE d = c /\ g \in Untracked
      BY <1>4, <2>1, <2>4
  <2>5. QED
      BY <2>2, <2>3, <2>4
<1>27. QED
    BY <1>17, <1>18, <1>20, <1>21, <1>22, <1>23, <1>24, <1>25, <1>26

\* A call whose frame a writer sends: it has its id, so no goroutine is at it.
LEMMA SendKeeps ==
    ASSUME ClientInv, NEW w \in Writers, NEW c \in DOMAIN calls \cup {None}, NEW v \in Calls \cup {None, Mixed},
           NEW reused \in BOOLEAN, Send(w, c, v, reused), c # None => calls[c].id # None,
           UNCHANGED <<doing, internal, tracked, nextId>>
    PROVE  /\ calls' \in Seq(Record) /\ Len(calls') = Len(calls) /\ DOMAIN calls' = DOMAIN calls
           /\ CallingInv' /\ InternalInv' /\ TrackedInv' /\ KnownInv' /\ MeantInv' /\ StoredIsMeant'
           /\ \A d \in DOMAIN calls : calls'[d].guesses = calls[d].guesses
           /\ \A d \in DOMAIN calls : calls'[d].id = calls[d].id
           /\ \A d \in DOMAIN calls : d # c /\ ~calls[d].sent => ~calls'[d].sent
<1> USE DEF ClientInv
<1>1. CASE c = None \/ c \notin DOMAIN calls
  <2>1. calls' = calls
      BY <1>1 DEF Send
  <2>2. QED
      BY <2>1 DEF Types, CallingInv, InternalInv, TrackedInv, KnownInv, MeantInv, StoredIsMeant
<1>2. CASE c # None /\ c \in DOMAIN calls
  <2>1. PICK r : r = [calls[c] EXCEPT !.sent = TRUE, !.carried = v, !.reused = reused]
      OBVIOUS
  <2>2. calls[c] \in Record
      BY <1>2 DEF Types
  <2>3. calls' = [calls EXCEPT ![c] = r]
      BY <1>2, <2>1 DEF Send
  <2>4. r \in Record
      BY <2>1, <2>2 DEF Record
  <2>5. /\ r.g = calls[c].g /\ r.kind = calls[c].kind /\ r.ctx = calls[c].ctx /\ r.opens = calls[c].opens
        /\ r.meant = calls[c].meant /\ r.stored = calls[c].stored /\ r.guesses = calls[c].guesses
        /\ r.refusedBy = calls[c].refusedBy /\ r.failed = calls[c].failed /\ r.id = calls[c].id
      BY <2>1, <2>2 DEF Record
  <2>6. /\ calls' \in Seq(Record) /\ Len(calls') = Len(calls) /\ DOMAIN calls' = DOMAIN calls
        /\ calls'[c] = r /\ \A d \in DOMAIN calls \ {c} : calls'[d] = calls[d]
      BY <1>2, <2>3, <2>4, Replaced DEF Types
  <2>7. \A d \in DOMAIN calls :
            /\ calls'[d].g = calls[d].g /\ calls'[d].kind = calls[d].kind /\ calls'[d].ctx = calls[d].ctx
            /\ calls'[d].opens = calls[d].opens /\ calls'[d].meant = calls[d].meant
            /\ calls'[d].stored = calls[d].stored /\ calls'[d].refusedBy = calls[d].refusedBy
            /\ calls'[d].failed = calls[d].failed
      BY <2>5, <2>6
  <2>8. /\ TrackedInv' /\ KnownInv' /\ MeantInv' /\ StoredIsMeant'
        /\ \A h \in Goroutines \ Untracked :
              /\ doing[h] # Idle => MayWait(internal'[h], h, doing[h], calls')
              /\ internal[h] # None /\ doing[h] = Idle => Ended(internal'[h], h, calls')
              /\ internal'[h] = internal[h]
      BY <2>6, <2>7, OriginKept
  <2>9. InternalInv'
      BY <2>8 DEF InternalInv, MayWait
  <2>10. \A g \in Goroutines : doing[g] # Idle => doing[g].call \in DOMAIN calls \ {c}
      BY <1>2 DEF CallingInv
  <2>11. CallingInv'
      BY <2>6, <2>10 DEF CallingInv
  <2>12. QED
      BY <2>5, <2>6, <2>8, <2>9, <2>11
<1>3. QED
    BY <1>1, <1>2

LEMMA LookupInv ==
    ASSUME ClientInv, NEW w \in Writers, NEW c \in DOMAIN calls \cup {None}, NEW id \in StreamIds, Lookup(w, c, id),
           c # None => calls[c].id = id,
           outbox' \in [Conns -> Seq(Calls)],
           \A k \in Conns : \A n \in DOMAIN outbox'[k] : \E m \in DOMAIN outbox[k] : outbox'[k][n] = outbox[k][m]
    PROVE  ClientInv'
<1> USE DEF ClientInv
<1>1. /\ writing[w] = Idle
      /\ UNCHANGED <<doing, internal, tracked, byStream, nextId>>
    BY DEF Lookup
<1>2. id # None /\ c \in Calls \cup {None}
    BY BoundsAssumption DEF StreamIds, None, Types, Calls
<1>3. CASE byStream[id] = None
  <2>1. Send(w, c, None, FALSE) /\ writing' = writing
      BY <1>3 DEF Lookup
  <2>2. /\ calls' \in Seq(Record) /\ Len(calls') = Len(calls) /\ DOMAIN calls' = DOMAIN calls
        /\ CallingInv' /\ InternalInv' /\ TrackedInv' /\ KnownInv' /\ MeantInv' /\ StoredIsMeant'
        /\ \A d \in DOMAIN calls : calls'[d].guesses = calls[d].guesses
        /\ \A d \in DOMAIN calls : calls'[d].id = calls[d].id
        /\ \A d \in DOMAIN calls : d # c /\ ~calls[d].sent => ~calls'[d].sent
      BY <1>1, <1>2, <2>1, SendKeeps
  <2>3. Types'
      BY <1>1, <2>1, <2>2 DEF Types
  <2>4. FrameInv'
    <3>1. ASSUME NEW k \in Conns, NEW n \in DOMAIN outbox'[k]
          PROVE  outbox'[k][n] \in DOMAIN calls' /\ calls'[outbox'[k][n]].id # None
      <4>1. PICK m \in DOMAIN outbox[k] : outbox'[k][n] = outbox[k][m]
          BY <3>1
      <4>2. outbox[k][m] \in DOMAIN calls /\ calls[outbox[k][m]].id # None
          BY <4>1 DEF FrameInv
      <4>3. QED
          BY <2>2, <4>1, <4>2
    <3>2. ASSUME NEW u \in Writers, writing'[u] # Idle, writing'[u].call # None
          PROVE  writing'[u].call \in DOMAIN calls' /\ calls'[writing'[u].call].id = writing'[u].id
        BY <2>1, <2>2, <3>2 DEF FrameInv
    <3>3. QED
        BY <3>1, <3>2 DEF FrameInv
  <2>5. WaitingInv'
    <3>1. ASSUME NEW i \in StreamIds, byStream'[i] # None
          PROVE  \E d \in DOMAIN calls' : i \in calls'[d].guesses /\ (calls'[d].id # i \/ Before(d)')
      <4>1. PICK d \in DOMAIN calls : i \in calls[d].guesses /\ (calls[d].id # i \/ Before(d))
          BY <1>1, <3>1 DEF WaitingInv
      <4>2. i # id
          BY <1>1, <1>3, <3>1
      <4>3. CASE d = c
        <5>1. c # None /\ calls'[d].id = id /\ i \in calls'[d].guesses
            BY <2>2, <4>1, <4>3 DEF Types, None
        <5>2. QED
            BY <2>2, <4>2, <5>1
      <4>4. CASE d # c
        <5>1. ASSUME Before(d) PROVE Before(d)'
          <6>1. ~calls'[d].sent
              BY <2>2, <4>4, <5>1 DEF Before
          <6>2. QED
              BY <2>1, <5>1, <6>1 DEF Before
        <5>2. i \in calls'[d].guesses /\ (calls'[d].id # i \/ Before(d)')
            BY <2>2, <4>1, <5>1
        <5>3. QED
            BY <2>2, <5>2
      <4>5. QED
          BY <4>3, <4>4
    <3>2. QED
        BY <3>1 DEF WaitingInv
  <2>6. QED
      BY <2>2, <2>3, <2>4, <2>5
<1>4. CASE byStream[id] # None
  <2>1. /\ calls' = calls
        /\ writing' = [writing EXCEPT ![w] = [pc |-> "found", call |-> c, id |-> id,
                                             may |-> {byStream[id]}, freed |-> FALSE]]
      BY <1>4 DEF Lookup
  <2>2. byStream[id] \in Calls
      BY <1>4 DEF Types
  <2>3. writing' \in [Writers -> InHand]
      BY <1>2, <2>1, <2>2 DEF Types, InHand
  <2>4. Types'
      BY <1>1, <2>1, <2>3 DEF Types
  <2>5. /\ writing'[w].pc = "found" /\ writing'[w].call = c /\ writing'[w].id = id
        /\ \A u \in Writers \ {w} : writing'[u] = writing[u]
      BY <2>1 DEF Types
  <2>6. FrameInv'
    <3>1. \A k \in Conns : \A n \in DOMAIN outbox'[k] :
              outbox'[k][n] \in DOMAIN calls' /\ calls'[outbox'[k][n]].id # None
        BY <2>1 DEF FrameInv
    <3>2. \A u \in Writers : writing'[u] # Idle /\ writing'[u].call # None =>
              writing'[u].call \in DOMAIN calls' /\ calls'[writing'[u].call].id = writing'[u].id
        BY <2>1, <2>5 DEF FrameInv
    <3>3. QED
        BY <3>1, <3>2 DEF FrameInv
  <2>7. \A d \in DOMAIN calls : Before(d) => Before(d)'
      BY <2>1, <2>5 DEF Before
  <2>8. WaitingInv'
      BY <1>1, <2>1, <2>7 DEF WaitingInv
  <2>9. CallingInv' /\ InternalInv' /\ TrackedInv' /\ KnownInv' /\ MeantInv' /\ StoredIsMeant'
      BY <1>1, <2>1 DEF CallingInv, InternalInv, TrackedInv, KnownInv, MeantInv, StoredIsMeant
  <2>10. QED
      BY <2>4, <2>6, <2>8, <2>9
<1>5. QED
    BY <1>3, <1>4

LEMMA LookupRequestInv ==
    ASSUME ClientInv, NEW k \in Conns, LookupRequest(k)
    PROVE  ClientInv'
<1> DEFINE c == Head(outbox[k])
<1>1. /\ outbox[k] # <<>> /\ outbox[k] \in Seq(Calls)
      /\ Lookup(k, c, calls[c].id)
      /\ outbox' = [outbox EXCEPT ![k] = Tail(@)]
    BY DEF LookupRequest, ClientInv, Types
<1>2. c \in DOMAIN calls /\ calls[c].id # None
    BY <1>1 DEF ClientInv, FrameInv
<1>3. calls[c].id \in StreamIds
  <2>1. calls[c] \in Record
      BY <1>2 DEF ClientInv, Types
  <2>2. QED
      BY <1>2, <2>1 DEF Record
<1>4. outbox' \in [Conns -> Seq(Calls)]
    BY <1>1 DEF ClientInv, Types
<1>5. \A j \in Conns : \A n \in DOMAIN outbox'[j] : \E m \in DOMAIN outbox[j] : outbox'[j][n] = outbox[j][m]
  <2> SUFFICES ASSUME NEW j \in Conns, NEW n \in DOMAIN outbox'[j]
               PROVE  \E m \in DOMAIN outbox[j] : outbox'[j][n] = outbox[j][m]
      OBVIOUS
  <2>1. CASE j = k
    <3>1. outbox'[j] = Tail(outbox[j]) /\ outbox[j] \in Seq(Calls) /\ outbox[j] # <<>>
        BY <1>1, <2>1 DEF ClientInv, Types
    <3>2. n + 1 \in DOMAIN outbox[j] /\ outbox'[j][n] = outbox[j][n + 1]
        BY <3>1
    <3>3. QED
        BY <3>2
  <2>2. CASE j # k
      BY <1>1, <2>2 DEF ClientInv, Types
  <2>3. QED
      BY <2>1, <2>2
<1>6. k \in Writers
    BY DEF Writers
<1> HIDE DEF c
<1>7. QED
    BY <1>1, <1>2, <1>3, <1>4, <1>5, <1>6, LookupInv

LEMMA LookupResponseInv ==
    ASSUME ClientInv, NEW w \in ServerConns, NEW id \in ResponseIds, LookupResponse(w, id)
    PROVE  ClientInv'
<1>1. Lookup(w, None, id) /\ outbox' = outbox
    BY DEF LookupResponse
<1>2. w \in Writers /\ id \in StreamIds /\ outbox' \in [Conns -> Seq(Calls)]
    BY <1>1, BoundsAssumption DEF Writers, StreamIds, ClientInv, Types
<1>3. \A k \in Conns : \A n \in DOMAIN outbox'[k] : \E m \in DOMAIN outbox[k] : outbox'[k][n] = outbox[k][m]
    BY <1>1
<1>4. QED
    BY <1>1, <1>2, <1>3, LookupInv

LEMMA DeleteInv ==
    ASSUME ClientInv, NEW w \in Writers, Delete(w)
    PROVE  ClientInv'
<1> USE DEF ClientInv
<1>1. PICK id : id = writing[w].id
    OBVIOUS
<1>2. writing[w] # Idle /\ writing[w].pc = "found" /\ writing[w] \in InHand
    BY DEF Delete, Idle, Types
<1>3. id \in StreamIds
    BY <1>1, <1>2 DEF InHand
<1>4. /\ byStream' = [byStream EXCEPT ![id] = None]
      /\ UNCHANGED <<doing, calls, internal, tracked, nextId, outbox>>
    BY <1>1 DEF Delete, Taken
<1>5. ASSUME NEW u \in Writers
      PROVE  /\ writing'[u] \in InHand
             /\ writing'[u] # Idle =>
                   /\ writing[u] # Idle
                   /\ writing'[u].call = writing[u].call
                   /\ writing'[u].id = writing[u].id
                   /\ u # w => writing'[u].pc = writing[u].pc
  <2>1. writing[u] \in InHand
      BY DEF Types
  <2>2. writing'[u] = IF u = w THEN [writing[w] EXCEPT !.pc = "gone", !.freed = TRUE]
                      ELSE IF writing[u] # Idle /\ writing[u].id = writing[w].id
                           THEN [writing[u] EXCEPT !.freed = TRUE] ELSE writing[u]
      BY DEF Delete
  <2>3. CASE writing[u] = Idle
      BY <1>2, <2>1, <2>2, <2>3
  <2>4. CASE u = w
    <3>1. writing'[u] = [writing[u] EXCEPT !.pc = "gone", !.freed = TRUE]
        BY <2>2, <2>4
    <3>2. writing[u] # Idle /\ writing[u] \in InHand
        BY <1>2, <2>4
    <3>3. QED
        BY <2>4, <3>1, <3>2 DEF InHand, Idle
  <2>5. CASE u # w /\ writing[u] # Idle /\ writing'[u] = [writing[u] EXCEPT !.freed = TRUE]
      BY <2>1, <2>2, <2>5 DEF InHand, Idle
  <2>6. CASE u # w /\ writing'[u] = writing[u]
      BY <2>1, <2>6
  <2>7. QED
      BY <2>2, <2>3, <2>4, <2>5, <2>6
<1>6. writing' \in [Writers -> InHand]
  <2>1. writing' = [u \in Writers |-> writing'[u]]
      BY DEF Delete
  <2>2. QED
      BY <1>5, <2>1
<1>7. byStream' \in [StreamIds -> Calls \cup {None}]
    BY <1>4 DEF Types
<1>8. Types'
    BY <1>4, <1>6, <1>7 DEF Types
<1>9. FrameInv'
  <2>1. ASSUME NEW u \in Writers, writing'[u] # Idle, writing'[u].call # None
        PROVE  writing'[u].call \in DOMAIN calls /\ calls[writing'[u].call].id = writing'[u].id
    <3>1. writing[u] # Idle /\ writing'[u].call = writing[u].call /\ writing'[u].id = writing[u].id
        BY <1>5, <2>1
    <3>2. QED
        BY <2>1, <3>1 DEF FrameInv
  <2>2. QED
      BY <1>4, <2>1 DEF FrameInv
<1>10. WaitingInv'
  <2>1. ASSUME NEW i \in StreamIds, byStream'[i] # None
        PROVE  \E d \in DOMAIN calls' : i \in calls'[d].guesses /\ (calls'[d].id # i \/ Before(d)')
    <3>1. i # id /\ byStream[i] # None
        BY <1>3, <1>4, <2>1 DEF Types
    <3>2. PICK d \in DOMAIN calls : i \in calls[d].guesses /\ (calls[d].id # i \/ Before(d))
        BY <3>1 DEF WaitingInv
    <3>3. CASE calls[d].id # i
        BY <1>4, <3>2, <3>3
    <3>4. CASE calls[d].id = i /\ Before(d)
      <4>1. writing[w].call # d
          BY <1>1, <1>2, <3>1, <3>4, BoundsAssumption DEF FrameInv, Types, None
      <4>2. ASSUME NEW u \in Writers, writing'[u] # Idle, writing'[u].pc = "gone", writing'[u].call = d
            PROVE  FALSE
        <5>1. writing[u] # Idle /\ writing[u].call = d /\ u # w
            BY <1>5, <4>1, <4>2
        <5>2. writing[u].pc = "gone"
            BY <1>5, <4>2, <5>1
        <5>3. QED
            BY <3>4, <5>1, <5>2 DEF Before
      <4>3. Before(d)'
          BY <1>4, <3>4, <4>2 DEF Before
      <4>4. QED
          BY <1>4, <3>2, <4>3
    <3>5. QED
        BY <3>2, <3>3, <3>4
  <2>2. QED
      BY <2>1 DEF WaitingInv
<1>11. CallingInv' /\ InternalInv' /\ TrackedInv' /\ KnownInv' /\ MeantInv' /\ StoredIsMeant'
    BY <1>4 DEF CallingInv, InternalInv, TrackedInv, KnownInv, MeantInv, StoredIsMeant
<1>12. QED
    BY <1>8, <1>9, <1>10, <1>11

LEMMA WriteInv ==
    ASSUME ClientInv, NEW w \in Writers, Write(w)
    PROVE  ClientInv'
<1> USE DEF ClientInv
<1>1. PICK c : c = writing[w].call
    OBVIOUS
<1>2. writing[w] # Idle /\ writing[w].pc = "gone" /\ writing[w] \in InHand
    BY DEF Write, Idle, Types
<1>3. PICK v \in writing[w].may : Send(w, c, v, writing[w].may # {v})
    BY <1>1 DEF Write
<1>4. /\ writing' = [writing EXCEPT ![w] = Idle]
      /\ UNCHANGED <<doing, internal, tracked, byStream, nextId, outbox>>
    BY DEF Write
<1>5. /\ v \in Calls \cup {None, Mixed} /\ c \in Calls \cup {None}
      /\ writing[w].id \in StreamIds /\ writing[w].id # None
    BY <1>1, <1>2, <1>3, BoundsAssumption DEF InHand, StreamIds, None
<1>6. c # None => c \in DOMAIN calls /\ calls[c].id = writing[w].id
    BY <1>1, <1>2 DEF FrameInv
<1>7. /\ calls' \in Seq(Record) /\ Len(calls') = Len(calls) /\ DOMAIN calls' = DOMAIN calls
      /\ CallingInv' /\ InternalInv' /\ TrackedInv' /\ KnownInv' /\ MeantInv' /\ StoredIsMeant'
      /\ \A d \in DOMAIN calls : calls'[d].guesses = calls[d].guesses
      /\ \A d \in DOMAIN calls : calls'[d].id = calls[d].id
      /\ \A d \in DOMAIN calls : d # c /\ ~calls[d].sent => ~calls'[d].sent
  <2>1. (writing[w].may # {v}) \in BOOLEAN
      OBVIOUS
  <2>2. PICK reused \in BOOLEAN : reused = (writing[w].may # {v})
      BY <2>1
  <2>3. /\ Send(w, c, v, reused) /\ c \in DOMAIN calls \cup {None} /\ (c # None => calls[c].id # None)
        /\ UNCHANGED <<doing, internal, tracked, nextId>>
      BY <1>3, <1>4, <1>5, <1>6, <2>2
  <2>4. QED
      BY <1>5, <2>3, SendKeeps
<1>8. /\ writing' \in [Writers -> InHand] /\ writing'[w] = Idle
      /\ \A u \in Writers \ {w} : writing'[u] = writing[u]
    BY <1>4 DEF Types, InHand
<1>9. Types'
    BY <1>4, <1>7, <1>8 DEF Types
<1>10. FrameInv'
  <2>1. ASSUME NEW k \in Conns, NEW n \in DOMAIN outbox'[k]
        PROVE  outbox'[k][n] \in DOMAIN calls' /\ calls'[outbox'[k][n]].id # None
    <3>1. outbox[k][n] \in DOMAIN calls /\ calls[outbox[k][n]].id # None
        BY <1>4, <2>1 DEF FrameInv
    <3>2. QED
        BY <1>4, <1>7, <3>1
  <2>2. ASSUME NEW u \in Writers, writing'[u] # Idle, writing'[u].call # None
        PROVE  writing'[u].call \in DOMAIN calls' /\ calls'[writing'[u].call].id = writing'[u].id
    <3>1. writing'[u] = writing[u]
        BY <1>8, <2>2
    <3>2. writing[u].call \in DOMAIN calls /\ calls[writing[u].call].id = writing[u].id
        BY <2>2, <3>1 DEF FrameInv
    <3>3. QED
        BY <1>7, <3>1, <3>2
  <2>3. QED
      BY <2>1, <2>2 DEF FrameInv
<1>11. WaitingInv'
  <2>1. ASSUME NEW i \in StreamIds, byStream'[i] # None
        PROVE  \E d \in DOMAIN calls' : i \in calls'[d].guesses /\ (calls'[d].id # i \/ Before(d)')
    <3>1. PICK d \in DOMAIN calls : i \in calls[d].guesses /\ (calls[d].id # i \/ Before(d))
        BY <1>4, <2>1 DEF WaitingInv
    <3>2. ASSUME Before(d) PROVE Before(d)'
      <4>1. d # c
          BY <1>1, <1>2, <3>2 DEF Before
      <4>2. ~calls'[d].sent
          BY <1>7, <3>2, <4>1 DEF Before
      <4>3. QED
          BY <1>8, <3>2, <4>2 DEF Before
    <3>3. i \in calls'[d].guesses /\ (calls'[d].id # i \/ Before(d)')
        BY <1>7, <3>1, <3>2
    <3>4. QED
        BY <1>7, <3>3
  <2>2. QED
      BY <2>1 DEF WaitingInv
<1>12. QED
    BY <1>7, <1>9, <1>10, <1>11

-------------------------------------------------------------------------------
(* The steps of the client and the server, and the theorems.                *)

LEMMA StepInv ==
    ASSUME ClientInv, [PropNext]_vars
    PROVE  ClientInv'
<1>1. CASE Next
    BY <1>1, InvokeInv, StreamInv, NewStreamInv, GiveUpInv, AssignIdInv, OpenFailsInv, LookupRequestInv,
       LookupResponseInv, DeleteInv, WriteInv DEF Next
<1>2. CASE UNCHANGED clientVars
    BY <1>2 DEF clientVars, ClientInv, Types, CallingInv, InternalInv, TrackedInv, KnownInv, MeantInv,
       FrameInv, WaitingInv, Before, StoredIsMeant
<1>3. UNCHANGED vars => UNCHANGED clientVars
    BY DEF vars
<1>4. QED
    BY <1>1, <1>2, <1>3 DEF PropNext

(* What Invoke, NewStream and the writers do to the two maps of contexts    *)
(* keeps the invariant, whatever the server's process does.                *)
THEOREM ClientInvariant == Spec => []ClientInv
<1>1. PropInit => ClientInv
    BY InitInv DEF PropInit
<1>2. ClientInv /\ [PropNext]_vars => ClientInv'
    BY StepInv
<1>3. QED
    BY <1>1, <1>2, PTL DEF Spec

(* What the program at NewStream puts away for a call is the context that  *)
(* the call's header is meant to carry, unless the goroutine is untracked; *)
(* the map was full or the stream is a retry, and then it is of any unary  *)
(* call whose context's first word gRPC's own context leads to; or an      *)
(* earlier unary call of the goroutine left its context.                   *)
THEOREM StoredCorrect == Spec => []StoredIsMeant
<1>1. ClientInv => StoredIsMeant
    BY DEF ClientInv
<1>2. QED
    BY <1>1, ClientInvariant, PTL

(* A context that waits under a stream id belongs to a header still to be  *)
(* written, or to a call that got another id or none: writers leave none   *)
(* of the others behind.                                                   *)
THEOREM WaitingCorrect == Spec => []WaitingExplained
<1>1. ClientInv => WaitingExplained
    BY DEF ClientInv, WaitingInv, WaitingExplained, Before
<1>2. QED
    BY <1>1, ClientInvariant, PTL

-------------------------------------------------------------------------------
(* A request's way to the server.                                           *)

Arrived == {r \in Calls : handler[r] # "none"} \cup turnedAway

Once(s) == \A m, n \in DOMAIN s : s[m] = s[n] => m = n

\* An id is given once per connection, in order, after it has been guessed.
IdInv ==
    /\ \A c \in DOMAIN calls :
          LET r == calls[c]
          IN  /\ r.opens > 0 => r.conn \in Conns /\ r.guess \in StreamIds /\ r.guess <= nextId[r.conn]
              /\ r.id # None => r.opens > 0 /\ r.id < nextId[r.conn]
              /\ r.sent => r.id # None
    /\ \A c, d \in DOMAIN calls :
          calls[c].id # None /\ calls[d].id = calls[c].id /\ calls[d].conn = calls[c].conn => c = d

\* A call's frame is in one place: its connection's outbox, its writer's hands or
\* its wire, until its request has arrived.
PlaceInv ==
    /\ \A k \in Conns : Once(outbox[k]) /\ \A n \in DOMAIN outbox[k] :
          calls[outbox[k][n]].conn = k /\ ~calls[outbox[k][n]].sent
    /\ \A w \in Writers : writing[w] # Idle /\ writing[w].call # None =>
          LET c == writing[w].call
          IN  /\ calls[c].conn = w /\ ~calls[c].sent
              /\ \A n \in DOMAIN outbox[w] : outbox[w][n] # c

WireInv ==
    /\ wire \in [Conns -> Seq(Calls)]
    /\ \A k \in Conns : Once(wire[k]) /\ \A n \in DOMAIN wire[k] :
          LET c == wire[k][n]
          IN  c \in DOMAIN calls /\ calls[c].conn = k /\ calls[c].sent /\ c \notin Arrived
    /\ \A c \in Arrived : c \in DOMAIN calls /\ calls[c].sent

RouteInv == IdInv /\ PlaceInv /\ WireInv

LEMMA TailOnce ==
    ASSUME NEW s \in Seq(Calls), s # <<>>, Once(s)
    PROVE  /\ Tail(s) \in Seq(Calls) /\ Once(Tail(s)) /\ Head(s) \in Calls
           /\ \E m \in DOMAIN s : s[m] = Head(s)
           /\ \A n \in DOMAIN Tail(s) : /\ Tail(s)[n] # Head(s)
                                        /\ \E m \in DOMAIN s : Tail(s)[n] = s[m]
<1>1. Len(s) \in Nat /\ Len(s) > 0 /\ DOMAIN s = 1..Len(s) /\ Head(s) = s[1]
    OBVIOUS
<1>2. /\ Tail(s) \in Seq(Calls) /\ Len(Tail(s)) = Len(s) - 1 /\ DOMAIN Tail(s) = 1..Len(s) - 1
      /\ \A n \in DOMAIN Tail(s) : Tail(s)[n] = s[n + 1]
    BY <1>1
<1>3. \A n \in DOMAIN Tail(s) : n + 1 \in DOMAIN s /\ n + 1 # 1 /\ n \in Nat
    BY <1>1, <1>2
<1>4. Once(Tail(s))
  <2>1. SUFFICES ASSUME NEW m \in DOMAIN Tail(s), NEW n \in DOMAIN Tail(s), Tail(s)[m] = Tail(s)[n]
                 PROVE  m = n
      BY DEF Once
  <2>2. m + 1 = n + 1
      BY <1>2, <1>3, <2>1 DEF Once
  <2>3. QED
      BY <1>3, <2>2
<1>5. \A n \in DOMAIN Tail(s) : Tail(s)[n] # Head(s)
    BY <1>1, <1>2, <1>3 DEF Once
<1>6. Head(s) \in Calls
    BY <1>1
<1>7. QED
    BY <1>1, <1>2, <1>3, <1>4, <1>5, <1>6

LEMMA AppendOnce ==
    ASSUME NEW s \in Seq(Calls), NEW c \in Calls, Once(s), \A n \in DOMAIN s : s[n] # c
    PROVE  /\ Append(s, c) \in Seq(Calls) /\ Once(Append(s, c))
           /\ \A n \in DOMAIN Append(s, c) :
                 Append(s, c)[n] = c \/ (n \in DOMAIN s /\ Append(s, c)[n] = s[n])
<1>1. /\ Append(s, c) \in Seq(Calls) /\ DOMAIN Append(s, c) = DOMAIN s \cup {Len(s) + 1}
      /\ Append(s, c)[Len(s) + 1] = c /\ \A n \in DOMAIN s : Append(s, c)[n] = s[n]
    OBVIOUS
<1>2. Once(Append(s, c))
    BY <1>1 DEF Once
<1>3. QED
    BY <1>1, <1>2

\* A step that moves no frame and gives no id: a call that has no id may yet open
\* a stream.
LEMMA RouteKept ==
    ASSUME ClientInv, RouteInv, UNCHANGED <<nextId, outbox, wire, handler, turnedAway>>,
           \A d \in DOMAIN calls : d \in DOMAIN calls',
           \A d \in DOMAIN calls' :
               \/ /\ d \in DOMAIN calls
                  /\ calls'[d].id = calls[d].id /\ calls'[d].conn = calls[d].conn
                  /\ calls'[d].sent = calls[d].sent /\ calls'[d].opens = calls[d].opens
                  /\ calls'[d].guess = calls[d].guess
               \/ /\ d \in DOMAIN calls => calls[d].id = None
                  /\ calls'[d].id = None /\ ~calls'[d].sent
                  /\ calls'[d].opens > 0 =>
                        /\ calls'[d].conn \in Conns /\ calls'[d].guess \in StreamIds
                        /\ calls'[d].guess <= nextId[calls'[d].conn],
           \A w \in Writers : writing'[w] # Idle => writing[w] # Idle /\ writing'[w].call = writing[w].call
    PROVE  RouteInv'
<1> USE DEF RouteInv
<1>1. \A d \in DOMAIN calls : calls[d].id # None =>
          calls'[d].id = calls[d].id /\ calls'[d].conn = calls[d].conn /\ calls'[d].sent = calls[d].sent
    OBVIOUS
<1>2. \A d \in DOMAIN calls : calls[d].sent => calls[d].id # None
    BY DEF IdInv
<1>3. IdInv'
  <2>1. ASSUME NEW d \in DOMAIN calls'
        PROVE  LET r == calls'[d]
               IN  /\ r.opens > 0 => r.conn \in Conns /\ r.guess \in StreamIds /\ r.guess <= nextId'[r.conn]
                   /\ r.id # None => r.opens > 0 /\ r.id < nextId'[r.conn]
                   /\ r.sent => r.id # None
      BY DEF IdInv
  <2>2. \A c, d \in DOMAIN calls' :
            calls'[c].id # None /\ calls'[d].id = calls'[c].id /\ calls'[d].conn = calls'[c].conn => c = d
      BY DEF IdInv
  <2>3. QED
      BY <2>1, <2>2 DEF IdInv
<1>4. PlaceInv'
  <2>1. \A k \in Conns : \A n \in DOMAIN outbox[k] :
            outbox[k][n] \in DOMAIN calls /\ calls[outbox[k][n]].id # None
      BY DEF ClientInv, FrameInv
  <2>2. \A w \in Writers : writing[w] # Idle /\ writing[w].call # None =>
            writing[w].call \in DOMAIN calls /\ calls[writing[w].call].id # None
      BY BoundsAssumption DEF ClientInv, FrameInv, Types, InHand, StreamIds, None
  <2>3. \A k \in Conns : Once(outbox'[k]) /\ \A n \in DOMAIN outbox'[k] :
            calls'[outbox'[k][n]].conn = k /\ ~calls'[outbox'[k][n]].sent
      BY <1>1, <2>1 DEF PlaceInv
  <2>4. ASSUME NEW w \in Writers, writing'[w] # Idle, writing'[w].call # None
        PROVE  /\ calls'[writing'[w].call].conn = w /\ ~calls'[writing'[w].call].sent
               /\ \A n \in DOMAIN outbox'[w] : outbox'[w][n] # writing'[w].call
      BY <1>1, <2>2, <2>4 DEF PlaceInv
  <2>5. QED
      BY <2>3, <2>4 DEF PlaceInv
<1>5. WireInv'
  <2>1. Arrived' = Arrived
      BY DEF Arrived
  <2>2. \A d \in DOMAIN calls : calls[d].sent =>
            d \in DOMAIN calls' /\ calls'[d].conn = calls[d].conn /\ calls'[d].sent
      BY <1>1, <1>2
  <2>3. QED
      BY <2>1, <2>2 DEF WireInv
<1>6. QED
    BY <1>3, <1>4, <1>5

LEMMA RouteAssignId ==
    ASSUME ClientInv, RouteInv, NEW g \in Goroutines, AssignId(g), UNCHANGED <<handler, turnedAway>>
    PROVE  RouteInv'
<1> USE DEF RouteInv
<1>1. PICK c : c = doing[g].call
    OBVIOUS
<1>2. PICK k : k = calls[c].conn
    OBVIOUS
<1>3. /\ doing[g].pc = "opening" /\ doing[g] # Idle
      /\ c \in DOMAIN calls /\ calls[c].id = None /\ ~calls[c].sent /\ calls[c].opens > 0 /\ k \in Conns
    BY <1>1, <1>2 DEF AssignId, CallingInv, Idle, ClientInv
<1>4. PICK i : i = nextId[k] /\ i \in Nat /\ i > 0
    BY <1>3 DEF ClientInv, Types
<1>5. calls[c] \in Record /\ c \in Calls /\ i # None
    BY <1>3, <1>4, BoundsAssumption DEF ClientInv, Types, Calls, None
<1>6. PICK r : r = [calls[c] EXCEPT !.id = i]
    OBVIOUS
<1>7. /\ calls' = [calls EXCEPT ![c] = r]
      /\ nextId' = [nextId EXCEPT ![k] = i + 1]
      /\ outbox' = [outbox EXCEPT ![k] = Append(@, c)]
      /\ UNCHANGED <<writing, wire>>
    BY <1>1, <1>2, <1>4, <1>6 DEF AssignId
<1>8. /\ r.id = i /\ r.conn = k /\ r.sent = calls[c].sent /\ r.opens = calls[c].opens
      /\ r.guess = calls[c].guess
    BY <1>2, <1>5, <1>6 DEF Record
<1>9. /\ DOMAIN calls' = DOMAIN calls /\ calls'[c] = r /\ \A d \in DOMAIN calls \ {c} : calls'[d] = calls[d]
    BY <1>3, <1>7 DEF ClientInv, Types
<1>10. /\ nextId'[k] = i + 1 /\ \A j \in Conns \ {k} : nextId'[j] = nextId[j]
       /\ \A j \in Conns : nextId[j] \in Nat
    BY <1>3, <1>7 DEF ClientInv, Types
<1>11. \A d \in DOMAIN calls : calls[d].id \in Nat /\ calls[d].guess \in Nat
  <2>1. \A d \in DOMAIN calls : calls[d] \in Record
      BY DEF ClientInv, Types
  <2>2. QED
      BY <2>1 DEF Record, StreamIds, None
<1>12. IdInv'
  <2>1. ASSUME NEW d \in DOMAIN calls
        PROVE  LET q == calls'[d]
               IN  /\ q.opens > 0 => q.conn \in Conns /\ q.guess \in StreamIds /\ q.guess <= nextId'[q.conn]
                   /\ q.id # None => q.opens > 0 /\ q.id < nextId'[q.conn]
                   /\ q.sent => q.id # None
    <3>1. CASE d = c
        BY <1>2, <1>3, <1>4, <1>5, <1>8, <1>9, <1>10, <1>11, <3>1 DEF IdInv
    <3>2. CASE d # c
      <4>1. calls'[d] = calls[d]
          BY <1>9, <3>2
      <4>2. calls[d].conn \in Conns => nextId[calls[d].conn] <= nextId'[calls[d].conn]
          BY <1>4, <1>10
      <4>3. calls[d].opens > 0 => calls[d].conn \in Conns
          BY DEF IdInv
      <4>4. calls[d].conn \in Conns => nextId'[calls[d].conn] \in Nat
          BY <1>4, <1>10
      <4>5. QED
          BY <1>10, <1>11, <4>1, <4>2, <4>3, <4>4 DEF IdInv
    <3>3. QED
        BY <3>1, <3>2
  <2>2. ASSUME NEW d \in DOMAIN calls, d # c, calls[d].conn = k, calls[d].id = i
        PROVE  FALSE
      BY <1>4, <1>5, <2>2 DEF IdInv
  <2>3. ASSUME NEW d \in DOMAIN calls, NEW e \in DOMAIN calls,
               calls'[d].id # None /\ calls'[e].id = calls'[d].id /\ calls'[e].conn = calls'[d].conn
        PROVE  d = e
      BY <1>8, <1>9, <2>2, <2>3 DEF IdInv
  <2>4. QED
      BY <1>9, <2>1, <2>3 DEF IdInv
<1>13. /\ \A j \in Conns : \A n \in DOMAIN outbox[j] : outbox[j][n] \in DOMAIN calls \ {c}
       /\ \A w \in Writers : writing[w] # Idle /\ writing[w].call # None => writing[w].call \in DOMAIN calls \ {c}
  <2>1. \A j \in Conns : \A n \in DOMAIN outbox[j] :
            outbox[j][n] \in DOMAIN calls /\ calls[outbox[j][n]].id # None
      BY DEF ClientInv, FrameInv
  <2>2. \A w \in Writers : writing[w] # Idle /\ writing[w].call # None =>
            writing[w].call \in DOMAIN calls /\ calls[writing[w].call].id # None
      BY BoundsAssumption DEF ClientInv, FrameInv, Types, InHand, StreamIds, None
  <2>3. QED
      BY <1>3, <2>1, <2>2
<1>14. PlaceInv'
  <2>1. /\ outbox[k] \in Seq(Calls) /\ Once(outbox[k]) /\ outbox'[k] = Append(outbox[k], c)
        /\ \A j \in Conns \ {k} : outbox'[j] = outbox[j]
      BY <1>3, <1>7 DEF ClientInv, Types, PlaceInv
  <2>2. /\ Once(outbox'[k])
        /\ \A n \in DOMAIN outbox'[k] :
              outbox'[k][n] = c \/ (n \in DOMAIN outbox[k] /\ outbox'[k][n] = outbox[k][n])
      BY <1>3, <1>5, <1>13, <2>1, AppendOnce
  <2>3. \A j \in Conns : Once(outbox'[j]) /\ \A n \in DOMAIN outbox'[j] :
            calls'[outbox'[j][n]].conn = j /\ ~calls'[outbox'[j][n]].sent
    <3>1. \A j \in Conns : Once(outbox'[j])
        BY <2>1, <2>2 DEF PlaceInv
    <3>2. calls'[c].conn = k /\ ~calls'[c].sent
        BY <1>3, <1>8, <1>9
    <3>3. ASSUME NEW j \in Conns, NEW n \in DOMAIN outbox[j]
          PROVE  calls'[outbox[j][n]].conn = j /\ ~calls'[outbox[j][n]].sent
        BY <1>9, <1>13 DEF PlaceInv
    <3>4. ASSUME NEW j \in Conns, NEW n \in DOMAIN outbox'[j]
          PROVE  calls'[outbox'[j][n]].conn = j /\ ~calls'[outbox'[j][n]].sent
      <4>1. CASE j = k
          BY <2>2, <3>2, <3>3, <3>4, <4>1
      <4>2. CASE j # k
          BY <2>1, <3>3, <3>4, <4>2
      <4>3. QED
          BY <4>1, <4>2
    <3>5. QED
        BY <3>1, <3>4
  <2>4. ASSUME NEW w \in Writers, writing'[w] # Idle, writing'[w].call # None
        PROVE  /\ calls'[writing'[w].call].conn = w /\ ~calls'[writing'[w].call].sent
               /\ \A n \in DOMAIN outbox'[w] : outbox'[w][n] # writing'[w].call
    <3>1. /\ writing'[w] = writing[w] /\ writing[w].call \in DOMAIN calls \ {c}
          /\ calls'[writing[w].call] = calls[writing[w].call]
        BY <1>7, <1>9, <1>13, <2>4
    <3>2. /\ calls[writing[w].call].conn = w /\ ~calls[writing[w].call].sent
          /\ \A n \in DOMAIN outbox[w] : outbox[w][n] # writing[w].call
        BY <2>4, <3>1 DEF PlaceInv
    <3>3. w \in Conns
        BY <3>1, <3>2, BoundsAssumption, <2>4 DEF IdInv, ClientInv, FrameInv, Types, InHand, StreamIds, None
    <3>4. QED
        BY <2>1, <2>2, <3>1, <3>2, <3>3
  <2>5. QED
      BY <2>3, <2>4 DEF PlaceInv
<1>15. WireInv'
  <2>1. Arrived' = Arrived
      BY DEF Arrived
  <2>2. \A d \in DOMAIN calls : calls[d].sent => calls'[d] = calls[d]
      BY <1>3, <1>9
  <2>3. QED
      BY <1>7, <1>9, <2>1, <2>2 DEF WireInv
<1>16. QED
    BY <1>12, <1>14, <1>15
\* A writer sends the frame of a call of its connection, which leaves its hands or
\* the outbox.
LEMMA RouteSend ==
    ASSUME ClientInv, RouteInv, NEW w \in Writers, NEW c \in DOMAIN calls, NEW v, NEW reused,
           Send(w, c, v, reused), c # None, calls[c].conn = w, ~calls[c].sent, calls[c].id # None,
           UNCHANGED <<nextId, handler, turnedAway>>,
           \A k \in Conns : Once(outbox'[k]) /\ \A n \in DOMAIN outbox'[k] :
               outbox'[k][n] # c /\ \E m \in DOMAIN outbox[k] : outbox'[k][n] = outbox[k][m],
           \A u \in Writers : writing'[u] # Idle =>
               writing[u] # Idle /\ writing'[u].call = writing[u].call /\ writing[u].call # c
    PROVE  RouteInv'
<1> USE DEF RouteInv
<1>1. PICK r : r = [calls[c] EXCEPT !.sent = TRUE, !.carried = v, !.reused = reused]
    OBVIOUS
<1>2. calls[c] \in Record /\ c \in Calls /\ w \in Conns
    BY BoundsAssumption DEF ClientInv, Types, Calls, IdInv
<1>3. calls' = [calls EXCEPT ![c] = r] /\ wire' = [wire EXCEPT ![w] = Append(@, c)]
    BY <1>1 DEF Send
<1>4. /\ r.sent /\ r.id = calls[c].id /\ r.conn = calls[c].conn /\ r.opens = calls[c].opens
      /\ r.guess = calls[c].guess
    BY <1>1, <1>2 DEF Record
<1>5. /\ DOMAIN calls' = DOMAIN calls /\ calls'[c] = r /\ \A d \in DOMAIN calls \ {c} : calls'[d] = calls[d]
    BY <1>3 DEF ClientInv, Types
<1>6. \A d \in DOMAIN calls :
          /\ calls'[d].id = calls[d].id /\ calls'[d].conn = calls[d].conn /\ calls'[d].opens = calls[d].opens
          /\ calls'[d].guess = calls[d].guess /\ (d # c => calls'[d].sent = calls[d].sent)
          /\ calls[d].sent => calls'[d].sent
    BY <1>4, <1>5
<1>7. calls'[c].sent /\ calls'[c].conn = w
    BY <1>4, <1>5
<1>8. IdInv'
  <2>1. \A d \in DOMAIN calls : calls'[d].sent => calls'[d].id # None
      BY <1>6 DEF IdInv
  <2>2. QED
      BY <1>5, <1>6, <2>1 DEF IdInv
<1>9. PlaceInv'
  <2>1. \A k \in Conns : \A n \in DOMAIN outbox[k] : outbox[k][n] \in DOMAIN calls
      BY DEF ClientInv, FrameInv
  <2>2. ASSUME NEW k \in Conns, NEW n \in DOMAIN outbox'[k]
        PROVE  calls'[outbox'[k][n]].conn = k /\ ~calls'[outbox'[k][n]].sent
    <3>1. PICK m \in DOMAIN outbox[k] : outbox'[k][n] = outbox[k][m] /\ outbox[k][m] # c
        OBVIOUS
    <3>2. calls[outbox[k][m]].conn = k /\ ~calls[outbox[k][m]].sent /\ outbox[k][m] \in DOMAIN calls
        BY <2>1 DEF PlaceInv
    <3>3. QED
        BY <1>6, <3>1, <3>2
  <2>3. ASSUME NEW u \in Writers, writing'[u] # Idle, writing'[u].call # None
        PROVE  /\ calls'[writing'[u].call].conn = u /\ ~calls'[writing'[u].call].sent
               /\ \A n \in DOMAIN outbox'[u] : outbox'[u][n] # writing'[u].call
    <3>1. PICK d : d = writing[u].call
        OBVIOUS
    <3>2. d # c /\ writing'[u].call = d /\ writing[u] # Idle /\ d # None
        BY <2>3, <3>1
    <3>3. /\ calls[d].conn = u /\ ~calls[d].sent /\ d \in DOMAIN calls /\ calls[d].id = writing[u].id
          /\ \A n \in DOMAIN outbox[u] : outbox[u][n] # d
        BY <3>1, <3>2 DEF PlaceInv, ClientInv, FrameInv
    <3>4. u \in Conns
        BY <3>2, <3>3, BoundsAssumption DEF IdInv, ClientInv, Types, InHand, StreamIds, None
    <3>5. QED
        BY <1>6, <3>2, <3>3, <3>4
  <2>4. QED
      BY <2>2, <2>3 DEF PlaceInv
<1>10. WireInv'
  <2>1. Arrived' = Arrived
      BY DEF Arrived
  <2>2. /\ wire[w] \in Seq(Calls) /\ Once(wire[w]) /\ wire'[w] = Append(wire[w], c)
        /\ \A n \in DOMAIN wire[w] : wire[w][n] # c
        /\ \A j \in Conns \ {w} : wire'[j] = wire[j]
      BY <1>2, <1>3 DEF WireInv
  <2>3. /\ wire'[w] \in Seq(Calls) /\ Once(wire'[w])
        /\ \A n \in DOMAIN wire'[w] : wire'[w][n] = c \/ (n \in DOMAIN wire[w] /\ wire'[w][n] = wire[w][n])
      BY <1>2, <2>2, AppendOnce
  <2>4. wire' \in [Conns -> Seq(Calls)]
      BY <1>2, <1>3, <2>2, <2>3 DEF WireInv
  <2>5. c \notin Arrived
      BY DEF WireInv
  <2>6. ASSUME NEW k \in Conns, NEW n \in DOMAIN wire'[k]
        PROVE  LET d == wire'[k][n]
               IN  d \in DOMAIN calls' /\ calls'[d].conn = k /\ calls'[d].sent /\ d \notin Arrived
    <3>1. CASE k = w /\ wire'[k][n] = c
        BY <1>5, <1>7, <2>5, <3>1
    <3>2. CASE n \in DOMAIN wire[k] /\ wire'[k][n] = wire[k][n]
        BY <1>5, <1>6, <3>2 DEF WireInv
    <3>3. QED
        BY <2>2, <2>3, <2>6, <3>1, <3>2
  <2>7. \A k \in Conns : Once(wire'[k])
      BY <2>2, <2>3 DEF WireInv
  <2>8. \A d \in Arrived : d \in DOMAIN calls' /\ calls'[d].sent
      BY <1>5, <1>6 DEF WireInv
  <2>9. QED
      BY <2>1, <2>4, <2>6, <2>7, <2>8 DEF WireInv
<1>11. QED
    BY <1>8, <1>9, <1>10

\* A writer takes a frame from its outbox, and keeps it or sends it at once.
LEMMA RouteLookup ==
    ASSUME ClientInv, RouteInv, NEW k \in Conns, LookupRequest(k), UNCHANGED <<handler, turnedAway>>
    PROVE  RouteInv'
<1> USE DEF RouteInv
<1>1. PICK c : c = Head(outbox[k])
    OBVIOUS
<1>2. PICK id : id = calls[c].id
    OBVIOUS
<1>3. /\ outbox[k] # <<>> /\ outbox[k] \in Seq(Calls) /\ Once(outbox[k])
      /\ Lookup(k, c, id) /\ outbox' = [outbox EXCEPT ![k] = Tail(@)]
      /\ k \in Writers
    BY <1>1, <1>2 DEF LookupRequest, ClientInv, Types, PlaceInv, Writers
<1>4. /\ Once(Tail(outbox[k])) /\ c \in Calls /\ Tail(outbox[k]) \in Seq(Calls)
      /\ \E m \in DOMAIN outbox[k] : outbox[k][m] = c
      /\ \A n \in DOMAIN Tail(outbox[k]) : /\ Tail(outbox[k])[n] # c
                                           /\ \E m \in DOMAIN outbox[k] : Tail(outbox[k])[n] = outbox[k][m]
    BY <1>1, <1>3, TailOnce
<1>5. /\ c \in DOMAIN calls /\ calls[c].conn = k /\ ~calls[c].sent /\ id # None /\ c # None
    BY <1>2, <1>4, BoundsAssumption DEF PlaceInv, ClientInv, FrameInv, Calls, None
<1>6. /\ outbox'[k] = Tail(outbox[k]) /\ \A j \in Conns \ {k} : outbox'[j] = outbox[j]
    BY <1>3 DEF ClientInv, Types
<1>7. \A j \in Conns : Once(outbox'[j]) /\ \A n \in DOMAIN outbox'[j] :
          outbox'[j][n] # c /\ \E m \in DOMAIN outbox[j] : outbox'[j][n] = outbox[j][m]
  <2>1. ASSUME NEW j \in Conns, j # k
        PROVE  Once(outbox[j]) /\ \A n \in DOMAIN outbox[j] : outbox[j][n] # c
      BY <1>5, <2>1 DEF PlaceInv
  <2>2. ASSUME NEW j \in Conns
        PROVE  Once(outbox'[j]) /\ \A n \in DOMAIN outbox'[j] :
                   outbox'[j][n] # c /\ \E m \in DOMAIN outbox[j] : outbox'[j][n] = outbox[j][m]
    <3>1. CASE j = k
      <4>1. PICK t : t = Tail(outbox[k])
          OBVIOUS
      <4>2. outbox'[j] = t /\ outbox[j] = outbox[k]
          BY <1>6, <3>1, <4>1
      <4>3. /\ Once(t)
            /\ \A n \in DOMAIN t : t[n] # c /\ \E m \in DOMAIN outbox[k] : t[n] = outbox[k][m]
          BY <1>4, <4>1
      <4>4. QED
          BY <4>2, <4>3, Zenon
    <3>2. CASE j # k
      <4>1. outbox'[j] = outbox[j]
          BY <1>6, <3>2
      <4>2. QED
          BY <2>1, <3>2, <4>1
    <3>3. QED
        BY <3>1, <3>2
  <2>3. QED
      BY <2>2
<1>8. writing[k] = Idle /\ nextId' = nextId
    BY <1>3 DEF Lookup
<1>9. \A u \in Writers : writing[u] # Idle => writing[u].call # c
    BY <1>4, <1>5, <1>8 DEF PlaceInv
<1>10. CASE byStream[id] = None
  <2>1. Send(k, c, None, FALSE) /\ writing' = writing
      BY <1>3, <1>10 DEF Lookup
  <2>2. QED
      BY <1>2, <1>3, <1>5, <1>7, <1>8, <1>9, <2>1, RouteSend
<1>11. CASE byStream[id] # None
  <2>1. /\ calls' = calls /\ wire' = wire
        /\ writing' = [writing EXCEPT ![k] = [pc |-> "found", call |-> c, id |-> id,
                                             may |-> {byStream[id]}, freed |-> FALSE]]
      BY <1>3, <1>11 DEF Lookup
  <2>2. /\ writing'[k].call = c /\ \A u \in Writers \ {k} : writing'[u] = writing[u]
      BY <1>3, <2>1 DEF ClientInv, Types
  <2>3. IdInv'
      BY <1>8, <2>1 DEF IdInv
  <2>4. PlaceInv'
    <3>1. ASSUME NEW j \in Conns, NEW n \in DOMAIN outbox'[j]
          PROVE  calls'[outbox'[j][n]].conn = j /\ ~calls'[outbox'[j][n]].sent
        BY <1>7, <2>1 DEF PlaceInv
    <3>2. ASSUME NEW u \in Writers, writing'[u] # Idle, writing'[u].call # None
          PROVE  /\ calls'[writing'[u].call].conn = u /\ ~calls'[writing'[u].call].sent
                 /\ \A n \in DOMAIN outbox'[u] : outbox'[u][n] # writing'[u].call
      <4>1. CASE u = k
          BY <1>5, <1>7, <2>1, <2>2, <4>1
      <4>2. CASE u # k
        <5>1. /\ writing'[u] = writing[u] /\ writing[u].call \in DOMAIN calls
              /\ calls[writing[u].call].conn = u /\ calls[writing[u].call].id = writing[u].id
              /\ ~calls[writing[u].call].sent
              /\ \A n \in DOMAIN outbox[u] : outbox[u][n] # writing[u].call
            BY <2>2, <3>2, <4>2 DEF PlaceInv, ClientInv, FrameInv
        <5>2. u \in Conns
            BY <3>2, <5>1, BoundsAssumption DEF IdInv, ClientInv, Types, InHand, StreamIds, None
        <5>3. outbox'[u] = outbox[u]
            BY <1>6, <4>2, <5>2
        <5>4. QED
            BY <2>1, <5>1, <5>3
      <4>3. QED
          BY <4>1, <4>2
    <3>3. QED
        BY <1>7, <3>1, <3>2 DEF PlaceInv
  <2>5. WireInv'
      BY <2>1 DEF WireInv, Arrived
  <2>6. QED
      BY <2>3, <2>4, <2>5
<1>12. QED
    BY <1>10, <1>11

LEMMA RouteWrite ==
    ASSUME ClientInv, RouteInv, NEW w \in Writers, Write(w), UNCHANGED <<handler, turnedAway>>
    PROVE  RouteInv'
<1> USE DEF RouteInv
<1>1. PICK c : c = writing[w].call
    OBVIOUS
<1>2. writing[w] # Idle /\ writing[w] \in InHand
    BY DEF Write, Idle, ClientInv, Types
<1>3. PICK v \in writing[w].may : Send(w, c, v, writing[w].may # {v})
    BY <1>1 DEF Write
<1>4. /\ writing' = [writing EXCEPT ![w] = Idle] /\ UNCHANGED <<nextId, outbox>>
    BY DEF Write
<1>5. /\ writing'[w] = Idle /\ \A u \in Writers \ {w} : writing'[u] = writing[u]
    BY <1>4 DEF ClientInv, Types
<1>6. CASE c = None
  <2>1. UNCHANGED <<calls, wire>>
      BY <1>3, <1>6 DEF Send
  <2>2. QED
      BY <1>4, <1>5, <2>1, RouteKept
<1>7. CASE c # None
  <2>1. /\ c \in DOMAIN calls /\ calls[c].conn = w /\ ~calls[c].sent /\ calls[c].id # None
        /\ \A n \in DOMAIN outbox[w] : outbox[w][n] # c
      BY <1>1, <1>2, <1>7, BoundsAssumption DEF PlaceInv, ClientInv, FrameInv, InHand, StreamIds, None
  <2>2. \A k \in Conns : Once(outbox'[k]) /\ \A n \in DOMAIN outbox'[k] :
            outbox'[k][n] # c /\ \E m \in DOMAIN outbox[k] : outbox'[k][n] = outbox[k][m]
      BY <1>4, <2>1 DEF PlaceInv
  <2>3. \A u \in Writers \ {w} : writing[u] # Idle => writing[u].call # c
      BY <1>7, <2>1 DEF PlaceInv
  <2>4. \A u \in Writers : writing'[u] # Idle =>
            writing[u] # Idle /\ writing'[u].call = writing[u].call /\ writing[u].call # c
      BY <1>5, <2>3
  <2>5. PICK reused : reused = (writing[w].may # {v})
      OBVIOUS
  <2>6. Send(w, c, v, reused)
      BY <1>3, <2>5
  <2>7. QED
      BY <1>4, <1>7, <2>1, <2>2, <2>4, <2>6, RouteSend
<1>8. QED
    BY <1>6, <1>7
LEMMA RouteInit == PropInit => RouteInv
<1> SUFFICES ASSUME PropInit PROVE RouteInv
    OBVIOUS
<1>1. calls = <<>> /\ DOMAIN calls = {} /\ wire = [k \in Conns |-> <<>>] /\ outbox = [k \in Conns |-> <<>>]
      /\ writing = [w \in Writers |-> Idle]
    BY DEF PropInit, Init
<1>2. Arrived = {}
    BY DEF Arrived, PropInit, Server!Init, Server!Requests, Calls
<1>3. WireInv
    BY <1>1, <1>2 DEF WireInv, Once
<1>4. QED
    BY <1>1, <1>3 DEF RouteInv, IdInv, PlaceInv, Once

\* A goroutine's step before the call has its id, or a writer's that sends nothing.
LEMMA RouteGoroutine ==
    ASSUME ClientInv, RouteInv, UNCHANGED <<handler, turnedAway>>, NEW g \in Goroutines,
           \/ \E ctx \in Contexts : Invoke(g, ctx) \/ Stream(g, ctx)
           \/ GiveUp(g) \/ OpenFails(g)
    PROVE  RouteInv'
<1>1. calls \in Seq(Record)
    BY DEF ClientInv, Types
<1>2. UNCHANGED <<nextId, outbox, wire, writing>>
    BY DEF Invoke, Stream, GiveUp, OpenFails
<1>3. ASSUME NEW c, c = Len(calls) + 1, NEW r, calls' = Append(calls, r), r.id = None, ~r.sent, r.opens = 0
      PROVE  RouteInv'
  <2>1. /\ DOMAIN calls' = DOMAIN calls \cup {c} /\ c \notin DOMAIN calls /\ calls'[c] = r
        /\ \A d \in DOMAIN calls : calls'[d] = calls[d]
      BY <1>1, <1>3
  <2>2. \A d \in DOMAIN calls' : d \in DOMAIN calls \/ (d \notin DOMAIN calls /\ calls'[d] = r)
      BY <2>1
  <2>3. QED
      BY <1>2, <1>3, <2>1, <2>2, RouteKept
<1>4. ASSUME NEW ctx \in Contexts, Invoke(g, ctx) PROVE RouteInv'
  <2>1. PICK r : /\ calls' = Append(calls, r)
                 /\ r = [NewCall(g, "unary", ctx) EXCEPT !.meant = Len(calls) + 1,
                          !.refusedBy = IF internal'[Goid(g)] # Len(calls) + 1 THEN {"internal"} ELSE {}]
      BY <1>4 DEF Invoke
  <2>2. r.id = None /\ ~r.sent /\ r.opens = 0
      BY <2>1 DEF NewCall
  <2>3. QED
      BY <1>3, <2>1, <2>2
<1>5. ASSUME NEW ctx \in Contexts, Stream(g, ctx) PROVE RouteInv'
  <2>1. PICK r : calls' = Append(calls, r) /\ r = NewCall(g, "stream", ctx)
      BY <1>5 DEF Stream
  <2>2. r.id = None /\ ~r.sent /\ r.opens = 0
      BY <2>1 DEF NewCall
  <2>3. QED
      BY <1>3, <2>1, <2>2
<1>6. CASE GiveUp(g)
  <2>1. PICK c : c = doing[g].call
      OBVIOUS
  <2>2. c \in DOMAIN calls /\ calls[c] \in Record
      BY <1>6, <2>1 DEF GiveUp, Idle, ClientInv, CallingInv, Types
  <2>3. PICK r : r = [calls[c] EXCEPT !.failed = TRUE]
      OBVIOUS
  <2>4. calls' = [calls EXCEPT ![c] = r]
      BY <1>6, <2>1, <2>3 DEF GiveUp
  <2>5. /\ r.id = calls[c].id /\ r.conn = calls[c].conn /\ r.sent = calls[c].sent
        /\ r.opens = calls[c].opens /\ r.guess = calls[c].guess
      BY <2>2, <2>3 DEF Record
  <2>6. DOMAIN calls' = DOMAIN calls /\ calls'[c] = r /\ \A d \in DOMAIN calls \ {c} : calls'[d] = calls[d]
      BY <1>1, <2>2, <2>4
  <2>7. QED
      BY <1>2, <2>5, <2>6, RouteKept
<1>7. CASE OpenFails(g)
  <2>1. calls' = calls
      BY <1>7 DEF OpenFails
  <2>2. QED
      BY <1>2, <2>1, RouteKept
<1>8. QED
    BY <1>4, <1>5, <1>6, <1>7

LEMMA RouteNewStream ==
    ASSUME ClientInv, RouteInv, UNCHANGED <<handler, turnedAway>>, NEW g \in Goroutines, NEW k \in Conns,
           NewStream(g, k)
    PROVE  RouteInv'
<1>1. PICK c : c = doing[g].call
    OBVIOUS
<1>2. c \in DOMAIN calls /\ calls[c].id = None /\ ~calls[c].sent /\ calls[c] \in Record
    BY <1>1 DEF NewStream, Idle, ClientInv, CallingInv, Types
<1>3. PICK i : i = nextId[k] /\ i \in StreamIds /\ i \in Nat
    BY DEF NewStream, NextIdRead, StreamIds
<1>4. PICK v : v = Chosen(g, calls[c].ctx)
    OBVIOUS
<1>5. PICK r : r = Opened(calls[c], k, v, i, byStream'[i] # v)
    OBVIOUS
<1>6. /\ calls' = [calls EXCEPT ![c] = r] /\ UNCHANGED <<nextId, outbox, wire>>
    BY <1>1, <1>3, <1>4, <1>5 DEF NewStream, NextIdRead
<1>7. r.id = None /\ ~r.sent /\ r.conn = k /\ r.guess = i
    BY <1>2, <1>3, <1>5 DEF Opened, Record
<1>8. DOMAIN calls' = DOMAIN calls /\ calls'[c] = r /\ \A d \in DOMAIN calls \ {c} : calls'[d] = calls[d]
    BY <1>2, <1>6 DEF ClientInv, Types
<1>9. \A w \in Writers : writing'[w] # Idle => writing[w] # Idle /\ writing'[w].call = writing[w].call
  <2>1. \/ writing' = writing
        \/ v # None /\ writing' = Reusing(i, v)
      BY <1>1, <1>3, <1>4 DEF NewStream, NextIdRead
  <2>2. v \in Calls \cup {None}
      BY <1>4, ChosenIsKnown
  <2>3. CASE v # None /\ writing' = Reusing(i, v)
      BY <1>3, <2>2, <2>3, ReusingKeeps DEF ClientInv
  <2>4. QED
      BY <2>1, <2>3
<1>10. nextId[k] <= nextId[k]
    BY <1>3
<1>11. QED
    BY <1>2, <1>3, <1>6, <1>7, <1>8, <1>9, <1>10, RouteKept

\* A response's frame or none is in the writer's hands.
LEMMA RouteResponse ==
    ASSUME ClientInv, RouteInv, UNCHANGED <<handler, turnedAway>>, NEW w \in ServerConns, NEW id \in ResponseIds,
           LookupResponse(w, id)
    PROVE  RouteInv'
<1>1. /\ Lookup(w, None, id) /\ UNCHANGED <<outbox, nextId>> /\ w \in Writers
    BY DEF LookupResponse, Lookup, Writers
<1>2. /\ UNCHANGED <<calls, wire>>
      /\ \/ writing' = writing
         \/ writing' = [writing EXCEPT ![w] = [pc |-> "found", call |-> None, id |-> id,
                                               may |-> {byStream[id]}, freed |-> FALSE]]
    BY <1>1 DEF Lookup, Send
<1>3. IdInv' /\ WireInv'
    BY <1>1, <1>2 DEF RouteInv, IdInv, WireInv, Arrived
<1>4. ASSUME NEW u \in Writers, writing'[u] # Idle, writing'[u].call # None
      PROVE  writing'[u] = writing[u]
  <2>1. writing' # writing => writing'[w].call = None /\ \A x \in Writers \ {w} : writing'[x] = writing[x]
      BY <1>1, <1>2 DEF ClientInv, Types
  <2>2. QED
      BY <1>4, <2>1
<1>5. PlaceInv'
    BY <1>1, <1>2, <1>4 DEF RouteInv, PlaceInv
<1>6. QED
    BY <1>3, <1>5 DEF RouteInv

LEMMA RouteDelete ==
    ASSUME ClientInv, RouteInv, UNCHANGED <<handler, turnedAway>>, NEW w \in Writers, Delete(w)
    PROVE  RouteInv'
<1>1. UNCHANGED <<calls, nextId, outbox, wire>>
    BY DEF Delete
<1>2. ASSUME NEW u \in Writers, writing'[u] # Idle
      PROVE  writing[u] # Idle /\ writing'[u].call = writing[u].call
  <2>1. writing[u] \in InHand /\ writing[w] \in InHand /\ writing[w].pc = "found" /\ writing[w] # Idle
      BY DEF Delete, ClientInv, Types, Idle
  <2>2. writing'[u] = IF u = w THEN [writing[w] EXCEPT !.pc = "gone", !.freed = TRUE]
                      ELSE IF writing[u] # Idle /\ writing[u].id = writing[w].id
                           THEN [writing[u] EXCEPT !.freed = TRUE] ELSE writing[u]
      BY DEF Delete
  <2>3. CASE u = w
    <3>1. writing'[u] = [writing[w] EXCEPT !.pc = "gone", !.freed = TRUE]
        BY <2>2, <2>3
    <3>2. QED
        BY <2>1, <2>3, <3>1 DEF InHand, Idle
  <2>4. CASE u # w /\ writing[u] # Idle /\ writing'[u] = [writing[u] EXCEPT !.freed = TRUE]
      BY <2>1, <2>4 DEF InHand, Idle
  <2>5. QED
      BY <1>2, <2>2, <2>3, <2>4
<1>3. QED
    BY <1>1, <1>2, RouteKept

LEMMA RouteStep ==
    ASSUME ClientInv, RouteInv, Next, UNCHANGED <<handler, turnedAway>>
    PROVE  RouteInv'
BY RouteGoroutine, RouteNewStream, RouteAssignId, RouteLookup, RouteResponse, RouteDelete, RouteWrite DEF Next
-------------------------------------------------------------------------------
(* The server.                                                              *)

ServTypes ==
    /\ streams \in [StreamIds -> Calls \cup {None, Mixed}]
    /\ handler \in [Calls -> {"none", "started", "read", "runs"}]
    /\ parent \in [Calls -> Calls \cup {None, Mixed}]
    /\ turnedAway \subseteq Calls /\ dropped \subseteq Calls

Shared(r) == \E s \in Arrived : header[s].id = header[r].id /\ header[s].conn # header[r].conn

\* What a started handler will find.
StartedInv ==
    \A r \in Calls : handler[r] = "started" /\ r \notin dropped /\ ~Shared(r) =>
        streams[header[r].id] = header[r].sc

ServedInv ==
    \A r \in Calls : handler[r] \in {"read", "runs"} /\ parent[r] # header[r].sc =>
        r \in dropped \/ Shared(r)

KeptInv ==
    \A i \in StreamIds : streams[i] # None =>
        \E r \in Arrived : /\ header[r].id = i /\ header[r].sc = streams[i]
                           /\ r \in turnedAway \/ handler[r] \in {"started", "read"} \/ Shared(r)

ServerInv == ServTypes /\ StartedInv /\ ServedInv /\ KeptInv

LEMMA HeaderOfSent ==
    ASSUME ClientInv, RouteInv, NEW r \in Calls, r \in DOMAIN calls, calls[r].sent
    PROVE  /\ header[r].id = calls[r].id /\ header[r].conn = calls[r].conn /\ header[r].sc = calls[r].carried
           /\ header[r].id \in StreamIds /\ header[r].sc \in Calls \cup {None, Mixed}
<1>1. header[r] = [conn |-> calls[r].conn, id |-> calls[r].id, sc |-> calls[r].carried]
    BY DEF header
<1>2. calls[r] \in Record /\ calls[r].id # None
    BY DEF ClientInv, Types, RouteInv, IdInv
<1>3. QED
    BY <1>1, <1>2 DEF Record

LEMMA ServerInit == PropInit => ServerInv
BY BoundsAssumption DEF PropInit, Server!Init, Server!Requests, Server!StreamIds, Server!None, ServerInv,
   ServTypes, StartedInv, ServedInv, KeptInv, Calls, StreamIds, None

\* What the client does leaves the headers of requests that have arrived.
LEMMA ServerUntouched ==
    ASSUME ServerInv, UNCHANGED serverVars, \A r \in Arrived : header'[r] = header[r]
    PROVE  ServerInv'
<1>1. Arrived' = Arrived /\ UNCHANGED <<streams, handler, parent, turnedAway, dropped>>
    BY DEF serverVars, Arrived
<1>2. \A r \in Arrived : Shared(r)' <=> Shared(r)
    BY <1>1 DEF Shared
<1>3. \A r \in Calls : handler[r] # "none" => r \in Arrived
    BY DEF Arrived
<1>4. ServTypes'
    BY <1>1 DEF ServerInv, ServTypes
<1>5. StartedInv'
    BY <1>1, <1>2, <1>3 DEF ServerInv, StartedInv
<1>6. ServedInv'
    BY <1>1, <1>2, <1>3 DEF ServerInv, ServedInv
<1>7. KeptInv'
  <2>1. ASSUME NEW i \in StreamIds, streams'[i] # None
        PROVE  \E r \in Arrived' : /\ header'[r].id = i /\ header'[r].sc = streams'[i]
                                   /\ r \in turnedAway' \/ handler'[r] \in {"started", "read"} \/ Shared(r)'
    <3>1. PICK r \in Arrived : /\ header[r].id = i /\ header[r].sc = streams[i]
                               /\ r \in turnedAway \/ handler[r] \in {"started", "read"} \/ Shared(r)
        BY <1>1, <2>1 DEF ServerInv, KeptInv
    <3>2. QED
        BY <1>1, <1>2, <3>1
  <2>2. QED
      BY <2>1 DEF KeptInv
<1>8. QED
    BY <1>4, <1>5, <1>6, <1>7 DEF ServerInv

\* Requests that have arrived with the same id, on the same connection, are one.
LEMMA SameOrShared ==
    ASSUME ClientInv, RouteInv, NEW r \in Calls, NEW s \in Calls, r \in Arrived, s \in DOMAIN calls, calls[s].sent,
           header[r].id = header[s].id, header[r].conn = header[s].conn
    PROVE  r = s
<1>1. r \in DOMAIN calls /\ calls[r].sent
    BY DEF RouteInv, WireInv
<1>2. calls[r].id = calls[s].id /\ calls[r].conn = calls[s].conn /\ calls[s].id # None
    BY <1>1, HeaderOfSent DEF RouteInv, IdInv
<1>3. QED
    BY <1>1, <1>2 DEF RouteInv, IdInv

LEMMA DecodeInv ==
    ASSUME ClientInv, RouteInv, ServerInv, NEW k \in Conns, Server!Decode(k), UNCHANGED clientVars
    PROVE  RouteInv' /\ ServerInv'
<1>1. PICK r : r = Head(wire[k])
    OBVIOUS
<1>2. PICK h : h = header[r]
    OBVIOUS
<1>3. /\ wire[k] # <<>> /\ wire[k] \in Seq(Calls) /\ Once(wire[k])
      /\ wire' = [wire EXCEPT ![k] = Tail(@)]
      /\ streams' = (IF h.sc = None THEN streams ELSE Server!Updated(streams, h.id, h.sc, MaxConcurrent))
      /\ dropped' = IF streams'[h.id] # h.sc /\ h.sc # None THEN dropped \cup {r} ELSE dropped
      /\ \/ handler' = [handler EXCEPT ![r] = "started"] /\ UNCHANGED turnedAway
         \/ turnedAway' = turnedAway \cup {r} /\ UNCHANGED handler
      /\ UNCHANGED parent
    BY <1>1, <1>2 DEF Server!Decode, Server!None, None, RouteInv, WireInv
<1>4. PICK t : t = Tail(wire[k])
    OBVIOUS
<1>5. /\ t \in Seq(Calls) /\ Once(t) /\ r \in Calls
      /\ \E m \in DOMAIN wire[k] : wire[k][m] = r
      /\ \A n \in DOMAIN t : t[n] # r /\ \E m \in DOMAIN wire[k] : t[n] = wire[k][m]
    BY <1>1, <1>3, <1>4, TailOnce
<1>6. r \in DOMAIN calls /\ calls[r].conn = k /\ calls[r].sent /\ r \notin Arrived
    BY <1>5 DEF RouteInv, WireInv
<1>7. /\ h.id = calls[r].id /\ h.conn = k /\ h.id \in StreamIds /\ h.sc \in Calls \cup {None, Mixed}
    BY <1>2, <1>5, <1>6, HeaderOfSent
<1>8. /\ UNCHANGED <<calls, nextId, outbox, writing>> /\ header' = header
    BY DEF clientVars, header
<1>9. Arrived' = Arrived \cup {r}
    BY <1>3, <1>5 DEF Arrived, ServerInv, ServTypes
<1>10. RouteInv'
  <2>1. wire'[k] = t /\ \A j \in Conns \ {k} : wire'[j] = wire[j]
      BY <1>3, <1>4 DEF RouteInv, WireInv
  <2>2. wire' \in [Conns -> Seq(Calls)]
      BY <1>3, <1>4, <1>5 DEF RouteInv, WireInv
  <2>3. ASSUME NEW j \in Conns
        PROVE  Once(wire'[j]) /\ \A n \in DOMAIN wire'[j] :
                   LET c == wire'[j][n]
                   IN  c \in DOMAIN calls' /\ calls'[c].conn = j /\ calls'[c].sent /\ c \notin Arrived'
    <3>1. CASE j = k
      <4>1. \A n \in DOMAIN t : /\ t[n] \in DOMAIN calls /\ calls[t[n]].conn = k /\ calls[t[n]].sent
                                /\ t[n] \notin Arrived /\ t[n] # r
          BY <1>5 DEF RouteInv, WireInv
      <4>2. QED
          BY <1>5, <1>8, <1>9, <2>1, <3>1, <4>1
    <3>2. CASE j # k
      <4>1. Once(wire[j]) /\ \A n \in DOMAIN wire[j] :
                /\ wire[j][n] \in DOMAIN calls /\ calls[wire[j][n]].conn = j /\ calls[wire[j][n]].sent
                /\ wire[j][n] \notin Arrived /\ wire[j][n] # r
          BY <1>6, <3>2 DEF RouteInv, WireInv
      <4>2. QED
          BY <1>8, <1>9, <2>1, <3>2, <4>1
    <3>3. QED
        BY <3>1, <3>2
  <2>4. \A c \in Arrived' : c \in DOMAIN calls' /\ calls'[c].sent
      BY <1>6, <1>8, <1>9 DEF RouteInv, WireInv
  <2>5. WireInv'
      BY <2>2, <2>3, <2>4 DEF WireInv
  <2>6. IdInv' /\ PlaceInv'
      BY <1>8 DEF RouteInv, IdInv, PlaceInv
  <2>7. QED
      BY <2>5, <2>6 DEF RouteInv
<1>11. /\ streams' \in [StreamIds -> Calls \cup {None, Mixed}]
       /\ \A i \in StreamIds \ {h.id} : streams'[i] = streams[i]
       /\ \/ h.sc # None /\ streams'[h.id] = h.sc
          \/ streams' = streams
    BY <1>3, <1>7 DEF Server!Updated, ServerInv, ServTypes
<1>12. /\ dropped \subseteq dropped' /\ turnedAway \subseteq turnedAway' /\ parent' = parent
       /\ dropped' \subseteq Calls /\ turnedAway' \subseteq Calls
       /\ handler' \in [Calls -> {"none", "started", "read", "runs"}]
       /\ \A s \in Calls \ {r} : handler'[s] = handler[s] /\ (s \in turnedAway' => s \in turnedAway)
       /\ r \in turnedAway' \/ handler'[r] = "started"
       /\ handler'[r] \in {"none", "started"}
  <2>1. dropped \subseteq Calls /\ (dropped' = dropped \/ dropped' = dropped \cup {r})
      BY <1>3 DEF ServerInv, ServTypes
  <2>2. dropped \subseteq dropped' /\ dropped' \subseteq Calls
      BY <1>5, <2>1
  <2>3. /\ handler \in [Calls -> {"none", "started", "read", "runs"}] /\ handler[r] = "none"
        /\ turnedAway \subseteq Calls
      BY <1>5, <1>6 DEF ServerInv, ServTypes, Arrived
  <2>4. CASE handler' = [handler EXCEPT ![r] = "started"] /\ turnedAway' = turnedAway
      BY <1>3, <1>5, <2>2, <2>3, <2>4
  <2>5. CASE turnedAway' = turnedAway \cup {r} /\ handler' = handler
      BY <1>3, <1>5, <2>2, <2>3, <2>5
  <2>6. QED
      BY <1>3, <2>4, <2>5
<1>13. \A s \in Calls : Shared(s) => Shared(s)'
    BY <1>8, <1>9 DEF Shared
<1>14. \A s \in Arrived : header[s].id = h.id => Shared(s)' /\ Shared(r)'
  <2> SUFFICES ASSUME NEW s \in Arrived, header[s].id = h.id
               PROVE  Shared(s)' /\ Shared(r)'
      OBVIOUS
  <2>1. s \in Calls
      BY DEF Arrived, ServerInv, ServTypes
  <2>2. header[s].conn # h.conn
      BY <1>2, <1>5, <1>6, <2>1, SameOrShared
  <2>3. QED
      BY <1>2, <1>8, <1>9, <2>2 DEF Shared
<1>15. KeptInv'
  <2>1. ASSUME NEW i \in StreamIds, streams'[i] # None
        PROVE  \E s \in Arrived' : /\ header'[s].id = i /\ header'[s].sc = streams'[i]
                                   /\ s \in turnedAway' \/ handler'[s] \in {"started", "read"} \/ Shared(s)'
    <3>1. CASE i = h.id /\ streams'[i] = h.sc
        BY <1>2, <1>8, <1>9, <1>12, <3>1
    <3>2. CASE streams'[i] = streams[i]
      <4>1. PICK s \in Arrived : /\ header[s].id = i /\ header[s].sc = streams[i]
                                 /\ s \in turnedAway \/ handler[s] \in {"started", "read"} \/ Shared(s)
          BY <2>1, <3>2 DEF ServerInv, KeptInv
      <4>2. s \in Calls /\ s # r
          BY <1>6 DEF Arrived, ServerInv, ServTypes
      <4>3. s \in turnedAway' \/ handler'[s] \in {"started", "read"} \/ Shared(s)'
          BY <1>12, <1>13, <4>1, <4>2
      <4>4. QED
          BY <1>8, <1>9, <3>2, <4>1, <4>3
    <3>3. QED
        BY <1>11, <3>1, <3>2
  <2>2. QED
      BY <2>1 DEF KeptInv
<1>16. StartedInv'
  <2>1. ASSUME NEW s \in Calls, handler'[s] = "started", s \notin dropped', ~Shared(s)'
        PROVE  streams'[header'[s].id] = header'[s].sc
    <3>1. CASE s = r
      <4>1. CASE h.sc # None
          BY <1>2, <1>3, <1>8, <2>1, <3>1, <4>1
      <4>2. CASE h.sc = None /\ streams[h.id] # None
        <5>1. \E q \in Arrived : header[q].id = h.id
            BY <1>7, <4>2 DEF ServerInv, KeptInv
        <5>2. QED
            BY <1>14, <2>1, <3>1, <5>1
      <4>3. CASE h.sc = None /\ streams[h.id] = None
          BY <1>2, <1>3, <1>8, <3>1, <4>3
      <4>4. QED
          BY <4>1, <4>2, <4>3
    <3>2. CASE s # r
      <4>1. handler[s] = "started" /\ s \notin dropped /\ ~Shared(s) /\ s \in Arrived
          BY <1>12, <1>13, <2>1, <3>2 DEF Arrived
      <4>2. header[s].id # h.id
          BY <1>14, <2>1, <4>1
      <4>3. header[s].id \in StreamIds
          BY <4>1, HeaderOfSent DEF RouteInv, WireInv
      <4>4. QED
          BY <1>8, <1>11, <4>1, <4>2, <4>3 DEF ServerInv, StartedInv
    <3>3. QED
        BY <3>1, <3>2
  <2>2. QED
      BY <2>1 DEF StartedInv
<1>17. ServedInv'
  <2>1. ASSUME NEW s \in Calls, handler'[s] \in {"read", "runs"}, parent'[s] # header'[s].sc
        PROVE  s \in dropped' \/ Shared(s)'
    <3>1. s # r /\ handler[s] = handler'[s]
        BY <1>12, <2>1
    <3>2. s \in dropped \/ Shared(s)
        BY <1>8, <1>12, <2>1, <3>1 DEF ServerInv, ServedInv
    <3>3. QED
        BY <1>12, <1>13, <3>2
  <2>2. QED
      BY <2>1 DEF ServedInv
<1>18. ServTypes'
    BY <1>11, <1>12 DEF ServTypes, ServerInv
<1>19. QED
    BY <1>10, <1>15, <1>16, <1>17, <1>18 DEF ServerInv

LEMMA ReadInv ==
    ASSUME ClientInv, RouteInv, ServerInv, NEW r \in Calls, Server!Read(r), UNCHANGED clientVars
    PROVE  RouteInv' /\ ServerInv'
<1>1. PICK i : i = header[r].id
    OBVIOUS
<1>2. /\ handler[r] = "started" /\ parent' = [parent EXCEPT ![r] = streams[i]]
      /\ handler' = [handler EXCEPT ![r] = IF parent'[r] = None THEN "runs" ELSE "read"]
      /\ UNCHANGED <<wire, streams, turnedAway, dropped>>
    BY <1>1 DEF Server!Read, Server!StreamIdOf, Server!None, None
<1>3. /\ UNCHANGED <<calls, nextId, outbox, writing>> /\ header' = header
    BY DEF clientVars, header
<1>4. r \in Arrived /\ i \in StreamIds
    BY <1>1, <1>2, HeaderOfSent DEF Arrived, RouteInv, WireInv
<1>5. /\ parent'[r] = streams[i] /\ \A s \in Calls \ {r} : parent'[s] = parent[s] /\ handler'[s] = handler[s]
      /\ handler'[r] \in {"runs", "read"} /\ (streams[i] # None => handler'[r] = "read")
    BY <1>2 DEF ServerInv, ServTypes
<1>6. Arrived' = Arrived
    BY <1>2, <1>5 DEF Arrived
<1>7. \A s \in Calls : Shared(s)' <=> Shared(s)
    BY <1>3, <1>6 DEF Shared
<1>8. RouteInv'
    BY <1>2, <1>3, <1>6 DEF RouteInv, IdInv, PlaceInv, WireInv
<1>9. ServTypes'
    BY <1>2, <1>4 DEF ServerInv, ServTypes
<1>10. StartedInv'
    BY <1>2, <1>3, <1>5, <1>7 DEF ServerInv, StartedInv
<1>11. ServedInv'
  <2>1. ASSUME NEW s \in Calls, handler'[s] \in {"read", "runs"}, parent'[s] # header'[s].sc
        PROVE  s \in dropped' \/ Shared(s)'
    <3>1. CASE s = r
        BY <1>1, <1>2, <1>3, <1>5, <1>7, <2>1, <3>1 DEF ServerInv, StartedInv
    <3>2. CASE s # r
        BY <1>2, <1>3, <1>5, <1>7, <2>1, <3>2 DEF ServerInv, ServedInv
    <3>3. QED
        BY <3>1, <3>2
  <2>2. QED
      BY <2>1 DEF ServedInv
<1>12. KeptInv'
  <2>1. ASSUME NEW j \in StreamIds, streams'[j] # None
        PROVE  \E s \in Arrived' : /\ header'[s].id = j /\ header'[s].sc = streams'[j]
                                   /\ s \in turnedAway' \/ handler'[s] \in {"started", "read"} \/ Shared(s)'
    <3>1. PICK s \in Arrived : /\ header[s].id = j /\ header[s].sc = streams[j]
                               /\ s \in turnedAway \/ handler[s] \in {"started", "read"} \/ Shared(s)
        BY <1>2, <2>1 DEF ServerInv, KeptInv
    <3>2. s \in Calls
        BY DEF Arrived, ServerInv, ServTypes
    <3>3. s \in turnedAway' \/ handler'[s] \in {"started", "read"} \/ Shared(s)'
        BY <1>1, <1>2, <1>5, <1>7, <2>1, <3>1, <3>2
    <3>4. QED
        BY <1>2, <1>3, <1>6, <3>1, <3>3
  <2>2. QED
      BY <2>1 DEF KeptInv
<1>13. QED
    BY <1>8, <1>9, <1>10, <1>11, <1>12 DEF ServerInv

LEMMA ClearInv ==
    ASSUME ClientInv, RouteInv, ServerInv, NEW r \in Calls, Server!Clear(r), UNCHANGED clientVars
    PROVE  RouteInv' /\ ServerInv'
<1>1. PICK i : i = header[r].id
    OBVIOUS
<1>2. /\ handler[r] = "read" /\ streams' = [streams EXCEPT ![i] = None]
      /\ handler' = [handler EXCEPT ![r] = "runs"]
      /\ UNCHANGED <<wire, parent, turnedAway, dropped>>
    BY <1>1 DEF Server!Clear, Server!StreamIdOf, Server!Cleared, Server!None, None
<1>3. /\ UNCHANGED <<calls, nextId, outbox, writing>> /\ header' = header
    BY DEF clientVars, header
<1>4. r \in Arrived /\ i \in StreamIds /\ r \in DOMAIN calls /\ calls[r].sent
    BY <1>1, <1>2, HeaderOfSent DEF Arrived, RouteInv, WireInv
<1>5. /\ \A s \in Calls \ {r} : handler'[s] = handler[s]
      /\ handler'[r] = "runs" /\ streams'[i] = None /\ \A j \in StreamIds \ {i} : streams'[j] = streams[j]
    BY <1>2, <1>4 DEF ServerInv, ServTypes
<1>6. Arrived' = Arrived
    BY <1>2, <1>5 DEF Arrived
<1>7. \A s \in Calls : Shared(s)' <=> Shared(s)
    BY <1>3, <1>6 DEF Shared
<1>8. RouteInv'
    BY <1>2, <1>3, <1>6 DEF RouteInv, IdInv, PlaceInv, WireInv
<1>9. ServTypes'
    BY <1>2, <1>4 DEF ServerInv, ServTypes
<1>10. StartedInv'
  <2>1. ASSUME NEW s \in Calls, handler'[s] = "started", s \notin dropped', ~Shared(s)'
        PROVE  streams'[header'[s].id] = header'[s].sc
    <3>1. s # r /\ handler[s] = "started" /\ s \in Arrived /\ ~Shared(s)
        BY <1>5, <1>7, <2>1 DEF Arrived
    <3>2. header[s].id # i
      <4>1. ASSUME header[s].id = i PROVE FALSE
        <5>1. header[s].conn = header[r].conn
            BY <1>1, <1>4, <3>1, <4>1 DEF Shared
        <5>2. s \in DOMAIN calls /\ calls[s].sent
            BY <3>1 DEF RouteInv, WireInv
        <5>3. QED
            BY <1>1, <1>4, <3>1, <4>1, <5>1, <5>2, SameOrShared
      <4>2. QED
          BY <4>1
    <3>3. header[s].id \in StreamIds
        BY <3>1, HeaderOfSent DEF RouteInv, WireInv
    <3>4. QED
        BY <1>2, <1>3, <1>5, <2>1, <3>1, <3>2, <3>3 DEF ServerInv, StartedInv
  <2>2. QED
      BY <2>1 DEF StartedInv
<1>11. ServedInv'
    BY <1>2, <1>3, <1>5, <1>7 DEF ServerInv, ServedInv
<1>12. KeptInv'
  <2>1. ASSUME NEW j \in StreamIds, streams'[j] # None
        PROVE  \E s \in Arrived' : /\ header'[s].id = j /\ header'[s].sc = streams'[j]
                                   /\ s \in turnedAway' \/ handler'[s] \in {"started", "read"} \/ Shared(s)'
    <3>1. j # i /\ streams[j] = streams'[j]
        BY <1>5, <2>1
    <3>2. PICK s \in Arrived : /\ header[s].id = j /\ header[s].sc = streams[j]
                               /\ s \in turnedAway \/ handler[s] \in {"started", "read"} \/ Shared(s)
        BY <2>1, <3>1 DEF ServerInv, KeptInv
    <3>3. s \in Calls /\ s # r
        BY <1>1, <3>1, <3>2 DEF Arrived, ServerInv, ServTypes
    <3>4. s \in turnedAway' \/ handler'[s] \in {"started", "read"} \/ Shared(s)'
        BY <1>2, <1>5, <1>7, <3>2, <3>3
    <3>5. QED
        BY <1>3, <1>6, <3>1, <3>2, <3>4
  <2>2. QED
      BY <2>1 DEF KeptInv
<1>13. QED
    BY <1>8, <1>9, <1>10, <1>11, <1>12 DEF ServerInv
-------------------------------------------------------------------------------
(* What a header carries.                                                   *)

\* The call c has met none of the exceptions that HeaderIsStored names, so far.
Clean(c) ==
    LET r == calls[c]
    IN  /\ "byStream" \notin r.refusedBy
        /\ r.id # None => r.id = r.guess
        /\ r.id = None => nextId[r.conn] = r.guess
        /\ \A d \in DOMAIN calls : r.guess \in calls[d].guesses => d = c /\ r.opens = 1
        /\ \A p \in passed : p.id = r.guess => p.writer = r.conn

Ahead(c) == ~calls[c].sent /\ \A w \in Writers : writing[w] # Idle => writing[w].call # c

GuessInv(r) ==
    /\ r.opens = 0 => r.guesses = {}
    /\ r.opens = 1 /\ r.stored = None => r.guesses = {}
    /\ r.opens > 0 /\ r.stored # None => r.guess \in r.guesses

\* A clean call's context waits under its id until a writer looks for it; then the
\* writer may read it, and its header carries it.
PutInv ==
    \A c \in DOMAIN calls :
        /\ GuessInv(calls[c])
        /\ calls[c].opens > 0 /\ calls[c].stored # None /\ Clean(c) /\ Ahead(c) =>
              byStream[calls[c].guess] = calls[c].stored

HoldInv ==
    \A w \in Writers : writing[w] # Idle =>
        /\ [writer |-> w, id |-> writing[w].id] \in passed
        /\ w \in Conns => writing[w].call # None
        /\ writing[w].call # None /\ Clean(writing[w].call) =>
              calls[writing[w].call].stored \in writing[w].may

SentInv ==
    \A c \in DOMAIN calls :
        calls[c].sent /\ Clean(c) /\ ~calls[c].reused => calls[c].carried = calls[c].stored

CarryInv == PutInv /\ HoldInv /\ SentInv

\* A clean call has been clean.
LEMMA CleanBefore ==
    ASSUME ClientInv, RouteInv, NEW c \in DOMAIN calls, calls[c].opens > 0, c \in DOMAIN calls',
           calls'[c].refusedBy = calls[c].refusedBy, calls'[c].guess = calls[c].guess,
           calls'[c].conn = calls[c].conn, calls'[c].opens = calls[c].opens,
           \/ calls'[c].id = calls[c].id
           \/ calls[c].id = None /\ calls'[c].id = nextId[calls[c].conn] /\ calls'[c].id # None,
           \A d \in DOMAIN calls : d \in DOMAIN calls' /\ calls[d].guesses \subseteq calls'[d].guesses,
           passed \subseteq passed',
           nextId' \in [Conns -> Nat], \A k \in Conns : nextId[k] <= nextId'[k],
           Clean(c)'
    PROVE  Clean(c)
<1>1. calls[c].conn \in Conns /\ calls[c].guess <= nextId[calls[c].conn] /\ calls[c].guess \in Nat
    BY DEF RouteInv, IdInv, StreamIds
<1>2. nextId[calls[c].conn] \in Nat
    BY <1>1 DEF ClientInv, Types
<1>3. calls[c].id = None => nextId[calls[c].conn] = calls[c].guess
  <2>1. CASE calls'[c].id = calls[c].id /\ calls[c].id = None
    <3>1. nextId'[calls[c].conn] = calls[c].guess
        BY <2>1 DEF Clean
    <3>2. QED
        BY <1>1, <1>2, <3>1
  <2>2. CASE calls'[c].id = nextId[calls[c].conn] /\ calls'[c].id # None
      BY <2>2 DEF Clean
  <2>3. QED
      BY <2>1, <2>2
<1>4. calls[c].id # None => calls[c].id = calls[c].guess
    BY DEF Clean
<1>5. \A d \in DOMAIN calls : calls[c].guess \in calls[d].guesses => d = c /\ calls[c].opens = 1
    BY DEF Clean
<1>6. \A p \in passed : p.id = calls[c].guess => p.writer = calls[c].conn
    BY DEF Clean
<1>7. "byStream" \notin calls[c].refusedBy
    BY DEF Clean
<1>8. QED
    BY <1>3, <1>4, <1>5, <1>6, <1>7 DEF Clean

\* A step that sends no frame and takes none from an outbox.
LEMMA CarryKept ==
    ASSUME ClientInv, RouteInv, CarryInv,
           \A d \in DOMAIN calls : d \in DOMAIN calls' /\ calls[d].guesses \subseteq calls'[d].guesses,
           passed \subseteq passed',
           nextId' \in [Conns -> Nat], \A k \in Conns : nextId[k] <= nextId'[k],
           \A d \in DOMAIN calls' :
               \/ /\ d \in DOMAIN calls
                  /\ \/ calls'[d].id = calls[d].id
                     \/ calls[d].id = None /\ calls'[d].id = nextId[calls[d].conn] /\ calls'[d].id # None
                        /\ calls[d].opens > 0
                  /\ calls'[d].conn = calls[d].conn /\ calls'[d].sent = calls[d].sent
                  /\ calls'[d].opens = calls[d].opens /\ calls'[d].guess = calls[d].guess
                  /\ calls'[d].guesses = calls[d].guesses /\ calls'[d].stored = calls[d].stored
                  /\ calls'[d].refusedBy = calls[d].refusedBy
                  /\ calls'[d].carried = calls[d].carried /\ calls'[d].reused = calls[d].reused
                  /\ calls[d].opens > 0 /\ calls[d].stored # None /\ Clean(d)' /\ Clean(d) /\ Ahead(d) =>
                        byStream'[calls[d].guess] = byStream[calls[d].guess]
               \/ /\ d \in DOMAIN calls => calls[d].id = None
                  /\ ~calls'[d].sent /\ GuessInv(calls'[d])
                  /\ calls'[d].opens > 0 /\ calls'[d].stored # None /\ Clean(d)' =>
                        byStream'[calls'[d].guess] = calls'[d].stored,
           \A w \in Writers : /\ writing'[w] # Idle <=> writing[w] # Idle
                              /\ writing'[w] # Idle => /\ writing'[w].call = writing[w].call
                                                       /\ writing'[w].id = writing[w].id
                                                       /\ writing[w].may \subseteq writing'[w].may
    PROVE  CarryInv'
<1>1. \A d \in DOMAIN calls : Ahead(d)' /\ calls'[d].sent = calls[d].sent => Ahead(d)
    BY DEF Ahead
<1>2. PutInv'
  <2> SUFFICES ASSUME NEW d \in DOMAIN calls'
               PROVE  /\ GuessInv(calls'[d])
                      /\ calls'[d].opens > 0 /\ calls'[d].stored # None /\ Clean(d)' /\ Ahead(d)' =>
                            byStream'[calls'[d].guess] = calls'[d].stored
      BY DEF PutInv, GuessInv
  <2>1. CASE /\ d \in DOMAIN calls
             /\ \/ calls'[d].id = calls[d].id
                \/ calls[d].id = None /\ calls'[d].id = nextId[calls[d].conn] /\ calls'[d].id # None
             /\ calls'[d].conn = calls[d].conn /\ calls'[d].sent = calls[d].sent
             /\ calls'[d].opens = calls[d].opens /\ calls'[d].guess = calls[d].guess
             /\ calls'[d].guesses = calls[d].guesses /\ calls'[d].stored = calls[d].stored
             /\ calls'[d].refusedBy = calls[d].refusedBy
             /\ calls[d].opens > 0 /\ calls[d].stored # None /\ Clean(d)' /\ Clean(d) /\ Ahead(d) =>
                   byStream'[calls[d].guess] = byStream[calls[d].guess]
    <3>1. GuessInv(calls'[d])
        BY <2>1 DEF CarryInv, PutInv, GuessInv
    <3>2. calls[d].opens > 0 /\ Clean(d)' => Clean(d)
        BY <2>1, CleanBefore
    <3>3. QED
        BY <1>1, <2>1, <3>1, <3>2 DEF CarryInv, PutInv
  <2>2. QED
      BY <2>1
<1>3. HoldInv'
  <2> SUFFICES ASSUME NEW w \in Writers, writing'[w] # Idle
               PROVE  /\ [writer |-> w, id |-> writing'[w].id] \in passed'
                      /\ w \in Conns => writing'[w].call # None
                      /\ (writing[w].call # None /\ Clean(writing[w].call))' =>
                            (calls[writing[w].call].stored \in writing[w].may)'
      BY DEF HoldInv
  <2>1. PICK c : c = writing[w].call /\ writing'[w].call = c /\ writing[w] # Idle
      OBVIOUS
  <2>2. ASSUME c # None, Clean(c)'
        PROVE  calls'[c].stored \in writing'[w].may
    <3>1. c \in DOMAIN calls /\ calls[c].id # None
        BY <2>1, <2>2, BoundsAssumption DEF ClientInv, FrameInv, Types, InHand, StreamIds, None
    <3>2. calls[c].opens > 0
        BY <3>1 DEF RouteInv, IdInv
    <3>3. /\ calls'[c].id = calls[c].id /\ calls'[c].conn = calls[c].conn
          /\ calls'[c].opens = calls[c].opens /\ calls'[c].guess = calls[c].guess
          /\ calls'[c].stored = calls[c].stored /\ calls'[c].refusedBy = calls[c].refusedBy
        BY <3>1
    <3>4. Clean(c)
        BY <2>2, <3>1, <3>2, <3>3, CleanBefore
    <3>5. QED
        BY <2>1, <2>2, <3>3, <3>4 DEF CarryInv, HoldInv
  <2>3. [writer |-> w, id |-> writing'[w].id] \in passed' /\ (w \in Conns => writing'[w].call # None)
      BY <2>1 DEF CarryInv, HoldInv
  <2>4. ASSUME (writing[w].call # None /\ Clean(writing[w].call))'
        PROVE  (calls[writing[w].call].stored \in writing[w].may)'
    <3>1. (c # None /\ Clean(c))'
        BY <2>1, <2>4 DEF Clean
    <3>2. QED
        BY <2>1, <2>2, <3>1
  <2>5. QED
      BY <2>3, <2>4
<1>4. SentInv'
  <2> SUFFICES ASSUME NEW d \in DOMAIN calls', calls'[d].sent, Clean(d)', ~calls'[d].reused
               PROVE  calls'[d].carried = calls'[d].stored
      BY DEF SentInv
  <2>1. /\ d \in DOMAIN calls /\ calls[d].sent /\ ~calls[d].reused
        /\ calls'[d].carried = calls[d].carried /\ calls'[d].stored = calls[d].stored
        /\ calls'[d].conn = calls[d].conn /\ calls'[d].opens = calls[d].opens
        /\ calls'[d].guess = calls[d].guess /\ calls'[d].refusedBy = calls[d].refusedBy
        /\ \/ calls'[d].id = calls[d].id
           \/ calls[d].id = None /\ calls'[d].id = nextId[calls[d].conn] /\ calls'[d].id # None
      OBVIOUS
  <2>2. calls[d].opens > 0
      BY <2>1 DEF RouteInv, IdInv
  <2>3. Clean(d)
      BY <2>1, <2>2, CleanBefore
  <2>4. QED
      BY <2>1, <2>3 DEF CarryInv, SentInv
<1>5. QED
    BY <1>2, <1>3, <1>4 DEF CarryInv
LEMMA CarryInit == PropInit => CarryInv
BY DEF PropInit, Init, CarryInv, PutInv, HoldInv, SentInv

\* Numbers of calls are numbers, and the ids to come.
LEMMA Numbers ==
    ASSUME ClientInv
    PROVE  /\ nextId \in [Conns -> Nat] /\ \A k \in Conns : nextId[k] <= nextId[k]
           /\ \A c \in DOMAIN calls : c \in Nat /\ c # None /\ calls[c] \in Record
           /\ \A w \in Writers : writing[w] \in InHand
BY DEF ClientInv, Types, None

LEMMA CarryGoroutine ==
    ASSUME ClientInv, RouteInv, CarryInv, NEW g \in Goroutines,
           \/ \E ctx \in Contexts : Invoke(g, ctx) \/ Stream(g, ctx)
           \/ GiveUp(g) \/ OpenFails(g)
    PROVE  CarryInv'
<1>1. calls \in Seq(Record)
    BY DEF ClientInv, Types
<1>2. UNCHANGED <<byStream, nextId, writing, passed>>
    BY DEF Invoke, Stream, GiveUp, OpenFails
<1>3. nextId' \in [Conns -> Nat] /\ \A k \in Conns : nextId[k] <= nextId'[k]
    BY <1>2, Numbers
<1>4. ASSUME NEW c, c = Len(calls) + 1, NEW r, calls' = Append(calls, r), ~r.sent, r.opens = 0, r.guesses = {}
      PROVE  CarryInv'
  <2>1. /\ DOMAIN calls' = DOMAIN calls \cup {c} /\ c \notin DOMAIN calls /\ calls'[c] = r
        /\ \A d \in DOMAIN calls : calls'[d] = calls[d]
      BY <1>1, <1>4
  <2>2. \A d \in DOMAIN calls' : d \in DOMAIN calls \/ (d \notin DOMAIN calls /\ calls'[d] = r)
      BY <2>1
  <2>3. GuessInv(r) /\ ~(r.opens > 0)
      BY <1>4 DEF GuessInv
  <2>4. QED
      BY <1>2, <1>3, <1>4, <2>1, <2>2, <2>3, CarryKept
<1>5. ASSUME NEW ctx \in Contexts, Invoke(g, ctx) PROVE CarryInv'
  <2>1. PICK r : /\ calls' = Append(calls, r)
                 /\ r = [NewCall(g, "unary", ctx) EXCEPT !.meant = Len(calls) + 1,
                          !.refusedBy = IF internal'[Goid(g)] # Len(calls) + 1 THEN {"internal"} ELSE {}]
      BY <1>5 DEF Invoke
  <2>2. ~r.sent /\ r.opens = 0 /\ r.guesses = {}
      BY <2>1 DEF NewCall
  <2>3. QED
      BY <1>4, <2>1, <2>2
<1>6. ASSUME NEW ctx \in Contexts, Stream(g, ctx) PROVE CarryInv'
  <2>1. PICK r : calls' = Append(calls, r) /\ r = NewCall(g, "stream", ctx)
      BY <1>6 DEF Stream
  <2>2. ~r.sent /\ r.opens = 0 /\ r.guesses = {}
      BY <2>1 DEF NewCall
  <2>3. QED
      BY <1>4, <2>1, <2>2
<1>7. CASE GiveUp(g)
  <2>1. PICK c : c = doing[g].call
      OBVIOUS
  <2>2. c \in DOMAIN calls /\ calls[c] \in Record
      BY <1>7, <2>1 DEF GiveUp, Idle, ClientInv, CallingInv, Types
  <2>3. PICK r : r = [calls[c] EXCEPT !.failed = TRUE]
      OBVIOUS
  <2>4. calls' = [calls EXCEPT ![c] = r]
      BY <1>7, <2>1, <2>3 DEF GiveUp
  <2>5. /\ r.id = calls[c].id /\ r.conn = calls[c].conn /\ r.sent = calls[c].sent
        /\ r.opens = calls[c].opens /\ r.guess = calls[c].guess /\ r.guesses = calls[c].guesses
        /\ r.stored = calls[c].stored /\ r.refusedBy = calls[c].refusedBy
        /\ r.carried = calls[c].carried /\ r.reused = calls[c].reused
      BY <2>2, <2>3 DEF Record
  <2>6. DOMAIN calls' = DOMAIN calls /\ calls'[c] = r /\ \A d \in DOMAIN calls \ {c} : calls'[d] = calls[d]
      BY <1>1, <2>2, <2>4
  <2>7. QED
      BY <1>2, <1>3, <2>5, <2>6, CarryKept
<1>8. CASE OpenFails(g)
  <2>1. calls' = calls
      BY <1>8 DEF OpenFails
  <2>2. QED
      BY <1>2, <1>3, <2>1, CarryKept
<1>9. QED
    BY <1>5, <1>6, <1>7, <1>8

LEMMA CarryAssignId ==
    ASSUME ClientInv, RouteInv, CarryInv, NEW g \in Goroutines, AssignId(g)
    PROVE  CarryInv'
<1>1. PICK c : c = doing[g].call
    OBVIOUS
<1>2. PICK k : k = calls[c].conn
    OBVIOUS
<1>3. /\ c \in DOMAIN calls /\ calls[c].id = None /\ calls[c].opens > 0 /\ k \in Conns
    BY <1>1, <1>2 DEF AssignId, CallingInv, Idle, ClientInv
<1>4. PICK i : i = nextId[k] /\ i \in Nat /\ i # None
    BY <1>3 DEF ClientInv, Types, None
<1>5. calls[c] \in Record
    BY <1>3, Numbers
<1>6. PICK r : r = [calls[c] EXCEPT !.id = i]
    OBVIOUS
<1>7. /\ calls' = [calls EXCEPT ![c] = r] /\ nextId' = [nextId EXCEPT ![k] = i + 1]
      /\ UNCHANGED <<byStream, writing, passed>>
    BY <1>1, <1>2, <1>4, <1>6 DEF AssignId
<1>8. /\ r.id = i /\ r.conn = calls[c].conn /\ r.sent = calls[c].sent
      /\ r.opens = calls[c].opens /\ r.guess = calls[c].guess /\ r.guesses = calls[c].guesses
      /\ r.stored = calls[c].stored /\ r.refusedBy = calls[c].refusedBy
      /\ r.carried = calls[c].carried /\ r.reused = calls[c].reused
    BY <1>5, <1>6 DEF Record
<1>9. DOMAIN calls' = DOMAIN calls /\ calls'[c] = r /\ \A d \in DOMAIN calls \ {c} : calls'[d] = calls[d]
    BY <1>3, <1>7 DEF ClientInv, Types
<1>10. nextId' \in [Conns -> Nat] /\ \A j \in Conns : nextId[j] <= nextId'[j]
    BY <1>3, <1>4, <1>7, Numbers
<1>11. QED
    BY <1>2, <1>3, <1>4, <1>7, <1>8, <1>9, <1>10, CarryKept

LEMMA CarryNewStream ==
    ASSUME ClientInv, RouteInv, CarryInv, NEW g \in Goroutines, NEW k \in Conns, NewStream(g, k)
    PROVE  CarryInv'
<1>1. PICK c : c = doing[g].call
    OBVIOUS
<1>2. c \in DOMAIN calls /\ calls[c].id = None /\ ~calls[c].sent /\ calls[c] \in Record
    BY <1>1 DEF NewStream, Idle, ClientInv, CallingInv, Types
<1>3. PICK i : i = nextId[k] /\ i \in StreamIds
    BY DEF NewStream, NextIdRead
<1>4. PICK v : v = Chosen(g, calls[c].ctx)
    OBVIOUS
<1>5. v \in Calls \cup {None}
    BY <1>4, ChosenIsKnown
<1>6. PICK r : r = Opened(calls[c], k, v, i, byStream'[i] # v)
    OBVIOUS
<1>7. /\ calls' = [calls EXCEPT ![c] = r] /\ UNCHANGED <<nextId, passed>>
      /\ \/ v = None /\ UNCHANGED <<byStream, writing>>
         \/ /\ v # None /\ byStream' = Updated(byStream, i, v, MaxConcurrent)
            /\ writing' = IF byStream'[i] = v THEN Reusing(i, v) ELSE writing
    BY <1>1, <1>3, <1>4, <1>6 DEF NewStream, NextIdRead
<1>8. /\ r.id = None /\ ~r.sent /\ r.stored = v /\ r.guess = i /\ r.opens = calls[c].opens + 1
      /\ r.guesses = (IF v = None THEN calls[c].guesses ELSE calls[c].guesses \cup {i})
      /\ v # None /\ byStream'[i] # v => "byStream" \in r.refusedBy
    BY <1>2, <1>3, <1>6 DEF Opened, Record
<1>9. DOMAIN calls' = DOMAIN calls /\ calls'[c] = r /\ \A d \in DOMAIN calls \ {c} : calls'[d] = calls[d]
    BY <1>2, <1>7 DEF ClientInv, Types
<1>10. \A j \in StreamIds : byStream'[j] = byStream[j] \/ (j = i /\ v # None)
    BY <1>3, <1>5, <1>7 DEF Updated, ClientInv, Types
<1>11. ASSUME NEW w \in Writers
       PROVE  /\ writing'[w] # Idle <=> writing[w] # Idle
              /\ writing'[w] # Idle => /\ writing'[w].call = writing[w].call
                                       /\ writing'[w].id = writing[w].id
                                       /\ writing[w].may \subseteq writing'[w].may
  <2>1. CASE writing' = writing
      BY <2>1
  <2>2. CASE v # None /\ writing' = Reusing(i, v)
    <3>1. writing'[w] = IF writing[w] = Idle THEN Idle
                        ELSE IF writing[w].freed THEN [writing[w] EXCEPT !.may = @ \cup {v, Mixed}]
                        ELSE [writing[w] EXCEPT !.freed = writing[w].id = i]
        BY <2>2 DEF Reusing
    <3>2. writing[w] \in InHand
        BY Numbers
    <3>3. CASE writing[w] = Idle
        BY <3>1, <3>3
    <3>4. CASE writing[w] # Idle /\ writing'[w] = [writing[w] EXCEPT !.may = @ \cup {v, Mixed}]
        BY <3>2, <3>4 DEF InHand, Idle
    <3>5. CASE writing[w] # Idle /\ writing'[w] = [writing[w] EXCEPT !.freed = writing[w].id = i]
        BY <3>2, <3>5 DEF InHand, Idle
    <3>6. QED
        BY <3>1, <3>3, <3>4, <3>5
  <2>3. QED
      BY <1>7, <2>1, <2>2
<1>12. GuessInv(r)
  <2>1. calls[c].opens \in Nat /\ GuessInv(calls[c])
      BY <1>2 DEF Record, CarryInv, PutInv
  <2>2. r.opens = 1 => calls[c].guesses = {}
      BY <1>8, <2>1 DEF GuessInv
  <2>3. r.opens # 0
      BY <1>8, <2>1
  <2>4. QED
      BY <1>8, <2>2, <2>3 DEF GuessInv
<1>13. ASSUME r.stored # None, Clean(c)' PROVE byStream'[r.guess] = r.stored
  <2>1. "byStream" \notin r.refusedBy
      BY <1>9, <1>13 DEF Clean
  <2>2. QED
      BY <1>8, <1>13, <2>1
<1>14. ASSUME NEW d \in DOMAIN calls, d # c, calls[d].opens > 0, Clean(d)'
       PROVE  byStream'[calls[d].guess] = byStream[calls[d].guess]
  <2>1. calls[d].guess \in StreamIds
      BY <1>14 DEF RouteInv, IdInv
  <2>2. CASE calls[d].guess = i /\ v # None
    <3>1. calls'[d].guess \in calls'[c].guesses
        BY <1>8, <1>9, <1>14, <2>2
    <3>2. QED
        BY <1>2, <1>9, <1>14, <3>1 DEF Clean
  <2>3. QED
      BY <1>10, <2>1, <2>2
<1>15. \A d \in DOMAIN calls : d \in DOMAIN calls' /\ calls[d].guesses \subseteq calls'[d].guesses
    BY <1>8, <1>9
<1>16. nextId' \in [Conns -> Nat] /\ \A j \in Conns : nextId[j] <= nextId'[j]
    BY <1>7, Numbers
<1>17. ASSUME NEW d \in DOMAIN calls'
       PROVE  \/ /\ d \in DOMAIN calls /\ calls'[d] = calls[d]
                 /\ calls[d].opens > 0 /\ Clean(d)' => byStream'[calls[d].guess] = byStream[calls[d].guess]
              \/ /\ d \in DOMAIN calls => calls[d].id = None
                 /\ ~calls'[d].sent /\ GuessInv(calls'[d])
                 /\ calls'[d].stored # None /\ Clean(d)' => byStream'[calls'[d].guess] = calls'[d].stored
    BY <1>2, <1>8, <1>9, <1>12, <1>13, <1>14
<1>18. QED
    BY <1>7, <1>11, <1>15, <1>16, <1>17, CarryKept

\* A writer deletes what is kept for the call in its hands, which has the id; a clean
\* call still to be sent has not got that id on this connection.
LEMMA CarryDelete ==
    ASSUME ClientInv, RouteInv, CarryInv, NEW w \in Writers, Delete(w)
    PROVE  CarryInv'
<1>1. /\ UNCHANGED <<calls, nextId, passed>>
      /\ byStream' = [byStream EXCEPT ![writing[w].id] = None]
    BY DEF Delete, Taken
<1>2. writing[w] \in InHand /\ writing[w].pc = "found" /\ writing[w] # Idle
    BY Numbers DEF Delete, Idle
<1>3. ASSUME NEW u \in Writers
      PROVE  /\ writing'[u] # Idle <=> writing[u] # Idle
             /\ writing'[u] # Idle => /\ writing'[u].call = writing[u].call
                                      /\ writing'[u].id = writing[u].id
                                      /\ writing[u].may \subseteq writing'[u].may
  <2>1. writing'[u] = IF u = w THEN [writing[w] EXCEPT !.pc = "gone", !.freed = TRUE]
                      ELSE IF writing[u] # Idle /\ writing[u].id = writing[w].id
                           THEN [writing[u] EXCEPT !.freed = TRUE] ELSE writing[u]
      BY DEF Delete
  <2>2. writing[u] \in InHand
      BY Numbers
  <2>3. CASE u = w
    <3>1. writing'[u] = [writing[w] EXCEPT !.pc = "gone", !.freed = TRUE]
        BY <2>1, <2>3
    <3>2. QED
        BY <1>2, <2>3, <3>1 DEF InHand, Idle
  <2>4. CASE writing[u] # Idle /\ writing'[u] = [writing[u] EXCEPT !.freed = TRUE]
      BY <2>2, <2>4 DEF InHand, Idle
  <2>5. CASE writing'[u] = writing[u]
      BY <2>5
  <2>6. QED
      BY <2>1, <2>3, <2>4, <2>5
<1>4. ASSUME NEW d \in DOMAIN calls, calls[d].opens > 0, Clean(d), Ahead(d)
      PROVE  byStream'[calls[d].guess] = byStream[calls[d].guess]
  <2>1. PICK i : i = calls[d].guess /\ i \in StreamIds
      BY <1>4 DEF RouteInv, IdInv
  <2>2. CASE i = writing[w].id
    <3>1. w = calls[d].conn /\ w \in Conns
        BY <1>2, <1>4, <2>1, <2>2 DEF CarryInv, HoldInv, Clean, RouteInv, IdInv
    <3>2. PICK e : e = writing[w].call
        OBVIOUS
    <3>3. CASE e = None
        BY <1>2, <3>1, <3>2, <3>3 DEF CarryInv, HoldInv
    <3>4. CASE e # None
      <4>1. e \in DOMAIN calls /\ calls[e].id = i /\ calls[e].conn = w /\ e # d
          BY <1>2, <1>4, <2>2, <3>2, <3>4 DEF ClientInv, FrameInv, RouteInv, PlaceInv, Ahead
      <4>2. i # None /\ i \in Nat
          BY <2>1 DEF StreamIds, None
      <4>3. calls[d].id = None => nextId[w] = i
          BY <1>4, <2>1, <3>1 DEF Clean
      <4>4. calls[d].id # None => calls[d].id = i
          BY <1>4, <2>1 DEF Clean
      <4>5. nextId[w] \in Nat /\ i < nextId[w]
          BY <3>1, <4>1, <4>2, Numbers DEF RouteInv, IdInv
      <4>6. QED
          BY <3>1, <4>1, <4>2, <4>3, <4>4, <4>5 DEF RouteInv, IdInv
    <3>5. QED
        BY <3>3, <3>4
  <2>3. CASE i # writing[w].id
      BY <1>1, <2>1, <2>3 DEF ClientInv, Types
  <2>4. QED
      BY <2>2, <2>3
<1>5. nextId' \in [Conns -> Nat] /\ \A j \in Conns : nextId[j] <= nextId'[j]
    BY <1>1, Numbers
<1>6. QED
    BY <1>1, <1>3, <1>4, <1>5, CarryKept
\* A frame that a writer sends, for a clean call with what was put away for it.
LEMMA CarrySend ==
    ASSUME ClientInv, RouteInv, CarryInv, NEW w \in Writers, NEW c \in DOMAIN calls, NEW v, NEW reused \in BOOLEAN,
           Send(w, c, v, reused), calls[c].id # None,
           Clean(c) /\ ~reused => v = calls[c].stored,
           passed \subseteq passed', UNCHANGED <<byStream, nextId>>,
           \A u \in Writers : writing'[u] # Idle => writing'[u] = writing[u],
           \A u \in Writers : writing[u] # Idle /\ writing'[u] = Idle => writing[u].call = c
    PROVE  CarryInv'
<1>1. PICK r : r = [calls[c] EXCEPT !.sent = TRUE, !.carried = v, !.reused = reused]
    OBVIOUS
<1>2. calls[c] \in Record /\ c # None
    BY Numbers
<1>3. calls' = [calls EXCEPT ![c] = r]
    BY <1>1, <1>2 DEF Send
<1>4. /\ r.sent /\ r.carried = v /\ r.reused = reused
      /\ r.id = calls[c].id /\ r.conn = calls[c].conn /\ r.opens = calls[c].opens
      /\ r.guess = calls[c].guess /\ r.guesses = calls[c].guesses
      /\ r.stored = calls[c].stored /\ r.refusedBy = calls[c].refusedBy
    BY <1>1, <1>2 DEF Record
<1>5. DOMAIN calls' = DOMAIN calls /\ calls'[c] = r /\ \A d \in DOMAIN calls \ {c} : calls'[d] = calls[d]
    BY <1>3 DEF ClientInv, Types
<1>6. \A d \in DOMAIN calls :
          /\ calls'[d].id = calls[d].id /\ calls'[d].conn = calls[d].conn /\ calls'[d].opens = calls[d].opens
          /\ calls'[d].guess = calls[d].guess /\ calls'[d].guesses = calls[d].guesses
          /\ calls'[d].stored = calls[d].stored /\ calls'[d].refusedBy = calls[d].refusedBy
    BY <1>4, <1>5
<1>7. ASSUME NEW d \in DOMAIN calls, calls[d].opens > 0, Clean(d)' PROVE Clean(d)
  <2>1. nextId' \in [Conns -> Nat] /\ \A k \in Conns : nextId[k] <= nextId'[k]
      BY Numbers
  <2>2. \A e \in DOMAIN calls : e \in DOMAIN calls' /\ calls[e].guesses \subseteq calls'[e].guesses
      BY <1>5, <1>6
  <2>3. QED
      BY <1>5, <1>6, <1>7, <2>1, <2>2, CleanBefore
<1>8. calls[c].opens > 0
    BY DEF RouteInv, IdInv
<1>9. PutInv'
  <2> SUFFICES ASSUME NEW d \in DOMAIN calls
               PROVE  /\ GuessInv(calls'[d])
                      /\ calls'[d].opens > 0 /\ calls'[d].stored # None /\ Clean(d)' /\ Ahead(d)' =>
                            byStream'[calls'[d].guess] = calls'[d].stored
      BY <1>5 DEF PutInv, GuessInv
  <2>1. GuessInv(calls'[d])
      BY <1>6 DEF CarryInv, PutInv, GuessInv
  <2>2. ASSUME Ahead(d)' PROVE Ahead(d)
    <3>1. d # c
        BY <1>4, <1>5, <2>2 DEF Ahead
    <3>2. ~calls[d].sent
        BY <1>5, <2>2, <3>1 DEF Ahead
    <3>3. \A u \in Writers : writing[u] # Idle => writing[u].call # d
        BY <2>2, <3>1 DEF Ahead
    <3>4. QED
        BY <3>2, <3>3 DEF Ahead
  <2>3. QED
      BY <1>6, <1>7, <2>1, <2>2 DEF CarryInv, PutInv
<1>10. HoldInv'
  <2> SUFFICES ASSUME NEW u \in Writers, writing'[u] # Idle, NEW d, d = writing[u].call, writing'[u] = writing[u]
               PROVE  /\ [writer |-> u, id |-> writing[u].id] \in passed'
                      /\ u \in Conns => d # None
                      /\ d # None /\ Clean(d)' => calls'[d].stored \in writing[u].may
    <3>1. \A u \in Writers : writing'[u] # Idle =>
              /\ writing'[u] = writing[u]
              /\ \A d : d = writing[u].call =>
                    /\ [writer |-> u, id |-> writing[u].id] \in passed'
                    /\ u \in Conns => d # None
                    /\ d # None /\ Clean(d)' => calls'[d].stored \in writing[u].may
        OBVIOUS
    <3>2. ASSUME NEW u \in Writers, writing'[u] # Idle, writing'[u].call # None, Clean(writing[u].call)'
          PROVE  calls'[writing'[u].call].stored \in writing'[u].may
      <4>1. PICK d : d = writing[u].call /\ writing'[u] = writing[u]
          BY <3>2
      <4>2. Clean(d)'
          BY <3>2, <4>1 DEF Clean
      <4>3. QED
          BY <3>1, <3>2, <4>1, <4>2
    <3>3. QED
        BY <3>1, <3>2 DEF HoldInv
  <2>1. ASSUME d # None, Clean(d)' PROVE calls'[d].stored \in writing[u].may
    <3>1. d \in DOMAIN calls /\ calls[d].id # None
        BY <2>1, BoundsAssumption DEF ClientInv, FrameInv, Types, InHand, StreamIds, None
    <3>2. calls[d].opens > 0
        BY <3>1 DEF RouteInv, IdInv
    <3>3. QED
        BY <1>6, <1>7, <2>1, <3>1, <3>2 DEF CarryInv, HoldInv
  <2>2. QED
      BY <2>1 DEF CarryInv, HoldInv
<1>11. SentInv'
  <2> SUFFICES ASSUME NEW d \in DOMAIN calls, calls'[d].sent, Clean(d)', ~calls'[d].reused
               PROVE  calls'[d].carried = calls'[d].stored
      BY <1>5 DEF SentInv
  <2>1. CASE d = c
      BY <1>4, <1>5, <1>7, <1>8, <2>1
  <2>2. CASE d # c
    <3>1. calls'[d] = calls[d] /\ calls[d].opens > 0
        BY <1>5, <2>2 DEF RouteInv, IdInv
    <3>2. QED
        BY <1>7, <3>1 DEF CarryInv, SentInv
  <2>3. QED
      BY <2>1, <2>2
<1>12. QED
    BY <1>9, <1>10, <1>11 DEF CarryInv

\* What a writer finds under the id of a clean call that it has taken from its outbox.
LEMMA FoundIsStored ==
    ASSUME ClientInv, RouteInv, CarryInv, NEW c \in DOMAIN calls, calls[c].id # None, Clean(c), Ahead(c)
    PROVE  byStream[calls[c].id] = calls[c].stored
<1>1. calls[c].opens > 0 /\ calls[c].id = calls[c].guess /\ calls[c].id \in StreamIds
    BY Numbers DEF RouteInv, IdInv, Clean
<1>2. CASE calls[c].stored = None /\ byStream[calls[c].id] # None
  <2>1. PICK d \in DOMAIN calls : calls[c].id \in calls[d].guesses
      BY <1>1, <1>2 DEF ClientInv, WaitingInv
  <2>2. d = c /\ calls[c].opens = 1
      BY <1>1, <2>1 DEF Clean
  <2>3. calls[c].guesses = {}
      BY <1>2, <2>2 DEF CarryInv, PutInv, GuessInv
  <2>4. QED
      BY <2>1, <2>2, <2>3
<1>3. CASE calls[c].stored # None
    BY <1>1, <1>3 DEF CarryInv, PutInv
<1>4. QED
    BY <1>2, <1>3

\* A writer has looked up an id, and found something.
LEMMA CarryFound ==
    ASSUME ClientInv, RouteInv, CarryInv, NEW w \in Writers, NEW c \in DOMAIN calls \cup {None}, NEW id,
           writing[w] = Idle, w \in Conns => c # None, passed' = passed \cup {[writer |-> w, id |-> id]},
           writing' = [writing EXCEPT ![w] = [pc |-> "found", call |-> c, id |-> id,
                                             may |-> {byStream[id]}, freed |-> FALSE]],
           c # None => calls[c].id = id /\ id # None /\ Ahead(c),
           UNCHANGED <<calls, byStream, nextId>>
    PROVE  CarryInv'
<1>1. /\ writing'[w].call = c /\ writing'[w].id = id /\ writing'[w].may = {byStream[id]} /\ writing'[w] # Idle
      /\ \A u \in Writers \ {w} : writing'[u] = writing[u]
    BY DEF ClientInv, Types, Idle
<1>2. ASSUME NEW d \in DOMAIN calls, calls[d].opens > 0, Clean(d)' PROVE Clean(d)
    BY <1>2, Numbers, CleanBefore
<1>3. \A d \in DOMAIN calls : Ahead(d)' => Ahead(d)
    BY <1>1 DEF Ahead
<1>4. PutInv'
    BY <1>2, <1>3 DEF CarryInv, PutInv
<1>5. SentInv'
    BY <1>2 DEF CarryInv, SentInv, RouteInv, IdInv
<1>6. HoldInv'
  <2>1. ASSUME NEW u \in Writers, writing'[u] # Idle
        PROVE  [writer |-> u, id |-> writing'[u].id] \in passed' /\ (u \in Conns => writing'[u].call # None)
      BY <1>1, <2>1 DEF CarryInv, HoldInv
  <2>2. ASSUME NEW u \in Writers, writing'[u] # Idle, NEW d, writing'[u].call = d, d # None, Clean(d)'
        PROVE  calls[d].stored \in writing'[u].may
    <3>1. CASE u = w
      <4>1. d = c /\ calls[c].opens > 0
          BY <1>1, <2>2, <3>1 DEF RouteInv, IdInv
      <4>2. QED
          BY <1>1, <1>2, <2>2, <3>1, <4>1, FoundIsStored
    <3>2. CASE u # w
      <4>1. writing'[u] = writing[u]
          BY <1>1, <3>2
      <4>2. d \in DOMAIN calls /\ calls[d].id # None
          BY <2>2, <4>1, BoundsAssumption DEF ClientInv, FrameInv, Types, InHand, StreamIds, None
      <4>3. calls[d].opens > 0
          BY <4>2 DEF RouteInv, IdInv
      <4>4. QED
          BY <1>2, <2>2, <4>1, <4>2, <4>3 DEF CarryInv, HoldInv
    <3>3. QED
        BY <3>1, <3>2
  <2>3. ASSUME NEW u \in Writers, writing'[u] # Idle, (writing[u].call # None /\ Clean(writing[u].call))'
        PROVE  (calls[writing[u].call].stored \in writing[u].may)'
    <3>1. PICK d : d = writing'[u].call
        OBVIOUS
    <3>2. d # None /\ Clean(d)'
        BY <2>3, <3>1 DEF Clean
    <3>3. QED
        BY <2>2, <2>3, <3>1, <3>2
  <2>4. QED
      BY <2>1, <2>3 DEF HoldInv
<1>7. QED
    BY <1>4, <1>5, <1>6 DEF CarryInv

LEMMA CarryLookup ==
    ASSUME ClientInv, RouteInv, CarryInv, NEW k \in Conns, LookupRequest(k)
    PROVE  CarryInv'
<1>1. PICK c : c = Head(outbox[k])
    OBVIOUS
<1>2. PICK id : id = calls[c].id
    OBVIOUS
<1>3. outbox[k] # <<>> /\ outbox[k] \in Seq(Calls) /\ Lookup(k, c, id) /\ k \in Writers
    BY <1>1, <1>2 DEF LookupRequest, ClientInv, Types, Writers
<1>4. \E m \in DOMAIN outbox[k] : outbox[k][m] = c
    BY <1>1, <1>3
<1>5. c \in DOMAIN calls /\ calls[c].conn = k /\ ~calls[c].sent /\ id # None /\ c # None
    BY <1>2, <1>4, Numbers DEF RouteInv, PlaceInv, ClientInv, FrameInv
<1>6. /\ writing[k] = Idle /\ UNCHANGED <<byStream, nextId>>
      /\ passed' = passed \cup {[writer |-> k, id |-> id]}
    BY <1>3 DEF Lookup
<1>7. Ahead(c)
    BY <1>4, <1>5, <1>6 DEF RouteInv, PlaceInv, Ahead
<1>8. CASE byStream[id] = None
  <2>1. Send(k, c, None, FALSE) /\ writing' = writing
      BY <1>3, <1>8 DEF Lookup
  <2>2. Clean(c) => None = calls[c].stored
      BY <1>2, <1>5, <1>7, <1>8, FoundIsStored
  <2>3. QED
      BY <1>2, <1>3, <1>5, <1>6, <2>1, <2>2, CarrySend
<1>9. CASE byStream[id] # None
  <2>1. /\ calls' = calls
        /\ writing' = [writing EXCEPT ![k] = [pc |-> "found", call |-> c, id |-> id,
                                             may |-> {byStream[id]}, freed |-> FALSE]]
      BY <1>3, <1>9 DEF Lookup
  <2>2. QED
      BY <1>2, <1>3, <1>5, <1>6, <1>7, <2>1, CarryFound
<1>10. QED
    BY <1>8, <1>9

LEMMA CarryResponse ==
    ASSUME ClientInv, RouteInv, CarryInv, NEW w \in ServerConns, NEW id \in ResponseIds, LookupResponse(w, id)
    PROVE  CarryInv'
<1>1. /\ Lookup(w, None, id) /\ w \in Writers /\ w \notin Conns
    BY ConnsAssumption DEF LookupResponse, Writers
<1>2. /\ UNCHANGED <<calls, byStream, nextId>> /\ writing[w] = Idle
      /\ passed' = passed \cup {[writer |-> w, id |-> id]}
    BY <1>1 DEF Lookup, Send
<1>3. CASE writing' = writing
    BY <1>2, <1>3, Numbers, CarryKept
<1>4. CASE writing' = [writing EXCEPT ![w] = [pc |-> "found", call |-> None, id |-> id,
                                              may |-> {byStream[id]}, freed |-> FALSE]]
    BY <1>1, <1>2, <1>4, CarryFound
<1>5. QED
    BY <1>1, <1>3, <1>4 DEF Lookup

LEMMA CarryWrite ==
    ASSUME ClientInv, RouteInv, CarryInv, NEW w \in Writers, Write(w)
    PROVE  CarryInv'
<1>1. PICK c : c = writing[w].call
    OBVIOUS
<1>2. writing[w] # Idle /\ writing[w] \in InHand
    BY Numbers DEF Write, Idle
<1>3. PICK v \in writing[w].may : Send(w, c, v, writing[w].may # {v})
    BY <1>1 DEF Write
<1>4. writing' = [writing EXCEPT ![w] = Idle] /\ UNCHANGED <<byStream, nextId, passed>>
    BY DEF Write
<1>5. writing'[w] = Idle /\ \A u \in Writers \ {w} : writing'[u] = writing[u]
    BY <1>4 DEF ClientInv, Types
<1>6. CASE c = None
  <2>1. calls' = calls
      BY <1>3, <1>6 DEF Send
  <2>2. \A d \in DOMAIN calls : Ahead(d)' => Ahead(d)
      BY <1>1, <1>5, <1>6, <2>1, Numbers DEF Ahead
  <2>3. \A d \in DOMAIN calls : Clean(d)' <=> Clean(d)
      BY <1>4, <2>1 DEF Clean
  <2>4. PutInv' /\ SentInv'
      BY <1>4, <2>1, <2>2, <2>3 DEF CarryInv, PutInv, SentInv
  <2>5. HoldInv'
    <3>1. \A u \in Writers : writing'[u] # Idle => writing'[u] = writing[u]
        BY <1>5
    <3>2. ASSUME NEW u \in Writers, writing'[u] # Idle, (writing[u].call # None /\ Clean(writing[u].call))'
          PROVE  (calls[writing[u].call].stored \in writing[u].may)'
      <4>1. PICK d : d = writing[u].call /\ writing'[u] = writing[u]
          BY <3>1, <3>2
      <4>2. d \in DOMAIN calls
          BY <3>2, <4>1 DEF ClientInv, FrameInv
      <4>3. Clean(d)
          BY <2>3, <3>2, <4>1, <4>2 DEF Clean
      <4>4. QED
          BY <2>1, <3>2, <4>1, <4>3 DEF CarryInv, HoldInv
    <3>3. QED
        BY <1>4, <3>1, <3>2 DEF CarryInv, HoldInv
  <2>6. QED
      BY <2>4, <2>5 DEF CarryInv
<1>7. CASE c # None
  <2>1. c \in DOMAIN calls /\ calls[c].id # None
      BY <1>1, <1>2, <1>7, BoundsAssumption DEF ClientInv, FrameInv, InHand, StreamIds, None
  <2>2. PICK reused \in BOOLEAN : reused = (writing[w].may # {v})
      OBVIOUS
  <2>3. Clean(c) /\ ~reused => v = calls[c].stored
      BY <1>1, <1>2, <1>7, <2>2 DEF CarryInv, HoldInv
  <2>4. Send(w, c, v, reused)
      BY <1>3, <2>2
  <2>5. \A u \in Writers : /\ writing'[u] # Idle => writing'[u] = writing[u]
                           /\ writing[u] # Idle /\ writing'[u] = Idle => writing[u].call = c
      BY <1>1, <1>5
  <2>6. QED
      BY <1>4, <2>1, <2>3, <2>4, <2>5, CarrySend
<1>8. QED
    BY <1>6, <1>7

LEMMA CarryStep ==
    ASSUME ClientInv, RouteInv, CarryInv, Next
    PROVE  CarryInv'
BY CarryGoroutine, CarryNewStream, CarryAssignId, CarryLookup, CarryResponse, CarryDelete, CarryWrite DEF Next
-------------------------------------------------------------------------------
(* The two processes together.                                              *)

\* A request that has been sent stays as it is.
LEMMA SentStays ==
    ASSUME ClientInv, RouteInv, Next, NEW r \in DOMAIN calls, calls[r].sent
    PROVE  r \in DOMAIN calls' /\ calls'[r] = calls[r]
<1>1. calls \in Seq(Record) /\ calls[r].id # None
    BY DEF ClientInv, Types, RouteInv, IdInv
<1>2. ASSUME NEW c \in DOMAIN calls, c # r, NEW q, calls' = [calls EXCEPT ![c] = q]
      PROVE  r \in DOMAIN calls' /\ calls'[r] = calls[r]
    BY <1>1, <1>2
<1>3. ASSUME NEW q, calls' = Append(calls, q)
      PROVE  r \in DOMAIN calls' /\ calls'[r] = calls[r]
    BY <1>1, <1>3
<1>4. ASSUME NEW g \in Goroutines
      PROVE  /\ doing[g].pc \in {"calling", "opening"} =>
                   doing[g] # Idle /\ doing[g].call \in DOMAIN calls /\ doing[g].call # r
    BY <1>1 DEF ClientInv, CallingInv, Idle
<1>5. ASSUME NEW g \in Goroutines, NEW ctx \in Contexts, Invoke(g, ctx) \/ Stream(g, ctx)
      PROVE  r \in DOMAIN calls' /\ calls'[r] = calls[r]
  <2>1. \E q : calls' = Append(calls, q)
      BY <1>5 DEF Invoke, Stream
  <2>2. QED
      BY <1>3, <2>1
<1>6. ASSUME NEW g \in Goroutines, NEW k \in Conns, NewStream(g, k)
      PROVE  r \in DOMAIN calls' /\ calls'[r] = calls[r]
  <2>1. \E q : calls' = [calls EXCEPT ![doing[g].call] = q]
      BY <1>6 DEF NewStream
  <2>2. doing[g].pc = "calling"
      BY <1>6 DEF NewStream
  <2>3. QED
      BY <1>2, <1>4, <2>1, <2>2
<1>7. ASSUME NEW g \in Goroutines, GiveUp(g) \/ AssignId(g) \/ OpenFails(g)
      PROVE  r \in DOMAIN calls' /\ calls'[r] = calls[r]
  <2>1. CASE GiveUp(g)
    <3>1. PICK q : q = [calls[doing[g].call] EXCEPT !.failed = TRUE]
        OBVIOUS
    <3>2. calls' = [calls EXCEPT ![doing[g].call] = q] /\ doing[g].pc = "calling"
        BY <2>1, <3>1 DEF GiveUp
    <3>3. QED
        BY <1>2, <1>4, <3>2
  <2>2. CASE AssignId(g)
    <3>1. PICK q : q = [calls[doing[g].call] EXCEPT !.id = nextId[calls[doing[g].call].conn]]
        OBVIOUS
    <3>2. calls' = [calls EXCEPT ![doing[g].call] = q] /\ doing[g].pc = "opening"
        BY <2>2, <3>1 DEF AssignId
    <3>3. QED
        BY <1>2, <1>4, <3>2
  <2>3. CASE OpenFails(g)
      BY <2>3 DEF OpenFails
  <2>4. QED
      BY <1>7, <2>1, <2>2, <2>3
<1>8. ASSUME NEW w, NEW c, NEW v, NEW reused, Send(w, c, v, reused),
             c # None => c \in DOMAIN calls /\ ~calls[c].sent
      PROVE  r \in DOMAIN calls' /\ calls'[r] = calls[r]
  <2>1. CASE c = None
      BY <1>8, <2>1 DEF Send
  <2>2. CASE c # None
    <3>1. PICK q : q = [calls[c] EXCEPT !.sent = TRUE, !.carried = v, !.reused = reused]
        OBVIOUS
    <3>2. calls' = [calls EXCEPT ![c] = q] /\ c # r
        BY <1>8, <2>2, <3>1 DEF Send
    <3>3. QED
        BY <1>2, <1>8, <2>2, <3>2
  <2>3. QED
      BY <2>1, <2>2
<1>9. ASSUME NEW k \in Conns, LookupRequest(k)
      PROVE  r \in DOMAIN calls' /\ calls'[r] = calls[r]
  <2>1. PICK c : c = Head(outbox[k])
      OBVIOUS
  <2>2. outbox[k] # <<>> /\ outbox[k] \in Seq(Calls) /\ Lookup(k, c, calls[c].id)
      BY <1>9, <2>1 DEF LookupRequest, ClientInv, Types
  <2>3. \E m \in DOMAIN outbox[k] : outbox[k][m] = c
      BY <2>1, <2>2
  <2>4. c \in DOMAIN calls /\ ~calls[c].sent
      BY <2>3 DEF RouteInv, PlaceInv, ClientInv, FrameInv
  <2>5. calls' = calls \/ Send(k, c, None, FALSE)
      BY <2>2 DEF Lookup
  <2>6. QED
      BY <1>8, <2>4, <2>5
<1>10. ASSUME NEW w \in ServerConns, NEW id \in ResponseIds, LookupResponse(w, id)
       PROVE  r \in DOMAIN calls' /\ calls'[r] = calls[r]
    BY <1>10 DEF LookupResponse, Lookup, Send
<1>11. ASSUME NEW w \in Writers, Delete(w) \/ Write(w)
       PROVE  r \in DOMAIN calls' /\ calls'[r] = calls[r]
  <2>1. CASE Delete(w)
      BY <2>1 DEF Delete
  <2>2. CASE Write(w)
    <3>1. PICK c : c = writing[w].call
        OBVIOUS
    <3>2. writing[w] # Idle
        BY <2>2 DEF Write, Idle
    <3>3. c # None => c \in DOMAIN calls /\ ~calls[c].sent
        BY <3>1, <3>2 DEF RouteInv, PlaceInv, ClientInv, FrameInv
    <3>4. PICK v : Send(w, c, v, writing[w].may # {v})
        BY <2>2, <3>1 DEF Write
    <3>5. QED
        BY <1>8, <3>3, <3>4
  <2>3. QED
      BY <1>11, <2>1, <2>2
<1>12. QED
    BY <1>5, <1>6, <1>7, <1>9, <1>10, <1>11 DEF Next

NetInv == ClientInv /\ RouteInv /\ CarryInv /\ ServerInv

LEMMA NetStep ==
    ASSUME NetInv, [PropNext]_vars
    PROVE  NetInv'
<1> USE DEF NetInv
<1>1. ClientInv'
    BY StepInv
<1>2. CASE Next /\ UNCHANGED serverVars
  <2>1. RouteInv' /\ CarryInv'
      BY <1>2, RouteStep, CarryStep DEF serverVars
  <2>2. ASSUME NEW r \in Arrived PROVE header'[r] = header[r]
    <3>1. r \in DOMAIN calls /\ calls[r].sent /\ r \in Calls
        BY DEF RouteInv, WireInv, Arrived, ServerInv, ServTypes
    <3>2. r \in DOMAIN calls' /\ calls'[r] = calls[r]
        BY <1>2, <3>1, SentStays
    <3>3. QED
        BY <3>1, <3>2 DEF header
  <2>3. QED
      BY <1>1, <1>2, <2>1, <2>2, ServerUntouched
<1>3. CASE Server!Next /\ UNCHANGED clientVars
  <2>1. RouteInv' /\ ServerInv'
      BY <1>3, DecodeInv, ReadInv, ClearInv DEF Server!Next, Server!Requests, Calls
  <2>2. CarryInv'
      BY <1>3 DEF clientVars, CarryInv, PutInv, HoldInv, SentInv, Clean, Ahead
  <2>3. QED
      BY <1>1, <2>1, <2>2
<1>4. CASE UNCHANGED vars
  <2>1. UNCHANGED clientVars /\ UNCHANGED wire /\ UNCHANGED serverVars
      BY <1>4 DEF vars
  <2>2. RouteInv'
      BY <2>1 DEF clientVars, serverVars, RouteInv, IdInv, PlaceInv, WireInv, Arrived
  <2>3. CarryInv'
      BY <2>1 DEF clientVars, CarryInv, PutInv, HoldInv, SentInv, Clean, Ahead
  <2>4. header' = header
      BY <2>1 DEF clientVars, header
  <2>5. QED
      BY <1>1, <2>1, <2>2, <2>3, <2>4, ServerUntouched
<1>5. QED
    BY <1>2, <1>3, <1>4 DEF PropNext

(* Where a request is on its way from Invoke to handleStream, what waits    *)
(* for it and what its headers carry, in every state of both processes.    *)
THEOREM NetInvariant == Spec => []NetInv
<1>1. PropInit => NetInv
    BY InitInv, RouteInit, CarryInit, ServerInit DEF PropInit, NetInv
<1>2. NetInv /\ [PropNext]_vars => NetInv'
    BY NetStep
<1>3. QED
    BY <1>1, <1>2, PTL DEF Spec

\* A call whose header has been written met none of the exceptions: it was clean.
LEMMA NoExceptionIsClean ==
    ASSUME NetInv, NEW c \in DOMAIN calls, calls[c].sent, "byStream" \notin calls[c].refusedBy,
           calls[c].guess = calls[c].id, ~SharesId(c), ~TakenElsewhere(c)
    PROVE  Clean(c)
<1>1. calls[c].id # None /\ calls[c].opens > 0 /\ calls[c].opens \in Nat
    BY Numbers DEF NetInv, RouteInv, IdInv, Record
<1>2. \A d \in DOMAIN calls : calls[c].guess \in calls[d].guesses => d = c /\ calls[c].opens = 1
    BY <1>1 DEF SharesId
<1>3. QED
    BY <1>1, <1>2 DEF Clean, TakenElsewhere

LEMMA CarriedIsStored == NetInv => HeaderIsStored
<1> SUFFICES ASSUME NetInv, NEW c \in DOMAIN calls, calls[c].sent, "byStream" \notin calls[c].refusedBy,
                    calls[c].guess = calls[c].id, ~SharesId(c), ~TakenElsewhere(c), ~calls[c].reused
             PROVE  calls[c].carried = calls[c].stored
    BY DEF HeaderIsStored
<1>1. Clean(c)
    BY NoExceptionIsClean
<1>2. QED
    BY <1>1 DEF NetInv, CarryInv, SentInv

(* The header that a writer sends for a call carries what was put away for *)
(* it at NewStream, unless the map was full, the id was guessed wrong or    *)
(* used for another stream too, another connection's writer had looked at  *)
(* that id, or the element had been given out again before it was read.    *)
THEOREM HeaderCorrect == Spec => []HeaderIsStored
BY CarriedIsStored, NetInvariant, PTL

LEMMA SharedIsShared ==
    /\ Server!Arrived = Arrived /\ Server!Served = {r \in Calls : handler[r] \in {"read", "runs"}}
    /\ \A r : Server!IdShared(r) <=> Shared(r)
BY DEF Server!Arrived, Server!Served, Server!Requests, Server!IdShared, Arrived, Shared, Calls

LEMMA ParentFollows == NetInv => ParentIsOwn
BY SharedIsShared DEF NetInv, ServerInv, ServedInv, ParentIsOwn, Server!ParentIsOwn

(* handleStream's program gives a call the parent that its own headers     *)
(* carried, unless the server's map was full or another connection brought *)
(* a request with the same stream id.                                      *)
THEOREM ParentCorrect == Spec => []ParentIsOwn
BY ParentFollows, NetInvariant, PTL

LEMMA KeptFollows == NetInv => KeptExplained
BY SharedIsShared DEF NetInv, ServerInv, KeptInv, KeptExplained, Server!KeptExplained, Server!StreamIds, StreamIds,
   Server!None, None

(* What the server's map keeps came with a request that is still to be     *)
(* looked up, was turned away, or shares its stream id with another        *)
(* connection's.                                                           *)
THEOREM KeptCorrect == Spec => []KeptExplained
BY KeptFollows, NetInvariant, PTL

LEMMA ServedFollows == NetInv => ServedBelowCaller
<1> SUFFICES ASSUME NetInv, NEW c \in Calls, handler[c] \in {"read", "runs"}, Undisturbed(c)
             PROVE  parent[c] = calls[c].meant
    BY DEF ServedBelowCaller
<1>1. c \in DOMAIN calls /\ calls[c].sent
    BY DEF NetInv, RouteInv, WireInv, Arrived
<1>2. parent[c] = header[c].sc
    BY SharedIsShared DEF NetInv, ServerInv, ServedInv, Undisturbed
<1>3. header[c].sc = calls[c].carried
    BY <1>1, HeaderOfSent DEF NetInv
<1>4. calls[c].carried = calls[c].stored
    BY <1>1, CarriedIsStored DEF HeaderIsStored, Undisturbed
<1>5. calls[c].stored = calls[c].meant
    BY <1>1 DEF NetInv, ClientInv, StoredIsMeant, Undisturbed
<1>6. QED
    BY <1>2, <1>3, <1>4, <1>5

(* The span of a server's call that nothing named above has disturbed is   *)
(* the child of the span of the client's call, all the way from Invoke.    *)
THEOREM ServedCorrect == Spec => []ServedBelowCaller
BY ServedFollows, NetInvariant, PTL

-------------------------------------------------------------------------------
(* The types, and the room in the maps.                                     *)

Bounded(m, limit) == IsFiniteSet(Entries(m)) /\ Cardinality(Entries(m)) <= limit

RoomInv ==
    /\ Bounded(internal, MaxConcurrent) /\ Bounded(byStream, MaxConcurrent)
    /\ Bounded(tracked, MaxConcurrentSpans) /\ Bounded(streams, MaxConcurrent)

\* What the types of NetInv leave open.
RangeInv ==
    /\ \A c \in DOMAIN calls : calls[c].opens <= MaxOpens /\ calls[c].guess \in StreamIds \cup {None}
    /\ \A k \in Conns : nextId[k] <= MaxCalls + 1
    /\ \A w \in Writers : writing[w] # Idle => None \notin writing[w].may
    /\ passed \subseteq [writer : Writers, id : StreamIds]

SizeInv == NetInv /\ RoomInv /\ RangeInv

\* No update makes a map outgrow its limit.
LEMMA UpdateBounded ==
    ASSUME NEW K, NEW V, NEW m \in [K -> V], NEW k \in K, NEW v, v # None, NEW limit \in Nat,
           Bounded(m, limit)
    PROVE  Bounded(Updated(m, k, v, limit), limit)
<1>. DEFINE new == [m EXCEPT ![k] = v]
<1>1. Entries(new) = Entries(m) \cup {k}
    BY DEF Entries
<1>2. IsFiniteSet(Entries(m)) /\ Cardinality(Entries(m)) \in Nat /\ Cardinality(Entries(m)) <= limit
    BY FS_CardinalityType DEF Bounded
<1>3. k \in Entries(m) <=> m[k] # None
    BY DEF Entries
<1>4. /\ IsFiniteSet(Entries(m) \cup {k})
      /\ Cardinality(Entries(m) \cup {k}) =
            IF k \in Entries(m) THEN Cardinality(Entries(m)) ELSE Cardinality(Entries(m)) + 1
    BY <1>2, FS_AddElement
<1>5. CASE m[k] # None
    BY <1>1, <1>2, <1>3, <1>4, <1>5 DEF Updated, Bounded
<1>6. CASE m[k] = None /\ Cardinality(Entries(m)) < limit
  <2>1. Updated(m, k, v, limit) = new
      BY <1>6 DEF Updated
  <2>2. Cardinality(Entries(new)) = Cardinality(Entries(m)) + 1
      BY <1>1, <1>3, <1>4, <1>6
  <2>3. \A n \in Nat, l \in Nat : n < l => n + 1 <= l
      OBVIOUS
  <2>4. Cardinality(Entries(new)) <= limit
      BY <1>2, <1>6, <2>2, <2>3
  <2>5. QED
      BY <1>1, <1>4, <2>1, <2>4 DEF Bounded
<1>7. CASE m[k] = None /\ ~(Cardinality(Entries(m)) < limit)
    BY <1>7 DEF Updated
<1>8. QED
    BY <1>5, <1>6, <1>7

LEMMA DeleteBounded ==
    ASSUME NEW K, NEW V, NEW m \in [K -> V], NEW k, NEW limit \in Nat, Bounded(m, limit)
    PROVE  Bounded([m EXCEPT ![k] = None], limit)
<1>1. Entries([m EXCEPT ![k] = None]) = Entries(m) \ {k}
    BY DEF Entries
<1>2. IsFiniteSet(Entries(m)) /\ Cardinality(Entries(m)) \in Nat /\ Cardinality(Entries(m)) <= limit
    BY FS_CardinalityType DEF Bounded
<1>3. /\ IsFiniteSet(Entries(m) \ {k})
      /\ Cardinality(Entries(m) \ {k}) \in {Cardinality(Entries(m)), Cardinality(Entries(m)) - 1}
    BY <1>2, FS_RemoveElement
<1>4. \A n \in Nat, l \in Nat : n <= l => \A o \in {n, n - 1} : o <= l
    OBVIOUS
<1>5. Cardinality(Entries(m) \ {k}) <= limit
    BY <1>2, <1>3, <1>4
<1>6. QED
    BY <1>1, <1>3, <1>5 DEF Bounded

LEMMA RoomInit == PropInit => RoomInv
<1>1. ASSUME NEW m, \A k \in DOMAIN m : m[k] = None, NEW limit \in Nat PROVE Bounded(m, limit)
  <2>1. Entries(m) = {}
      BY <1>1 DEF Entries
  <2>2. IsFiniteSet({}) /\ Cardinality({}) = 0
      BY FS_EmptySet
  <2>3. QED
      BY <2>1, <2>2 DEF Bounded
<1>2. SUFFICES ASSUME PropInit PROVE RoomInv
    OBVIOUS
<1>3. /\ \A k \in DOMAIN internal : internal[k] = None
      /\ \A k \in DOMAIN tracked : tracked[k] = None
      /\ \A k \in DOMAIN byStream : byStream[k] = None
      /\ \A k \in DOMAIN streams : streams[k] = None
    BY <1>2 DEF PropInit, Init, Server!Init, Server!None, None
<1>4. QED
    BY <1>1, <1>3, BoundsAssumption DEF RoomInv

\* The client's steps add to the three maps of its process one key at most, and only
\* when there is room.
LEMMA RoomClient ==
    ASSUME ClientInv, RoomInv, Next, UNCHANGED serverVars
    PROVE  RoomInv'
<1>1. /\ internal \in [Goids -> Calls \cup {None}] /\ tracked \in [Words -> Calls \cup {None}]
      /\ byStream \in [StreamIds -> Calls \cup {None}]
      /\ MaxConcurrent \in Nat /\ MaxConcurrentSpans \in Nat
    BY BoundsAssumption DEF ClientInv, Types
<1>2. streams' = streams
    BY DEF serverVars
<1>3. ASSUME NEW g \in Goroutines, NEW ctx \in Contexts, Invoke(g, ctx) PROVE RoomInv'
  <2>1. PICK c : c = Len(calls) + 1
      OBVIOUS
  <2>2. Len(calls) \in Nat
      BY DEF ClientInv, Types
  <2>3. c # None /\ Goid(g) \in Goids /\ FirstWord[ctx] \in Words
      BY <2>1, <2>2, GoidOf, ContextsAssumption DEF None
  <2>4. /\ internal' = Updated(internal, Goid(g), c, MaxConcurrent)
        /\ tracked' = Updated(tracked, FirstWord[ctx], c, MaxConcurrentSpans)
        /\ byStream' = byStream
      BY <1>3, <2>1 DEF Invoke
  <2>5. Bounded(internal', MaxConcurrent) /\ Bounded(tracked', MaxConcurrentSpans)
      BY <1>1, <2>3, <2>4, UpdateBounded DEF RoomInv
  <2>6. QED
      BY <1>2, <2>4, <2>5 DEF RoomInv
<1>4. ASSUME NEW g \in Goroutines, NEW k \in Conns, NewStream(g, k) PROVE RoomInv'
  <2>1. PICK v : v = Chosen(g, calls[doing[g].call].ctx)
      OBVIOUS
  <2>2. PICK i : i = NextIdRead(k)
      OBVIOUS
  <2>3. /\ i \in StreamIds
        /\ byStream' = byStream \/ (v # None /\ byStream' = Updated(byStream, i, v, MaxConcurrent))
        /\ internal' = [internal EXCEPT ![Goid(g)] = None]
        /\ tracked' = tracked
      BY <1>4, <2>1, <2>2 DEF NewStream, Spent
  <2>4. Bounded(byStream', MaxConcurrent) /\ Bounded(internal', MaxConcurrent)
      BY <1>1, <2>3, UpdateBounded, DeleteBounded DEF RoomInv
  <2>5. QED
      BY <1>2, <2>3, <2>4 DEF RoomInv
<1>5. ASSUME NEW w \in Writers, Delete(w) PROVE RoomInv'
  <2>1. PICK id : id = writing[w].id
      OBVIOUS
  <2>2. byStream' = [byStream EXCEPT ![id] = None] /\ UNCHANGED <<internal, tracked>>
      BY <1>5, <2>1 DEF Delete, Taken
  <2>3. Bounded(byStream', MaxConcurrent)
      BY <1>1, <2>2, DeleteBounded DEF RoomInv
  <2>4. QED
      BY <1>2, <2>2, <2>3 DEF RoomInv
<1>6. ASSUME UNCHANGED <<internal, tracked, byStream>> PROVE RoomInv'
    BY <1>2, <1>6 DEF RoomInv, Bounded, Entries
<1>7. ASSUME NEW g \in Goroutines, NEW ctx \in Contexts,
             Stream(g, ctx) \/ GiveUp(g) \/ AssignId(g) \/ OpenFails(g)
      PROVE  UNCHANGED <<internal, tracked, byStream>>
    BY <1>7 DEF Stream, GiveUp, AssignId, OpenFails
<1>8. ASSUME NEW g \in Goroutines, GiveUp(g) \/ AssignId(g) \/ OpenFails(g)
      PROVE  UNCHANGED <<internal, tracked, byStream>>
    BY <1>8 DEF GiveUp, AssignId, OpenFails
<1>9. ASSUME NEW w, LookupRequest(w) \/ (\E id \in ResponseIds : LookupResponse(w, id)) \/ Write(w)
      PROVE  UNCHANGED <<internal, tracked, byStream>>
    BY <1>9 DEF LookupRequest, LookupResponse, Lookup, Write
<1>10. QED
    BY <1>3, <1>4, <1>5, <1>6, <1>7, <1>8, <1>9 DEF Next

\* The server's module counts the entries of a map as the client's does.
LEMMA ServersOperators ==
    /\ Server!None = None
    /\ \A m : Server!Cardinality(Server!Entries(m)) = Cardinality(Entries(m))
<1>1. Server!None = None
    BY DEF Server!None, None
<1>2. ASSUME NEW m PROVE Server!Entries(m) = Entries(m)
    BY <1>1 DEF Server!Entries, Entries
<1>3. ASSUME NEW S PROVE Server!Cardinality(S) = Cardinality(S)
    BY DEF Server!Cardinality, Cardinality
<1>4. QED
    BY <1>1, <1>2, <1>3

\* So do the server's to its own.
LEMMA RoomServer ==
    ASSUME ClientInv, RouteInv, ServerInv, RoomInv, Server!Next, UNCHANGED clientVars
    PROVE  RoomInv'
<1>1. streams \in [StreamIds -> Calls \cup {None, Mixed}] /\ MaxConcurrent \in Nat
    BY BoundsAssumption DEF ServerInv, ServTypes
<1>2. UNCHANGED <<internal, tracked, byStream>>
    BY DEF clientVars
<1>3. SUFFICES Bounded(streams', MaxConcurrent)
    BY <1>2 DEF RoomInv, Bounded, Entries
<1>4. ASSUME NEW k \in Conns, Server!Decode(k) PROVE Bounded(streams', MaxConcurrent)
  <2>1. PICK r : r = Head(wire[k])
      OBVIOUS
  <2>2. wire[k] # <<>> /\ wire[k] \in Seq(Calls)
      BY <1>4 DEF Server!Decode, RouteInv, WireInv
  <2>3. r = wire[k][1] /\ 1 \in DOMAIN wire[k]
      BY <2>1, <2>2
  <2>4. r \in Calls /\ r \in DOMAIN calls /\ calls[r].sent
      BY <2>2, <2>3 DEF RouteInv, WireInv
  <2>5. PICK h : h = header[r]
      OBVIOUS
  <2>6. h.id \in StreamIds
      BY <2>4, <2>5, HeaderOfSent
  <2>7. Server!None = None /\ Server!Updated(streams, h.id, h.sc, MaxConcurrent)
                                = Updated(streams, h.id, h.sc, MaxConcurrent)
      BY ServersOperators DEF Server!Updated, Updated
  <2>8. streams' = IF h.sc = Server!None THEN streams ELSE Server!Updated(streams, h.id, h.sc, MaxConcurrent)
      BY <1>4, <2>1, <2>5 DEF Server!Decode
  <2>9. QED
      BY <1>1, <2>6, <2>7, <2>8, UpdateBounded DEF RoomInv
<1>5. ASSUME NEW r \in Calls, Server!Clear(r) PROVE Bounded(streams', MaxConcurrent)
  <2>1. PICK id : streams' = [streams EXCEPT ![id] = None]
      BY <1>5 DEF Server!Clear, Server!Cleared, Server!None, None
  <2>2. QED
      BY <1>1, <2>1, DeleteBounded DEF RoomInv
<1>6. ASSUME NEW r \in Calls, Server!Read(r) PROVE Bounded(streams', MaxConcurrent)
    BY <1>6 DEF Server!Read, RoomInv, Bounded, Entries
<1>7. QED
    BY <1>4, <1>5, <1>6 DEF Server!Next, Server!Requests, Calls

LEMMA RangeInit == PropInit => RangeInv
<1> SUFFICES ASSUME PropInit PROVE RangeInv
    OBVIOUS
<1>1. calls = <<>> /\ DOMAIN calls = {}
    BY DEF PropInit, Init
<1>2. \A n \in Nat : 1 <= n + 1
    OBVIOUS
<1>3. \A k \in Conns : nextId[k] <= MaxCalls + 1
    BY <1>2, BoundsAssumption DEF PropInit, Init
<1>4. passed = {} /\ \A w \in Writers : writing[w] = Idle
    BY DEF PropInit, Init
<1>5. QED
    BY <1>1, <1>3, <1>4 DEF RangeInv

\* One call's history changes, within its range.
LEMMA RangeOfCalls ==
    ASSUME ClientInv, RangeInv, NEW r,
           \/ calls' = Append(calls, r)
           \/ \E c \in DOMAIN calls : calls' = [calls EXCEPT ![c] = r],
           r.opens <= MaxOpens /\ r.guess \in StreamIds \cup {None}
    PROVE  \A d \in DOMAIN calls' : calls'[d].opens <= MaxOpens /\ calls'[d].guess \in StreamIds \cup {None}
<1>1. calls \in Seq(Record)
    BY DEF ClientInv, Types
<1>2. \A d \in DOMAIN calls' : calls'[d] = r \/ (d \in DOMAIN calls /\ calls'[d] = calls[d])
  <2>1. CASE calls' = Append(calls, r)
      BY <1>1, <2>1
  <2>2. ASSUME NEW c \in DOMAIN calls, calls' = [calls EXCEPT ![c] = r]
        PROVE  \A d \in DOMAIN calls' : calls'[d] = r \/ (d \in DOMAIN calls /\ calls'[d] = calls[d])
      BY <1>1, <2>2
  <2>3. QED
      BY <2>1, <2>2
<1>3. QED
    BY <1>2 DEF RangeInv

LEMMA RangeGoroutine ==
    ASSUME ClientInv, RangeInv, NEW g \in Goroutines,
           \/ \E ctx \in Contexts : Invoke(g, ctx) \/ Stream(g, ctx)
           \/ GiveUp(g) \/ OpenFails(g)
    PROVE  RangeInv'
<1>1. UNCHANGED <<nextId, passed, writing>>
    BY DEF Invoke, Stream, GiveUp, OpenFails
<1>2. SUFFICES \A d \in DOMAIN calls' : calls'[d].opens <= MaxOpens /\ calls'[d].guess \in StreamIds \cup {None}
    BY <1>1 DEF RangeInv
<1>3. \A n \in Nat : 0 <= n
    OBVIOUS
<1>4. 0 <= MaxOpens
    BY <1>3, BoundsAssumption
<1>5. ASSUME NEW ctx \in Contexts, Invoke(g, ctx) PROVE (\A d \in DOMAIN calls' : calls'[d].opens <= MaxOpens /\ calls'[d].guess \in StreamIds \cup {None})
  <2>1. PICK r : /\ calls' = Append(calls, r)
                 /\ r = [NewCall(g, "unary", ctx) EXCEPT !.meant = Len(calls) + 1,
                          !.refusedBy = IF internal'[Goid(g)] # Len(calls) + 1 THEN {"internal"} ELSE {}]
      BY <1>5 DEF Invoke
  <2>2. r.opens = 0 /\ r.guess = None
      BY <2>1 DEF NewCall
  <2>3. QED
      BY <1>4, <2>1, <2>2, RangeOfCalls
<1>6. ASSUME NEW ctx \in Contexts, Stream(g, ctx) PROVE (\A d \in DOMAIN calls' : calls'[d].opens <= MaxOpens /\ calls'[d].guess \in StreamIds \cup {None})
  <2>1. PICK r : calls' = Append(calls, r) /\ r = NewCall(g, "stream", ctx)
      BY <1>6 DEF Stream
  <2>2. r.opens = 0 /\ r.guess = None
      BY <2>1 DEF NewCall
  <2>3. QED
      BY <1>4, <2>1, <2>2, RangeOfCalls
<1>7. CASE GiveUp(g)
  <2>1. PICK c : c = doing[g].call
      OBVIOUS
  <2>2. c \in DOMAIN calls /\ calls[c] \in Record
      BY <1>7, <2>1 DEF GiveUp, Idle, ClientInv, CallingInv, Types
  <2>3. PICK r : r = [calls[c] EXCEPT !.failed = TRUE]
      OBVIOUS
  <2>4. calls' = [calls EXCEPT ![c] = r]
      BY <1>7, <2>1, <2>3 DEF GiveUp
  <2>5. r.opens = calls[c].opens /\ r.guess = calls[c].guess
      BY <2>2, <2>3 DEF Record
  <2>6. r.opens <= MaxOpens /\ r.guess \in StreamIds \cup {None}
      BY <2>2, <2>5 DEF RangeInv
  <2>7. QED
      BY <2>2, <2>4, <2>6, RangeOfCalls
<1>8. CASE OpenFails(g)
    BY <1>8 DEF OpenFails, RangeInv
<1>9. QED
    BY <1>5, <1>6, <1>7, <1>8

LEMMA RangeAssignId ==
    ASSUME ClientInv, RangeInv, NEW g \in Goroutines, AssignId(g)
    PROVE  RangeInv'
<1>1. PICK c : c = doing[g].call
    OBVIOUS
<1>2. PICK k : k = calls[c].conn
    OBVIOUS
<1>3. c \in DOMAIN calls /\ calls[c] \in Record /\ k \in Conns
    BY <1>1, <1>2 DEF AssignId, Idle, ClientInv, CallingInv, Types
<1>4. PICK r : r = [calls[c] EXCEPT !.id = nextId[k]]
    OBVIOUS
<1>5. /\ nextId[k] \in StreamIds /\ nextId' = [nextId EXCEPT ![k] = @ + 1]
      /\ calls' = [calls EXCEPT ![c] = r] /\ UNCHANGED <<writing, passed>>
    BY <1>1, <1>2, <1>4 DEF AssignId
<1>6. r.opens = calls[c].opens /\ r.guess = calls[c].guess
    BY <1>3, <1>4 DEF Record
<1>7. r.opens <= MaxOpens /\ r.guess \in StreamIds \cup {None}
    BY <1>3, <1>6 DEF RangeInv
<1>8. \A d \in DOMAIN calls' : calls'[d].opens <= MaxOpens /\ calls'[d].guess \in StreamIds \cup {None}
    BY <1>3, <1>5, <1>7, RangeOfCalls
<1>9. \A j \in Conns : nextId'[j] <= MaxCalls + 1
  <2>1. \A m \in Nat : \A n \in 1..m : n + 1 <= m + 1
      OBVIOUS
  <2>2. nextId[k] + 1 <= MaxCalls + 1
      BY <1>5, <2>1, BoundsAssumption DEF StreamIds
  <2>3. \A j \in Conns : nextId'[j] = nextId[j] \/ nextId'[j] = nextId[k] + 1
      BY <1>3, <1>5 DEF ClientInv, Types
  <2>4. QED
      BY <2>2, <2>3 DEF RangeInv
<1>10. QED
    BY <1>5, <1>8, <1>9 DEF RangeInv

LEMMA RangeNewStream ==
    ASSUME ClientInv, RangeInv, NEW g \in Goroutines, NEW k \in Conns, NewStream(g, k)
    PROVE  RangeInv'
<1>1. PICK c : c = doing[g].call
    OBVIOUS
<1>2. c \in DOMAIN calls /\ calls[c] \in Record
    BY <1>1 DEF NewStream, Idle, ClientInv, CallingInv, Types
<1>3. PICK v : v = Chosen(g, calls[c].ctx)
    OBVIOUS
<1>4. PICK i : i = NextIdRead(k)
    OBVIOUS
<1>5. PICK r : r = Opened(calls[c], k, v, i, byStream'[i] # v)
    OBVIOUS
<1>6. /\ i \in StreamIds /\ i = nextId[k] /\ calls[c].opens < MaxOpens
      /\ writing' = writing \/ (v # None /\ writing' = Reusing(i, v))
      /\ calls' = [calls EXCEPT ![c] = r] /\ UNCHANGED <<nextId, passed>>
    BY <1>1, <1>3, <1>4, <1>5 DEF NewStream, NextIdRead
<1>7. r.opens = calls[c].opens + 1 /\ r.guess = nextId[k]
    BY <1>2, <1>5 DEF Opened, Record
<1>8. \A n \in Nat, m \in Nat : n < m => n + 1 <= m
    OBVIOUS
<1>9. calls[c].opens \in Nat
    BY <1>2 DEF Record
<1>10. r.opens <= MaxOpens /\ r.guess \in StreamIds \cup {None}
    BY <1>6, <1>7, <1>8, <1>9, BoundsAssumption
<1>11. \A d \in DOMAIN calls' : calls'[d].opens <= MaxOpens /\ calls'[d].guess \in StreamIds \cup {None}
    BY <1>2, <1>6, <1>10, RangeOfCalls
<1>12. ASSUME NEW w \in Writers, writing'[w] # Idle PROVE None \notin writing'[w].may
  <2>1. CASE writing' = writing
      BY <1>12, <2>1 DEF RangeInv
  <2>2. CASE v # None /\ writing' = Reusing(i, v)
    <3>1. writing[w] # Idle /\ writing[w] \in InHand
        BY <1>12, <2>2 DEF Reusing, ClientInv, Types
    <3>2. writing'[w].may = writing[w].may \/ writing'[w].may = writing[w].may \cup {v, Mixed}
        BY <2>2, <3>1 DEF Reusing, InHand, Idle
    <3>3. Mixed # None
        BY DEF Mixed, None
    <3>4. QED
        BY <2>2, <3>1, <3>2, <3>3 DEF RangeInv
  <2>3. QED
      BY <1>6, <2>1, <2>2
<1>13. QED
    BY <1>6, <1>11, <1>12 DEF RangeInv

\* What a writer sends changes neither the count of a call's streams nor its guess.
LEMMA RangeSend ==
    ASSUME ClientInv, RangeInv, NEW w \in Writers, NEW c, c # None => c \in DOMAIN calls, NEW v, NEW reused,
           Send(w, c, v, reused)
    PROVE  \A d \in DOMAIN calls' : calls'[d].opens <= MaxOpens /\ calls'[d].guess \in StreamIds \cup {None}
<1>1. CASE c = None
    BY <1>1 DEF Send, RangeInv
<1>2. CASE c # None
  <2>1. PICK r : r = [calls[c] EXCEPT !.sent = TRUE, !.carried = v, !.reused = reused]
      OBVIOUS
  <2>2. calls' = [calls EXCEPT ![c] = r]
      BY <1>2, <2>1 DEF Send
  <2>3. calls[c] \in Record
      BY <1>2 DEF ClientInv, Types
  <2>4. r.opens = calls[c].opens /\ r.guess = calls[c].guess
      BY <2>1, <2>3 DEF Record
  <2>5. r.opens <= MaxOpens /\ r.guess \in StreamIds \cup {None}
      BY <1>2, <2>4 DEF RangeInv
  <2>6. QED
      BY <1>2, <2>2, <2>5, RangeOfCalls
<1>3. QED
    BY <1>1, <1>2

LEMMA RangeLookup ==
    ASSUME ClientInv, RangeInv, NEW w \in Writers, NEW c, c # None => c \in DOMAIN calls, NEW id \in StreamIds,
           Lookup(w, c, id)
    PROVE  RangeInv'
<1>1. nextId' = nextId /\ passed' = passed \cup {[writer |-> w, id |-> id]}
    BY DEF Lookup
<1>2. passed' \subseteq [writer : Writers, id : StreamIds]
    BY <1>1 DEF RangeInv
<1>3. CASE byStream[id] = None
  <2>1. Send(w, c, None, FALSE) /\ writing' = writing
      BY <1>3 DEF Lookup
  <2>2. \A d \in DOMAIN calls' : calls'[d].opens <= MaxOpens /\ calls'[d].guess \in StreamIds \cup {None}
      BY <2>1, RangeSend
  <2>3. QED
      BY <1>1, <1>2, <2>1, <2>2 DEF RangeInv
<1>4. CASE byStream[id] # None
  <2>1. PICK x : x = [pc |-> "found", call |-> c, id |-> id, may |-> {byStream[id]}, freed |-> FALSE]
      OBVIOUS
  <2>2. writing' = [writing EXCEPT ![w] = x] /\ calls' = calls
      BY <1>4, <2>1 DEF Lookup
  <2>3. ASSUME NEW u \in Writers, writing'[u] # Idle PROVE None \notin writing'[u].may
    <3>1. CASE u = w
      <4>1. writing'[u] = x
          BY <2>2, <3>1 DEF ClientInv, Types
      <4>2. x.may = {byStream[id]}
          BY <2>1
      <4>3. QED
          BY <1>4, <4>1, <4>2
    <3>2. CASE u # w
      <4>1. writing'[u] = writing[u]
          BY <2>2, <3>2 DEF ClientInv, Types
      <4>2. QED
          BY <2>3, <4>1 DEF RangeInv
    <3>3. QED
        BY <3>1, <3>2
  <2>4. QED
      BY <1>1, <1>2, <2>2, <2>3 DEF RangeInv
<1>5. QED
    BY <1>3, <1>4

LEMMA RangeDelete ==
    ASSUME ClientInv, RangeInv, NEW w \in Writers, Delete(w)
    PROVE  RangeInv'
<1>1. UNCHANGED <<calls, nextId, passed>>
    BY DEF Delete
<1>2. ASSUME NEW u \in Writers, writing'[u] # Idle PROVE None \notin writing'[u].may
  <2>1. /\ writing[w] # Idle /\ writing[w] \in InHand /\ writing[u] \in InHand
      BY DEF Delete, Idle, ClientInv, Types
  <2>2. CASE u = w
    <3>1. writing'[u] = [writing[w] EXCEPT !.pc = "gone", !.freed = TRUE]
        BY <2>2 DEF Delete
    <3>2. writing'[u].may = writing[w].may
        BY <2>1, <3>1 DEF InHand, Idle
    <3>3. QED
        BY <2>1, <3>2 DEF RangeInv
  <2>3. CASE u # w
    <3>1. writing'[u] = IF writing[u] # Idle /\ writing[u].id = writing[w].id
                        THEN [writing[u] EXCEPT !.freed = TRUE] ELSE writing[u]
        BY <2>3 DEF Delete
    <3>2. writing[u] # Idle
        BY <1>2, <3>1
    <3>3. writing'[u].may = writing[u].may
        BY <2>1, <3>1, <3>2 DEF InHand, Idle
    <3>4. QED
        BY <3>2, <3>3 DEF RangeInv
  <2>4. QED
      BY <2>2, <2>3
<1>3. QED
    BY <1>1, <1>2 DEF RangeInv

LEMMA RangeWrite ==
    ASSUME ClientInv, RangeInv, NEW w \in Writers, Write(w)
    PROVE  RangeInv'
<1>1. PICK c : c = writing[w].call
    OBVIOUS
<1>2. c # None => c \in DOMAIN calls
    BY <1>1 DEF Write, Idle, ClientInv, FrameInv
<1>3. PICK v, b : Send(w, c, v, b)
    BY <1>1 DEF Write
<1>4. UNCHANGED <<nextId, passed>> /\ writing' = [writing EXCEPT ![w] = Idle]
    BY DEF Write
<1>5. \A u \in Writers : writing'[u] = Idle \/ writing'[u] = writing[u]
    BY <1>4 DEF ClientInv, Types
<1>6. \A d \in DOMAIN calls' : calls'[d].opens <= MaxOpens /\ calls'[d].guess \in StreamIds \cup {None}
    BY <1>2, <1>3, RangeSend
<1>7. QED
    BY <1>4, <1>5, <1>6 DEF RangeInv

LEMMA RangeStep ==
    ASSUME ClientInv, RangeInv, Next
    PROVE  RangeInv'
<1>1. ASSUME NEW k \in Conns, LookupRequest(k) PROVE RangeInv'
  <2>1. PICK c : c = Head(outbox[k])
      OBVIOUS
  <2>2. outbox[k] # <<>> /\ outbox[k] \in Seq(Calls)
      BY <1>1 DEF LookupRequest, ClientInv, Types
  <2>3. c = outbox[k][1] /\ 1 \in DOMAIN outbox[k]
      BY <2>1, <2>2
  <2>4. c \in DOMAIN calls /\ calls[c].id # None /\ calls[c] \in Record
      BY <2>3 DEF ClientInv, FrameInv, Types
  <2>5. calls[c].id \in StreamIds /\ k \in Writers
      BY <2>4 DEF Record, Writers
  <2>6. QED
      BY <1>1, <2>1, <2>4, <2>5, RangeLookup DEF LookupRequest
<1>2. ASSUME NEW w \in ServerConns, NEW id \in ResponseIds, LookupResponse(w, id) PROVE RangeInv'
  <2>1. w \in Writers /\ id \in StreamIds
      BY BoundsAssumption DEF Writers, StreamIds
  <2>2. QED
      BY <1>2, <2>1, RangeLookup DEF LookupResponse
<1>3. QED
    BY <1>1, <1>2, RangeGoroutine, RangeNewStream, RangeAssignId, RangeDelete, RangeWrite DEF Next

LEMMA SizeStep == SizeInv /\ [PropNext]_vars => SizeInv'
<1> SUFFICES ASSUME SizeInv, [PropNext]_vars PROVE SizeInv'
    OBVIOUS
<1>1. NetInv /\ NetInv' /\ ClientInv /\ RouteInv /\ ServerInv /\ RoomInv /\ RangeInv
    BY NetStep DEF SizeInv, NetInv
<1>2. CASE Next /\ UNCHANGED serverVars
    BY <1>1, <1>2, RoomClient, RangeStep DEF SizeInv
<1>3. CASE Server!Next /\ UNCHANGED clientVars
  <2>1. RangeInv'
      BY <1>1, <1>3 DEF clientVars, RangeInv
  <2>2. QED
      BY <1>1, <1>3, <2>1, RoomServer DEF SizeInv
<1>4. CASE UNCHANGED vars
  <2>1. UNCHANGED clientVars /\ UNCHANGED serverVars
      BY <1>4 DEF vars
  <2>2. RangeInv' /\ RoomInv'
      BY <1>1, <2>1 DEF clientVars, serverVars, RangeInv, RoomInv, Bounded, Entries
  <2>3. QED
      BY <1>1, <2>2 DEF SizeInv
<1>5. QED
    BY <1>2, <1>3, <1>4 DEF PropNext

LEMMA SizesAreTypes == SizeInv => TypeOK
<1> SUFFICES ASSUME SizeInv PROVE TypeOK
    OBVIOUS
<1>1. Types /\ CallingInv /\ FrameInv /\ WireInv /\ ServTypes /\ RoomInv /\ RangeInv
    BY DEF SizeInv, NetInv, ClientInv, RouteInv, ServerInv
<1>2. ASSUME NEW g \in Goroutines
      PROVE  doing[g] \in [pc : {"idle"}] \cup [pc : {"calling", "opening"}, call : DOMAIN calls]
    BY <1>1 DEF Types, CallingInv, Doing, Idle
<1>3. ASSUME NEW c \in DOMAIN calls PROVE calls[c] \in CallRecord
  <2>1. calls[c] \in Record /\ calls[c].opens <= MaxOpens /\ calls[c].guess \in StreamIds \cup {None}
      BY <1>1 DEF Types, RangeInv
  <2>2. \A n \in Nat, m \in Nat : n <= m => n \in 0..m
      OBVIOUS
  <2>3. calls[c].opens \in 0..MaxOpens
    <3>1. calls[c].opens \in Nat
        BY <2>1 DEF Record
    <3>2. QED
        BY <2>1, <2>2, <3>1, BoundsAssumption
  <2>4. QED
      BY <2>1, <2>3 DEF Record, CallRecord
<1>4. nextId \in [Conns -> 1..MaxCalls + 1]
  <2>1. \A m \in Nat : \A n \in Nat \ {0} : n <= m + 1 => n \in 1..m + 1
      OBVIOUS
  <2>2. nextId \in [Conns -> Nat \ {0}] /\ \A k \in Conns : nextId[k] <= MaxCalls + 1
      BY <1>1 DEF Types, RangeInv
  <2>3. QED
      BY <2>1, <2>2, BoundsAssumption
<1>5. ASSUME NEW w \in Writers, writing[w] # Idle
      PROVE  writing[w] \in [pc : {"found", "gone"}, call : Calls \cup {None}, id : StreamIds,
                             may : SUBSET (Calls \cup {Mixed}), freed : BOOLEAN]
  <2>1. writing[w] \in InHand /\ None \notin writing[w].may
      BY <1>1, <1>5 DEF Types, RangeInv
  <2>2. writing[w].may \subseteq Calls \cup {Mixed}
      BY <1>5, <2>1 DEF InHand
  <2>3. QED
      BY <1>5, <2>1, <2>2 DEF InHand
<1>6. /\ Cardinality(Entries(internal)) <= MaxConcurrent
      /\ Cardinality(Entries(tracked)) <= MaxConcurrentSpans
      /\ Cardinality(Entries(byStream)) <= MaxConcurrent
      /\ Server!Cardinality(Server!Entries(streams)) <= MaxConcurrent
    BY <1>1, ServersOperators DEF RoomInv, Bounded
<1>7. ClientTypeOK
    BY <1>1, <1>2, <1>3, <1>4, <1>5, <1>6 DEF ClientTypeOK, Types, WireInv, RangeInv
<1>8. Server!ServerTypeOK
    BY <1>1, <1>6 DEF ServTypes, Server!ServerTypeOK, Server!StreamIds, Server!Requests, Server!None,
       Server!Mixed, StreamIds, Calls, None, Mixed
<1>9. QED
    BY <1>7, <1>8 DEF TypeOK

(* The types of both processes' state: no map outgrows its limit, whichever *)
(* goroutines, writers and readers use it, and what a writer may read is   *)
(* a context that was stored for some call, or bytes of several.            *)
THEOREM TypesCorrect == Spec => []TypeOK
<1>1. PropInit => SizeInv
    BY InitInv, RouteInit, CarryInit, ServerInit, RoomInit, RangeInit DEF PropInit, NetInv, SizeInv
<1>2. QED
    BY <1>1, SizeStep, SizesAreTypes, PTL DEF Spec
===============================================================================
