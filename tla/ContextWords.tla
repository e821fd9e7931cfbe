----------------------------- MODULE ContextWords -----------------------------
(***************************************************************************)
(* The keys of tracked_spans (internal/include/go_context.h).  A probe     *)
(* does not track a call under the address of its context.Context but      *)
(* under a word that it reads there, and looks for a parent under that     *)
(* word and then under the word found 8 bytes behind the last one.  The    *)
(* words are mostly addresses of types, which contexts that have nothing   *)
(* to do with each other share.                                            *)
(***************************************************************************)
EXTENDS Integers

CONSTANTS
    Words,       \* the words that the probes come across
    NoWord,      \* 0, which is also what a read that fails gives
    WordBehind,  \* the word 8 bytes behind the address that a word is
    MaxDistance  \* MAX_DISTANCE, of words looked at

ASSUME WordsAssumption ==
    /\ NoWord \in Words /\ WordBehind \in [Words -> Words] /\ WordBehind[NoWord] = NoWord
    /\ MaxDistance \in Nat

None == 0   \* no entry, no span context

\* The keys of a map.
Entries(m) == {k \in DOMAIN m : m[k] # None}

\* The word that get_parent_go_context looks at in its n-th round from w on.
WordAt(w, n) ==
    LET at[i \in Nat] == IF i = 0 THEN w ELSE WordBehind[at[i - 1]]
    IN  at[n]

Reachable(w) == {WordAt(w, n) : n \in 0..MaxDistance - 1}

\* The first word from w on that is a key of m; NoWord when there is none, as
\* when the key found is 0.
FoundKey(m, w) ==
    LET rounds == {n \in 0..MaxDistance - 1 : WordAt(w, n) \in Entries(m)}
    IN  IF rounds = {} THEN NoWord
        ELSE WordAt(w, CHOOSE n \in rounds : \A k \in rounds : n <= k)

\* A slip: the key 0 is taken for a context.
FoundSpanAnyKey(m, w) == m[FoundKey(m, w)]

\* get_parent_span_context, m being tracked_spans.
FoundSpan(m, w) == IF FoundKey(m, w) = NoWord THEN None ELSE m[FoundKey(m, w)]
===============================================================================
