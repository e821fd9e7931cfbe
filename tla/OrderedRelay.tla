----------------------------- MODULE OrderedRelay -----------------------------
(***************************************************************************)
(* What the event queue promises the instrumentors' handlers: events are   *)
(* handed over one at a time, each at most once, and an event that met its *)
(* deadline comes after none of a greater stamp, although the order in     *)
(* which events get stamps known to the relay, and the ones it loses, are  *)
(* anybody's choice.  The span registry relies on it: a call's             *)
(* placeholder, and its ancestors' placeholders, are handled before the    *)
(* events that look them up.                                               *)
(***************************************************************************)
EXTENDS Integers

CONSTANTS Events, MaxStamp

Unstamped == -1

VARIABLES
    stamp,      \* the stamp of each event, once it has one
    overdue,    \* the events that missed their deadline
    handed      \* the events handed over

relayVars == <<stamp, overdue, handed>>

Init ==
    /\ stamp = [e \in Events |-> Unstamped]
    /\ overdue = {}
    /\ handed = {}

GetStamp(e) ==
    /\ stamp[e] = Unstamped
    /\ \E s \in 0..MaxStamp : stamp' = [stamp EXCEPT ![e] = s]
    /\ UNCHANGED <<overdue, handed>>

MissDeadline(e) ==
    /\ stamp[e] # Unstamped
    /\ e \notin handed
    /\ overdue' = overdue \cup {e}
    /\ UNCHANGED <<stamp, handed>>

HandOver(e) ==
    /\ stamp[e] # Unstamped
    /\ e \notin handed
    /\ e \in overdue \/ \A d \in handed : stamp[d] <= stamp[e]
    /\ handed' = handed \cup {e}
    /\ UNCHANGED <<stamp, overdue>>

Next == \E e \in Events : GetStamp(e) \/ MissDeadline(e) \/ HandOver(e)

Spec == Init /\ [][Next]_relayVars
===============================================================================
