------------------------------- MODULE Discovery -------------------------------
(***************************************************************************)
(* How the agent finds its target (pkg/process/discover.go): a scan of     *)
(* /proc at every tick, which reads the directory in batches and looks at  *)
(* the executable of each process listed, one after the other.  Meanwhile  *)
(* processes start and end; one that ends between the reading of its batch *)
(* and the look at it aborts the scan.                                     *)
(***************************************************************************)
EXTENDS Integers, FiniteSets

CONSTANTS
    Target,  \* the pid of the target
    Others,  \* the pids of the processes that are not taken for it
    Batch    \* entries read at a time (15)

ASSUME DiscoveryAssumption ==
    /\ Others \subseteq Nat \ {0} /\ IsFiniteSet(Others)
    /\ Target \in Nat \ {0} /\ Target \notin Others
    /\ Batch \in Nat \ {0}

Pids == Others \cup {Target}

VARIABLES
    alive,   \* processes
    place,   \* the pid from which the next batch is read; 0 between two scans
    listed,  \* of the batch that was read, what has not been looked at
    found    \* the process found, or 0

discoveryVars == <<alive, place, listed, found>>

DiscoveryTypeOK ==
    /\ alive \subseteq Pids
    /\ place \in Nat /\ listed \subseteq Pids /\ found \in Pids \cup {0}

DiscoveryInit ==
    /\ alive \in SUBSET Pids
    /\ place = 0 /\ listed = {} /\ found = 0

\* The target starts, once, and stays.  The others end; bound: none of them starts.
ProcessStarts == alive' = alive \cup {Target} /\ UNCHANGED <<place, listed, found>>
ProcessEnds == \E p \in alive \ {Target} : alive' = alive \ {p} /\ UNCHANGED <<place, listed, found>>

Tick ==
    /\ found = 0 /\ place = 0
    /\ place' = 1
    /\ UNCHANGED <<alive, listed, found>>

\* The entries from a place on that one call of Readdir returns.
Entries == {p \in alive : p >= place /\ Cardinality({q \in alive : place <= q /\ q < p}) < Batch}

\* Where the next one begins; a slip is to open the directory again for each.
FromTheStart(entries) == 1
After(entries) == CHOOSE n \in {p + 1 : p \in entries} : \A p \in entries : p < n

\* Readdir: the next batch, or the end of the directory and so of the scan.
ReadBatch ==
    /\ found = 0 /\ place > 0 /\ listed = {}
    /\ IF Entries = {}
         THEN place' = 0 /\ UNCHANGED listed
         ELSE listed' = Entries /\ place' = After(Entries)
    /\ UNCHANGED <<alive, found>>

\* The first of them that has not been looked at: found, another, or gone, so that
\* the scan ends with an error.
Look ==
    \E p \in listed :
        /\ \A q \in listed : p <= q
        /\ IF p \notin alive
             THEN place' = 0 /\ listed' = {} /\ UNCHANGED found
             ELSE IF p = Target
             THEN place' = 0 /\ listed' = {} /\ found' = p
             ELSE listed' = listed \ {p} /\ UNCHANGED <<place, found>>
        /\ UNCHANGED alive

Scan == Tick \/ ReadBatch \/ Look
===============================================================================
