---------------------------- MODULE ScanPromise ----------------------------
(***************************************************************************)
(* What scanning promises, without keys, counters, rows or threads: the    *)
(* set of companies being scanned right now.  quotas.py and app.py promise *)
(* that a company is scanned by one thread at a time and that a user has   *)
(* at most Limit scans running; a crash ends them all.                     *)
(***************************************************************************)
EXTENDS Integers, FiniteSets

CONSTANTS Companies, Users, Owner, Limit

VARIABLE scanning

ScansOf(u) == {c \in scanning : Owner[c] = u}

Init == scanning = {}

Start(c) ==
    /\ c \notin scanning
    /\ Cardinality(ScansOf(Owner[c])) < Limit
    /\ scanning' = scanning \cup {c}

Finish(c) ==
    /\ c \in scanning
    /\ scanning' = scanning \ {c}

Crash == scanning' = {}

Next == (\E c \in Companies : Start(c) \/ Finish(c)) \/ Crash

Spec == Init /\ [][Next]_scanning
=============================================================================
