---------------------------- MODULE MCScheduler ----------------------------
(* Small instances of Scheduler for TLC. *)
EXTENDS Scheduler, TLC

CONSTANTS u1, u2

\* No legacy file, or one in which the first user's schedule is on.
NoLegacy  == [u \in Owners |-> Nil]
OldLegacy == [u \in Owners |-> IF u = u1 THEN [enabled |-> TRUE, interval |-> 1] ELSE Nil]
=============================================================================
