-------------------------- MODULE MCScanLifecycle --------------------------
(* Small instances of ScanLifecycle for TLC. *)
EXTENDS ScanLifecycle, TLC

CONSTANTS u1, c1, c2, d1

\* Two companies of one user on one domain.
MCOwner    == (c1 :> u1) @@ (c2 :> u1)
MCDomainOf == (c1 :> d1) @@ (c2 :> d1)

Symmetry == Permutations(Callers) \cup Permutations(Runs)
=============================================================================
