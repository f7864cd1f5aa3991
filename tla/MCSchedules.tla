----------------------------- MODULE MCSchedules -----------------------------
(* Bounds for TLC: requests are interchangeable.                           *)
EXTENDS Schedules, TLC

Symmetry == Permutations(Requests)
=============================================================================
