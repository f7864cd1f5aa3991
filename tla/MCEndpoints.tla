----------------------------- MODULE MCEndpoints -----------------------------
(* Bounds for TLC: endpoint names are interchangeable.                     *)
EXTENDS Endpoints, TLC

Symmetry == Permutations(Names)
=============================================================================
