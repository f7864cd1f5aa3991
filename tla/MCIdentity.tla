----------------------------- MODULE MCIdentity -----------------------------
(* Identity for TLC: the processes are interchangeable.                    *)
EXTENDS Identity, TLC

Symmetry == Permutations(Procs)
=============================================================================
