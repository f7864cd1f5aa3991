------------------------------ MODULE MCStacks ------------------------------
(* Stacks for TLC; the kinds of stacks the runs have.                      *)
EXTENDS Stacks

BothTypes == {"compose", "swarm"}
=============================================================================
