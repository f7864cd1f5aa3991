----------------------------- MODULE MCStartup ------------------------------
(* Startup for TLC: the versions a database may have at first.             *)
EXTENDS Startup

AllOrigins == 0..DBVersion \cup {Fresh}
=============================================================================
