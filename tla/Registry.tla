------------------------------ MODULE Registry ------------------------------
(***************************************************************************)
(* What the handlers of one kind of object promise their callers: a        *)
(* registry whose operations are atomic.  An object is created under an    *)
(* identifier that never named another one, an update replaces an object   *)
(* that exists, and a deleted object does not come back.                   *)
(***************************************************************************)
CONSTANTS
  Ids,       \* the identifiers
  Objects,   \* the objects
  Absent     \* the value of an identifier that names no object

VARIABLES
  objects,   \* the object each identifier names
  used       \* the identifiers ever given to an object

vars == <<objects, used>>

Init ==
  /\ objects = [id \in Ids |-> Absent]
  /\ used = {}

Create(id, object) ==
  /\ id \notin used
  /\ objects[id] = Absent
  /\ objects' = [objects EXCEPT ![id] = object]
  /\ used' = used \cup {id}

Update(id, object) ==
  /\ objects[id] # Absent
  /\ objects' = [objects EXCEPT ![id] = object]
  /\ UNCHANGED used

Delete(id) ==
  /\ objects[id] # Absent
  /\ objects' = [objects EXCEPT ![id] = Absent]
  /\ UNCHANGED used

Next ==
  \E id \in Ids :
    \/ \E object \in Objects : Create(id, object) \/ Update(id, object)
    \/ Delete(id)

Spec == Init /\ [][Next]_vars
=============================================================================
