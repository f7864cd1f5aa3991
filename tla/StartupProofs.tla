---------------------------- MODULE StartupProofs ----------------------------
(***************************************************************************)
(* Proofs about Startup, for any endpoints, stacks, resource controls and  *)
(* number of stops: a database that says it has the present version is in  *)
(* the form of that version throughout, and a server that serves has all   *)
(* that it should, once, but for the cuts that the property names.         *)
(***************************************************************************)
EXTENDS Startup, TLAPS, FiniteSetTheorems, WellFoundedInduction

Bits == {"read", "write", "remove admin", "remove stack", "create stack"}
Rest == {"templates", "import", "settings", "endpoint", "admin", "serving"}
Migrating == Bits \cup {"migrate", "store version"}
Steps == 1..16

(* Every variable has its shape, without the counters' bounds.             *)
Shape ==
  /\ file \in BOOLEAN
  /\ version \in {{}} \cup {{v} : v \in 1..DBVersion}
  /\ users = [legacy |-> users.legacy, admins |-> users.admins]
  /\ controls = [k \in Controls |-> controls[k]]
  /\ endpoints \in [Endpoints \cup {Primary} -> Endpoint \cup {None}]
  /\ stacks = [old |-> stacks.old, rows |-> stacks.rows, seq |-> stacks.seq]
  /\ boot = [at |-> boot.at, from |-> boot.from, step |-> boot.step, todo |-> boot.todo,
             stack |-> boot.stack, id |-> boot.id]
  /\ boot.at \in Points

(* What a migration has written, of an endpoint and of everything.         *)
Has(e, what) ==
  /\ what \in DOMAIN Since => what \in e.fields
  /\ what = "group" => e.group = 1
  /\ what = "type" => e.type # ""
  /\ what = "verify" => (e.skip => e.tls) /\ (e.type = "agent" => e.tls /\ e.skip)
EndpointsHave(what, except) ==
  \A x \in Endpoints \ except : endpoints[x] # None => Has(endpoints[x], what)
Applied(i) ==
  LET what == Migrations[i].what IN
  /\ what = "admin" => ~users.legacy
  /\ what = "settings" => Migrations[i].below \in settings
  /\ what = "stacks" => stacks.old = {}
  /\ what = "prune" => \A k \in AdminOwned : controls[k] = 0
  /\ what \in OnEndpoints => EndpointsHave(what, {})

(* A database has what all migrations up to its version write; only the    *)
(* present version may have settings that none of them shaped.             *)
VersionKept == \A v \in version \ {DBVersion} :
  \A i \in Steps : Migrations[i].below <= v => Applied(i)

(* A database without a file, or just created, is empty.                   *)
EmptyDatabase ==
  /\ version = {} /\ ~users.legacy /\ stacks.old = {} /\ settings = {}
  /\ \A k \in Controls : controls[k] = 0
  /\ \A x \in Endpoints : endpoints[x] = None
FreshIsEmpty ==
  /\ ~file => boot.at \in {"down", "open"} /\ EmptyDatabase
  /\ ~file /\ boot.at = "open" => boot.from = Fresh
  /\ boot.at \in {"open", "init", "migrate data"} /\ boot.from = Fresh => EmptyDatabase

(* The migrations run on the version found, from the first that is due,    *)
(* and all before the present one have been applied.                       *)
RunsInOrder ==
  /\ boot.at \in Migrating =>
       /\ boot.from \in 0..13
       /\ version = IF boot.from = 0 THEN {} ELSE {boot.from}
  /\ boot.at \in Bits =>
       /\ boot.step \in Steps /\ boot.from < Migrations[boot.step].below
       /\ \A i \in Steps : i < boot.step => Applied(i)
  /\ boot.at = "store version" => \A i \in Steps : Applied(i)
  /\ boot.at \in Rest => version = {DBVersion}

(* What the present migration has still to write is in its rows.           *)
RowsRemain ==
  /\ boot.at = "write" =>
       /\ What \in OnEndpoints =>
            /\ boot.todo \subseteq {x \in DOMAIN endpoints : endpoints[x] # None}
            /\ EndpointsHave(What, boot.todo)
       /\ What = "admin" /\ boot.todo = {} => ~users.legacy
       /\ What = "stacks" => stacks.old \subseteq boot.todo
  /\ boot.at = "remove admin" => What = "admin"
  /\ boot.at = "remove stack" => What = "stacks" /\ stacks.old \subseteq boot.todo
  /\ boot.at = "create stack" => What = "stacks" /\ stacks.old \subseteq boot.todo \ {boot.stack}

VersionInv ==
  Shape /\ VersionKept /\ FreshIsEmpty /\ RunsInOrder /\ RowsRemain /\ VersionTells

-----------------------------------------------------------------------------
(* The table of migrations.                                                *)
LEMMA Table ==
  /\ DOMAIN Migrations = Steps
  /\ Migrations[1]  = [below |-> 1,  what |-> "admin"]
  /\ Migrations[2]  = [below |-> 2,  what |-> "controls"]
  /\ Migrations[3]  = [below |-> 2,  what |-> "teams"]
  /\ Migrations[4]  = [below |-> 3,  what |-> "settings"]
  /\ Migrations[5]  = [below |-> 4,  what |-> "tls"]
  /\ Migrations[6]  = [below |-> 5,  what |-> "settings"]
  /\ Migrations[7]  = [below |-> 6,  what |-> "settings"]
  /\ Migrations[8]  = [below |-> 7,  what |-> "settings"]
  /\ Migrations[9]  = [below |-> 8,  what |-> "extensions"]
  /\ Migrations[10] = [below |-> 9,  what |-> "group"]
  /\ Migrations[11] = [below |-> 10, what |-> "type"]
  /\ Migrations[12] = [below |-> 11, what |-> "verify"]
  /\ Migrations[13] = [below |-> 12, what |-> "tags"]
  /\ Migrations[14] = [below |-> 12, what |-> "stacks"]
  /\ Migrations[15] = [below |-> 13, what |-> "settings"]
  /\ Migrations[16] = [below |-> 14, what |-> "prune"]
BY DEF Migrations, Steps

LEMMA Below == \A i \in Steps : i \in Nat /\ Migrations[i].below \in Nat
BY Table DEF Steps

LEMMA Sorted == \A i, j \in Steps : i <= j => Migrations[i].below <= Migrations[j].below
BY Table DEF Steps

LEMMA Whats == \A i \in Steps :
  /\ Migrations[i].what = "admin" => i = 1
  /\ Migrations[i].what = "controls" => i = 2
  /\ Migrations[i].what = "verify" => i = 12
  /\ Migrations[i].what = "stacks" => i = 14
  /\ Migrations[i].what = "prune" => i = 16
  /\ Migrations[i].what = "settings" => i \in {4, 6, 7, 8, 15}
  /\ Migrations[i].what \in OnEndpoints => i \in {3, 5, 9, 10, 11, 12, 13}
  /\ Migrations[i].what \in {"admin", "controls", "settings", "stacks", "prune"} \cup OnEndpoints
BY Table DEF Steps, OnEndpoints

(* The first migration that is due: the least element of the chosen ones.  *)
LEMMA Smallest ==
  ASSUME NEW S \in SUBSET Nat, S # {}
  PROVE  \E m \in S : \A k \in S : m <= k
<1>1. PICK m \in S : \A y \in S : <<y, m>> \notin OpToRel(<, Nat)
  BY NatLessThanWellFounded, WFMin
<1>2. \A y \in S : ~(y < m)
  BY <1>1 DEF OpToRel
<1> QED BY <1>2

(* Going on leads to the next migration that is due, or to the version.    *)
LEMMA ProceedEffect ==
  ASSUME Shape, boot.from \in 0..13, NEW i \in 1..17, Proceed(i)
  PROVE  /\ boot'.from = boot.from
         /\ boot' = [at |-> boot'.at, from |-> boot'.from, step |-> boot'.step,
                     todo |-> boot'.todo, stack |-> boot'.stack, id |-> boot'.id]
         /\ \/ /\ boot'.at = "store version"
               /\ \A k \in Steps : k >= i => Migrations[k].below <= boot.from
            \/ /\ boot'.at = "read" /\ boot'.step \in Steps /\ boot'.step >= i
               /\ boot.from < Migrations[boot'.step].below
               /\ \A k \in Steps : i <= k /\ k < boot'.step => Migrations[k].below <= boot.from
<1> DEFINE due == {j \in DOMAIN Migrations : j >= i /\ Due(j)}
<1>1. due = {j \in Steps : j >= i /\ boot.from < Migrations[j].below}
  BY Table DEF Due
<1>2. \A j \in Steps : j \in Nat /\ Migrations[j].below \in Nat
  BY Below DEF Steps
<1>3. CASE due = {}
  <2>1. boot' = [boot EXCEPT !.at = "store version", !.step = 0]
    BY <1>3 DEF Proceed
  <2>2. \A k \in Steps : k >= i => Migrations[k].below <= boot.from
    BY <1>1, <1>2, <1>3
  <2> QED BY <2>1, <2>2 DEF Shape
<1>4. CASE due # {}
  <2>1. PICK m : m = CHOOSE j \in due : \A k \in due : j <= k
    OBVIOUS
  <2>2. due \subseteq Nat
    BY <1>1, <1>2
  <2>3. \E j \in due : \A k \in due : j <= k
    BY <1>4, <2>2, Smallest
  <2>4. m \in due /\ \A k \in due : m <= k
    BY <2>1, <2>3, Zenon
  <2>5. boot' = [boot EXCEPT !.at = "read", !.todo = {}, !.stack = None, !.id = 0, !.step = m]
    BY <1>4, <2>1 DEF Proceed
  <2>6. m \in Steps /\ m >= i /\ boot.from < Migrations[m].below
    BY <1>1, <2>4
  <2>7. \A k \in Steps : i <= k /\ k < m => Migrations[k].below <= boot.from
    BY <1>1, <1>2, <2>4, <2>6
  <2> HIDE DEF due
  <2>8. boot'.at = "read" /\ boot'.step = m /\ boot'.from = boot.from
    BY <2>5 DEF Shape
  <2> QED BY <2>5, <2>6, <2>7, <2>8 DEF Shape
<1> QED BY <1>3, <1>4

(* A migration takes nothing from an endpoint that an earlier one wrote.   *)
LEMMA MigratedHas ==
  ASSUME NEW e \in Endpoint, NEW what \in OnEndpoints
  PROVE  Migrated(e, what) \in Endpoint /\ Has(Migrated(e, what), what)
<1> USE DEF Endpoint, Since, Has
<1>1. CASE what \in DOMAIN Since
  <2>1. PICK o : o = [e EXCEPT !.fields = @ \cup {what}, !.skip = @ /\ what # "tls"]
    OBVIOUS
  <2>2. Migrated(e, what) = o
    BY <1>1, <2>1 DEF Migrated
  <2>3. o \in Endpoint /\ what \in o.fields
    BY <1>1, <2>1
  <2>4. Has(o, what)
    BY <1>1, <2>3
  <2> QED BY <2>2, <2>3, <2>4
<1>2. CASE what = "group"
  <2>1. Migrated(e, what) = [e EXCEPT !.group = 1]
    BY <1>2 DEF Migrated
  <2> QED BY <1>2, <2>1
<1>3. CASE what = "type"
  <2>1. Migrated(e, what) = [e EXCEPT !.type = "docker"]
    BY <1>3 DEF Migrated
  <2> QED BY <1>3, <2>1
<1>4. CASE what = "verify"
  <2>1. Migrated(e, what) = IF e.type = "agent" THEN [e EXCEPT !.tls = TRUE, !.skip = TRUE]
                            ELSE [e EXCEPT !.skip = @ /\ e.tls]
    BY <1>4 DEF Migrated
  <2> QED BY <1>4, <2>1
<1> QED BY <1>1, <1>2, <1>3, <1>4 DEF OnEndpoints

LEMMA MigratedKeeps ==
  ASSUME NEW e \in Endpoint, NEW what \in OnEndpoints, NEW earlier \in OnEndpoints,
         earlier = "verify" => what \in {"verify", "tags"}, Has(e, earlier)
  PROVE  Has(Migrated(e, what), earlier)
<1> USE DEF Endpoint, Since, Has
<1>1. CASE what \in DOMAIN Since
  <2>1. PICK o : o = [e EXCEPT !.fields = @ \cup {what}, !.skip = @ /\ what # "tls"]
    OBVIOUS
  <2>2. Migrated(e, what) = o
    BY <1>1, <2>1 DEF Migrated
  <2>3. /\ o.fields = e.fields \cup {what} /\ o.group = e.group /\ o.type = e.type
        /\ o.tls = e.tls /\ (what # "tls" => o.skip = e.skip)
    BY <2>1
  <2> QED BY <1>1, <2>2, <2>3 DEF OnEndpoints
<1>2. CASE what = "group"
  <2>1. Migrated(e, what) = [e EXCEPT !.group = 1]
    BY <1>2 DEF Migrated
  <2> QED BY <1>2, <2>1 DEF OnEndpoints
<1>3. CASE what = "type"
  <2>1. Migrated(e, what) = [e EXCEPT !.type = "docker"]
    BY <1>3 DEF Migrated
  <2> QED BY <1>3, <2>1 DEF OnEndpoints
<1>4. CASE what = "verify"
  <2>1. Migrated(e, what) = IF e.type = "agent" THEN [e EXCEPT !.tls = TRUE, !.skip = TRUE]
                            ELSE [e EXCEPT !.skip = @ /\ e.tls]
    BY <1>4 DEF Migrated
  <2> QED BY <1>4, <2>1 DEF OnEndpoints
<1> QED BY <1>1, <1>2, <1>3, <1>4 DEF OnEndpoints

LEMMA GotoEffect ==
  ASSUME Shape, NEW point, Goto(point)
  PROVE  boot' = [at |-> point, from |-> boot.from, step |-> boot.step, todo |-> boot.todo,
                  stack |-> boot.stack, id |-> boot.id]
BY DEF Shape, Goto

-----------------------------------------------------------------------------
(* The shape of every variable is kept.                                    *)
LEMMA ShapeStep == Shape /\ RunsInOrder /\ RowsRemain /\ [Next]_vars => Shape'
<1> SUFFICES ASSUME Shape, RunsInOrder, RowsRemain, [Next]_vars PROVE Shape'
  OBVIOUS
<1> DEFINE BootShape == /\ boot' = [at |-> boot'.at, from |-> boot'.from, step |-> boot'.step,
                                    todo |-> boot'.todo, stack |-> boot'.stack, id |-> boot'.id]
                        /\ boot'.at \in Points
<1>g. ASSUME NEW point \in Points, Goto(point) PROVE BootShape
  BY <1>g, GotoEffect
<1>d. ASSUME boot' = Down PROVE BootShape
  BY <1>d DEF Down, Points
<1>p. ASSUME NEW i \in 1..17, boot.at \in Migrating, Proceed(i) PROVE BootShape
  <2>1. boot.from \in 0..13
    BY <1>p DEF RunsInOrder
  <2> QED BY <1>p, <2>1, ProceedEffect DEF Points
<1>s. boot.at \in Bits => boot.step + 1 \in 1..17
  <2>1. boot.at \in Bits => boot.step \in Steps
    BY DEF RunsInOrder
  <2> QED BY <2>1 DEF Steps
<1>1. CASE Launch
  BY <1>1 DEF Launch, data, Shape, Down, Points
<1>2. CASE Open
  BY <1>2, <1>g DEF Open, data, Shape, Points
<1>3. CASE InitGroups
  BY <1>3, <1>g DEF InitGroups, Shape, Points
<1>4. CASE MigrateData
  <2>1. BootShape
    BY <1>4, <1>g DEF MigrateData, Shape, Points
  <2>2. version' \in {{}} \cup {{v} : v \in 1..DBVersion}
    <3>1. version' = {DBVersion} \/ version' = version
      BY <1>4 DEF MigrateData
    <3> QED BY <3>1 DEF Shape, DBVersion
  <2> QED BY <1>4, <2>1, <2>2 DEF MigrateData, Shape
<1>5. CASE Migrate
  BY <1>5, <1>p DEF Migrate, At, data, Shape, Migrating
<1>6. CASE ReadRows
  BY <1>6 DEF ReadRows, data, Shape, Points
<1>7. CASE ReadFails \/ Crash
  BY <1>7, <1>d DEF ReadFails, Crash, data, Shape
<1>8. CASE NextMigration
  BY <1>8, <1>p, <1>s DEF NextMigration, At, data, Shape, Migrating, Bits
<1>9. CASE MoveAdmin
  BY <1>9, <1>g DEF MoveAdmin, Shape, Points
<1>10. CASE RemoveAdmin
  BY <1>10, <1>p, <1>s DEF RemoveAdmin, At, Shape, Migrating, Bits
<1>11. CASE MoveControl
  <2>1. BootShape
    BY <1>11 DEF MoveControl, Shape
  <2> QED BY <1>11, <2>1 DEF MoveControl, Shape
<1>12. CASE MigrateEndpoint
  <2>1. PICK x \in boot.todo : /\ endpoints' = [endpoints EXCEPT ![x] = Migrated(@, What)]
                               /\ boot' = [boot EXCEPT !.todo = @ \ {x}]
    BY <1>12 DEF MigrateEndpoint
  <2>2. What \in OnEndpoints /\ x \in DOMAIN endpoints /\ endpoints[x] # None
    BY <1>12 DEF MigrateEndpoint, At, RowsRemain
  <2>3. x \in Endpoints \cup {Primary} /\ endpoints[x] \in Endpoint
    BY <2>2 DEF Shape
  <2>4. Migrated(endpoints[x], What) \in Endpoint
    BY <2>2, <2>3, MigratedHas
  <2>5. endpoints' \in [Endpoints \cup {Primary} -> Endpoint \cup {None}]
    BY <2>1, <2>3, <2>4 DEF Shape
  <2>6. BootShape
    BY <2>1 DEF Shape
  <2> QED BY <1>12, <2>5, <2>6 DEF MigrateEndpoint, Shape
<1>13. CASE MigrateSettings
  BY <1>13, <1>p, <1>s DEF MigrateSettings, Writing, At, Shape, Migrating, Bits
<1>14. CASE RenameFolder
  <2>1. BootShape
    BY <1>14, <1>d DEF RenameFolder, Shape, Points
  <2> QED BY <1>14, <2>1 DEF RenameFolder, Shape
<1>15. CASE RemoveStack
  BY <1>15, <1>g DEF RemoveStack, Shape, Points
<1>16. CASE CreateStack
  <2>1. BootShape
    BY <1>16 DEF CreateStack, Shape, Points
  <2> QED BY <1>16, <2>1 DEF CreateStack, Shape, Stored
<1>17. CASE PruneControl
  <2>1. BootShape
    BY <1>17, <1>p, <1>s DEF PruneControl, Writing, At, Shape, Migrating, Bits
  <2> QED BY <1>17, <2>1 DEF PruneControl, Shape
<1>18. CASE StoreDBVersion
  <2>1. version' \in {{}} \cup {{v} : v \in 1..DBVersion}
    <3>1. DBVersion \in 1..DBVersion
      BY DEF DBVersion
    <3> QED BY <1>18, <3>1 DEF StoreDBVersion
  <2> QED BY <1>18, <1>g, <2>1 DEF StoreDBVersion, Shape, Points
<1>19. CASE InitTemplates
  BY <1>19, <1>g DEF InitTemplates, data, Shape, Points
<1>20. CASE CreateTemplate
  BY <1>20, <1>g DEF CreateTemplate, Shape, Points
<1>21. CASE InitSettings
  BY <1>21, <1>g DEF InitSettings, Shape, Points
<1>22. CASE InitEndpoint
  <2>1. endpoints' \in [Endpoints \cup {Primary} -> Endpoint \cup {None}]
    BY <1>22 DEF InitEndpoint, Shape
  <2> QED BY <1>22, <1>g, <2>1 DEF InitEndpoint, Shape, Points
<1>23. CASE InitAdmin
  BY <1>23, <1>g DEF InitAdmin, Shape, Points
<1>24. CASE UNCHANGED vars
  BY <1>24 DEF vars, data, Shape
<1> QED
  BY <1>1, <1>2, <1>3, <1>4, <1>5, <1>6, <1>7, <1>8, <1>9, <1>10, <1>11, <1>12, <1>13, <1>14,
     <1>15, <1>16, <1>17, <1>18, <1>19, <1>20, <1>21, <1>22, <1>23, <1>24
  DEF Next, Boot

-----------------------------------------------------------------------------
(* Which points belong to which part of the start.                         *)
LEMMA Parts ==
  /\ Bits \subseteq Migrating /\ "migrate" \in Migrating /\ "store version" \in Migrating
  /\ \A p \in Migrating : p \notin Rest /\ p \notin {"down", "open", "init", "migrate data"}
  /\ \A p \in Migrating : p \in Bits \/ p = "migrate" \/ p = "store version"
  /\ \A p \in Bits : p # "migrate" /\ p # "store version"
  /\ \A p \in Rest : p \notin {"down", "open", "init", "migrate data"}
  /\ {"read", "write", "remove admin", "remove stack", "create stack"} \subseteq Bits
BY DEF Migrating, Bits, Rest

(* While migrations run there is a file, its version is not the present    *)
(* one, and every migration up to that version comes before the one that   *)
(* runs.                                                                   *)
LEMMA Running ==
  ASSUME VersionInv, boot.at \in Migrating
  PROVE  /\ file /\ boot.from \in 0..13 /\ DBVersion \notin version
         /\ \A v \in version : v = boot.from
         /\ boot.at \in Bits => \A i \in Steps : Migrations[i].below <= boot.from => i < boot.step
<1>1. file
  BY Parts DEF VersionInv, FreshIsEmpty, Shape
<1>2. boot.from \in 0..13 /\ version = IF boot.from = 0 THEN {} ELSE {boot.from}
  BY DEF VersionInv, RunsInOrder
<1>3. DBVersion \notin version
  <2>1. \A v \in version : v \in 0..13
    BY <1>2
  <2> QED BY <2>1 DEF DBVersion
<1>4. ASSUME boot.at \in Bits, NEW i \in Steps, Migrations[i].below <= boot.from
      PROVE  i < boot.step
  <2>1. boot.step \in Steps /\ boot.from < Migrations[boot.step].below
    BY <1>4 DEF VersionInv, RunsInOrder
  <2>2. PICK j \in Steps : j = boot.step
    BY <2>1
  <2>3. /\ Migrations[i].below \in Nat /\ Migrations[j].below \in Nat /\ boot.from \in Nat
        /\ i \in Nat /\ j \in Nat
    BY <1>2, Below
  <2>4. ~(Migrations[j].below <= Migrations[i].below)
    BY <1>4, <2>1, <2>2, <2>3
  <2>5. ~(j <= i)
    BY <2>4, Sorted
  <2> QED BY <2>2, <2>3, <2>5
<1> QED BY <1>1, <1>2, <1>3, <1>4

LEMMA NotPresent ==
  ASSUME file', UNCHANGED version, DBVersion \notin version,
         boot'.at \in Migrating
  PROVE  VersionTells' /\ FreshIsEmpty'
BY Parts DEF VersionTells, FreshIsEmpty

(* A step of the present migration.                                        *)
LEMMA RunStep ==
  ASSUME VersionInv, Shape', boot.at \in Bits, UNCHANGED <<file, version>>, boot'.at \in Bits,
         boot'.from = boot.from, boot'.step = boot.step,
         \A i \in Steps : i < boot.step => Applied(i)', RowsRemain'
  PROVE  VersionInv'
<1>1. VersionTells' /\ FreshIsEmpty'
  BY Parts, Running, NotPresent
<1>2. VersionKept'
  BY Parts, Running DEF VersionKept
<1>3. RunsInOrder'
  <2>1. RunsInOrder
    BY DEF VersionInv
  <2> QED BY <2>1, Parts DEF RunsInOrder
<1> QED BY <1>1, <1>2, <1>3 DEF VersionInv

(* The present migration ends, and the next that is due begins.            *)
LEMMA AdvanceStep ==
  ASSUME VersionInv, Shape', boot.at \in Bits, UNCHANGED <<file, version>>,
         Proceed(boot.step + 1), \A i \in Steps : i <= boot.step => Applied(i)'
  PROVE  VersionInv'
<1>1. boot.step \in Steps /\ boot.from \in 0..13 /\ Shape
  BY Parts DEF VersionInv, RunsInOrder
<1>2. boot.step + 1 \in 1..17
  BY <1>1 DEF Steps
<1>3. /\ boot'.from = boot.from
      /\ \/ boot'.at = "store version"
         \/ boot'.at = "read" /\ boot'.step \in Steps /\ boot.from < Migrations[boot'.step].below
  BY <1>1, <1>2, ProceedEffect
<1>4. ASSUME NEW i \in Steps, Migrations[i].below <= boot.from PROVE i <= boot.step
  <2>1. i < boot.step
    BY <1>4, Parts, Running
  <2> QED BY <1>1, <2>1 DEF Steps
<1>5. VersionTells' /\ FreshIsEmpty'
  BY <1>3, Parts, Running, NotPresent
<1>6. VersionKept'
  BY <1>4, Parts, Running DEF VersionKept
<1>7. RunsInOrder'
  <2>1. version' = IF boot'.from = 0 THEN {} ELSE {boot'.from}
    BY <1>3, Parts DEF VersionInv, RunsInOrder
  <2>2. ASSUME NEW i \in Steps, boot'.at = "store version" \/ i < boot'.step
        PROVE  Applied(i)'
    <3>1. CASE i <= boot.step
      BY <3>1
    <3>2. CASE ~(i <= boot.step)
      <4>1. i >= boot.step + 1
        BY <1>1, <3>2 DEF Steps
      <4>2. Migrations[i].below <= boot.from
        BY <1>1, <1>2, <2>2, <4>1, ProceedEffect
      <4> QED BY <1>4, <3>2, <4>2
    <3> QED BY <3>1, <3>2
  <2> QED BY <1>1, <1>3, <2>1, <2>2, Parts DEF RunsInOrder
<1>8. RowsRemain'
  BY <1>3 DEF RowsRemain
<1> QED BY <1>5, <1>6, <1>7, <1>8 DEF VersionInv

(* A step that leaves what migrations write as it is.                      *)
LEMMA AppliedFrame ==
  ASSUME UNCHANGED <<users, controls, endpoints, settings, stacks>>, NEW i
  PROVE  Applied(i)' = Applied(i)
BY DEF Applied, EndpointsHave

LEMMA TellsFrame ==
  ASSUME UNCHANGED <<version, users, controls, endpoints, settings, stacks>>, VersionInv
  PROVE  VersionTells' /\ VersionKept'
<1>1. VersionTells'
  BY DEF VersionInv, VersionTells
<1>2. VersionKept'
  BY AppliedFrame DEF VersionInv, VersionKept
<1> QED BY <1>1, <1>2

(* The server stops, or starts again: no migration runs.                   *)
LEMMA DownStep ==
  ASSUME VersionInv, Shape', boot' = Down, UNCHANGED <<file, data>>,
         ~file => boot.at \in {"down", "open"}
  PROVE  VersionInv'
<1>1. boot'.at = "down"
  BY DEF Down
<1>2. VersionTells' /\ VersionKept'
  BY TellsFrame DEF data
<1>3. FreshIsEmpty'
  BY <1>1 DEF VersionInv, FreshIsEmpty, EmptyDatabase, data
<1>4. RunsInOrder' /\ RowsRemain'
  <2>1. boot'.at \notin Bits \cup Migrating \cup Rest
    BY <1>1, Parts
  <2> QED BY <1>1, <2>1 DEF RunsInOrder, RowsRemain
<1> QED BY <1>2, <1>3, <1>4 DEF VersionInv

-----------------------------------------------------------------------------
(* The steps before and after the migrations.                              *)
LEMMA FreshIsNoVersion == \A n \in 0..14 : n # Fresh
<1>1. Fresh \notin 0..14
  BY OriginsAssumption, Zenon
<1> QED BY <1>1

LEMMA GotoAt == ASSUME Shape, NEW point, Goto(point) PROVE boot'.at = point /\ boot'.from = boot.from
BY GotoEffect

LEMMA Elsewhere ==
  ASSUME Shape', boot'.at \in Points, boot'.at \notin Migrating,
         boot'.at \in Rest => version' = {DBVersion},
         VersionTells', VersionKept', FreshIsEmpty'
  PROVE  VersionInv'
BY Parts DEF VersionInv, RunsInOrder, RowsRemain

LEMMA BeforeStep ==
  ASSUME VersionInv, Shape', Launch \/ Open \/ InitGroups \/ Migrate
  PROVE  VersionInv'
<1>v. VersionTells' /\ VersionKept'
  BY TellsFrame DEF Launch, Open, InitGroups, Migrate, data
<1>f. FreshIsEmpty /\ Shape
  BY DEF VersionInv
<1>1. CASE Launch
  <2>1. boot'.at = "open" /\ boot'.from = (IF file THEN 0 ELSE Fresh) /\ UNCHANGED <<file, data>>
    BY <1>1 DEF Launch, Down
  <2>2. FreshIsEmpty'
    <3>1. 0 # Fresh
      BY FreshIsNoVersion
    <3> QED BY <1>f, <2>1, <3>1 DEF FreshIsEmpty, EmptyDatabase, data
  <2> QED BY <1>v, <2>1, <2>2, Parts, Elsewhere DEF Points
<1>2. CASE Open
  <2>1. boot'.at = "init" /\ boot'.from = boot.from /\ file' /\ UNCHANGED data /\ boot.at = "open"
    BY <1>2, <1>f, GotoAt DEF Open, At
  <2>2. FreshIsEmpty'
    BY <1>f, <2>1 DEF FreshIsEmpty, EmptyDatabase, data
  <2> QED BY <1>v, <2>1, <2>2, Parts, Elsewhere DEF Points
<1>3. CASE InitGroups
  <2>1. /\ boot'.at = "migrate data" /\ boot'.from = boot.from /\ boot.at = "init"
        /\ UNCHANGED <<file, version, users, controls, endpoints, settings, stacks>>
    BY <1>3, <1>f, GotoAt DEF InitGroups, At
  <2>2. FreshIsEmpty'
    BY <1>f, <2>1 DEF FreshIsEmpty, EmptyDatabase
  <2> QED BY <1>v, <2>1, <2>2, Parts, Elsewhere DEF Points
<1>4. CASE Migrate
  <2>0. boot.at = "migrate" /\ Proceed(1) /\ UNCHANGED <<file, data>>
    BY <1>4 DEF Migrate, At
  <2>n. 1 \in 1..17
    OBVIOUS
  <2>1. boot.from \in 0..13 /\ file /\ DBVersion \notin version
        /\ version = IF boot.from = 0 THEN {} ELSE {boot.from}
    BY <2>0, Parts, Running DEF VersionInv, RunsInOrder
  <2>2. /\ boot'.from = boot.from
        /\ \/ boot'.at = "store version"
           \/ boot'.at = "read" /\ boot'.step \in Steps /\ boot.from < Migrations[boot'.step].below
    BY <1>f, <2>n, <2>0, <2>1, ProceedEffect
  <2>3. boot'.at \in Migrating
    BY <2>2, Parts
  <2>4. FreshIsEmpty'
    BY <2>0, <2>1, <2>3, NotPresent DEF data
  <2>5. ASSUME NEW i \in Steps, boot'.at = "store version" \/ i < boot'.step
        PROVE  Applied(i)'
    <3>1. i \in Nat /\ i >= 1
      BY DEF Steps
    <3>2. Migrations[i].below <= boot.from
      BY <1>f, <2>n, <2>0, <2>1, <2>2, <2>5, <3>1, ProceedEffect
    <3>3. boot.from \in version
      <4>1. boot.from # 0
        BY <3>2, Table DEF Steps
      <4> QED BY <2>1, <4>1
    <3>4. Applied(i)
      BY <2>1, <3>2, <3>3 DEF VersionInv, VersionKept
    <3> QED BY <2>0, <3>4, AppliedFrame DEF data
  <2>6. RunsInOrder'
    <3>1. version' = IF boot'.from = 0 THEN {} ELSE {boot'.from}
      BY <2>0, <2>1, <2>2 DEF data
    <3> QED BY <2>1, <2>2, <2>3, <2>5, <3>1, Parts DEF RunsInOrder
  <2>7. RowsRemain'
    BY <2>2 DEF RowsRemain
  <2> QED BY <1>v, <2>4, <2>6, <2>7 DEF VersionInv
<1> QED BY <1>1, <1>2, <1>3, <1>4

LEMMA MigrateDataStep == ASSUME VersionInv, Shape', MigrateData PROVE VersionInv'
<1>0. /\ boot.at = "migrate data" /\ file /\ Shape
      /\ UNCHANGED <<file, users, controls, endpoints, settings, stacks>>
  BY DEF MigrateData, At, VersionInv, FreshIsEmpty
<1>1. CASE boot.from = Fresh
  <2>1. version' = {DBVersion} /\ boot'.at = "templates"
    BY <1>0, <1>1, GotoAt DEF MigrateData
  <2>2. EmptyDatabase
    BY <1>0, <1>1 DEF VersionInv, FreshIsEmpty
  <2>3. VersionTells'
    BY <1>0, <2>2, OwnersAssumption DEF EmptyDatabase, VersionTells
  <2>4. VersionKept' /\ FreshIsEmpty'
    BY <1>0, <2>1 DEF VersionKept, FreshIsEmpty
  <2> QED BY <2>1, <2>3, <2>4, Parts, Elsewhere DEF Points, Rest
<1>2. CASE boot.from # Fresh
  <2>1. UNCHANGED version
        /\ boot' = [boot EXCEPT !.from = IF version = {} THEN 0 ELSE CHOOSE v \in version : TRUE,
                                !.at = IF version = {DBVersion} THEN "templates" ELSE "migrate"]
    BY <1>2 DEF MigrateData
  <2>2. VersionTells' /\ VersionKept'
    BY <1>0, <2>1, TellsFrame
  <2>3. CASE version = {DBVersion}
    <3>1. boot'.at = "templates"
      BY <1>0, <2>1, <2>3 DEF Shape
    <3>2. FreshIsEmpty'
      BY <1>0, <3>1 DEF FreshIsEmpty
    <3> QED BY <2>1, <2>2, <2>3, <3>1, <3>2, Parts, Elsewhere DEF Points, Rest
  <2>4. CASE version # {DBVersion}
    <3>1. boot'.at = "migrate" /\ boot'.from = IF version = {} THEN 0 ELSE CHOOSE v \in version : TRUE
      BY <1>0, <2>1, <2>4 DEF Shape
    <3>2. FreshIsEmpty' /\ RowsRemain'
      BY <1>0, <3>1 DEF FreshIsEmpty, RowsRemain
    <3>3. boot'.from \in 0..13 /\ version = IF boot'.from = 0 THEN {} ELSE {boot'.from}
      <4>1. CASE version = {}
        BY <3>1, <4>1
      <4>2. ASSUME NEW n \in 1..14, version = {n} PROVE boot'.from = n /\ n \in 1..13
        BY <2>4, <3>1, <4>2 DEF DBVersion
      <4>3. version = {} \/ \E n \in 1..14 : version = {n}
        BY <1>0 DEF Shape, DBVersion
      <4> QED BY <4>1, <4>2, <4>3
    <3>4. RunsInOrder'
      BY <2>1, <3>1, <3>3, Parts DEF RunsInOrder
    <3> QED BY <2>2, <3>2, <3>4 DEF VersionInv
  <2> QED BY <2>3, <2>4
<1> QED BY <1>1, <1>2

LEMMA AfterStep ==
  ASSUME VersionInv, Shape',
         \/ StoreDBVersion \/ InitTemplates \/ CreateTemplate \/ InitSettings
         \/ InitEndpoint \/ InitAdmin
  PROVE  VersionInv'
<1>f. FreshIsEmpty /\ Shape /\ RunsInOrder
  BY DEF VersionInv
<1>g. \A point : Goto(point) => boot'.at = point
  BY <1>f, GotoAt
<1>1. CASE StoreDBVersion
  <2>1. /\ boot.at = "store version" /\ boot'.at = "templates" /\ version' = {DBVersion}
        /\ UNCHANGED <<file, users, controls, endpoints, settings, stacks>>
    BY <1>1, <1>g DEF StoreDBVersion, At
  <2>2. \A i \in Steps : Applied(i)
    BY <1>f, <2>1 DEF RunsInOrder
  <2>3. ~users.legacy
    BY <2>2, Table DEF Steps, Applied
  <2>4. stacks.old = {}
    BY <2>2, Table DEF Steps, Applied
  <2>5. \A k \in AdminOwned : controls[k] = 0
    BY <2>2, Table DEF Steps, Applied
  <2>6. SettingsSteps \subseteq settings
    <3>1. \A n \in SettingsSteps : \E i \in Steps : Migrations[i].what = "settings" /\ n = Migrations[i].below
      BY Table DEF SettingsSteps
    <3> QED BY <2>2, <3>1 DEF Applied
  <2>7. ASSUME NEW x \in Endpoints, endpoints[x] # None
        PROVE  \A i \in {3, 5, 9, 11, 12, 13} : Has(endpoints[x], Migrations[i].what)
    <3>1. \A i \in {3, 5, 9, 11, 12, 13} : i \in Steps /\ Migrations[i].what \in OnEndpoints
      BY Table DEF Steps, OnEndpoints
    <3> QED BY <2>2, <2>7, <3>1 DEF Applied, EndpointsHave
  <2>8. ASSUME NEW x \in Endpoints, endpoints[x] # None
        PROVE  /\ endpoints[x].fields = DOMAIN Since /\ endpoints[x].type # ""
               /\ endpoints[x].skip => endpoints[x].tls
               /\ endpoints[x].type = "agent" => endpoints[x].tls /\ endpoints[x].skip
    <3>1. endpoints[x] \in Endpoint
      BY <1>f, <2>8 DEF Shape
    <3>2. /\ Has(endpoints[x], "teams") /\ Has(endpoints[x], "tls") /\ Has(endpoints[x], "extensions")
          /\ Has(endpoints[x], "type") /\ Has(endpoints[x], "verify") /\ Has(endpoints[x], "tags")
      BY <2>7, <2>8, Table
    <3>3. {"teams", "tls", "extensions", "tags"} \subseteq endpoints[x].fields
      BY <3>2 DEF Has, Since
    <3>4. endpoints[x].fields = DOMAIN Since
      BY <3>1, <3>3 DEF Endpoint, Since
    <3>5. /\ endpoints[x].type # "" /\ (endpoints[x].skip => endpoints[x].tls)
          /\ endpoints[x].type = "agent" => endpoints[x].tls /\ endpoints[x].skip
      BY <3>2 DEF Has
    <3> QED BY <3>4, <3>5
  <2>9. VersionTells'
    BY <2>1, <2>3, <2>4, <2>5, <2>6, <2>8 DEF VersionTells
  <2>10. VersionKept' /\ FreshIsEmpty'
    BY <1>f, <2>1 DEF VersionKept, FreshIsEmpty
  <2> QED BY <2>1, <2>9, <2>10, Parts, Elsewhere DEF Points, Rest
<1>r. ASSUME boot.at \in Rest, boot'.at \in Rest, UNCHANGED <<file, version>>, VersionTells'
      PROVE  VersionInv'
  <2>1. file /\ version = {DBVersion}
    BY <1>f, <1>r, Parts DEF RunsInOrder, FreshIsEmpty, Shape
  <2>2. VersionKept' /\ FreshIsEmpty'
    BY <1>r, <2>1, Parts DEF VersionKept, FreshIsEmpty
  <2> QED BY <1>r, <2>1, <2>2, Parts, Elsewhere DEF Shape
<1>p. \A point \in {"templates", "import", "settings", "endpoint", "admin", "serving"} : point \in Rest
  BY DEF Rest
<1>2. CASE InitTemplates \/ CreateTemplate
  <2>1. /\ boot.at \in Rest /\ boot'.at \in Rest
        /\ UNCHANGED <<file, version, users, controls, endpoints, settings, stacks>>
    BY <1>2, <1>g, <1>p DEF InitTemplates, CreateTemplate, At, data
  <2> QED BY <1>r, <2>1, TellsFrame
<1>3. CASE InitSettings
  <2>1. /\ boot.at \in Rest /\ boot'.at \in Rest /\ settings' = IF settings = {} THEN {DBVersion} ELSE settings
        /\ UNCHANGED <<file, version, users, controls, endpoints, stacks>>
    BY <1>3, <1>g, <1>p DEF InitSettings, At
  <2>2. VersionTells'
    BY <2>1 DEF VersionInv, VersionTells
  <2> QED BY <1>r, <2>1, <2>2
<1>4. CASE InitEndpoint
  <2>1. /\ boot.at \in Rest /\ boot'.at \in Rest
        /\ UNCHANGED <<file, version, users, controls, settings, stacks>>
    BY <1>4, <1>g, <1>p DEF InitEndpoint, At
  <2>2. \A x \in Endpoints : endpoints'[x] = endpoints[x]
    BY <1>4, <1>f, PrimaryAssumption DEF InitEndpoint, Shape
  <2>3. VersionTells'
    BY <2>1, <2>2 DEF VersionInv, VersionTells
  <2> QED BY <1>r, <2>1, <2>3
<1>5. CASE InitAdmin
  <2>1. /\ boot.at \in Rest /\ boot'.at \in Rest /\ users'.legacy = users.legacy
        /\ UNCHANGED <<file, version, controls, endpoints, settings, stacks>>
    BY <1>5, <1>f, <1>g, <1>p DEF InitAdmin, At, Shape
  <2>2. VersionTells'
    BY <2>1 DEF VersionInv, VersionTells
  <2> QED BY <1>r, <2>1, <2>2
<1> QED BY <1>1, <1>2, <1>3, <1>4, <1>5

-----------------------------------------------------------------------------
(* The migrations.                                                         *)
LEMMA AtMigration ==
  ASSUME VersionInv, boot.at \in Bits
  PROVE  /\ boot.step \in Steps /\ What = Migrations[boot.step].what /\ Shape /\ RowsRemain
         /\ boot.step \in Nat /\ boot.from \in 0..13
         /\ \A i \in Steps : i < boot.step => Applied(i)
<1>1. boot.step \in Steps /\ (\A i \in Steps : i < boot.step => Applied(i)) /\ Shape /\ RowsRemain
  BY DEF VersionInv, RunsInOrder
<1>2. What = Migrations[boot.step].what
  BY DEF What
<1>3. boot.step \in Nat
  BY <1>1, Below
<1>4. boot.from \in 0..13
  BY Parts, Running
<1> QED BY <1>1, <1>2, <1>3, <1>4

LEMMA ReadStep ==
  ASSUME VersionInv, Shape', ReadRows
  PROVE  VersionInv'
<1>1. /\ boot.at \in Bits /\ UNCHANGED <<file, data>>
      /\ boot' = [boot EXCEPT !.at = "write", !.todo = RowsToWrite]
  BY Parts DEF ReadRows, At
<1>2. /\ boot.step \in Steps /\ Shape /\ What = Migrations[boot.step].what
      /\ \A i \in Steps : i < boot.step => Applied(i)
  BY <1>1, AtMigration
<1>3. boot'.at = "write" /\ boot'.from = boot.from /\ boot'.step = boot.step /\ boot'.todo = RowsToWrite
  BY <1>1, <1>2 DEF Shape
<1>4. What' = What
  BY <1>3 DEF What
<1>5. What \in OnEndpoints => RowsToWrite = {x \in DOMAIN endpoints : endpoints[x] # None}
  BY DEF RowsToWrite, OnEndpoints
<1>6. What = "stacks" => RowsToWrite = stacks.old
  BY DEF RowsToWrite, OnEndpoints
<1>7. What = "admin" => RowsToWrite = IF users.legacy \/ users.admins > 0 THEN {"admin"} ELSE {}
  BY DEF RowsToWrite, OnEndpoints
<1>8. RowsRemain'
  <2>1. What \in OnEndpoints =>
          /\ boot'.todo \subseteq {x \in DOMAIN endpoints : endpoints[x] # None}
          /\ EndpointsHave(What, boot'.todo)
    BY <1>2, <1>3, <1>5 DEF EndpointsHave, Shape
  <2>2. What = "admin" /\ boot'.todo = {} => ~users.legacy
    BY <1>3, <1>7
  <2>3. What = "stacks" => stacks.old \subseteq boot'.todo
    BY <1>3, <1>6
  <2> QED BY <1>1, <1>3, <1>4, <2>1, <2>2, <2>3 DEF RowsRemain, data, EndpointsHave
<1>9. \A i \in Steps : i < boot.step => Applied(i)'
  BY <1>1, <1>2, AppliedFrame DEF data
<1>10. boot'.at \in Bits
  BY <1>3, Parts
<1> QED BY <1>1, <1>3, <1>8, <1>9, <1>10, RunStep DEF data

LEMMA NextStep ==
  ASSUME VersionInv, Shape', NextMigration
  PROVE  VersionInv'
<1>1. /\ boot.at = "write" /\ boot.at \in Bits /\ boot.todo = {} /\ What \notin {"settings", "prune"}
      /\ Proceed(boot.step + 1) /\ UNCHANGED <<file, data>>
  BY Parts DEF NextMigration, At
<1>2. /\ boot.step \in Steps /\ boot.step \in Nat /\ RowsRemain /\ What = Migrations[boot.step].what
      /\ \A i \in Steps : i < boot.step => Applied(i)
  BY <1>1, AtMigration
<1>3. Applied(boot.step)
  <2>1. What = "admin" => ~users.legacy
    BY <1>1, <1>2 DEF RowsRemain
  <2>2. What = "stacks" => stacks.old = {}
    BY <1>1, <1>2 DEF RowsRemain
  <2>3. What \in OnEndpoints => EndpointsHave(What, {})
    BY <1>1, <1>2 DEF RowsRemain
  <2> QED BY <1>1, <1>2, <2>1, <2>2, <2>3 DEF Applied
<1>4. \A i \in Steps : i <= boot.step => Applied(i)'
  <2>1. \A i \in Steps : i <= boot.step => i < boot.step \/ i = boot.step
    BY <1>2 DEF Steps
  <2> QED BY <1>1, <1>2, <1>3, <2>1, AppliedFrame DEF data
<1> QED BY <1>1, <1>4, AdvanceStep DEF data

LEMMA AdminStep ==
  ASSUME VersionInv, Shape', MoveAdmin \/ RemoveAdmin
  PROVE  VersionInv'
<1>1. CASE MoveAdmin
  <2>1. /\ boot.at = "write" /\ boot.at \in Bits /\ What = "admin" /\ Goto("remove admin")
        /\ users' = [users EXCEPT !.admins = @ + 1]
        /\ UNCHANGED <<file, version, controls, endpoints, settings, stacks>>
    BY <1>1, Parts DEF MoveAdmin, Writing, At
  <2>2. Shape /\ \A i \in Steps : i < boot.step => Applied(i)
    BY <2>1, AtMigration
  <2>3. /\ boot'.at = "remove admin" /\ boot'.from = boot.from /\ boot'.step = boot.step
        /\ users'.legacy = users.legacy
    <3>1. boot' = [at |-> "remove admin", from |-> boot.from, step |-> boot.step,
                   todo |-> boot.todo, stack |-> boot.stack, id |-> boot.id]
      BY <2>1, <2>2, GotoEffect
    <3> QED BY <2>1, <2>2, <3>1 DEF Shape
  <2>4. RowsRemain'
    BY <2>1, <2>3 DEF RowsRemain, What
  <2>5. \A i \in Steps : i < boot.step => Applied(i)'
    BY <2>1, <2>2, <2>3 DEF Applied, EndpointsHave
  <2>6. boot'.at \in Bits
    BY <2>3, Parts
  <2> QED BY <2>1, <2>3, <2>4, <2>5, <2>6, RunStep
<1>2. CASE RemoveAdmin
  <2>1. /\ boot.at = "remove admin" /\ boot.at \in Bits /\ Proceed(boot.step + 1)
        /\ users' = [users EXCEPT !.legacy = FALSE]
        /\ UNCHANGED <<file, version, controls, endpoints, settings, stacks>>
    BY <1>2, Parts DEF RemoveAdmin, At
  <2>2. /\ boot.step \in Steps /\ Shape /\ What = Migrations[boot.step].what /\ What = "admin"
        /\ \A i \in Steps : i < boot.step => Applied(i)
    BY <2>1, AtMigration DEF RowsRemain
  <2>3. ~users'.legacy
    BY <2>1, <2>2 DEF Shape
  <2>4. \A i \in Steps : i <= boot.step => Applied(i)'
    <3>1. \A i \in Steps : i <= boot.step => i = 1
      <4>1. PICK j \in Steps : j = boot.step
        BY <2>2
      <4>2. j = 1
        BY <2>2, <4>1, Whats
      <4> QED BY <4>1, <4>2 DEF Steps
    <3>2. Migrations[1].what = "admin"
      BY Table
    <3>3. Applied(1)'
      BY <2>3, <3>2 DEF Applied, OnEndpoints
    <3> QED BY <3>1, <3>3
  <2> QED BY <2>1, <2>4, AdvanceStep
<1> QED BY <1>1, <1>2

LEMMA ControlStep ==
  ASSUME VersionInv, Shape', MoveControl \/ PruneControl
  PROVE  VersionInv'
<1>1. /\ boot.at = "write" /\ boot.at \in Bits /\ What \in {"controls", "prune"}
      /\ UNCHANGED <<file, version, users, endpoints, settings, stacks>>
  BY Parts DEF MoveControl, PruneControl, Writing, At
<1>2. /\ boot.step \in Steps /\ Shape /\ RowsRemain /\ What = Migrations[boot.step].what
      /\ boot.step \in Nat /\ \A i \in Steps : i < boot.step => Applied(i)
  BY <1>1, AtMigration
<1>3. \A i \in Steps : i < boot.step => Applied(i)'
  <2>1. \A i \in Steps : i < boot.step => Migrations[i].what # "prune"
    <3>1. \A i \in Steps : i < boot.step => i # 16
      BY <1>2 DEF Steps
    <3> QED BY <3>1, Whats
  <2> QED BY <1>1, <1>2, <2>1 DEF Applied, EndpointsHave
<1>4. ASSUME NEW todo, boot' = [boot EXCEPT !.todo = todo] PROVE VersionInv'
  <2>1. /\ boot'.at = "write" /\ boot'.from = boot.from /\ boot'.step = boot.step
    BY <1>1, <1>2, <1>4 DEF Shape
  <2>2. What' = What /\ boot'.at \in Bits
    BY <1>1, <2>1 DEF What
  <2>3. RowsRemain'
    BY <1>1, <2>1, <2>2 DEF RowsRemain, OnEndpoints
  <2> QED BY <1>1, <1>3, <2>1, <2>2, <2>3, RunStep
<1>5. CASE MoveControl
  BY <1>4, <1>5 DEF MoveControl
<1>6. CASE PruneControl /\ UNCHANGED boot
  <2>1. What' = What /\ RowsRemain'
    BY <1>1, <1>6 DEF RowsRemain, OnEndpoints, What
  <2> QED BY <1>1, <1>3, <1>6, <2>1, RunStep
<1>7. CASE /\ What = "prune" /\ \A k \in AdminOwned : controls[k] = 0
           /\ Proceed(boot.step + 1) /\ UNCHANGED controls
  <2>1. \A i \in Steps : i <= boot.step => Applied(i)'
    <3>1. \A i \in Steps : i <= boot.step => i < boot.step \/ i = boot.step
      BY <1>2 DEF Steps
    <3>2. PICK j \in Steps : j = boot.step
      BY <1>2
    <3>3. Applied(j)'
      BY <1>1, <1>2, <1>7, <3>2 DEF Applied, OnEndpoints
    <3> QED BY <1>3, <3>1, <3>2, <3>3
  <2> QED BY <1>1, <1>7, <2>1, AdvanceStep
<1> QED BY <1>5, <1>6, <1>7 DEF PruneControl, Writing

LEMMA SettingsStep ==
  ASSUME VersionInv, Shape', MigrateSettings
  PROVE  VersionInv'
<1>1. /\ boot.at \in Bits /\ What = "settings" /\ Proceed(boot.step + 1)
      /\ settings' = settings \cup {Migrations[boot.step].below}
      /\ UNCHANGED <<file, version, users, controls, endpoints, stacks>>
  BY Parts DEF MigrateSettings, Writing, At
<1>2. /\ boot.step \in Steps /\ What = Migrations[boot.step].what
      /\ \A i \in Steps : i < boot.step => Applied(i)
  BY <1>1, AtMigration
<1>3. \A i \in Steps : i < boot.step => Applied(i)'
  BY <1>1, <1>2 DEF Applied, EndpointsHave
<1>4. PICK j \in Steps : j = boot.step
  BY <1>2
<1>5. Applied(j)'
  BY <1>1, <1>2, <1>4 DEF Applied, OnEndpoints
<1>6. \A i \in Steps : i <= boot.step => i < boot.step \/ i = boot.step
  BY <1>2 DEF Steps
<1>7. \A i \in Steps : i <= boot.step => Applied(i)'
  BY <1>3, <1>4, <1>5, <1>6
<1> QED BY <1>1, <1>7, AdvanceStep

(* A migration of the endpoints takes nothing that an earlier one wrote,   *)
(* and has written the endpoints that are not among its rows.              *)
LEMMA EndpointStep ==
  ASSUME VersionInv, Shape', MigrateEndpoint
  PROVE  VersionInv'
<1>1. /\ boot.at = "write" /\ boot.at \in Bits /\ What \in OnEndpoints
      /\ UNCHANGED <<file, version, users, controls, settings, stacks>>
  BY Parts DEF MigrateEndpoint, At
<1>2. PICK x \in boot.todo : /\ endpoints' = [endpoints EXCEPT ![x] = Migrated(@, What)]
                             /\ boot' = [boot EXCEPT !.todo = @ \ {x}]
  BY DEF MigrateEndpoint
<1>3. /\ boot.step \in Steps /\ Shape /\ RowsRemain /\ What = Migrations[boot.step].what
      /\ \A i \in Steps : i < boot.step => Applied(i)
  BY <1>1, AtMigration
<1>4. PICK w \in OnEndpoints : w = What
  BY <1>1
<1>5. /\ boot.todo \subseteq {y \in DOMAIN endpoints : endpoints[y] # None}
      /\ EndpointsHave(w, boot.todo)
  BY <1>1, <1>3, <1>4 DEF RowsRemain
<1>6. x \in Endpoints \cup {Primary} /\ endpoints[x] \in Endpoint
  BY <1>2, <1>3, <1>5 DEF Shape
<1>7. PICK e \in Endpoint : e = endpoints[x]
  BY <1>6
<1>8. PICK f : f = Migrated(e, w)
  OBVIOUS
<1>9. endpoints' = [endpoints EXCEPT ![x] = f]
  BY <1>2, <1>4, <1>7, <1>8
<1>10. Has(f, w)
  BY <1>8, MigratedHas
<1>11. ASSUME NEW y \in Endpoints, y # x PROVE endpoints'[y] = endpoints[y]
  BY <1>3, <1>9, <1>11 DEF Shape
<1>12. endpoints'[x] = f /\ endpoints[x] # None
  BY <1>2, <1>3, <1>5, <1>6, <1>9 DEF Shape
<1>13. ASSUME NEW i \in Steps, i < boot.step PROVE Applied(i)'
  <2>1. PICK earlier : earlier = Migrations[i].what
    OBVIOUS
  <2>2. Applied(i)
    BY <1>3, <1>13
  <2>3. ASSUME earlier \in OnEndpoints PROVE EndpointsHave(earlier, {})'
    <3>1. EndpointsHave(earlier, {})
      BY <2>1, <2>2, <2>3 DEF Applied
    <3>2. earlier = "verify" => w \in {"verify", "tags"}
      <4>1. PICK j \in Steps : j = boot.step
        BY <1>3
      <4>2. j \in {3, 5, 9, 10, 11, 12, 13}
        BY <1>3, <1>4, <4>1, Whats
      <4>3. earlier = "verify" => i = 12
        BY <2>1, Whats
      <4>4. earlier = "verify" => j = 13
        BY <1>13, <4>1, <4>2, <4>3
      <4> QED BY <1>3, <1>4, <4>1, <4>4, Table
    <3>3. ASSUME NEW y \in Endpoints, endpoints'[y] # None
          PROVE  Has(endpoints'[y], earlier)
      <4>1. CASE y = x
        <5>1. Has(e, earlier)
          BY <1>7, <1>12, <3>1, <3>3, <4>1 DEF EndpointsHave
        <5>2. Has(f, earlier)
          BY <1>8, <2>3, <3>2, <5>1, MigratedKeeps
        <5> QED BY <1>12, <4>1, <5>2
      <4>2. CASE y # x
        BY <1>11, <3>1, <3>3, <4>2 DEF EndpointsHave
      <4> QED BY <4>1, <4>2
    <3> QED BY <3>3 DEF EndpointsHave
  <2> QED BY <1>1, <2>1, <2>2, <2>3 DEF Applied
<1>14. boot'.at = "write" /\ boot'.from = boot.from /\ boot'.step = boot.step
       /\ boot'.todo = boot.todo \ {x}
  BY <1>1, <1>2, <1>3 DEF Shape
<1>15. RowsRemain'
  <2>1. What' = w /\ w \notin {"admin", "stacks"}
    BY <1>4, <1>14 DEF What, OnEndpoints
  <2>2. boot'.todo \subseteq {y \in DOMAIN endpoints' : endpoints'[y] # None}
    <3>1. DOMAIN endpoints' = DOMAIN endpoints
      BY <1>9
    <3>2. ASSUME NEW y \in boot.todo, y # x PROVE endpoints'[y] # None
      BY <1>5, <1>9, <3>2
    <3> QED BY <1>5, <1>14, <3>1, <3>2
  <2>3. PICK rows : rows = boot.todo \ {x}
    OBVIOUS
  <2>4. EndpointsHave(w, rows)'
    <3>1. ASSUME NEW y \in Endpoints \ rows, endpoints'[y] # None
          PROVE  Has(endpoints'[y], w)
      <4>1. CASE y = x
        BY <1>10, <1>12, <4>1
      <4>2. CASE y # x
        BY <1>5, <1>11, <2>3, <3>1, <4>2 DEF EndpointsHave
      <4> QED BY <4>1, <4>2
    <3> QED BY <3>1 DEF EndpointsHave
  <2> QED BY <1>14, <2>1, <2>2, <2>3, <2>4 DEF RowsRemain, EndpointsHave
<1>16. boot'.at \in Bits
  BY <1>14, Parts
<1> QED BY <1>1, <1>13, <1>14, <1>15, <1>16, RunStep

(* The conversion of stacks: nothing but the rows not yet converted is     *)
(* left of the old form.                                                   *)
LEMMA StackStep ==
  ASSUME VersionInv, Shape', RenameFolder \/ RemoveStack \/ CreateStack
  PROVE  VersionInv'
<1>1. /\ boot.at \in Bits /\ UNCHANGED <<file, version, users, controls, endpoints, settings>>
      /\ boot.at \in {"write", "remove stack", "create stack"}
  BY Parts DEF RenameFolder, RemoveStack, CreateStack, Writing, At
<1>2. /\ boot.step \in Steps /\ Shape /\ RowsRemain
      /\ \A i \in Steps : i < boot.step => Applied(i)
  BY <1>1, AtMigration
<1>3. What = "stacks"
  BY <1>2 DEF RenameFolder, RemoveStack, CreateStack, Writing, At, RowsRemain
<1>4. "stacks" \notin OnEndpoints
  BY DEF OnEndpoints
<1>5. ASSUME stacks'.old \subseteq stacks.old, boot'.at \in Bits, boot'.from = boot.from,
             boot'.step = boot.step, What' = What => RowsRemain'
      PROVE  VersionInv'
  <2>1. \A i \in Steps : i < boot.step => Applied(i)'
    BY <1>1, <1>2, <1>5 DEF Applied, EndpointsHave
  <2>2. What' = What
    BY <1>5 DEF What
  <2> QED BY <1>1, <1>5, <2>1, <2>2, RunStep
<1>6. CASE RenameFolder
  <2>1. boot.at = "write" /\ UNCHANGED stacks
    BY <1>6 DEF RenameFolder, Writing, At
  <2>2. CASE boot' = Down
    <3>1. UNCHANGED folders
      BY <1>6, <2>2 DEF RenameFolder, Down
    <3>2. UNCHANGED <<file, data>>
      BY <1>6, <3>1 DEF RenameFolder, data
    <3>3. file
      BY <1>1, Parts, Running
    <3> QED BY <2>2, <3>2, <3>3, DownStep
  <2>3. CASE boot' # Down
    <3>1. PICK s \in boot.todo : boot' = [boot EXCEPT !.at = "remove stack", !.stack = s, !.id = stacks.seq + 1]
      BY <1>6, <2>3 DEF RenameFolder
    <3>2. /\ boot'.at = "remove stack" /\ boot'.from = boot.from /\ boot'.step = boot.step
          /\ boot'.todo = boot.todo
      BY <1>2, <3>1 DEF Shape
    <3>3. What' = What => RowsRemain'
      BY <1>2, <1>3, <2>1, <3>2 DEF RowsRemain
    <3> QED BY <1>5, <2>1, <3>2, <3>3, Parts
  <2> QED BY <2>2, <2>3
<1>7. CASE RemoveStack
  <2>1. /\ boot.at = "remove stack" /\ Goto("create stack")
        /\ stacks' = [stacks EXCEPT !.old = @ \ {boot.stack}]
    BY <1>7 DEF RemoveStack, At
  <2>2. boot' = [at |-> "create stack", from |-> boot.from, step |-> boot.step,
                 todo |-> boot.todo, stack |-> boot.stack, id |-> boot.id]
    BY <1>2, <2>1, GotoEffect
  <2>3. stacks'.old = stacks.old \ {boot.stack}
    BY <1>2, <2>1 DEF Shape
  <2>4. What' = What => RowsRemain'
    BY <1>2, <1>3, <2>1, <2>2, <2>3 DEF RowsRemain
  <2> QED BY <1>5, <2>2, <2>3, <2>4, Parts
<1>8. CASE CreateStack
  <2>1. /\ boot.at = "create stack" /\ stacks' = Stored(boot.stack, boot.id)
        /\ boot' = [boot EXCEPT !.at = "write", !.todo = @ \ {boot.stack}, !.stack = None, !.id = 0]
    BY <1>8 DEF CreateStack, At
  <2>2. /\ boot'.at = "write" /\ boot'.from = boot.from /\ boot'.step = boot.step
        /\ boot'.todo = boot.todo \ {boot.stack}
    BY <1>2, <2>1 DEF Shape
  <2>3. stacks'.old = stacks.old
    BY <1>2, <2>1 DEF Shape, Stored
  <2>4. What' = What => RowsRemain'
    BY <1>2, <1>3, <1>4, <2>1, <2>2, <2>3 DEF RowsRemain
  <2> QED BY <1>5, <2>2, <2>3, <2>4, Parts
<1> QED BY <1>6, <1>7, <1>8

LEMMA StopStep ==
  ASSUME VersionInv, Shape', ReadFails \/ Crash
  PROVE  VersionInv'
<1>1. boot' = Down /\ UNCHANGED <<file, data>>
  BY DEF ReadFails, Crash
<1>2. ~file => boot.at \in {"down", "open"}
  BY DEF VersionInv, FreshIsEmpty
<1> QED BY <1>1, <1>2, DownStep

LEMMA VersionInit == Init => VersionInv
<1> SUFFICES ASSUME Init PROVE VersionInv
  OBVIOUS
<1>1. boot = Down /\ boot.at = "down"
  BY DEF Init, Down
<1>2. RunsInOrder /\ RowsRemain
  <2>1. boot.at \notin Bits \cup Migrating \cup Rest
    BY <1>1, Parts
  <2> QED BY <1>1, <2>1 DEF RunsInOrder, RowsRemain
<1>3. boot = [at |-> boot.at, from |-> boot.from, step |-> boot.step, todo |-> boot.todo,
              stack |-> boot.stack, id |-> boot.id] /\ boot.at \in Points
  BY <1>1 DEF Down, Points
<1>4. CASE origin = Fresh
  <2>1. Nothing /\ ~file /\ file \in BOOLEAN
    BY <1>4 DEF Init
  <2>2. Shape
    BY <1>3, <2>1 DEF Shape, Nothing
  <2>3. EmptyDatabase
    BY <2>1 DEF EmptyDatabase, Nothing
  <2>4. VersionKept /\ VersionTells
    BY <2>1 DEF VersionKept, VersionTells, Nothing
  <2> QED BY <1>1, <1>2, <2>1, <2>2, <2>3, <2>4 DEF VersionInv, FreshIsEmpty
<1>5. CASE origin # Fresh
  <2>1. PICK v \in 0..14 : v = origin
    BY <1>5, OriginsAssumption DEF Init
  <2>2. Left(v) /\ file
    BY <1>5, <2>1 DEF Init
  <2>3. PICK e \in Endpoint : /\ LeftEndpoint(e, v)
                              /\ endpoints = [x \in Endpoints \cup {Primary} |-> IF x = Primary THEN None ELSE e]
    BY <2>2 DEF Left
  <2>4. /\ version = IF v = 0 THEN {} ELSE {v}
        /\ users \in [legacy : {TRUE, FALSE} \cap {v = 0, FALSE}, admins : {IF v = 0 THEN 0 ELSE 1}]
        /\ controls = [k \in Controls |-> IF v < 2 \/ (v >= 14 /\ k \in AdminOwned) THEN 0 ELSE 1]
        /\ settings = {n \in SettingsSteps : n <= v}
        /\ stacks = [old |-> HadStacks(v), rows |-> [id \in StackIDs |-> None], seq |-> 0]
    BY <2>2 DEF Left
  <2>5. Shape
    <3>1. version \in {{}} \cup {{n} : n \in 1..DBVersion}
      BY <2>4 DEF DBVersion
    <3>2. endpoints \in [Endpoints \cup {Primary} -> Endpoint \cup {None}]
      BY <2>3
    <3>3. users = [legacy |-> users.legacy, admins |-> users.admins]
      BY <2>4
    <3> QED BY <1>3, <2>2, <2>4, <3>1, <3>2, <3>3 DEF Shape
  <2>6. FreshIsEmpty
    BY <1>1, <2>2 DEF FreshIsEmpty
  <2>7. \A x \in Endpoints : endpoints[x] = e
    BY <2>3, PrimaryAssumption
  <2>8. v # 0 => ~users.legacy
    BY <2>4
  <2>9. SettingsSteps = {3, 5, 6, 7, 13}
    <3>1. {j \in DOMAIN Migrations : Migrations[j].what = "settings"} = {4, 6, 7, 8, 15}
      BY Table, Whats DEF Steps
    <3>2. SettingsSteps = {Migrations[i].below : i \in {4, 6, 7, 8, 15}}
      BY <3>1 DEF SettingsSteps
    <3> QED BY <3>2, Table
  <2>e. /\ DOMAIN Since = {"teams", "tls", "extensions", "tags"}
        /\ Since["teams"] = 2 /\ Since["tls"] = 4 /\ Since["extensions"] = 8 /\ Since["tags"] = 12
    BY DEF Since
  <2>f. /\ v \in Nat /\ e.fields = {f \in DOMAIN Since : Since[f] <= v}
        /\ v >= 9 => e.group = 1
        /\ v >= 10 => e.type # ""
        /\ v >= 11 => (e.skip => e.tls) /\ (e.type = "agent" => e.tls /\ e.skip)
    <3>1. v \in Nat /\ (v >= 9 => ~(v < 9)) /\ (v >= 10 => ~(v < 10))
      BY <2>1
    <3>2. v >= 9 => e.group = 1
      BY <2>3, <3>1 DEF LeftEndpoint
    <3>3. v >= 10 => e.type # ""
      BY <2>3, <3>1, Zenon DEF LeftEndpoint
    <3>4. v >= 11 => (e.skip => e.tls) /\ (e.type = "agent" => e.tls /\ e.skip)
      BY <2>3, Zenon DEF LeftEndpoint
    <3> QED BY <2>3, <3>1, <3>2, <3>3, <3>4, Zenon DEF LeftEndpoint
  <2>10. ASSUME NEW i \in Steps, v # 0, Migrations[i].below <= v
         PROVE  Applied(i)
    <3>1. Migrations[i].what = "settings" => Migrations[i].below \in settings
      BY <2>4, <2>10, Table DEF SettingsSteps
    <3>2. Migrations[i].what = "stacks" => stacks.old = {}
      BY <2>4, <2>10, Table, Whats DEF HadStacks
    <3>3. Migrations[i].what = "prune" => \A k \in AdminOwned : controls[k] = 0
      BY <2>4, <2>10, Table, Whats, OwnersAssumption
    <3>4. Migrations[i].what \in OnEndpoints => Has(e, Migrations[i].what)
      <4>1. CASE i \in {3, 5, 9, 13}
        <5>1. PICK what \in DOMAIN Since : /\ what = Migrations[i].what
                                           /\ Migrations[i].below = Since[what]
          BY <2>e, <4>1, Table
        <5>2. what \in e.fields
          BY <2>10, <2>f, <5>1
        <5> QED BY <2>e, <5>1, <5>2 DEF Has
      <4>2. CASE i \in {10, 11, 12}
        <5>1. /\ Migrations[i].what \in {"group", "type", "verify"}
              /\ Migrations[i].what = "group" => v >= 9
              /\ Migrations[i].what = "type" => v >= 10
              /\ Migrations[i].what = "verify" => v >= 11
          <6>1. v \in Nat
            BY <2>1
          <6>2. \/ Migrations[i] = [below |-> 9,  what |-> "group"]
                \/ Migrations[i] = [below |-> 10, what |-> "type"]
                \/ Migrations[i] = [below |-> 11, what |-> "verify"]
            BY <4>2, Table
          <6> QED BY <2>10, <6>1, <6>2
        <5>2. Migrations[i].what \notin DOMAIN Since
          BY <2>e, <5>1
        <5> QED BY <2>f, <5>1, <5>2, Zenon DEF Has
      <4> QED BY <4>1, <4>2, Whats
    <3> QED BY <2>7, <2>8, <2>10, <3>1, <3>2, <3>3, <3>4 DEF Applied, EndpointsHave
  <2>11. VersionKept
    BY <2>4, <2>10 DEF VersionKept
  <2>12. VersionTells
    <3>1. SUFFICES ASSUME v = 14 PROVE VersionTells
      BY <2>4 DEF VersionTells, DBVersion
    <3>2. ~users.legacy /\ stacks.old = {} /\ \A k \in AdminOwned : controls[k] = 0
      BY <2>4, <2>8, <3>1, OwnersAssumption DEF HadStacks
    <3>3. SettingsSteps \subseteq settings
      BY <2>4, <2>9, <3>1
    <3>4. e.fields = DOMAIN Since
      <4>1. e.fields = {f \in DOMAIN Since : Since[f] <= v}
        BY <2>f, Zenon
      <4> QED BY <2>e, <3>1, <4>1
    <3>5. e.type # "" /\ (e.skip => e.tls) /\ (e.type = "agent" => e.tls /\ e.skip)
      <4>1. v >= 10 /\ v >= 11
        BY <3>1
      <4> QED BY <2>f, <4>1, Zenon
    <3> QED BY <2>7, <3>2, <3>3, <3>4, <3>5 DEF VersionTells
  <2> QED BY <1>2, <2>5, <2>6, <2>11, <2>12 DEF VersionInv
<1> QED BY <1>4, <1>5

LEMMA VersionStep == VersionInv /\ [Next]_vars => VersionInv'
<1> SUFFICES ASSUME VersionInv, [Next]_vars PROVE VersionInv'
  OBVIOUS
<1>1. Shape'
  BY ShapeStep DEF VersionInv
<1>2. CASE Next
  BY <1>1, <1>2, BeforeStep, MigrateDataStep, AfterStep, ReadStep, NextStep, AdminStep,
     ControlStep, SettingsStep, EndpointStep, StackStep, StopStep
  DEF Next, Boot
<1>3. CASE UNCHANGED vars
  <2>1. VersionTells' /\ VersionKept'
    BY <1>3, TellsFrame DEF vars, data
  <2>2. FreshIsEmpty'
    BY <1>3 DEF vars, data, VersionInv, FreshIsEmpty, EmptyDatabase
  <2>3. RunsInOrder'
    BY <1>3, AppliedFrame DEF vars, data, VersionInv, RunsInOrder
  <2>4. RowsRemain'
    BY <1>3 DEF vars, data, VersionInv, RowsRemain, EndpointsHave, What
  <2> QED BY <1>1, <2>1, <2>2, <2>3, <2>4 DEF VersionInv
<1> QED BY <1>2, <1>3

(* A database that says it has the present version is in the form of that  *)
(* version throughout, wherever the start of the server, with its          *)
(* migrations one after another, has been cut short, and however often.    *)
THEOREM VersionHolds == Spec => []VersionTells
<1>1. Init => VersionInv
  BY VersionInit
<1>2. VersionInv /\ [Next]_vars => VersionInv'
  BY VersionStep
<1>3. VersionInv => VersionTells
  BY DEF VersionInv
<1> QED BY <1>1, <1>2, <1>3, PTL DEF Spec

-----------------------------------------------------------------------------
(* What else holds of a start, from every version and however often it is  *)
(* cut short.                                                              *)
Early == {"down", "open", "init", "migrate data", "migrate"}
Present == version = {DBVersion}

(* The version stored is the first one or the present one.                 *)
OriginKept ==
  /\ origin \in Origins /\ crashes \in 0..MaxCrashes
  /\ origin # Fresh => file /\ (boot.at # "down" => boot.from # Fresh)
  /\ Present \/ version = IF origin \in {0, Fresh} THEN {} ELSE {origin}
  /\ boot.from \in 0..DBVersion \cup {Fresh}
  /\ groups \in BOOLEAN /\ buckets \in BOOLEAN /\ users.legacy \in BOOLEAN
  /\ origin \in {0, 1} => buckets
  /\ settings \subseteq SettingsSteps \cup {DBVersion}

(* Templates are imported all or not at all, but for a stop in between.    *)
TemplatesKept ==
  /\ templates \in 0..Templates
  /\ boot.at = "import" => templates < Templates
  /\ "templates" \notin cut =>
       /\ boot.at # "import" => templates \in {0, Templates}
       /\ boot.at \in {"settings", "endpoint", "admin", "serving"} => templates = Templates

(* There is a group before any migration, and endpoints are in it.         *)
GroupsKept ==
  /\ boot.at \notin {"down", "open", "init"} => groups
  /\ ~Present => endpoints[Primary] = None
  /\ Present => \A x \in DOMAIN endpoints : endpoints[x] # None => endpoints[x].group = 1

(* A new database without a version gets no further than the second        *)
(* migration, which cannot read the buckets of version 1.                  *)
NewIsEmpty ==
  origin = Fresh =>
    /\ \A k \in Controls : controls[k] = 0
    /\ ~buckets
    /\ ~Present =>
         /\ ~users.legacy /\ users.admins = 0
         /\ boot.at \in Early \cup {"read", "write"}
         /\ boot.at = "read" => boot.step \in {1, 2}
         /\ boot.at = "write" => boot.step = 1 /\ boot.todo = {}

(* What migrations of versions 0 and 1 create is created once in each start*)
(* that gets so far, so once unless a stop cut the migrations short.       *)
Repeats == IF "twice" \in cut THEN crashes ELSE 0
NoAdminYet ==
  /\ origin = 0 /\ ~Present
  /\ boot.at \in Early \/ (boot.at \in {"read", "write"} /\ boot.step = 1)
Unwritten(k) ==
  /\ origin \in {0, 1} /\ ~Present
  /\ \/ boot.at \in Early
     \/ boot.at \in Bits /\ boot.step = 1
     \/ boot.at = "read" /\ boot.step = 2
     \/ boot.at = "write" /\ boot.step = 2 /\ k \in boot.todo
Counted ==
  /\ users.admins \in Nat /\ users.admins <= Repeats + 1
  /\ NoAdminYet => users.admins <= Repeats
  /\ \A k \in Controls :
       /\ controls[k] \in Nat /\ controls[k] <= Repeats + 1
       /\ Unwritten(k) => controls[k] <= Repeats
       /\ ~Unwritten(k) /\ k \notin AdminOwned /\ origin # Fresh => controls[k] > 0

(* The conversion of stacks: not begun, under way with some stacks left,   *)
(* and done.                                                               *)
Unconverted ==
  /\ stacks.old = HadStacks(origin) /\ folders.old = HadStacks(origin) /\ stacks.seq = 0
  /\ \A i \in StackIDs : stacks.rows[i] = None /\ folders.new[i] = None
Converting(left) ==
  /\ stacks.seq + Cardinality(left) = Cardinality(HadStacks(origin))
  /\ \A i \in StackIDs : stacks.rows[i] = None <=> i > stacks.seq
  /\ \A i \in StackIDs : stacks.rows[i] \notin left
  /\ \A s \in HadStacks(origin) \ left : \E i \in StackIDs : stacks.rows[i] = s
  /\ \A i, j \in StackIDs : stacks.rows[i] = stacks.rows[j] /\ stacks.rows[i] # None => i = j
  /\ folders.old = IF boot.at = "write" THEN left ELSE left \ {boot.stack}
  /\ stacks.old = IF boot.at = "create stack" THEN left \ {boot.stack} ELSE left
  /\ boot.at # "write" => boot.stack \in left
  /\ \A i \in StackIDs : folders.new[i] =
       IF boot.at # "write" /\ i = boot.id THEN boot.stack ELSE stacks.rows[i]
Converted ==
  /\ folders.old = {}
  /\ \A s \in HadStacks(origin) : \E i \in StackIDs :
       stacks.rows[i] = s /\ \A j \in StackIDs : stacks.rows[j] = s => j = i
  /\ \A i \in StackIDs : folders.new[i] = stacks.rows[i]

BeforeStacks ==
  /\ ~Present
  /\ \/ boot.at \in Early
     \/ boot.at \in Bits /\ boot.step < 14
     \/ boot.at = "read" /\ boot.step = 14
AtStacks == boot.at \in {"write", "remove stack", "create stack"} /\ boot.step = 14
StacksTyped ==
  /\ stacks.old \subseteq HadStacks(origin)
  /\ stacks.rows \in [StackIDs -> Stacks \cup {None}]
  /\ stacks.seq \in {0} \cup StackIDs
  /\ folders = [old |-> folders.old, new |-> folders.new] /\ folders.old \subseteq Stacks
  /\ folders.new \in [StackIDs -> Stacks \cup {None}]
  /\ boot.at \in {"remove stack", "create stack"} =>
       boot.stack \in HadStacks(origin) /\ boot.id \in StackIDs /\ boot.id = stacks.seq + 1
  /\ AtStacks => boot.todo \subseteq HadStacks(origin)
  /\ HadStacks(origin) = {} => Unconverted
StacksKept ==
  /\ StacksTyped
  /\ "stacks" \notin cut =>
       /\ BeforeStacks => Unconverted
       /\ AtStacks => Converting(boot.todo)
       /\ ~BeforeStacks /\ ~AtStacks => Converted

StartInv ==
  OriginKept /\ TemplatesKept /\ GroupsKept /\ NewIsEmpty /\ Counted /\ StacksKept

-----------------------------------------------------------------------------
(* How each step moves the start.                                          *)
LEMMA EarlyMoves ==
  ASSUME VersionInv
  PROVE  /\ Launch => /\ boot.at = "down" /\ boot'.at = "open"
                      /\ boot'.from = (IF file THEN 0 ELSE Fresh) /\ UNCHANGED <<file, data, history>>
         /\ Open => /\ boot.at = "open" /\ boot'.at = "init" /\ boot'.from = boot.from
                    /\ file' = TRUE /\ UNCHANGED <<data, history>>
         /\ InitGroups => /\ boot.at = "init" /\ boot'.at = "migrate data" /\ boot'.from = boot.from
                          /\ groups' = (groups \/ ~groups)
<1>1. Shape
  BY DEF VersionInv
<1>2. \A point : Goto(point) => boot'.at = point /\ boot'.from = boot.from
  BY <1>1, GotoAt
<1> QED BY <1>1, <1>2 DEF Launch, Open, InitGroups, At, Down, NeedsGroup

(* The version found is the one that the database had at first.            *)
LEMMA MigrateDataMove ==
  ASSUME VersionInv, OriginKept, MigrateData
  PROVE  /\ boot.at = "migrate data" /\ boot'.from \in 0..DBVersion \cup {Fresh}
         /\ origin # Fresh => boot'.from # Fresh
         /\ \/ /\ EmptyDatabase /\ ~Present /\ origin = Fresh
               /\ version' = {DBVersion} /\ boot'.at = "templates"
            \/ /\ Present /\ UNCHANGED version /\ boot'.at = "templates"
            \/ /\ ~Present /\ UNCHANGED version /\ boot'.at = "migrate"
<1>1. Shape /\ boot.at = "migrate data" /\ FreshIsEmpty
  BY DEF VersionInv, MigrateData, At
<1>2. CASE boot.from = Fresh
  <2>1. version' = {DBVersion} /\ boot'.at = "templates" /\ boot'.from = boot.from
    BY <1>1, <1>2, GotoAt DEF MigrateData
  <2>2. EmptyDatabase /\ ~Present
    BY <1>1, <1>2 DEF FreshIsEmpty, EmptyDatabase, Present
  <2>3. origin = Fresh
    BY <1>1, <1>2 DEF OriginKept
  <2> QED BY <1>1, <2>1, <2>2, <2>3 DEF OriginKept
<1>3. CASE boot.from # Fresh
  <2>1. PICK v : v = IF version = {} THEN 0 ELSE CHOOSE n \in version : TRUE
    OBVIOUS
  <2>2. v \in 0..DBVersion
    <3>1. CASE version = {}
      BY <2>1, <3>1 DEF DBVersion
    <3>2. ASSUME NEW n \in 1..DBVersion, version = {n} PROVE v = n
      BY <2>1, <3>2
    <3>3. version = {} \/ \E n \in 1..DBVersion : version = {n}
      BY <1>1 DEF Shape
    <3>4. \A n \in 1..DBVersion : n \in 0..DBVersion
      BY DEF DBVersion
    <3> QED BY <3>1, <3>2, <3>3, <3>4
  <2>3. boot' = [boot EXCEPT !.from = v, !.at = IF version = {DBVersion} THEN "templates" ELSE "migrate"]
        /\ UNCHANGED version
    BY <1>3, <2>1 DEF MigrateData
  <2>4. v # Fresh
    BY <2>2, FreshIsNoVersion DEF DBVersion
  <2> QED BY <1>1, <2>2, <2>3, <2>4 DEF Shape, Present
<1> QED BY <1>2, <1>3

LEMMA FromOrigin ==
  ASSUME VersionInv, OriginKept, boot.at \in Migrating
  PROVE  /\ ~Present /\ boot.from \in 0..13 /\ file /\ boot.at \notin Rest
         /\ boot.from = (IF origin \in {0, Fresh} THEN 0 ELSE origin)
         /\ origin \in 0..13 \cup {Fresh}
<1>1. /\ DBVersion \notin version /\ boot.from \in 0..13 /\ file
      /\ version = IF boot.from = 0 THEN {} ELSE {boot.from}
  BY Running DEF VersionInv, RunsInOrder
<1>2. version = IF origin \in {0, Fresh} THEN {} ELSE {origin}
  BY <1>1 DEF OriginKept, Present
<1>3. boot.from = (IF origin \in {0, Fresh} THEN 0 ELSE origin)
  BY <1>1, <1>2
<1>4. origin \in 0..13 \cup {Fresh}
  BY <1>1, <1>3
<1> QED BY <1>1, <1>3, <1>4, Parts DEF Present

(* The first migration begins: of the first of those that are due.         *)
LEMMA MigrateMove ==
  ASSUME VersionInv, Migrate
  PROVE  /\ boot.at = "migrate" /\ boot.at \in Migrating /\ boot'.from = boot.from
         /\ boot'.at \in {"read", "store version"}
         /\ boot'.at = "read" => boot'.step \in Steps
         /\ \A k \in Steps : boot'.at = "store version" \/ k < boot'.step =>
              Migrations[k].below <= boot.from
         /\ UNCHANGED <<file, data, history>>
<1>1. boot.at = "migrate" /\ boot.at \in Migrating /\ Shape /\ Proceed(1) /\ UNCHANGED <<file, data, history>>
  BY Parts DEF Migrate, At, VersionInv
<1>2. boot.from \in 0..13 /\ 1 \in 1..17
  BY <1>1, Running
<1>3. \A k \in Steps : k >= 1
  BY DEF Steps
<1>4. /\ boot'.from = boot.from
      /\ \/ /\ boot'.at = "store version"
            /\ \A k \in Steps : k >= 1 => Migrations[k].below <= boot.from
         \/ /\ boot'.at = "read" /\ boot'.step \in Steps
            /\ \A k \in Steps : 1 <= k /\ k < boot'.step => Migrations[k].below <= boot.from
  BY <1>1, <1>2, ProceedEffect
<1> QED BY <1>1, <1>3, <1>4

LEMMA AdvanceMove ==
  ASSUME VersionInv, boot.at \in Bits, Proceed(boot.step + 1)
  PROVE  /\ boot'.from = boot.from /\ boot'.at \in {"read", "store version"}
         /\ boot'.at = "read" => boot'.step \in Steps /\ boot'.step > boot.step
         /\ \A k \in Steps : k > boot.step /\ (boot'.at = "store version" \/ k < boot'.step) =>
              Migrations[k].below <= boot.from
<1>1. boot.step \in Steps /\ boot.from \in 0..13 /\ Shape
  BY Parts DEF VersionInv, RunsInOrder
<1>2. PICK i \in 1..17 : i = boot.step + 1
  BY <1>1 DEF Steps
<1>3. /\ boot'.from = boot.from
      /\ \/ /\ boot'.at = "store version"
            /\ \A k \in Steps : k >= i => Migrations[k].below <= boot.from
         \/ /\ boot'.at = "read" /\ boot'.step \in Steps /\ boot'.step >= i
            /\ \A k \in Steps : i <= k /\ k < boot'.step => Migrations[k].below <= boot.from
  BY <1>1, <1>2, ProceedEffect
<1>4. \A k \in Steps : k > boot.step <=> k >= i
  BY <1>1, <1>2 DEF Steps
<1>5. boot'.at = "read" => boot'.step > boot.step
  BY <1>1, <1>2, <1>3 DEF Steps
<1> QED BY <1>3, <1>4, <1>5

(* Which migration writes what.                                            *)
LEMMA WhatIs ==
  ASSUME VersionInv, boot.at \in Bits
  PROVE  /\ boot.step \in Steps /\ boot.step \in Nat
         /\ What = "admin" <=> boot.step = 1
         /\ What = "controls" <=> boot.step = 2
         /\ What = "stacks" <=> boot.step = 14
         /\ What = "prune" <=> boot.step = 16
         /\ What = "settings" <=> boot.step \in {4, 6, 7, 8, 15}
         /\ What \in OnEndpoints <=> boot.step \in {3, 5, 9, 10, 11, 12, 13}
<1>1. boot.step \in Steps /\ boot.step \in Nat /\ What = Migrations[boot.step].what
  BY AtMigration
<1>2. PICK j \in Steps : j = boot.step
  BY <1>1
<1>3. /\ Migrations[1].what = "admin" /\ Migrations[2].what = "controls"
      /\ Migrations[14].what = "stacks" /\ Migrations[16].what = "prune"
  BY Table
<1>4. \A i \in {4, 6, 7, 8, 15} : Migrations[i].what = "settings"
  BY Table
<1>5. \A i \in {3, 5, 9, 10, 11, 12, 13} : Migrations[i].what \in OnEndpoints
  BY Table DEF OnEndpoints
<1>6. What = Migrations[j].what
  BY <1>1, <1>2
<1>7. /\ What = "admin" => j = 1
      /\ What = "controls" => j = 2
      /\ What = "stacks" => j = 14
      /\ What = "prune" => j = 16
      /\ What = "settings" => j \in {4, 6, 7, 8, 15}
      /\ What \in OnEndpoints => j \in {3, 5, 9, 10, 11, 12, 13}
  BY <1>6, Whats
<1> HIDE DEF What
<1> QED BY <1>1, <1>2, <1>3, <1>4, <1>5, <1>6, <1>7

Work ==
  \/ ReadRows \/ ReadFails \/ NextMigration \/ MoveAdmin \/ RemoveAdmin \/ MoveControl
  \/ MigrateEndpoint \/ MigrateSettings \/ RenameFolder \/ RemoveStack \/ CreateStack \/ PruneControl
Finish == InitTemplates \/ CreateTemplate \/ InitSettings \/ InitEndpoint \/ InitAdmin

LEMMA WorkMoves ==
  ASSUME VersionInv, Work
  PROVE  /\ boot.at \in Bits /\ boot.at \in Migrating /\ boot'.at \in Bits \cup {"store version", "down"}
         /\ UNCHANGED <<file, version, groups, buckets, templates, history>>
         /\ \/ boot'.from = boot.from
            \/ boot' = Down
<1>s. Shape
  BY DEF VersionInv
<1>g. \A point : Goto(point) => boot'.at = point /\ boot'.from = boot.from
  BY <1>s, GotoAt
<1>0. boot.at \in Bits /\ boot.at \in Migrating
  BY Parts DEF Work, ReadRows, ReadFails, NextMigration, MoveAdmin, RemoveAdmin, MoveControl,
     MigrateEndpoint, MigrateSettings, RenameFolder, RemoveStack, CreateStack, PruneControl, Writing, At
<1>1. UNCHANGED <<file, version, groups, buckets, templates, history>>
  BY DEF Work, ReadRows, ReadFails, NextMigration, MoveAdmin, RemoveAdmin, MoveControl,
     MigrateEndpoint, MigrateSettings, RenameFolder, RemoveStack, CreateStack, PruneControl, data
<1>2. Proceed(boot.step + 1) => boot'.at \in Bits \cup {"store version"} /\ boot'.from = boot.from
  BY <1>0, AdvanceMove, Parts
<1>3. boot' = Down => boot'.at = "down"
  BY DEF Down
<1>4. CASE ReadRows \/ MoveControl \/ MigrateEndpoint \/ CreateStack
  <2>1. boot'.at = "write" /\ boot'.from = boot.from
    BY <1>4, <1>s DEF ReadRows, MoveControl, MigrateEndpoint, CreateStack, Writing, At, Shape
  <2> QED BY <1>0, <1>1, <2>1, Parts
<1>5. CASE ReadFails
  BY <1>0, <1>1, <1>3, <1>5 DEF ReadFails
<1>6. CASE NextMigration \/ RemoveAdmin \/ MigrateSettings
  BY <1>0, <1>1, <1>2, <1>6 DEF NextMigration, RemoveAdmin, MigrateSettings
<1>7. CASE MoveAdmin \/ RemoveStack
  BY <1>0, <1>1, <1>g, <1>7, Parts DEF MoveAdmin, RemoveStack
<1>8. CASE RenameFolder
  <2>1. boot' = Down \/ (boot'.at = "remove stack" /\ boot'.from = boot.from)
    BY <1>s, <1>8 DEF RenameFolder, Shape
  <2> QED BY <1>0, <1>1, <1>3, <2>1, Parts
<1>9. CASE PruneControl
  <2>1. UNCHANGED boot \/ Proceed(boot.step + 1)
    BY <1>9 DEF PruneControl
  <2> QED BY <1>0, <1>1, <1>2, <2>1
<1> QED BY <1>4, <1>5, <1>6, <1>7, <1>8, <1>9 DEF Work

LEMMA FinishMoves ==
  ASSUME VersionInv, Finish
  PROVE  /\ boot.at \in Rest /\ boot'.at \in Rest /\ boot'.from = boot.from /\ Present
         /\ UNCHANGED <<file, version, groups, buckets, controls, stacks, folders, history>>
<1>s. Shape
  BY DEF VersionInv
<1>g. \A point : Goto(point) => boot'.at = point /\ boot'.from = boot.from
  BY <1>s, GotoAt
<1>1. \A point \in {"templates", "import", "settings", "endpoint", "admin", "serving"} : point \in Rest
  BY DEF Rest
<1>2. boot.at \in Rest /\ boot'.at \in Rest /\ boot'.from = boot.from
      /\ UNCHANGED <<file, version, groups, buckets, controls, stacks, folders, history>>
  BY <1>g, <1>1 DEF Finish, InitTemplates, CreateTemplate, InitSettings, InitEndpoint, InitAdmin,
     At, data
<1> QED BY <1>2 DEF VersionInv, RunsInOrder, Present

LEMMA StoreMove ==
  ASSUME VersionInv, StoreDBVersion
  PROVE  /\ boot.at = "store version" /\ boot.at \in Migrating /\ boot'.at = "templates"
         /\ boot'.from = boot.from /\ version' = {DBVersion}
         /\ UNCHANGED <<file, groups, users, buckets, controls, endpoints, settings, stacks,
                        folders, templates, history>>
BY Parts, GotoAt DEF StoreDBVersion, At, VersionInv

LEMMA AllSteps ==
  ASSUME Next
  PROVE  \/ Launch \/ Open \/ InitGroups \/ MigrateData \/ Migrate
         \/ Work \/ StoreDBVersion \/ Finish \/ Crash
BY DEF Next, Boot, Work, Finish

-----------------------------------------------------------------------------
(* The version, and what never changes.                                    *)
LEMMA OriginStep == ASSUME VersionInv, OriginKept, Next PROVE OriginKept'
<1>k. ASSUME UNCHANGED <<origin, buckets>>, file => file', crashes' \in 0..MaxCrashes,
             origin # Fresh /\ boot'.at # "down" => boot'.from # Fresh,
             version' = version \/ version' = {DBVersion},
             boot'.from \in 0..DBVersion \cup {Fresh}, groups' \in BOOLEAN,
             users'.legacy \in BOOLEAN, settings' \subseteq SettingsSteps \cup {DBVersion}
      PROVE  OriginKept'
  BY <1>k DEF OriginKept, Present
<1>t. /\ boot.from \in 0..DBVersion \cup {Fresh} /\ groups \in BOOLEAN /\ users.legacy \in BOOLEAN
      /\ settings \subseteq SettingsSteps \cup {DBVersion} /\ crashes \in 0..MaxCrashes /\ Shape
  BY DEF OriginKept, VersionInv
<1>f. origin # Fresh /\ boot.at # "down" => boot.from # Fresh
  BY DEF OriginKept
<1>d. Down.from \in 0..DBVersion \cup {Fresh}
  BY DEF Down
<1>1. CASE Launch
  <2>1. boot'.from = 0 \/ boot'.from = Fresh
    BY <1>1, EarlyMoves
  <2>2. 0 \in 0..DBVersion
    BY DEF DBVersion
  <2>3. boot'.from \in 0..DBVersion \cup {Fresh}
    BY <2>1, <2>2
  <2>4. origin # Fresh => boot'.from # Fresh
    <3>1. 0 # Fresh
      BY FreshIsNoVersion
    <3> QED BY <1>1, <3>1, EarlyMoves DEF OriginKept
  <2> QED BY <1>1, <1>k, <1>t, <2>3, <2>4, EarlyMoves DEF data, history
<1>2. CASE Open \/ InitGroups
  <2>1. boot'.from = boot.from /\ (file => file') /\ boot.at # "down"
        /\ UNCHANGED <<version, buckets, users, settings, history>>
    <3>1. CASE Open
      BY <3>1, EarlyMoves DEF data
    <3>2. CASE InitGroups
      BY <3>2, EarlyMoves DEF InitGroups
    <3> QED BY <1>2, <3>1, <3>2
  <2>2. groups' \in BOOLEAN
    <3>1. CASE Open
      BY <1>t, <3>1, EarlyMoves DEF data
    <3>2. CASE InitGroups
      BY <3>2, EarlyMoves
    <3> QED BY <1>2, <3>1, <3>2
  <2> QED BY <1>f, <1>k, <1>t, <2>1, <2>2 DEF history
<1>3. CASE MigrateData
  <2>1. /\ version' = version \/ version' = {DBVersion}
        /\ boot'.from \in 0..DBVersion \cup {Fresh}
        /\ origin # Fresh => boot'.from # Fresh
    BY <1>3, MigrateDataMove
  <2> QED BY <1>3, <1>k, <1>t, <2>1 DEF MigrateData, history
<1>4. CASE Migrate
  BY <1>4, <1>f, <1>k, <1>t, MigrateMove DEF data, history
<1>5. CASE Work
  <2>1. /\ UNCHANGED <<file, version, groups, buckets, history>>
        /\ boot'.from \in 0..DBVersion \cup {Fresh}
        /\ origin # Fresh /\ boot'.at # "down" => boot'.from # Fresh
    <3>1. boot.at # "down"
      BY <1>5, WorkMoves, Parts
    <3>2. Down.at = "down"
      BY DEF Down
    <3> QED BY <1>5, <1>f, <1>t, <1>d, <3>1, <3>2, WorkMoves
  <2>2. users'.legacy \in BOOLEAN
    <3>1. UNCHANGED users \/ users' = [users EXCEPT !.admins = @ + 1] \/ users' = [users EXCEPT !.legacy = FALSE]
      BY <1>5 DEF Work, ReadRows, ReadFails, NextMigration, MoveAdmin, RemoveAdmin, MoveControl,
         MigrateEndpoint, MigrateSettings, RenameFolder, RemoveStack, CreateStack, PruneControl, data
    <3>2. users = [legacy |-> users.legacy, admins |-> users.admins]
      BY <1>t DEF Shape
    <3>3. users'.legacy = users.legacy \/ users'.legacy = FALSE
      BY <3>1, <3>2
    <3> QED BY <1>t, <3>3
  <2>3. settings' \subseteq SettingsSteps \cup {DBVersion}
    <3>1. CASE MigrateSettings
      <4>1. boot.step \in Steps /\ What = "settings" /\ What = Migrations[boot.step].what
        BY <1>5, <3>1, WorkMoves, AtMigration DEF MigrateSettings, Writing
      <4>2. Migrations[boot.step].below \in SettingsSteps
        BY <4>1, Table DEF SettingsSteps
      <4> QED BY <1>t, <3>1, <4>2 DEF MigrateSettings
    <3>2. CASE ~MigrateSettings
      <4>1. UNCHANGED settings
        BY <1>5, <3>2 DEF Work, ReadRows, ReadFails, NextMigration, MoveAdmin, RemoveAdmin, MoveControl,
           MigrateEndpoint, RenameFolder, RemoveStack, CreateStack, PruneControl, data
      <4> QED BY <1>t, <4>1
    <3> QED BY <3>1, <3>2
  <2> QED BY <1>k, <1>t, <2>1, <2>2, <2>3 DEF history
<1>6. CASE StoreDBVersion
  BY <1>6, <1>f, <1>k, <1>t, StoreMove DEF history
<1>7. CASE Finish
  <2>1. UNCHANGED <<file, version, groups, buckets, history>> /\ boot'.from = boot.from
        /\ boot.at # "down"
    BY <1>7, FinishMoves, Parts
  <2>2. users'.legacy = users.legacy /\ settings' \in {settings, {DBVersion}}
    BY <1>7, <1>t DEF Finish, InitTemplates, CreateTemplate, InitSettings, InitEndpoint, InitAdmin,
       data, Shape
  <2> QED BY <1>f, <1>k, <1>t, <2>1, <2>2 DEF history
<1>8. CASE Crash
  <2>1. crashes' \in 0..MaxCrashes
    BY <1>8, <1>t, StartupBounds DEF Crash
  <2>2. boot'.at = "down"
    BY <1>8 DEF Crash, Down
  <2> QED BY <1>8, <1>d, <1>k, <1>t, <2>1, <2>2 DEF Crash, data
<1> QED BY <1>1, <1>2, <1>3, <1>4, <1>5, <1>6, <1>7, <1>8, AllSteps

-----------------------------------------------------------------------------
(* The templates.                                                          *)
LEMMA Cuts ==
  /\ "database" \in CutNow <=> Pending /\ origin = Fresh
  /\ "twice" \in CutNow <=> Pending /\ origin \in {0, 1}
  /\ "stacks" \in CutNow <=> Pending /\ folders.old # HadStacks(origin)
  /\ "templates" \in CutNow <=> templates \in 1..(Templates - 1)
BY DEF CutNow

LEMMA TemplatesStep == ASSUME VersionInv, OriginKept, TemplatesKept, Next PROVE TemplatesKept'
<1>s. Shape /\ templates \in 0..Templates /\ Templates \in Nat
  BY StartupBounds DEF VersionInv, TemplatesKept
<1>g. \A point : Goto(point) => boot'.at = point
  BY <1>s, GotoAt
<1>k. ASSUME UNCHANGED <<templates, cut>>, boot.at # "import",
             boot'.at \notin {"import", "settings", "endpoint", "admin", "serving"}
      PROVE  TemplatesKept'
  BY <1>k DEF TemplatesKept
<1>1. CASE Launch \/ Open \/ InitGroups
  <2>1. UNCHANGED <<templates, cut>> /\ boot.at # "import" /\ boot'.at \in {"open", "init", "migrate data"}
    BY <1>1, EarlyMoves DEF data, history, InitGroups
  <2> QED BY <1>k, <2>1
<1>2. CASE MigrateData
  <2>1. boot.at # "import" /\ boot'.at \in {"templates", "migrate"}
    BY <1>2, MigrateDataMove
  <2> QED BY <1>2, <1>k, <2>1 DEF MigrateData, history
<1>3. CASE Migrate
  <2>1. boot.at # "import" /\ boot'.at \in {"read", "store version"}
    BY <1>3, MigrateMove
  <2> QED BY <1>3, <1>k, <2>1, MigrateMove DEF data, history
<1>4. CASE Work
  <2>1. boot.at # "import" /\ boot'.at \notin {"import", "settings", "endpoint", "admin", "serving"}
    BY <1>4, WorkMoves DEF Bits
  <2> QED BY <1>4, <1>k, <2>1, WorkMoves DEF history
<1>5. CASE StoreDBVersion
  BY <1>5, <1>k, StoreMove DEF history
<1>6. CASE InitTemplates
  <2>1. boot.at = "templates" /\ UNCHANGED <<templates, cut>>
        /\ boot'.at = (IF ImportDue THEN "import" ELSE "settings")
    BY <1>6, <1>g DEF InitTemplates, At, data, history
  <2>2. "templates" \notin cut => templates = 0 \/ templates = Templates
    BY <2>1 DEF TemplatesKept
  <2> QED BY <1>s, <2>1, <2>2 DEF TemplatesKept, ImportDue
<1>7. CASE CreateTemplate
  <2>1. templates < Templates /\ templates' = templates + 1 /\ UNCHANGED cut /\ boot.at = "import"
    BY <1>7 DEF CreateTemplate, At, history, TemplatesKept
  <2>2. templates' \in 0..Templates
    BY <1>s, <2>1
  <2>3. CASE templates + 1 >= Templates
    <3>1. boot'.at = "settings" /\ templates' = Templates
      BY <1>7, <1>g, <1>s, <2>1, <2>3 DEF CreateTemplate, Imported
    <3> QED BY <2>1, <2>2, <3>1 DEF TemplatesKept
  <2>4. CASE ~(templates + 1 >= Templates)
    <3>1. boot'.at = "import" /\ templates' < Templates
      BY <1>7, <1>s, <2>1, <2>4 DEF CreateTemplate, Imported
    <3> QED BY <2>1, <2>2, <3>1 DEF TemplatesKept
  <2> QED BY <2>3, <2>4
<1>8. CASE InitSettings \/ InitEndpoint \/ InitAdmin
  <2>1. /\ boot.at \in {"settings", "endpoint", "admin"} /\ UNCHANGED <<templates, cut>>
        /\ boot'.at \in {"endpoint", "admin", "serving"}
    BY <1>8, <1>g DEF InitSettings, InitEndpoint, InitAdmin, At, history
  <2> QED BY <2>1 DEF TemplatesKept
<1>9. CASE Crash
  <2>1. boot'.at = "down" /\ UNCHANGED templates /\ cut' = cut \cup CutNow
    BY <1>9 DEF Crash, Down, data
  <2>2. "templates" \notin CutNow => templates = 0 \/ templates = Templates
    BY <1>s, Cuts
  <2> QED BY <1>s, <2>1, <2>2 DEF TemplatesKept
<1> QED BY <1>1, <1>2, <1>3, <1>4, <1>5, <1>6, <1>7, <1>8, <1>9, AllSteps DEF Finish

-----------------------------------------------------------------------------
(* The group.                                                              *)
LEMMA GroupsStep == ASSUME VersionInv, OriginKept, GroupsKept, Next, VersionInv' PROVE GroupsKept'
<1>s. Shape /\ groups \in BOOLEAN
  BY DEF VersionInv, OriginKept
<1>g. \A point : Goto(point) => boot'.at = point
  BY <1>s, GotoAt
<1>k. ASSUME UNCHANGED <<version, endpoints>> PROVE
        /\ ~Present' => endpoints'[Primary] = None
        /\ Present' => \A x \in DOMAIN endpoints' : endpoints'[x] # None => endpoints'[x].group = 1
  BY <1>k DEF GroupsKept, Present
<1>1. CASE Launch
  BY <1>1, <1>k, EarlyMoves DEF data, history, GroupsKept
<1>2. CASE Open
  BY <1>2, <1>k, EarlyMoves DEF data, history, GroupsKept
<1>3. CASE InitGroups
  <2>1. groups' /\ UNCHANGED <<version, endpoints>>
    BY <1>3, <1>s, EarlyMoves DEF InitGroups
  <2> QED BY <1>k, <2>1 DEF GroupsKept
<1>4. CASE MigrateData
  <2>1. boot.at = "migrate data" /\ UNCHANGED <<groups, endpoints>>
    BY <1>4, MigrateDataMove DEF MigrateData
  <2>2. groups'
    BY <2>1 DEF GroupsKept
  <2>3. CASE UNCHANGED version
    BY <1>k, <2>1, <2>2, <2>3 DEF GroupsKept
  <2>4. CASE ~UNCHANGED version
    <3>1. EmptyDatabase /\ ~Present /\ version' = {DBVersion}
      BY <1>4, <2>4, MigrateDataMove
    <3>2. \A x \in DOMAIN endpoints : endpoints[x] = None
      BY <1>s, <3>1 DEF EmptyDatabase, GroupsKept, Shape
    <3> QED BY <2>1, <2>2, <3>1, <3>2 DEF GroupsKept, Present
  <2> QED BY <2>3, <2>4
<1>5. CASE Migrate
  <2>1. boot.at = "migrate" /\ UNCHANGED <<groups, endpoints, version>>
    BY <1>5, MigrateMove DEF data
  <2> QED BY <1>k, <2>1 DEF GroupsKept
<1>6. CASE Work
  <2>1. boot.at \in Bits /\ UNCHANGED <<version, groups>> /\ ~Present /\ groups
    BY <1>6, WorkMoves, FromOrigin, Parts DEF GroupsKept
  <2>2. endpoints'[Primary] = endpoints[Primary]
    <3>1. CASE MigrateEndpoint
      <4>1. PICK x \in boot.todo : endpoints' = [endpoints EXCEPT ![x] = Migrated(@, What)]
        BY <3>1 DEF MigrateEndpoint
      <4>2. x # Primary
        <5>1. boot.todo \subseteq {y \in DOMAIN endpoints : endpoints[y] # None}
          BY <3>1 DEF VersionInv, RowsRemain, MigrateEndpoint, At
        <5> QED BY <2>1, <5>1 DEF GroupsKept
      <4> QED BY <1>s, <4>1, <4>2 DEF Shape
    <3>2. CASE ~MigrateEndpoint
      BY <1>6, <3>2 DEF Work, ReadRows, ReadFails, NextMigration, MoveAdmin, RemoveAdmin, MoveControl,
         MigrateSettings, RenameFolder, RemoveStack, CreateStack, PruneControl, data
    <3> QED BY <3>1, <3>2
  <2> QED BY <2>1, <2>2 DEF GroupsKept, Present
<1>7. CASE StoreDBVersion
  <2>1. ~Present /\ boot.at = "store version" /\ UNCHANGED <<groups, endpoints>> /\ version' = {DBVersion}
    BY <1>7, StoreMove, FromOrigin
  <2>2. endpoints[Primary] = None /\ groups
    BY <2>1 DEF GroupsKept
  <2>3. Applied(10)
    <3>1. \A i \in Steps : Applied(i)
      BY <2>1 DEF VersionInv, RunsInOrder
    <3>2. 10 \in Steps
      BY DEF Steps
    <3> QED BY <3>1, <3>2
  <2>4. EndpointsHave("group", {})
    BY <2>3, Table DEF Applied, OnEndpoints
  <2>5. \A x \in DOMAIN endpoints : endpoints[x] # None => endpoints[x].group = 1
    BY <1>s, <2>2, <2>4 DEF Shape, EndpointsHave, Has
  <2> QED BY <2>1, <2>2, <2>5 DEF GroupsKept, Present
<1>8. CASE Finish
  <2>1. Present /\ UNCHANGED <<version, groups>> /\ boot.at \in Rest
    BY <1>8, FinishMoves
  <2>2. groups
    BY <2>1, Parts DEF GroupsKept
  <2>3. \A x \in DOMAIN endpoints' : endpoints'[x] # None => endpoints'[x].group = 1
    <3>1. \A x \in DOMAIN endpoints : endpoints[x] # None => endpoints[x].group = 1
      BY <2>1 DEF GroupsKept
    <3>2. UNCHANGED endpoints
          \/ \E e \in Endpoint : e.group = 1 /\ endpoints' = [endpoints EXCEPT ![Primary] = e]
      BY <1>8 DEF Finish, InitTemplates, CreateTemplate, InitSettings, InitEndpoint, InitAdmin, data
    <3> QED BY <1>s, <3>1, <3>2 DEF Shape
  <2> QED BY <2>1, <2>2, <2>3 DEF GroupsKept, Present
<1>9. CASE Crash
  BY <1>9, <1>k DEF Crash, Down, data, GroupsKept
<1> QED BY <1>1, <1>2, <1>3, <1>4, <1>5, <1>6, <1>7, <1>8, <1>9, AllSteps

-----------------------------------------------------------------------------
(* A new database.                                                         *)
LEMMA Rows ==
  /\ What = "admin" => /\ RowsToWrite = (IF users.legacy \/ users.admins > 0 THEN {"admin"} ELSE {})
                       /\ Readable
  /\ What = "controls" => RowsToWrite = Controls /\ Readable = buckets
  /\ What = "stacks" => /\ RowsToWrite = stacks.old
                        /\ Readable = (\A i \in StackIDs : stacks.rows[i] = None)
BY DEF RowsToWrite, Readable, OnEndpoints

LEMMA NewIsEmptyStep == ASSUME VersionInv, OriginKept, NewIsEmpty, Next PROVE NewIsEmpty'
<1>s. Shape
  BY DEF VersionInv
<1> SUFFICES ASSUME origin' = Fresh PROVE NewIsEmpty'
  BY DEF NewIsEmpty
<1>o. origin = Fresh /\ origin' = origin
  <2>1. Launch \/ Open \/ InitGroups => UNCHANGED origin
    BY EarlyMoves DEF history, InitGroups
  <2>2. MigrateData \/ Crash => UNCHANGED origin
    BY DEF history, MigrateData, Crash
  <2>3. Migrate => UNCHANGED origin
    BY MigrateMove DEF history
  <2>4. Work => UNCHANGED origin
    BY WorkMoves DEF history
  <2>5. StoreDBVersion \/ Finish => UNCHANGED origin
    BY StoreMove, FinishMoves DEF history
  <2> QED BY <2>1, <2>2, <2>3, <2>4, <2>5, AllSteps
<1>n. (\A k \in Controls : controls[k] = 0) /\ ~buckets
  BY <1>o DEF NewIsEmpty
<1>e. ~Present => /\ ~users.legacy /\ users.admins = 0
                  /\ boot.at \in Early \cup {"read", "write"}
                  /\ boot.at = "read" => boot.step \in {1, 2}
                  /\ boot.at = "write" => boot.step = 1 /\ boot.todo = {}
  BY <1>o DEF NewIsEmpty
<1>p. ASSUME UNCHANGED <<controls, buckets>>, Present' PROVE NewIsEmpty'
  BY <1>n, <1>p DEF NewIsEmpty
<1>q. ASSUME UNCHANGED <<controls, buckets, version>>,
             ~Present => UNCHANGED users /\ boot'.at \in Early
      PROVE  NewIsEmpty'
  BY <1>n, <1>e, <1>q DEF NewIsEmpty, Present, Early
<1>1. CASE Launch \/ Open \/ InitGroups
  <2>1. UNCHANGED <<controls, buckets, version, users>> /\ boot'.at \in {"open", "init", "migrate data"}
    BY <1>1, EarlyMoves DEF data, InitGroups
  <2> QED BY <1>q, <2>1 DEF Early
<1>2. CASE MigrateData
  <2>1. UNCHANGED <<controls, buckets, users>>
    BY <1>2 DEF MigrateData
  <2> QED BY <1>2, <1>p, <1>q, <2>1, MigrateDataMove DEF Present, Early
<1>3. CASE Migrate
  <2>1. /\ boot.at \in Migrating /\ UNCHANGED <<controls, buckets, version, users>>
        /\ boot'.at \in {"read", "store version"}
        /\ boot'.at = "read" => boot'.step \in Steps
    BY <1>3, MigrateMove DEF data
  <2>2. ~Present /\ boot.from = 0
    BY <1>o, <2>1, FromOrigin
  <2>3. 1 \in Steps /\ ~(Migrations[1].below <= 0)
    BY Table DEF Steps
  <2>4. boot'.at # "store version" /\ ~(1 < boot'.step)
    BY <1>3, <2>2, <2>3, MigrateMove
  <2>5. boot'.at = "read" /\ boot'.step \in Steps
    BY <2>1, <2>4
  <2>6. boot'.step = 1
    BY <2>4, <2>5 DEF Steps
  <2> QED BY <1>n, <1>e, <2>1, <2>2, <2>5, <2>6 DEF NewIsEmpty, Present
<1>4. CASE Work
  <2>1. boot.at \in Bits /\ ~Present /\ boot.from = 0 /\ UNCHANGED <<version, buckets>>
    BY <1>o, <1>4, WorkMoves, FromOrigin
  <2>2. /\ ~users.legacy /\ users.admins = 0 /\ boot.at \in {"read", "write"}
        /\ boot.at = "read" => boot.step \in {1, 2}
        /\ boot.at = "write" => boot.step = 1 /\ boot.todo = {}
    BY <1>e, <2>1 DEF Bits, Early
  <2>3. /\ What = "admin" <=> boot.step = 1
        /\ What = "controls" <=> boot.step = 2
    BY <2>1, WhatIs
  <2>4. ReadRows \/ ReadFails \/ NextMigration
    <3> HIDE DEF What
    <3>1. boot.at = "write" => What = "admin" /\ boot.todo = {}
      BY <2>2, <2>3
    <3>2. {"controls", "settings", "stacks", "prune"} \cap {"admin"} = {} /\ "admin" \notin OnEndpoints
      BY DEF OnEndpoints
    <3> QED BY <1>4, <2>2, <3>1, <3>2 DEF Work, MoveAdmin, RemoveAdmin, MoveControl, MigrateEndpoint,
          MigrateSettings, RenameFolder, RemoveStack, CreateStack, PruneControl, Writing, At
  <2>5. UNCHANGED <<controls, users>>
    BY <2>4 DEF ReadRows, ReadFails, NextMigration, data
  <2>6. CASE ReadRows
    <3>1. boot.at = "read" /\ Readable /\ boot'.at = "write" /\ boot'.step = boot.step
          /\ boot'.todo = RowsToWrite
      BY <1>s, <2>6 DEF ReadRows, At, Shape
    <3>2. boot.step # 2
      BY <1>n, <2>3, <3>1, Rows
    <3>3. boot.step = 1 /\ What = "admin"
      BY <2>2, <2>3, <3>1, <3>2
    <3>4. ~(users.legacy \/ users.admins > 0)
      BY <2>2
    <3>5. RowsToWrite = {}
      BY <3>3, <3>4, Rows
    <3> QED BY <1>n, <2>1, <2>2, <2>5, <3>1, <3>3, <3>5 DEF NewIsEmpty, Present
  <2>7. CASE ReadFails
    BY <2>1, <2>5, <2>7, <1>q DEF ReadFails, Down, Early
  <2>8. CASE NextMigration
    <3>1. boot.step = 1 /\ Proceed(boot.step + 1)
      BY <2>2, <2>8 DEF NextMigration, At
    <3>2. /\ boot'.at \in {"read", "store version"}
          /\ boot'.at = "read" => boot'.step \in Steps /\ boot'.step > 1
          /\ \A k \in Steps : k > 1 /\ (boot'.at = "store version" \/ k < boot'.step) =>
               Migrations[k].below <= 0
      BY <2>1, <3>1, AdvanceMove
    <3>3. 2 \in Steps /\ ~(Migrations[2].below <= 0)
      BY Table DEF Steps
    <3>4. 2 > 1 /\ boot.step = 1
      BY <3>1
    <3>5. ~(boot'.at = "store version" \/ 2 < boot'.step)
      BY <3>2, <3>3, <3>4
    <3>6. boot'.at = "read" /\ boot'.step \in Steps /\ boot'.step > 1
      BY <3>2, <3>5
    <3>7. boot'.step = 2
      BY <3>5, <3>6 DEF Steps
    <3> QED BY <1>n, <2>1, <2>2, <2>5, <3>6, <3>7 DEF NewIsEmpty, Present
  <2> QED BY <2>4, <2>6, <2>7, <2>8
<1>5. CASE StoreDBVersion
  BY <1>5, <1>p, StoreMove DEF Present
<1>6. CASE Finish
  BY <1>6, <1>p, FinishMoves DEF Present
<1>7. CASE Crash
  BY <1>7, <1>q DEF Crash, Down, data, Early
<1> QED BY <1>1, <1>2, <1>3, <1>4, <1>5, <1>6, <1>7, AllSteps

-----------------------------------------------------------------------------
(* What is created, and how often.                                         *)
LEMMA CountedFrame ==
  ASSUME Counted, UNCHANGED <<users, controls, origin, cut, crashes>>, NoAdminYet' => NoAdminYet,
         \A k \in Controls : Unwritten(k)' <=> Unwritten(k)
  PROVE  Counted'
<1>1. Repeats' = Repeats
  BY DEF Repeats
<1> QED BY <1>1 DEF Counted

LEMMA CountedElsewhere ==
  ASSUME Counted, UNCHANGED <<users, controls, origin, cut, crashes>>, origin \notin {0, 1}
  PROVE  Counted'
<1>1. ~NoAdminYet' /\ \A k \in Controls : ~Unwritten(k) /\ ~Unwritten(k)'
  BY DEF NoAdminYet, Unwritten
<1> QED BY <1>1, CountedFrame

(* From version 0 or 1, the controls are to be written.                    *)
LEMMA ControlsDue ==
  ASSUME VersionInv, OriginKept, boot.at \in Migrating
  PROVE  /\ origin \in {0, 1} => boot.from = origin /\ ~(Migrations[2].below <= boot.from)
         /\ origin = 0 => ~(Migrations[1].below <= boot.from)
         /\ 1 \in Steps /\ 2 \in Steps
         /\ boot.at \in Bits /\ boot.step = 1 => origin \in {0, Fresh}
         /\ boot.at \in Bits /\ boot.step = 2 => origin \in {0, 1, Fresh}
<1>1. boot.from = (IF origin \in {0, Fresh} THEN 0 ELSE origin) /\ origin \in 0..13 \cup {Fresh}
  BY FromOrigin
<1>2. 0 # Fresh /\ 1 # Fresh
  BY FreshIsNoVersion
<1>3. origin \in {0, 1} => boot.from = origin
  BY <1>1, <1>2
<1>4. Migrations[1].below = 1 /\ Migrations[2].below = 2 /\ 1 \in Steps /\ 2 \in Steps
  BY Table DEF Steps
<1>5. boot.at \in Bits => boot.from < Migrations[boot.step].below
  BY DEF VersionInv, RunsInOrder
<1>6. boot.at \in Bits /\ boot.step = 1 => boot.from < 1
  BY <1>4, <1>5
<1>7. boot.at \in Bits /\ boot.step = 2 => boot.from < 2
  BY <1>4, <1>5
<1>8. origin # Fresh => boot.from = origin /\ origin \in 0..13
  BY <1>1, <1>3
<1> QED BY <1>3, <1>4, <1>6, <1>7, <1>8

(* Going on from a migration never passes the controls of version 1.       *)
LEMMA GoesToControls ==
  ASSUME VersionInv, OriginKept, boot.at \in Bits, boot.at # "read",
         boot.at = "write" /\ boot.step = 2 => boot.todo = {},
         Proceed(boot.step + 1), UNCHANGED <<version, origin>>
  PROVE  /\ ~NoAdminYet' /\ \A k \in Controls : Unwritten(k)' <=> Unwritten(k)
<1>1. boot.step \in Steps /\ boot.step \in Nat
  BY AtMigration
<1>2. /\ boot'.at \in {"read", "store version"}
      /\ boot'.at = "read" => boot'.step \in Steps /\ boot'.step > boot.step
      /\ \A k \in Steps : k > boot.step /\ (boot'.at = "store version" \/ k < boot'.step) =>
           Migrations[k].below <= boot.from
  BY AdvanceMove
<1>3. ~NoAdminYet'
  <2>1. boot'.at = "read" => boot'.step # 1
    BY <1>1, <1>2 DEF Steps
  <2> QED BY <1>2, <2>1 DEF NoAdminYet, Early
<1>4. CASE origin \notin {0, 1}
  BY <1>3, <1>4 DEF Unwritten
<1>5. CASE origin \in {0, 1} /\ boot.step = 1
  <2>1. ~(Migrations[2].below <= boot.from) /\ 2 \in Steps /\ ~Present
    BY <1>5, ControlsDue, FromOrigin, Parts
  <2>2. 2 > boot.step
    BY <1>5
  <2>3. ~(boot'.at = "store version" \/ 2 < boot'.step)
    BY <1>2, <2>1, <2>2
  <2>4. boot'.at = "read" /\ boot'.step \in Steps /\ boot'.step > 1
    BY <1>2, <1>5, <2>3
  <2>5. boot'.step = 2
    BY <2>3, <2>4 DEF Steps
  <2>6. \A k \in Controls : Unwritten(k) /\ Unwritten(k)'
    BY <1>5, <2>1, <2>4, <2>5 DEF Unwritten, Present
  <2> QED BY <1>3, <2>6
<1>6. CASE boot.step # 1
  <2>1. ASSUME NEW k \in Controls PROVE ~Unwritten(k)
    <3>1. boot.at \notin Early /\ boot.at # "read"
      BY DEF Early, Bits
    <3> QED BY <1>6, <3>1 DEF Unwritten
  <2>2. ASSUME NEW k \in Controls PROVE ~Unwritten(k)'
    <3>1. boot'.at \notin Early /\ boot'.at # "write"
      BY <1>2 DEF Early
    <3>2. boot'.at = "read" => boot'.step # 1 /\ boot'.step # 2
      BY <1>1, <1>2, <1>6 DEF Steps
    <3>3. boot'.at = "store version" => boot'.at \notin Bits
      BY DEF Bits
    <3> QED BY <1>2, <3>1, <3>2, <3>3 DEF Unwritten
  <2> QED BY <1>3, <2>1, <2>2
<1> QED BY <1>4, <1>5, <1>6

LEMMA CountedCrash == ASSUME VersionInv, OriginKept, Counted, Crash PROVE Counted'
<1>1. boot'.at = "down" /\ crashes' = crashes + 1 /\ cut' = cut \cup CutNow
      /\ UNCHANGED <<users, controls, origin, version>> /\ crashes \in Nat
  BY StartupBounds DEF Crash, Down, data, OriginKept
<1>2. Repeats \in Nat /\ Repeats' \in Nat /\ Repeats <= Repeats'
  BY <1>1 DEF Repeats
<1>3. CASE origin \in {0, 1} /\ ~Present
  <2>1. file /\ version # {DBVersion}
    BY <1>3, FreshIsNoVersion DEF OriginKept, Present
  <2>2. "twice" \in cut'
    BY <1>1, <1>3, <2>1, Cuts DEF Pending
  <2>3. Repeats + 1 <= Repeats'
    BY <1>1, <2>2 DEF Repeats
  <2>4. \A k \in Controls : Unwritten(k)'
    BY <1>1, <1>3 DEF Unwritten, Early, Present
  <2>5. users'.admins \in Nat /\ users'.admins <= Repeats'
    BY <1>1, <1>2, <2>3 DEF Counted
  <2>6. \A k \in Controls : controls'[k] \in Nat /\ controls'[k] <= Repeats'
    BY <1>1, <1>2, <2>3 DEF Counted
  <2>7. users'.admins <= Repeats' + 1 /\ \A k \in Controls : controls'[k] <= Repeats' + 1
    BY <1>2, <2>5, <2>6
  <2> QED BY <2>4, <2>5, <2>6, <2>7 DEF Counted
<1>4. CASE ~(origin \in {0, 1} /\ ~Present)
  <2>1. ~NoAdminYet' /\ \A k \in Controls : ~Unwritten(k) /\ ~Unwritten(k)'
    BY <1>1, <1>4 DEF NoAdminYet, Unwritten, Present
  <2>2. users'.admins \in Nat /\ users'.admins <= Repeats' + 1
    BY <1>1, <1>2 DEF Counted
  <2>3. \A k \in Controls : controls'[k] \in Nat /\ controls'[k] <= Repeats' + 1
    BY <1>1, <1>2 DEF Counted
  <2>4. \A k \in Controls : k \notin AdminOwned /\ origin' # Fresh => controls'[k] > 0
    BY <1>1, <2>1 DEF Counted
  <2> QED BY <2>1, <2>2, <2>3, <2>4 DEF Counted
<1> QED BY <1>3, <1>4

LEMMA CountedWork ==
  ASSUME VersionInv, OriginKept, NewIsEmpty, StacksTyped, Counted, Work
  PROVE  Counted'
<1>s. Shape
  BY DEF VersionInv
<1>b. /\ boot.at \in Bits /\ boot.at \in Migrating /\ ~Present
      /\ UNCHANGED <<version, origin, cut, crashes>> /\ ~Present'
  BY WorkMoves, FromOrigin DEF history, Present
<1>w. /\ boot.step \in Steps /\ boot.step \in Nat
      /\ What = "admin" <=> boot.step = 1
      /\ What = "controls" <=> boot.step = 2
      /\ What = "stacks" <=> boot.step = 14
      /\ What = "prune" <=> boot.step = 16
      /\ What = "settings" <=> boot.step \in {4, 6, 7, 8, 15}
      /\ What \in OnEndpoints <=> boot.step \in {3, 5, 9, 10, 11, 12, 13}
  BY <1>b, WhatIs
<1>r. Repeats' = Repeats /\ Repeats \in Nat
  BY <1>b, StartupBounds DEF Repeats, OriginKept
<1>d. origin \in {0, 1} => Unconverted /\ HadStacks(origin) = {}
  <2>1. ~(0 \in 8..11) /\ ~(1 \in 8..11)
    OBVIOUS
  <2>2. origin \in {0, 1} => HadStacks(origin) = {}
    BY <2>1 DEF HadStacks
  <2> QED BY <2>2 DEF StacksTyped
<1>e. \A p \in Bits : p \notin Early
  BY DEF Bits, Early
<1> HIDE DEF What
<1>1. CASE ReadRows
  <2>1. /\ boot.at = "read" /\ boot'.at = "write" /\ boot'.step = boot.step
        /\ boot'.todo = RowsToWrite /\ UNCHANGED <<users, controls>>
    BY <1>1, <1>s DEF ReadRows, At, Shape, data
  <2>2. boot.step = 2 => boot'.todo = Controls
    BY <1>w, <2>1, Rows
  <2>3. boot'.at \in Bits
    BY <2>1, Parts
  <2>4. NoAdminYet' => NoAdminYet
    BY <1>b, <2>1 DEF NoAdminYet, Early
  <2>5. ASSUME NEW k \in Controls PROVE Unwritten(k)' <=> Unwritten(k)
    BY <1>b, <1>e, <2>1, <2>2, <2>3 DEF Unwritten
  <2> QED BY <1>b, <2>1, <2>4, <2>5, CountedFrame
<1>2. CASE ReadFails
  <2>1. boot.at = "read" /\ ~Readable /\ UNCHANGED <<users, controls>>
    BY <1>2 DEF ReadFails, At, data
  <2>2. What = "controls" \/ What = "stacks"
    BY <2>1 DEF Readable
  <2>3. origin \notin {0, 1}
    <3>1. CASE What = "controls"
      BY <2>1, <3>1, Rows DEF OriginKept
    <3>2. CASE What = "stacks"
      <4>1. ~(\A i \in StackIDs : stacks.rows[i] = None)
        BY <2>1, <3>2, Rows
      <4> QED BY <1>d, <4>1 DEF Unconverted
    <3> QED BY <2>2, <3>1, <3>2
  <2> QED BY <1>b, <2>1, <2>3, CountedElsewhere
<1>3. CASE NextMigration \/ RemoveAdmin \/ MigrateSettings
  <2>1. /\ boot.at # "read" /\ Proceed(boot.step + 1) /\ UNCHANGED controls
        /\ users'.admins = users.admins
    BY <1>3, <1>s DEF NextMigration, RemoveAdmin, MigrateSettings, Writing, At, data, Shape
  <2>2. boot.at = "write" /\ boot.step = 2 => boot.todo = {}
    BY <1>3, <1>w DEF NextMigration, RemoveAdmin, MigrateSettings, Writing, At
  <2>3. ~NoAdminYet' /\ \A k \in Controls : Unwritten(k)' <=> Unwritten(k)
    BY <1>b, <2>1, <2>2, GoesToControls
  <2> QED BY <1>b, <1>r, <2>1, <2>3 DEF Counted
<1>4. CASE MoveAdmin
  <2>1. boot.at = "write" /\ boot.step = 1 /\ boot.todo # {}
    BY <1>4, <1>w DEF MoveAdmin, Writing, At
  <2>2. origin = 0
    BY <1>b, <2>1, ControlsDue DEF NewIsEmpty
  <2>3. users.admins <= Repeats /\ users.admins \in Nat
    BY <1>b, <2>1, <2>2 DEF Counted, NoAdminYet
  <2>4. users'.admins = users.admins + 1
    BY <1>4, <1>s DEF MoveAdmin, Shape
  <2>5. /\ boot'.at = "remove admin" /\ boot'.step = boot.step /\ UNCHANGED controls
    BY <1>4, <1>s DEF MoveAdmin, Goto, Shape
  <2>6. ~NoAdminYet' /\ \A k \in Controls : Unwritten(k) /\ Unwritten(k)'
    BY <1>b, <2>1, <2>2, <2>5, Parts DEF NoAdminYet, Unwritten, Early
  <2>7. users'.admins \in Nat /\ users'.admins <= Repeats' + 1
    BY <1>r, <2>3, <2>4
  <2> QED BY <1>b, <1>r, <2>5, <2>6, <2>7 DEF Counted
<1>5. CASE MoveControl
  <2>1. boot.at = "write" /\ boot.step = 2
    BY <1>5, <1>w DEF MoveControl, Writing, At
  <2>2. origin \in {0, 1}
    BY <1>b, <2>1, ControlsDue DEF NewIsEmpty
  <2>3. PICK k \in boot.todo : /\ controls' = [controls EXCEPT ![k] = @ + 1]
                               /\ boot' = [boot EXCEPT !.todo = @ \ {k}]
    BY <1>5 DEF MoveControl
  <2>4. /\ boot'.at = "write" /\ boot'.step = 2 /\ boot'.todo = boot.todo \ {k}
        /\ UNCHANGED users
    BY <1>5, <1>s, <2>1, <2>3 DEF MoveControl, Shape
  <2>5. ~NoAdminYet'
    BY <2>4 DEF NoAdminYet, Early
  <2>6. ASSUME NEW c \in Controls
        PROVE  /\ Unwritten(c) <=> c \in boot.todo
               /\ Unwritten(c)' <=> c \in boot.todo \ {k}
    <3>1. "write" \notin Early /\ "write" # "read" /\ 2 # 1
      BY DEF Early
    <3>2. Unwritten(c) <=> c \in boot.todo
      BY <1>b, <2>1, <2>2, <3>1 DEF Unwritten
    <3>3. Unwritten(c)' <=> c \in boot'.todo
      BY <1>b, <2>2, <2>4, <3>1 DEF Unwritten
    <3> QED BY <2>4, <3>2, <3>3
  <2>7. ASSUME NEW c \in Controls, c # k PROVE controls'[c] = controls[c]
    BY <1>s, <2>3, <2>7 DEF Shape
  <2>8. k \in Controls => controls'[k] = controls[k] + 1 /\ controls[k] \in Nat /\ controls[k] <= Repeats
    BY <1>s, <2>3, <2>6 DEF Shape, Counted
  <2>9. ASSUME NEW c \in Controls
        PROVE  /\ controls'[c] \in Nat /\ controls'[c] <= Repeats' + 1
               /\ Unwritten(c)' => controls'[c] <= Repeats'
               /\ ~Unwritten(c)' /\ c \notin AdminOwned /\ origin' # Fresh => controls'[c] > 0
    <3>1. CASE c = k
      <4>1. controls'[c] \in Nat /\ controls'[c] <= Repeats' + 1 /\ controls'[c] > 0
        BY <1>r, <2>8, <3>1
      <4> QED BY <2>6, <3>1, <4>1
    <3>2. CASE c # k
      <4>1. controls'[c] = controls[c] /\ (Unwritten(c)' <=> Unwritten(c))
        BY <2>6, <2>7, <3>2
      <4> QED BY <1>b, <1>r, <4>1 DEF Counted
    <3> QED BY <3>1, <3>2
  <2>10. users'.admins \in Nat /\ users'.admins <= Repeats' + 1
    BY <1>r, <2>4 DEF Counted
  <2> QED BY <2>5, <2>9, <2>10 DEF Counted
<1>6. CASE MigrateEndpoint \/ RemoveStack \/ CreateStack
  <2>1. boot'.at \in Bits /\ boot'.step = boot.step /\ UNCHANGED <<users, controls>>
        /\ boot'.at # "read"
    BY <1>6, <1>s DEF MigrateEndpoint, RemoveStack, CreateStack, Goto, Shape, Writing, At, Bits
  <2>2. boot.step # 1 /\ boot.step # 2 /\ boot.at # "read"
    <3>1. boot.at = "remove stack" \/ boot.at = "create stack" => What = "stacks"
      BY DEF VersionInv, RowsRemain
    <3>2. What = "stacks" \/ What \in OnEndpoints
      BY <1>6, <3>1 DEF MigrateEndpoint, RemoveStack, CreateStack, At
    <3>3. boot.at # "read"
      BY <1>6 DEF MigrateEndpoint, RemoveStack, CreateStack, At
    <3> QED BY <1>w, <3>2, <3>3
  <2>3. ~NoAdminYet' /\ \A k \in Controls : ~Unwritten(k) /\ ~Unwritten(k)'
    BY <1>b, <1>e, <2>1, <2>2 DEF NoAdminYet, Unwritten
  <2> QED BY <1>b, <2>1, <2>3, CountedFrame
<1>7. CASE RenameFolder
  <2>1. boot.at = "write" /\ boot.step = 14 /\ boot.todo # {} /\ UNCHANGED <<users, controls>>
    BY <1>7, <1>w DEF RenameFolder, Writing, At
  <2>2. boot.todo \subseteq HadStacks(origin)
    BY <2>1 DEF StacksTyped, AtStacks
  <2>3. origin \notin {0, 1}
    BY <1>d, <2>1, <2>2
  <2> QED BY <1>b, <2>1, <2>3, CountedElsewhere
<1>8. CASE PruneControl
  <2>1. boot.at = "write" /\ boot.step = 16 /\ UNCHANGED users
    BY <1>8, <1>w DEF PruneControl, Writing, At
  <2>2. ~NoAdminYet' /\ \A k \in Controls : ~Unwritten(k) /\ ~Unwritten(k)'
    <3>1. CASE UNCHANGED boot
      BY <1>b, <1>e, <2>1, <3>1 DEF NoAdminYet, Unwritten
    <3>2. CASE Proceed(boot.step + 1)
      <4>1. ~NoAdminYet' /\ \A k \in Controls : Unwritten(k)' <=> Unwritten(k)
        BY <1>b, <2>1, <3>2, GoesToControls
      <4> QED BY <1>b, <1>e, <2>1, <4>1 DEF Unwritten
    <3> QED BY <1>8, <3>1, <3>2 DEF PruneControl
  <2>3. ASSUME NEW k \in Controls
        PROVE  /\ controls'[k] \in Nat /\ controls'[k] <= Repeats' + 1
               /\ k \notin AdminOwned => controls'[k] = controls[k]
    <3>1. controls[k] \in Nat /\ controls[k] <= Repeats + 1
      BY DEF Counted
    <3>2. CASE UNCHANGED controls
      BY <1>r, <3>1, <3>2
    <3>3. CASE ~UNCHANGED controls
      <4>1. PICK o \in AdminOwned : controls[o] > 0 /\ controls' = [controls EXCEPT ![o] = @ - 1]
        BY <1>8, <3>3 DEF PruneControl
      <4>2. k # o => controls'[k] = controls[k]
        BY <1>s, <4>1 DEF Shape
      <4>3. k = o => controls'[k] = controls[k] - 1
        BY <1>s, <4>1 DEF Shape
      <4> QED BY <1>r, <3>1, <4>1, <4>2, <4>3
    <3> QED BY <3>2, <3>3
  <2>4. users'.admins \in Nat /\ users'.admins <= Repeats' + 1
    BY <1>r, <2>1 DEF Counted
  <2>5. \A k \in Controls : k \notin AdminOwned /\ origin' # Fresh => controls'[k] > 0
    BY <1>b, <2>2, <2>3 DEF Counted
  <2> QED BY <2>2, <2>3, <2>4, <2>5 DEF Counted
<1> QED BY <1>1, <1>2, <1>3, <1>4, <1>5, <1>6, <1>7, <1>8 DEF Work

LEMMA CountedStep ==
  ASSUME VersionInv, OriginKept, NewIsEmpty, StacksTyped, Counted, Next
  PROVE  Counted'
<1>s. Shape
  BY DEF VersionInv
<1>1. CASE Launch \/ Open \/ InitGroups
  <2>1. UNCHANGED <<users, controls, origin, cut, crashes, version>> /\ boot.at \in Early /\ boot'.at \in Early
    BY <1>1, EarlyMoves DEF data, history, InitGroups, Early
  <2>2. (NoAdminYet' => NoAdminYet) /\ \A k \in Controls : Unwritten(k)' <=> Unwritten(k)
    BY <2>1 DEF NoAdminYet, Unwritten, Present
  <2> QED BY <2>1, <2>2, CountedFrame
<1>2. CASE MigrateData
  <2>1. UNCHANGED <<users, controls, origin, cut, crashes>> /\ boot.at = "migrate data"
    BY <1>2, MigrateDataMove DEF MigrateData, history
  <2>2. CASE origin = Fresh
    <3>1. origin \notin {0, 1}
      BY <2>2, FreshIsNoVersion
    <3> QED BY <2>1, <3>1, CountedElsewhere
  <2>3. CASE origin # Fresh
    <3>1. UNCHANGED version /\ (Present \/ boot'.at = "migrate")
      BY <1>2, <2>3, MigrateDataMove
    <3>2. (NoAdminYet' => NoAdminYet) /\ \A k \in Controls : Unwritten(k)' <=> Unwritten(k)
      BY <2>1, <3>1 DEF NoAdminYet, Unwritten, Present, Early
    <3> QED BY <2>1, <3>2, CountedFrame
  <2> QED BY <2>2, <2>3
<1>3. CASE Migrate
  <2>1. /\ UNCHANGED <<users, controls, origin, cut, crashes, version>>
        /\ boot.at = "migrate" /\ boot.at \in Migrating
        /\ boot'.at \in {"read", "store version"}
        /\ boot'.at = "read" => boot'.step \in Steps
    BY <1>3, MigrateMove DEF data, history
  <2>2. CASE origin \notin {0, 1}
    BY <2>1, <2>2, CountedElsewhere
  <2>3. CASE origin \in {0, 1}
    <3>1. ~(Migrations[2].below <= boot.from) /\ 2 \in Steps /\ ~Present
      BY <2>1, <2>3, ControlsDue, FromOrigin
    <3>2. ~(boot'.at = "store version" \/ 2 < boot'.step)
      BY <1>3, <3>1, MigrateMove
    <3>3. boot'.at = "read" /\ boot'.step \in Steps
      BY <2>1, <3>2
    <3>4. boot'.step \in {1, 2}
      BY <3>2, <3>3 DEF Steps
    <3>5. boot.at \in Early /\ boot'.at \in Bits
      BY <2>1, <3>3, Parts DEF Early
    <3>6. \A k \in Controls : Unwritten(k) /\ Unwritten(k)'
      BY <2>1, <2>3, <3>1, <3>3, <3>4, <3>5 DEF Unwritten, Present
    <3>7. NoAdminYet' => NoAdminYet
      BY <2>1, <3>5 DEF NoAdminYet, Present
    <3> QED BY <2>1, <3>6, <3>7, CountedFrame
  <2> QED BY <2>2, <2>3
<1>4. CASE Work
  BY <1>4, CountedWork
<1>5. CASE StoreDBVersion
  <2>1. UNCHANGED <<users, controls, origin, cut, crashes>> /\ boot.at = "store version" /\ version' = {DBVersion}
    BY <1>5, StoreMove DEF history
  <2>2. boot.at \notin Bits /\ boot.at \notin Early
    BY <2>1 DEF Bits, Early
  <2>3. ~NoAdminYet' /\ \A k \in Controls : ~Unwritten(k) /\ ~Unwritten(k)'
    BY <2>1, <2>2 DEF NoAdminYet, Unwritten, Present
  <2> QED BY <2>1, <2>3, CountedFrame
<1>6. CASE Finish
  <2>1. UNCHANGED <<version, controls, origin, cut, crashes>> /\ Present
    BY <1>6, FinishMoves DEF history
  <2>2. ~NoAdminYet' /\ \A k \in Controls : ~Unwritten(k) /\ ~Unwritten(k)'
    BY <2>1 DEF NoAdminYet, Unwritten, Present
  <2>3. Repeats' = Repeats /\ Repeats \in Nat
    BY <2>1, StartupBounds DEF Repeats, OriginKept
  <2>4. users'.admins \in {1, users.admins}
    BY <1>6, <1>s DEF Finish, InitTemplates, CreateTemplate, InitSettings, InitEndpoint, InitAdmin,
       data, Shape
  <2>5. users'.admins \in Nat /\ users'.admins <= Repeats' + 1
    BY <2>3, <2>4 DEF Counted
  <2> QED BY <2>1, <2>2, <2>3, <2>5 DEF Counted
<1>7. CASE Crash
  BY <1>7, CountedCrash
<1> QED BY <1>1, <1>2, <1>3, <1>4, <1>5, <1>6, <1>7, AllSteps

-----------------------------------------------------------------------------
(* The conversion of stacks.                                               *)
LEMMA Had ==
  /\ HadStacks(origin) \subseteq Stacks /\ IsFiniteSet(HadStacks(origin))
  /\ Cardinality(HadStacks(origin)) \in Nat /\ Cardinality(Stacks) \in Nat
  /\ Cardinality(HadStacks(origin)) <= Cardinality(Stacks)
  /\ HadStacks(origin) # {} => origin \in 8..11
  /\ None \notin HadStacks(origin)
<1>1. HadStacks(origin) \subseteq Stacks
  BY DEF HadStacks
<1>2. IsFiniteSet(HadStacks(origin)) /\ Cardinality(HadStacks(origin)) <= Cardinality(Stacks)
  BY <1>1, StacksAssumption, FS_Subset
<1>3. Cardinality(HadStacks(origin)) \in Nat /\ Cardinality(Stacks) \in Nat
  BY <1>2, StacksAssumption, FS_CardinalityType
<1>4. HadStacks(origin) # {} => origin \in 8..11
  BY DEF HadStacks
<1> QED BY <1>1, <1>2, <1>3, <1>4, NoneAssumption

LEMMA IDs == \A i \in StackIDs : i \in Nat /\ i >= 1 /\ i <= Cardinality(Stacks)
BY Had DEF StackIDs

(* What the steps of a migration leave to the stacks.                      *)
LEMMA WorkKinds ==
  ASSUME VersionInv, Work
  PROVE  \/ /\ ReadRows /\ boot.at = "read" /\ boot'.at = "write" /\ boot'.step = boot.step
            /\ boot'.todo = RowsToWrite /\ Readable /\ UNCHANGED <<stacks, folders>>
         \/ RenameFolder \/ RemoveStack \/ CreateStack
         \/ /\ ReadFails /\ boot.at = "read" /\ ~Readable /\ boot'.at = "down"
            /\ UNCHANGED <<stacks, folders>>
         \/ /\ boot.at \in {"write", "remove admin"} /\ boot'.at \in {"write", "remove admin"}
            /\ boot'.step = boot.step /\ boot.step # 14 /\ UNCHANGED <<stacks, folders>>
         \/ /\ boot.at \in {"write", "remove admin"} /\ Proceed(boot.step + 1)
            /\ boot.step = 14 => boot.at = "write" /\ boot.todo = {}
            /\ UNCHANGED <<stacks, folders>>
<1>s. Shape
  BY DEF VersionInv
<1>b. boot.at \in Bits
  BY WorkMoves
<1>w. /\ What = "admin" <=> boot.step = 1
      /\ What = "controls" <=> boot.step = 2
      /\ What = "prune" <=> boot.step = 16
      /\ What = "settings" <=> boot.step \in {4, 6, 7, 8, 15}
      /\ What \in OnEndpoints <=> boot.step \in {3, 5, 9, 10, 11, 12, 13}
  BY <1>b, WhatIs
<1> HIDE DEF What
<1>1. CASE ReadRows
  BY <1>1, <1>s DEF ReadRows, At, Shape, data
<1>2. CASE ReadFails
  BY <1>2 DEF ReadFails, At, Down, data
<1>3. CASE MoveAdmin
  <2>1. /\ boot.at = "write" /\ boot'.at = "remove admin" /\ boot'.step = boot.step
        /\ What = "admin" /\ UNCHANGED <<stacks, folders>>
    BY <1>3, <1>s DEF MoveAdmin, Writing, At, Goto, Shape
  <2>2. boot.step = 1
    BY <1>w, <2>1
  <2>3. boot.step # 14
    BY <2>2
  <2> QED BY <2>1, <2>3
<1>4. CASE MoveControl \/ MigrateEndpoint
  <2>1. /\ boot.at = "write" /\ boot'.at = "write" /\ boot'.step = boot.step
        /\ What = "controls" \/ What \in OnEndpoints
        /\ UNCHANGED <<stacks, folders>>
    BY <1>4, <1>s DEF MoveControl, MigrateEndpoint, Writing, At, Shape
  <2> QED BY <1>w, <2>1
<1>5. CASE PruneControl
  <2>1. /\ boot.at = "write" /\ What = "prune" /\ UNCHANGED <<stacks, folders>>
        /\ UNCHANGED boot \/ Proceed(boot.step + 1)
    BY <1>5 DEF PruneControl, Writing, At
  <2>2. boot.step # 14
    BY <1>w, <2>1
  <2>3. UNCHANGED boot => boot'.at = boot.at /\ boot'.step = boot.step
    OBVIOUS
  <2> QED BY <2>1, <2>2, <2>3
<1>6. CASE RemoveAdmin
  <2>1. boot.at = "remove admin" /\ Proceed(boot.step + 1) /\ UNCHANGED <<stacks, folders>>
    BY <1>6 DEF RemoveAdmin, At
  <2>2. What = "admin"
    BY <2>1 DEF VersionInv, RowsRemain
  <2>3. boot.step # 14
    BY <1>w, <2>2
  <2> QED BY <2>1, <2>3
<1>7. CASE NextMigration
  BY <1>7 DEF NextMigration, At, data
<1>8. CASE MigrateSettings
  <2>1. /\ boot.at = "write" /\ What = "settings" /\ Proceed(boot.step + 1)
        /\ UNCHANGED <<stacks, folders>>
    BY <1>8 DEF MigrateSettings, Writing, At
  <2>2. boot.step # 14
    BY <1>w, <2>1
  <2> QED BY <2>1, <2>2
<1> QED BY <1>1, <1>2, <1>3, <1>4, <1>5, <1>6, <1>7, <1>8 DEF Work

(* Where there are no stacks, nothing happens to them.                     *)
LEMMA NoStacks ==
  ASSUME StacksTyped, HadStacks(origin) = {} PROVE StacksKept
<1>1. Unconverted
  BY DEF StacksTyped
<1>2. Converted
  BY <1>1 DEF Unconverted, Converted
<1>3. ASSUME AtStacks PROVE Converting(boot.todo)
  <2>1. boot.todo = {} /\ boot.at \notin {"remove stack", "create stack"}
    BY <1>3 DEF StacksTyped
  <2>2. boot.at = "write"
    BY <1>3, <2>1 DEF AtStacks
  <2>3. 0 + Cardinality({}) = Cardinality({}) /\ \A i \in StackIDs : i > 0
    BY FS_EmptySet, IDs
  <2> QED BY <1>1, <2>1, <2>2, <2>3 DEF Unconverted, Converting
<1> QED BY <1>1, <1>2, <1>3 DEF StacksKept

LEMMA StacksFrame ==
  ASSUME StacksTyped, UNCHANGED <<stacks, folders, origin>>,
         boot'.at \notin {"remove stack", "create stack"},
         boot'.at = "write" /\ boot'.step = 14 => boot'.todo \subseteq HadStacks(origin)
  PROVE  StacksTyped'
BY DEF StacksTyped, AtStacks, Unconverted

LEMMA StacksTypedStep ==
  ASSUME VersionInv, OriginKept, StacksTyped, Next
  PROVE  StacksTyped' /\ UNCHANGED origin
<1>s. Shape /\ RowsRemain
  BY DEF VersionInv
<1>k. ASSUME UNCHANGED <<stacks, folders, origin>>, boot'.at \notin Bits PROVE StacksTyped'
  BY <1>k, StacksFrame, Parts
<1>1. CASE Launch \/ Open \/ InitGroups
  BY <1>1, <1>k, EarlyMoves DEF data, history, InitGroups, Bits
<1>2. CASE MigrateData
  BY <1>2, <1>k, MigrateDataMove DEF MigrateData, history, Bits
<1>3. CASE Migrate
  BY <1>3, StacksFrame, MigrateMove DEF data, history
<1>4. CASE Work
  <2>1. UNCHANGED origin /\ boot.at \in Bits
    BY <1>4, WorkMoves DEF history
  <2>2. /\ What = "stacks" <=> boot.step = 14
        /\ boot.step \in Nat
    BY <2>1, WhatIs
  <2> HIDE DEF What
  <2>3. CASE ReadRows /\ boot'.at = "write" /\ boot'.step = boot.step
             /\ boot'.todo = RowsToWrite /\ UNCHANGED <<stacks, folders>>
    <3>1. boot.step = 14 => boot'.todo \subseteq HadStacks(origin)
      BY <2>2, <2>3, Rows DEF StacksTyped
    <3> QED BY <2>1, <2>3, <3>1, StacksFrame
  <2>4. CASE RenameFolder
    <3>1. boot.at = "write" /\ What = "stacks" /\ UNCHANGED stacks
      BY <2>4 DEF RenameFolder, Writing, At
    <3>2. boot.todo \subseteq HadStacks(origin)
      BY <2>2, <3>1 DEF StacksTyped, AtStacks
    <3>3. PICK id : id = stacks.seq + 1
      OBVIOUS
    <3>4. PICK s \in boot.todo :
            IF id \in StackIDs /\ s \in folders.old /\ folders.new[id] = None
            THEN /\ folders' = Renamed(folders, s, id)
                 /\ boot' = [boot EXCEPT !.at = "remove stack", !.stack = s, !.id = id]
            ELSE boot' = Down /\ UNCHANGED folders
      BY <2>4, <3>3 DEF RenameFolder
    <3>5. s \in HadStacks(origin) /\ s \in Stacks
      BY <3>2, Had
    <3>6. CASE boot' = Down /\ UNCHANGED folders
      BY <1>k, <2>1, <3>1, <3>6 DEF Down, Bits
    <3>7. CASE ~(boot' = Down /\ UNCHANGED folders)
      <4>1. /\ id \in StackIDs /\ folders' = [old |-> folders.old \ {s}, new |-> [folders.new EXCEPT ![id] = s]]
            /\ boot' = [boot EXCEPT !.at = "remove stack", !.stack = s, !.id = id]
        BY <3>4, <3>7 DEF Renamed
      <4>2. /\ boot'.at = "remove stack" /\ boot'.step = boot.step /\ boot'.stack = s
            /\ boot'.id = id /\ boot'.todo = boot.todo
        BY <1>s, <4>1 DEF Shape
      <4>3. /\ folders'.old = folders.old \ {s} /\ folders'.new = [folders.new EXCEPT ![id] = s]
            /\ folders' = [old |-> folders'.old, new |-> folders'.new]
        BY <4>1
      <4>4. folders'.new \in [StackIDs -> Stacks \cup {None}] /\ folders'.old \subseteq Stacks
        BY <3>5, <4>3 DEF StacksTyped
      <4>5. HadStacks(origin') = HadStacks(origin) /\ HadStacks(origin) # {}
        BY <2>1, <3>5
      <4>6. AtStacks' => boot'.todo \subseteq HadStacks(origin')
        BY <3>2, <4>2, <4>5
      <4>7. /\ stacks'.old \subseteq HadStacks(origin') /\ stacks'.seq \in {0} \cup StackIDs
            /\ stacks'.rows \in [StackIDs -> Stacks \cup {None}]
        BY <3>1, <4>5 DEF StacksTyped
      <4>8. boot'.stack \in HadStacks(origin') /\ boot'.id \in StackIDs /\ boot'.id = stacks'.seq + 1
        BY <3>1, <3>3, <3>5, <4>1, <4>2, <4>5
      <4> QED BY <2>1, <4>3, <4>4, <4>5, <4>6, <4>7, <4>8 DEF StacksTyped
    <3> QED BY <3>6, <3>7
  <2>5. CASE RemoveStack
    <3>1. /\ boot.at = "remove stack" /\ boot'.at = "create stack" /\ boot'.step = boot.step
          /\ boot'.stack = boot.stack /\ boot'.id = boot.id /\ boot'.todo = boot.todo
          /\ UNCHANGED folders
      BY <1>s, <2>5 DEF RemoveStack, At, Goto, Shape
    <3>2. stacks'.old = stacks.old \ {boot.stack} /\ stacks'.rows = stacks.rows /\ stacks'.seq = stacks.seq
      BY <1>s, <2>5 DEF RemoveStack, Shape
    <3>3. HadStacks(origin') = HadStacks(origin) /\ HadStacks(origin) # {}
      BY <2>1, <3>1 DEF StacksTyped
    <3>4. AtStacks' => AtStacks
      BY <3>1 DEF AtStacks
    <3>5. /\ stacks'.old \subseteq HadStacks(origin') /\ stacks'.seq \in {0} \cup StackIDs
          /\ stacks'.rows \in [StackIDs -> Stacks \cup {None}]
      BY <3>2, <3>3 DEF StacksTyped
    <3>6. /\ folders' = [old |-> folders'.old, new |-> folders'.new] /\ folders'.old \subseteq Stacks
          /\ folders'.new \in [StackIDs -> Stacks \cup {None}]
      BY <3>1 DEF StacksTyped
    <3>7. boot'.stack \in HadStacks(origin') /\ boot'.id \in StackIDs /\ boot'.id = stacks'.seq + 1
      BY <3>1, <3>2, <3>3 DEF StacksTyped
    <3>8. AtStacks' => boot'.todo \subseteq HadStacks(origin')
      BY <3>1, <3>3, <3>4 DEF StacksTyped
    <3> QED BY <2>1, <3>3, <3>5, <3>6, <3>7, <3>8 DEF StacksTyped
  <2>6. CASE CreateStack
    <3>1. /\ boot.at = "create stack" /\ boot'.at = "write" /\ boot'.step = boot.step
          /\ boot'.todo = boot.todo \ {boot.stack} /\ UNCHANGED folders
      BY <1>s, <2>6 DEF CreateStack, At, Shape
    <3>2. PICK s, id : s = boot.stack /\ id = boot.id
      OBVIOUS
    <3>3. s \in HadStacks(origin) /\ s \in Stacks /\ id \in StackIDs
      BY <3>1, <3>2, Had DEF StacksTyped
    <3>4. stacks' = [stacks EXCEPT !.rows[id] = s, !.seq = id]
      BY <2>6, <3>2 DEF CreateStack, Stored
    <3>5. stacks'.old = stacks.old /\ stacks'.rows = [stacks.rows EXCEPT ![id] = s] /\ stacks'.seq = id
      BY <1>s, <3>4 DEF Shape
    <3>6. stacks'.rows \in [StackIDs -> Stacks \cup {None}] /\ stacks'.seq \in {0} \cup StackIDs
      BY <3>3, <3>5 DEF StacksTyped
    <3>7. HadStacks(origin') = HadStacks(origin) /\ HadStacks(origin) # {}
      BY <2>1, <3>3
    <3>8. AtStacks' => AtStacks
      BY <3>1 DEF AtStacks
    <3>9. boot'.todo \subseteq boot.todo
      BY <3>1
    <3>10. stacks'.old \subseteq HadStacks(origin')
      BY <3>5, <3>7 DEF StacksTyped
    <3>11. /\ folders' = [old |-> folders'.old, new |-> folders'.new] /\ folders'.old \subseteq Stacks
           /\ folders'.new \in [StackIDs -> Stacks \cup {None}]
      BY <3>1 DEF StacksTyped
    <3>12. AtStacks' => boot'.todo \subseteq HadStacks(origin')
      BY <3>7, <3>8, <3>9 DEF StacksTyped
    <3>13. boot'.at \notin {"remove stack", "create stack"}
      BY <3>1
    <3> QED BY <2>1, <3>6, <3>7, <3>10, <3>11, <3>12, <3>13 DEF StacksTyped
  <2>7. CASE ReadFails /\ boot'.at = "down" /\ UNCHANGED <<stacks, folders>>
    BY <1>k, <2>1, <2>7 DEF Bits
  <2>8. CASE boot'.at \in {"write", "remove admin"} /\ boot'.step = boot.step /\ boot.step # 14
             /\ UNCHANGED <<stacks, folders>>
    BY <2>1, <2>8, StacksFrame
  <2>9. CASE Proceed(boot.step + 1) /\ UNCHANGED <<stacks, folders>>
    <3>1. boot'.at \in {"read", "store version"}
      BY <2>1, <2>9, AdvanceMove
    <3> QED BY <2>1, <2>9, <3>1, StacksFrame
  <2> QED BY <1>4, <2>1, <2>3, <2>4, <2>5, <2>6, <2>7, <2>8, <2>9, WorkKinds
<1>5. CASE StoreDBVersion
  BY <1>5, <1>k, StoreMove DEF history, Bits
<1>6. CASE Finish
  <2>1. \A p \in Rest : p \notin Bits
    BY Parts
  <2> QED BY <1>6, <1>k, <2>1, FinishMoves DEF history
<1>7. CASE Crash
  BY <1>7, <1>k DEF Crash, Down, data, Bits
<1> QED BY <1>1, <1>2, <1>3, <1>4, <1>5, <1>6, <1>7, AllSteps

(* From version 8 to 11, the conversion of stacks is due.                  *)
LEMMA StacksDue ==
  ASSUME VersionInv, OriginKept, boot.at \in Migrating, HadStacks(origin) # {}
  PROVE  /\ origin \in 8..11 /\ boot.from = origin /\ ~(Migrations[14].below <= boot.from)
         /\ 14 \in Steps
         /\ boot.at \in Bits => boot.step # 2 /\ boot.step # 1
<1>1. origin \in 8..11
  BY Had
<1>2. boot.from = (IF origin \in {0, Fresh} THEN 0 ELSE origin)
  BY FromOrigin
<1>3. origin # 0 /\ origin # Fresh
  BY <1>1, FreshIsNoVersion
<1>4. Migrations[14].below = 12 /\ Migrations[2].below = 2 /\ Migrations[1].below = 1 /\ 14 \in Steps
  BY Table DEF Steps
<1>5. boot.at \in Bits => boot.from < Migrations[boot.step].below
  BY DEF VersionInv, RunsInOrder
<1>6. boot.from = origin
  BY <1>2, <1>3
<1>7. boot.at \in Bits => boot.step # 2 /\ boot.step # 1
  BY <1>1, <1>4, <1>5, <1>6
<1> QED BY <1>1, <1>4, <1>6, <1>7

(* Before, while and after stacks are converted, at each point.            *)
LEMMA Phases ==
  ASSUME VersionInv, OriginKept, boot.at \in Bits
  PROVE  /\ ~Present /\ boot.step \in Nat
         /\ BeforeStacks <=> boot.step < 14 \/ (boot.at = "read" /\ boot.step = 14)
<1>1. ~Present /\ boot.step \in Nat
  BY FromOrigin, AtMigration, Parts
<1>2. boot.at \notin Early
  BY DEF Bits, Early
<1> QED BY <1>1, <1>2 DEF BeforeStacks

LEMMA Unchanging ==
  ASSUME UNCHANGED <<stacks, folders, origin>>
  PROVE  (Unconverted' <=> Unconverted) /\ (Converted' <=> Converted)
BY DEF Unconverted, Converted

LEMMA AtIsNotBefore == (AtStacks => ~BeforeStacks) /\ (AtStacks' => ~BeforeStacks')
<1>1. \A p \in {"write", "remove stack", "create stack"} : p \notin Early /\ p # "read"
  BY DEF Early
<1>2. \A n : n = 14 => ~(n < 14)
  OBVIOUS
<1> QED BY <1>1, <1>2 DEF AtStacks, BeforeStacks

LEMMA SequenceIsNat == StacksTyped => stacks.seq \in Nat
<1>1. StacksTyped => stacks.seq = 0 \/ stacks.seq \in StackIDs
  BY DEF StacksTyped
<1>2. 0 \in Nat /\ \A i \in StackIDs : i \in Nat
  BY IDs
<1> QED BY <1>1, <1>2

LEMMA StacksReadStep ==
  ASSUME VersionInv, OriginKept, StacksKept, StacksTyped', UNCHANGED <<version, origin, cut>>,
         boot.at = "read", boot'.at = "write", boot'.step = boot.step,
         boot'.todo = RowsToWrite, UNCHANGED <<stacks, folders>>
  PROVE  StacksKept'
<1>b. boot.at \in Bits /\ boot'.at \in Bits
  BY Parts
<1>1. /\ ~Present /\ ~Present' /\ boot.step \in Nat
      /\ BeforeStacks <=> (boot.step < 14 \/ boot.step = 14)
  BY <1>b, Phases DEF Present
<1>2. What = "stacks" <=> boot.step = 14
  BY <1>b, WhatIs
<1>3. boot'.at \notin Early /\ boot'.at # "read"
  BY DEF Early
<1>4. /\ BeforeStacks' <=> boot.step < 14
      /\ AtStacks' <=> boot.step = 14
      /\ ~AtStacks
  BY <1>b, <1>1, <1>3 DEF BeforeStacks, AtStacks
<1> SUFFICES ASSUME "stacks" \notin cut'
             PROVE  /\ BeforeStacks' => Unconverted'
                    /\ AtStacks' => Converting(boot.todo)'
                    /\ ~BeforeStacks' /\ ~AtStacks' => Converted'
  BY DEF StacksKept
<1>5. (BeforeStacks => Unconverted) /\ (~BeforeStacks /\ ~AtStacks => Converted)
  BY DEF StacksKept
<1>6. CASE boot.step < 14
  BY <1>1, <1>4, <1>5, <1>6, Unchanging
<1>7. CASE boot.step > 14
  <2>1. boot.step # 14 /\ ~(boot.step < 14)
    BY <1>1, <1>7
  <2> QED BY <1>1, <1>4, <1>5, <2>1, Unchanging
<1>8. CASE boot.step = 14
  <2>1. Unconverted /\ ~BeforeStacks' /\ AtStacks'
    BY <1>1, <1>4, <1>5, <1>8
  <2>2. boot'.todo = HadStacks(origin)
    BY <1>2, <1>8, <2>1, Rows DEF Unconverted
  <2>3. \A i \in StackIDs : i > 0
    BY IDs
  <2>4. 0 + Cardinality(HadStacks(origin)) = Cardinality(HadStacks(origin)) /\ None \notin HadStacks(origin)
    BY Had
  <2>5. Converting(boot.todo)'
    BY <2>1, <2>2, <2>3, <2>4 DEF Unconverted, Converting
  <2> QED BY <2>1, <2>5
<1>9. boot.step < 14 \/ boot.step > 14 \/ boot.step = 14
  BY <1>1
<1> QED BY <1>6, <1>7, <1>8, <1>9

LEMMA StacksRenameStep ==
  ASSUME VersionInv, OriginKept, StacksKept, StacksTyped', UNCHANGED <<version, origin, cut>>,
         RenameFolder
  PROVE  StacksKept'
<1>s. Shape
  BY DEF VersionInv
<1>1. boot.at = "write" /\ What = "stacks" /\ UNCHANGED stacks /\ boot.at \in Bits
  BY Parts DEF RenameFolder, Writing, At
<1>2. boot.step = 14 /\ AtStacks
  BY <1>1, WhatIs DEF AtStacks
<1> SUFFICES ASSUME "stacks" \notin cut'
             PROVE  /\ BeforeStacks' => Unconverted'
                    /\ AtStacks' => Converting(boot.todo)'
                    /\ ~BeforeStacks' /\ ~AtStacks' => Converted'
  BY DEF StacksKept
<1>3. Converting(boot.todo) /\ boot.todo \subseteq HadStacks(origin)
  BY <1>2 DEF StacksKept, StacksTyped
<1>4. PICK id : id = stacks.seq + 1
  OBVIOUS
<1>5. PICK s \in boot.todo :
        IF id \in StackIDs /\ s \in folders.old /\ folders.new[id] = None
        THEN /\ folders' = Renamed(folders, s, id)
             /\ boot' = [boot EXCEPT !.at = "remove stack", !.stack = s, !.id = id]
        ELSE boot' = Down /\ UNCHANGED folders
  BY <1>4 DEF RenameFolder
<1>6. id \in StackIDs /\ id > stacks.seq
  <2>1. IsFiniteSet(boot.todo) /\ Cardinality(boot.todo) \in Nat /\ Cardinality(boot.todo) # 0
    BY <1>3, <1>5, Had, FS_Subset, FS_CardinalityType, FS_EmptySet
  <2>2. stacks.seq \in Nat
    BY SequenceIsNat DEF StacksKept
  <2>3. stacks.seq + Cardinality(boot.todo) = Cardinality(HadStacks(origin))
    BY <1>3 DEF Converting
  <2> QED BY <1>4, <2>1, <2>2, <2>3, Had DEF StackIDs
<1>7. s \in folders.old /\ folders.new[id] = None
  BY <1>1, <1>3, <1>5, <1>6 DEF Converting
<1>8. /\ folders' = [old |-> folders.old \ {s}, new |-> [folders.new EXCEPT ![id] = s]]
      /\ boot' = [boot EXCEPT !.at = "remove stack", !.stack = s, !.id = id]
  BY <1>5, <1>6, <1>7 DEF Renamed
<1>9. /\ boot'.at = "remove stack" /\ boot'.step = 14 /\ boot'.stack = s
      /\ boot'.id = id /\ boot'.todo = boot.todo
  BY <1>s, <1>2, <1>8 DEF Shape
<1>10. folders'.old = folders.old \ {s} /\ folders'.new = [folders.new EXCEPT ![id] = s]
  BY <1>8
<1>11. AtStacks' /\ ~BeforeStacks'
  BY <1>9, AtIsNotBefore DEF AtStacks
<1>12. \A i \in StackIDs : folders'.new[i] = IF i = id THEN s ELSE folders.new[i]
  BY <1>10 DEF StacksKept, StacksTyped
<1>13. Converting(boot.todo)'
  <2>1. /\ stacks'.seq + Cardinality(boot'.todo) = Cardinality(HadStacks(origin'))
        /\ \A i \in StackIDs : stacks'.rows[i] = None <=> i > stacks'.seq
        /\ \A i \in StackIDs : stacks'.rows[i] \notin boot'.todo
        /\ \A t \in HadStacks(origin') \ boot'.todo : \E i \in StackIDs : stacks'.rows[i] = t
        /\ \A i, j \in StackIDs : stacks'.rows[i] = stacks'.rows[j] /\ stacks'.rows[i] # None => i = j
    BY <1>1, <1>3, <1>9 DEF Converting
  <2>2. folders'.old = boot'.todo \ {boot'.stack} /\ stacks'.old = boot'.todo /\ boot'.stack \in boot'.todo
    BY <1>1, <1>3, <1>5, <1>9, <1>10 DEF Converting
  <2>3. \A i \in StackIDs : folders'.new[i] = IF i = boot'.id THEN boot'.stack ELSE stacks'.rows[i]
    BY <1>1, <1>3, <1>9, <1>12 DEF Converting
  <2>4. boot'.at # "write" /\ boot'.at # "create stack"
    BY <1>9
  <2> QED BY <2>1, <2>2, <2>3, <2>4 DEF Converting
<1> QED BY <1>11, <1>13

LEMMA StacksRemoveStep ==
  ASSUME VersionInv, OriginKept, StacksKept, StacksTyped', UNCHANGED <<version, origin, cut>>,
         RemoveStack
  PROVE  StacksKept'
<1>1. /\ boot.at = "remove stack" /\ boot'.at = "create stack" /\ boot'.step = boot.step
      /\ boot'.stack = boot.stack /\ boot'.id = boot.id /\ boot'.todo = boot.todo
      /\ UNCHANGED folders
      /\ stacks'.old = stacks.old \ {boot.stack} /\ stacks'.rows = stacks.rows /\ stacks'.seq = stacks.seq
  BY DEF RemoveStack, At, Goto, VersionInv, Shape
<1>2. boot.step = 14 /\ AtStacks
  <2>1. What = "stacks" /\ boot.at \in Bits
    BY <1>1, Parts DEF VersionInv, RowsRemain
  <2> QED BY <1>1, <2>1, WhatIs DEF AtStacks
<1>3. AtStacks' /\ ~BeforeStacks'
  BY <1>1, <1>2, AtIsNotBefore DEF AtStacks
<1> SUFFICES ASSUME "stacks" \notin cut' PROVE Converting(boot.todo)'
  BY <1>3 DEF StacksKept
<1>4. Converting(boot.todo)
  BY <1>2 DEF StacksKept
<1>5. /\ stacks'.seq + Cardinality(boot'.todo) = Cardinality(HadStacks(origin'))
      /\ \A i \in StackIDs : stacks'.rows[i] = None <=> i > stacks'.seq
      /\ \A i \in StackIDs : stacks'.rows[i] \notin boot'.todo
      /\ \A t \in HadStacks(origin') \ boot'.todo : \E i \in StackIDs : stacks'.rows[i] = t
      /\ \A i, j \in StackIDs : stacks'.rows[i] = stacks'.rows[j] /\ stacks'.rows[i] # None => i = j
  <2>1. PICK rows, seq, todo : rows = stacks.rows /\ seq = stacks.seq /\ todo = boot.todo
    OBVIOUS
  <2>2. stacks'.rows = rows /\ stacks'.seq = seq /\ boot'.todo = todo /\ origin' = origin
    BY <1>1, <2>1
  <2>3. /\ seq + Cardinality(todo) = Cardinality(HadStacks(origin))
        /\ \A i \in StackIDs : rows[i] = None <=> i > seq
        /\ \A i \in StackIDs : rows[i] \notin todo
        /\ \A t \in HadStacks(origin) \ todo : \E i \in StackIDs : rows[i] = t
        /\ \A i, j \in StackIDs : rows[i] = rows[j] /\ rows[i] # None => i = j
    BY <1>4, <2>1 DEF Converting
  <2> QED BY <2>2, <2>3
<1>6. /\ folders'.old = boot'.todo \ {boot'.stack} /\ stacks'.old = boot'.todo \ {boot'.stack}
      /\ boot'.stack \in boot'.todo
  BY <1>1, <1>4 DEF Converting
<1>7. \A i \in StackIDs : folders'.new[i] = IF i = boot'.id THEN boot'.stack ELSE stacks'.rows[i]
  BY <1>1, <1>4 DEF Converting
<1>8. boot'.at # "write" /\ boot'.at = "create stack"
  BY <1>1
<1> QED BY <1>5, <1>6, <1>7, <1>8 DEF Converting

LEMMA StacksCreateStep ==
  ASSUME VersionInv, OriginKept, StacksKept, StacksTyped', UNCHANGED <<version, origin, cut>>,
         CreateStack
  PROVE  StacksKept'
<1>s. Shape
  BY DEF VersionInv
<1>1. PICK s, id : s = boot.stack /\ id = boot.id
  OBVIOUS
<1>2. /\ boot.at = "create stack" /\ boot'.at = "write" /\ boot'.step = boot.step
      /\ boot'.todo = boot.todo \ {s} /\ UNCHANGED folders
  BY <1>1, <1>s DEF CreateStack, At, Shape
<1>3. stacks' = [stacks EXCEPT !.rows[id] = s, !.seq = id]
  BY <1>1 DEF CreateStack, Stored
<1>4. stacks'.old = stacks.old /\ stacks'.rows = [stacks.rows EXCEPT ![id] = s] /\ stacks'.seq = id
  BY <1>s, <1>3 DEF Shape
<1>5. boot.step = 14 /\ AtStacks
  <2>1. What = "stacks" /\ boot.at \in Bits
    BY <1>2, Parts DEF VersionInv, RowsRemain
  <2> QED BY <1>2, <2>1, WhatIs DEF AtStacks
<1>6. AtStacks' /\ ~BeforeStacks'
  BY <1>2, <1>5, AtIsNotBefore DEF AtStacks
<1> SUFFICES ASSUME "stacks" \notin cut' PROVE Converting(boot.todo)'
  BY <1>6 DEF StacksKept
<1>7. Converting(boot.todo) /\ boot.todo \subseteq HadStacks(origin)
  BY <1>5 DEF StacksKept, StacksTyped
<1>8. /\ s \in boot.todo /\ s \in HadStacks(origin) /\ s # None
      /\ id \in StackIDs /\ id = stacks.seq + 1
  BY <1>1, <1>2, <1>7, Had DEF Converting, StacksKept, StacksTyped
<1>9. stacks.seq \in Nat /\ id \in Nat /\ \A i \in StackIDs : i \in Nat
  BY <1>8, IDs, SequenceIsNat DEF StacksKept
<1>10. \A i \in StackIDs : stacks'.rows[i] = IF i = id THEN s ELSE stacks.rows[i]
  BY <1>4 DEF StacksKept, StacksTyped
<1>11. stacks'.seq + Cardinality(boot'.todo) = Cardinality(HadStacks(origin))
  <2>1. IsFiniteSet(boot.todo) /\ Cardinality(boot.todo) \in Nat
    BY <1>7, Had, FS_Subset, FS_CardinalityType
  <2>2. Cardinality(boot'.todo) = Cardinality(boot.todo) - 1
    BY <1>2, <1>8, <2>1, FS_RemoveElement
  <2>3. stacks.seq + Cardinality(boot.todo) = Cardinality(HadStacks(origin))
    BY <1>7 DEF Converting
  <2> QED BY <1>4, <1>8, <1>9, <2>1, <2>2, <2>3
<1>12. ASSUME NEW i \in StackIDs PROVE stacks'.rows[i] = None <=> i > stacks'.seq
  <2>1. stacks.rows[i] = None <=> i > stacks.seq
    BY <1>7 DEF Converting
  <2>2. i # id => (i > stacks.seq <=> i > id)
    BY <1>8, <1>9
  <2>3. ~(id > id)
    BY <1>9
  <2> QED BY <1>4, <1>8, <1>10, <2>1, <2>2, <2>3
<1>13. \A i \in StackIDs : stacks'.rows[i] \notin boot'.todo
  BY <1>2, <1>7, <1>10 DEF Converting
<1>14. ASSUME NEW t \in HadStacks(origin) \ boot'.todo PROVE \E i \in StackIDs : stacks'.rows[i] = t
  <2>1. CASE t = s
    BY <1>8, <1>10, <2>1
  <2>2. CASE t # s
    <3>1. PICK i \in StackIDs : stacks.rows[i] = t
      BY <1>2, <1>7, <2>2 DEF Converting
    <3>2. id > stacks.seq /\ t # None
      BY <1>8, <1>9, Had
    <3>3. stacks.rows[id] = None
      BY <1>7, <1>8, <3>2 DEF Converting
    <3> QED BY <1>10, <3>1, <3>2, <3>3
  <2> QED BY <2>1, <2>2
<1>15. ASSUME NEW i \in StackIDs, NEW j \in StackIDs,
              stacks'.rows[i] = stacks'.rows[j], stacks'.rows[i] # None
       PROVE  i = j
  <2>1. stacks.rows[i] \notin boot.todo /\ stacks.rows[j] \notin boot.todo
    BY <1>7 DEF Converting
  <2>2. (i = id) <=> (j = id)
    BY <1>8, <1>10, <1>15, <2>1
  <2>3. i # id /\ j # id => i = j
    <3>1. \A k, l \in StackIDs : stacks.rows[k] = stacks.rows[l] /\ stacks.rows[k] # None => k = l
      BY <1>7 DEF Converting
    <3> QED BY <1>10, <1>15, <3>1
  <2> QED BY <2>2, <2>3
<1>16. folders'.old = boot'.todo /\ stacks'.old = boot'.todo
  BY <1>1, <1>2, <1>4, <1>7 DEF Converting
<1>17. \A i \in StackIDs : folders'.new[i] = stacks'.rows[i]
  BY <1>1, <1>2, <1>7, <1>10 DEF Converting
<1>18. boot'.at = "write"
  BY <1>2
<1> QED BY <1>11, <1>12, <1>13, <1>14, <1>15, <1>16, <1>17, <1>18 DEF Converting

(* Once all stacks are converted.                                          *)
LEMMA Finished ==
  ASSUME StacksKept, "stacks" \notin cut, boot.at = "write", boot.step = 14, boot.todo = {}
  PROVE  Converted
<1>1. Converting({})
  BY DEF StacksKept, AtStacks
<1>2. folders.old = {} /\ \A i \in StackIDs : folders.new[i] = stacks.rows[i]
  BY <1>1 DEF Converting
<1>3. ASSUME NEW s \in HadStacks(origin)
      PROVE  \E i \in StackIDs :
               stacks.rows[i] = s /\ \A j \in StackIDs : stacks.rows[j] = s => j = i
  <2>1. PICK i \in StackIDs : stacks.rows[i] = s
    BY <1>1 DEF Converting
  <2>2. s # None
    BY Had
  <2>3. \A k, l \in StackIDs : stacks.rows[k] = stacks.rows[l] /\ stacks.rows[k] # None => k = l
    BY <1>1 DEF Converting
  <2> QED BY <2>1, <2>2, <2>3
<1> QED BY <1>2, <1>3 DEF Converted

LEMMA StacksSame ==
  ASSUME StacksKept, StacksTyped', UNCHANGED <<stacks, folders, origin, cut>>, ~AtStacks',
         "stacks" \notin cut => /\ BeforeStacks' <=> BeforeStacks
                                /\ ~BeforeStacks => ~AtStacks \/ Converted
  PROVE  StacksKept'
BY Unchanging DEF StacksKept

LEMMA StacksWorkStep ==
  ASSUME VersionInv, OriginKept, StacksKept, StacksTyped', Work, HadStacks(origin) # {}
  PROVE  StacksKept'
<1>b. /\ boot.at \in Bits /\ boot.at \in Migrating /\ ~Present /\ ~Present'
      /\ UNCHANGED <<version, origin, cut>> /\ boot.step \in Nat
  BY WorkMoves, Phases DEF history, Present
<1>p. BeforeStacks <=> boot.step < 14 \/ (boot.at = "read" /\ boot.step = 14)
  BY <1>b, Phases
<1>d. /\ boot.from \in 0..13 /\ ~(Migrations[14].below <= boot.from) /\ 14 \in Steps
      /\ boot.step # 2
  BY <1>b, StacksDue, FromOrigin
<1>1. CASE /\ boot.at = "read" /\ boot'.at = "write" /\ boot'.step = boot.step
           /\ boot'.todo = RowsToWrite /\ UNCHANGED <<stacks, folders>>
  BY <1>1, <1>b, StacksReadStep
<1>2. CASE RenameFolder \/ RemoveStack \/ CreateStack
  BY <1>2, <1>b, StacksRenameStep, StacksRemoveStep, StacksCreateStep
<1>3. CASE boot.at = "read" /\ ~Readable /\ boot'.at = "down" /\ UNCHANGED <<stacks, folders>>
  <2>1. ~AtStacks' /\ ~AtStacks /\ BeforeStacks'
    BY <1>3, <1>b DEF AtStacks, BeforeStacks, Early
  <2>2. What = "controls" \/ What = "stacks"
    BY <1>3 DEF Readable
  <2>3. boot.step = 14 /\ What = "stacks"
    BY <1>b, <1>d, <2>2, WhatIs
  <2>4. BeforeStacks
    BY <1>3, <1>p, <2>3
  <2> QED BY <1>3, <1>b, <2>1, <2>4, StacksSame
<1>4. CASE /\ boot.at \in {"write", "remove admin"} /\ boot'.at \in {"write", "remove admin"}
           /\ boot'.step = boot.step /\ boot.step # 14 /\ UNCHANGED <<stacks, folders>>
  <2>1. boot'.at \in Bits /\ boot'.at \notin Early /\ boot.at # "read" /\ boot'.at # "read"
    BY <1>4 DEF Bits, Early
  <2>2. (BeforeStacks' <=> boot.step < 14) /\ (BeforeStacks <=> boot.step < 14)
    BY <1>4, <1>b, <1>p, <2>1 DEF BeforeStacks
  <2>3. ~AtStacks' /\ ~AtStacks
    BY <1>4 DEF AtStacks
  <2> QED BY <1>4, <1>b, <2>2, <2>3, StacksSame
<1>5. CASE /\ boot.at \in {"write", "remove admin"} /\ Proceed(boot.step + 1)
           /\ boot.step = 14 => boot.at = "write" /\ boot.todo = {}
           /\ UNCHANGED <<stacks, folders>>
  <2>1. /\ boot'.at \in {"read", "store version"}
        /\ boot'.at = "read" => boot'.step \in Steps /\ boot'.step > boot.step
        /\ \A k \in Steps : k > boot.step /\ (boot'.at = "store version" \/ k < boot'.step) =>
             Migrations[k].below <= boot.from
    BY <1>5, <1>b, AdvanceMove
  <2>2. ~AtStacks' /\ boot'.at \notin Early /\ boot.at # "read"
    BY <1>5, <2>1 DEF AtStacks, Early
  <2>3. CASE boot.step < 14
    <3>1. 14 > boot.step
      BY <1>b, <2>3
    <3>2. ~(boot'.at = "store version" \/ 14 < boot'.step)
      BY <1>d, <2>1, <3>1
    <3>3. boot'.at = "read" /\ boot'.step \in Steps
      BY <2>1, <3>2
    <3>4. boot'.step < 14 \/ boot'.step = 14
      BY <3>2, <3>3 DEF Steps
    <3>5. BeforeStacks' /\ BeforeStacks
      <4>1. boot'.at \in Bits
        BY <3>3, Parts
      <4> QED BY <1>b, <1>p, <2>3, <3>3, <3>4, <4>1 DEF BeforeStacks
    <3> QED BY <1>5, <1>b, <2>2, <3>5, StacksSame
  <2>4. CASE ~(boot.step < 14)
    <3>1. ~BeforeStacks
      BY <1>p, <2>2, <2>4
    <3>2. boot'.at = "read" => boot'.step # 14 /\ ~(boot'.step < 14)
      BY <1>b, <2>1, <2>4 DEF Steps
    <3>3. boot'.at = "store version" => boot'.at \notin Bits
      BY Parts
    <3>4. ~BeforeStacks'
      BY <2>1, <2>2, <3>2, <3>3 DEF BeforeStacks
    <3>5. "stacks" \notin cut => ~AtStacks \/ Converted
      BY <1>5, Finished DEF AtStacks
    <3> QED BY <1>5, <1>b, <2>2, <3>1, <3>4, <3>5, StacksSame
  <2> QED BY <2>3, <2>4
<1> QED BY <1>1, <1>2, <1>3, <1>4, <1>5, WorkKinds

LEMMA StacksCrash ==
  ASSUME VersionInv, OriginKept, StacksKept, StacksTyped', Crash, HadStacks(origin) # {}
  PROVE  StacksKept'
<1>1. boot'.at = "down" /\ UNCHANGED <<stacks, folders, origin, version>> /\ cut' = cut \cup CutNow
  BY DEF Crash, Down, data
<1>2. ~AtStacks' /\ (BeforeStacks' <=> ~Present)
  BY <1>1 DEF AtStacks, BeforeStacks, Early, Present
<1> SUFFICES ASSUME "stacks" \notin cut'
             PROVE  (~Present => Unconverted) /\ (Present => Converted)
  BY <1>1, <1>2, Unchanging DEF StacksKept
<1>3. "stacks" \notin cut /\ "stacks" \notin CutNow
  BY <1>1
<1>4. ASSUME Present PROVE Converted
  <2>1. boot.at \notin Bits
    BY <1>4, Phases
  <2>2. ~AtStacks /\ ~BeforeStacks
    BY <1>4, <2>1, Parts DEF AtStacks, BeforeStacks
  <2> QED BY <1>3, <2>2 DEF StacksKept
<1>5. ASSUME ~Present PROVE Unconverted
  <2>1. file /\ version # {DBVersion}
    <3>1. origin # Fresh
      BY Had, FreshIsNoVersion
    <3> QED BY <1>5, <3>1 DEF OriginKept, Present
  <2>2. folders.old = HadStacks(origin)
    BY <1>3, <2>1, Cuts DEF Pending
  <2>3. CASE BeforeStacks
    BY <1>3, <2>3 DEF StacksKept
  <2>4. CASE AtStacks
    <3>1. Converting(boot.todo) /\ boot.todo \subseteq HadStacks(origin)
      BY <1>3, <2>4 DEF StacksKept, StacksTyped
    <3>2. boot.at = "write"
      <4>1. ASSUME boot.at # "write" PROVE FALSE
        <5>1. boot.stack \in boot.todo /\ folders.old = boot.todo \ {boot.stack}
          BY <3>1, <4>1 DEF Converting
        <5> QED BY <2>2, <3>1, <5>1
      <4> QED BY <4>1
    <3>3. boot.todo = HadStacks(origin) /\ stacks.old = HadStacks(origin)
      BY <2>2, <3>1, <3>2 DEF Converting
    <3>4. stacks.seq + Cardinality(HadStacks(origin)) = Cardinality(HadStacks(origin))
      BY <3>1, <3>3 DEF Converting
    <3>5. stacks.seq = 0
      <4>1. stacks.seq \in Nat /\ Cardinality(HadStacks(origin)) \in Nat
        BY Had, SequenceIsNat DEF StacksKept
      <4> QED BY <3>4, <4>1
    <3>6. \A i \in StackIDs : stacks.rows[i] = None
      <4>1. \A i \in StackIDs : i > stacks.seq
        BY <3>5, IDs
      <4> QED BY <3>1, <4>1 DEF Converting
    <3>7. \A i \in StackIDs : folders.new[i] = None
      BY <3>1, <3>2, <3>6 DEF Converting
    <3> QED BY <2>2, <3>3, <3>5, <3>6, <3>7 DEF Unconverted
  <2>5. CASE ~BeforeStacks /\ ~AtStacks
    BY <1>3, <2>2, <2>5 DEF StacksKept, Converted
  <2> QED BY <2>3, <2>4, <2>5
<1> QED BY <1>4, <1>5

LEMMA StacksStep == ASSUME VersionInv, OriginKept, StacksKept, Next PROVE StacksKept'
<1>t. StacksTyped' /\ UNCHANGED origin
  BY StacksTypedStep DEF StacksKept
<1>0. CASE HadStacks(origin) = {}
  <2>1. HadStacks(origin') = {}
    BY <1>0, <1>t
  <2>2. (StacksTyped /\ HadStacks(origin) = {} => StacksKept)'
    BY NoStacks, PTL
  <2> QED BY <1>t, <2>1, <2>2
<1>1. CASE Launch \/ Open \/ InitGroups
  <2>1. /\ UNCHANGED <<stacks, folders, origin, cut, version>> /\ boot.at \in Early /\ boot'.at \in Early
        /\ boot.at \notin Bits /\ boot'.at \notin Bits
    BY <1>1, EarlyMoves DEF data, history, InitGroups, Early, Bits
  <2>2. ~AtStacks /\ ~AtStacks' /\ (BeforeStacks' <=> BeforeStacks)
    BY <2>1, Parts DEF AtStacks, BeforeStacks, Present
  <2> QED BY <1>t, <2>1, <2>2, StacksSame
<1>2. CASE MigrateData /\ HadStacks(origin) # {}
  <2>1. UNCHANGED <<stacks, folders, cut>> /\ boot.at = "migrate data"
        /\ boot'.at \in {"templates", "migrate"}
    BY <1>2, MigrateDataMove DEF MigrateData, history
  <2>2. origin # Fresh
    BY <1>2, Had, FreshIsNoVersion
  <2>3. UNCHANGED version /\ (Present \/ boot'.at = "migrate")
    BY <1>2, <2>2, MigrateDataMove
  <2>4. ~AtStacks /\ ~AtStacks' /\ (BeforeStacks' <=> BeforeStacks)
    BY <2>1, <2>3 DEF AtStacks, BeforeStacks, Present, Early
  <2> QED BY <1>t, <2>1, <2>4, StacksSame
<1>3. CASE Migrate /\ HadStacks(origin) # {}
  <2>1. /\ UNCHANGED <<stacks, folders, cut, version>>
        /\ boot.at = "migrate" /\ boot.at \in Migrating
        /\ boot'.at \in {"read", "store version"}
        /\ boot'.at = "read" => boot'.step \in Steps
    BY <1>3, MigrateMove DEF data, history
  <2>2. ~(Migrations[14].below <= boot.from) /\ 14 \in Steps /\ ~Present
    BY <1>3, <2>1, StacksDue, FromOrigin
  <2>3. ~(boot'.at = "store version" \/ 14 < boot'.step)
    BY <1>3, <2>2, MigrateMove
  <2>4. boot'.at = "read" /\ boot'.step \in Steps
    BY <2>1, <2>3
  <2>5. boot'.step < 14 \/ boot'.step = 14
    BY <2>3, <2>4 DEF Steps
  <2>6. BeforeStacks' /\ BeforeStacks /\ ~AtStacks'
    <3>1. boot'.at \in Bits /\ boot.at \in Early
      BY <2>1, <2>4, Parts DEF Early
    <3> QED BY <2>1, <2>2, <2>4, <2>5, <3>1 DEF BeforeStacks, AtStacks, Present
  <2> QED BY <1>t, <2>1, <2>6, StacksSame
<1>4. CASE Work /\ HadStacks(origin) # {}
  BY <1>4, <1>t, StacksWorkStep
<1>5. CASE StoreDBVersion
  <2>1. UNCHANGED <<stacks, folders, cut>> /\ boot.at = "store version" /\ boot'.at = "templates"
        /\ version' = {DBVersion}
    BY <1>5, StoreMove DEF history
  <2>2. boot.at \notin Bits /\ boot.at \notin Early
    BY <2>1 DEF Bits, Early
  <2>3. ~AtStacks /\ ~AtStacks' /\ ~BeforeStacks /\ ~BeforeStacks'
    BY <2>1, <2>2 DEF AtStacks, BeforeStacks, Present
  <2> QED BY <1>t, <2>1, <2>3, StacksSame
<1>6. CASE Finish
  <2>1. UNCHANGED <<stacks, folders, cut, version>> /\ boot.at \in Rest /\ boot'.at \in Rest /\ Present
    BY <1>6, FinishMoves DEF history
  <2>2. \A p \in {"write", "remove stack", "create stack"} : p \notin Rest
    BY DEF Rest
  <2>3. ~AtStacks /\ ~AtStacks' /\ ~BeforeStacks /\ ~BeforeStacks'
    BY <2>1, <2>2 DEF AtStacks, BeforeStacks, Present
  <2> QED BY <1>t, <2>1, <2>3, StacksSame
<1>7. CASE Crash /\ HadStacks(origin) # {}
  BY <1>7, <1>t, StacksCrash
<1> QED BY <1>0, <1>1, <1>2, <1>3, <1>4, <1>5, <1>6, <1>7, AllSteps

-----------------------------------------------------------------------------
(* The initial states, and the theorem.                                    *)
LEMMA StartInitNew == ASSUME Init, origin = Fresh PROVE StartInv
<1>1. /\ Nothing /\ ~file /\ templates = 0 /\ boot = Down /\ cut = {} /\ crashes = 0
      /\ origin \in Origins /\ boot.at = "down" /\ boot.from = Fresh
  BY DEF Init, Down
<1>2. /\ version = {} /\ ~groups /\ groups \in BOOLEAN /\ users.legacy = FALSE /\ users.admins = 0
      /\ buckets = FALSE /\ controls = [k \in Controls |-> 0]
      /\ endpoints = [x \in Endpoints \cup {Primary} |-> None] /\ settings = {}
      /\ stacks = [old |-> {}, rows |-> [id \in StackIDs |-> None], seq |-> 0]
      /\ folders = [old |-> {}, new |-> [id \in StackIDs |-> None]]
  BY <1>1 DEF Nothing
<1>3. origin \notin {0, 1} /\ HadStacks(origin) = {} /\ ~Present
  BY <1>2, FreshIsNoVersion, Had DEF Present
<1>4. OriginKept
  <2>1. crashes \in 0..MaxCrashes
    BY <1>1, StartupBounds
  <2>2. buckets \in BOOLEAN /\ users.legacy \in BOOLEAN /\ settings \subseteq SettingsSteps \cup {DBVersion}
    BY <1>2
  <2>3. version = IF origin \in {0, Fresh} THEN {} ELSE {origin}
    BY <1>2
  <2>4. boot.from \in 0..DBVersion \cup {Fresh}
    BY <1>1
  <2> QED BY <1>1, <1>2, <1>3, <2>1, <2>2, <2>3, <2>4 DEF OriginKept
<1>5. TemplatesKept
  BY <1>1, StartupBounds DEF TemplatesKept
<1>6. GroupsKept
  BY <1>1, <1>2, <1>3 DEF GroupsKept
<1>7. NewIsEmpty
  BY <1>1, <1>2 DEF NewIsEmpty, Early
<1>8. Counted
  <2>1. Repeats = 0
    BY <1>1 DEF Repeats
  <2> QED BY <1>2, <1>3, <2>1 DEF Counted, NoAdminYet, Unwritten
<1>9. StacksKept
  <2>1. StacksTyped
    BY <1>1, <1>2, <1>3 DEF StacksTyped, AtStacks, Unconverted
  <2> QED BY <1>3, <2>1, NoStacks
<1> QED BY <1>4, <1>5, <1>6, <1>7, <1>8, <1>9 DEF StartInv

LEMMA StartInitOld == ASSUME Init, origin # Fresh PROVE StartInv
<1>1. /\ templates = 0 /\ boot = Down /\ cut = {} /\ crashes = 0
      /\ origin \in Origins /\ boot.at = "down" /\ boot.from = Fresh /\ file
  BY DEF Init, Down
<1>2. PICK v \in 0..14 : v = origin
  BY <1>1, OriginsAssumption
<1>3. Left(v)
  BY <1>2 DEF Init
<1>4. PICK e \in Endpoint : /\ LeftEndpoint(e, v)
                            /\ endpoints = [x \in Endpoints \cup {Primary} |-> IF x = Primary THEN None ELSE e]
  BY <1>3 DEF Left
<1>5. /\ version = (IF v = 0 THEN {} ELSE {v})
      /\ groups = (v >= 9)
      /\ users \in [legacy : {TRUE, FALSE} \cap {v = 0, FALSE}, admins : {IF v = 0 THEN 0 ELSE 1}]
      /\ buckets \in {TRUE, v < 2}
      /\ controls = [k \in Controls |-> IF v < 2 \/ (v >= 14 /\ k \in AdminOwned) THEN 0 ELSE 1]
      /\ settings = {n \in SettingsSteps : n <= v}
      /\ stacks = [old |-> HadStacks(v), rows |-> [id \in StackIDs |-> None], seq |-> 0]
      /\ folders = [old |-> HadStacks(v), new |-> [id \in StackIDs |-> None]]
  BY <1>3 DEF Left
<1>6. users.legacy \in BOOLEAN /\ users.admins = (IF v = 0 THEN 0 ELSE 1)
  BY <1>5
<1>7. (Present <=> v = 14) /\ v \in Nat
  BY <1>5 DEF Present, DBVersion
<1>8. OriginKept
  <2>1. v < 2 => (v < 2) = TRUE
    OBVIOUS
  <2>2. buckets \in BOOLEAN
    <3>1. (v < 2) \in BOOLEAN
      BY <1>7
    <3>2. buckets = TRUE \/ buckets = (v < 2)
      BY <1>5
    <3> QED BY <3>1, <3>2
  <2>3. origin \in {0, 1} => buckets
    <3>1. v \in {0, 1} => v < 2
      OBVIOUS
    <3>2. buckets = TRUE \/ buckets = (v < 2)
      BY <1>5
    <3> QED BY <1>2, <3>1, <3>2
  <2>4. groups \in BOOLEAN
    BY <1>5
  <2>5. version = IF origin \in {0, Fresh} THEN {} ELSE {origin}
    BY <1>2, <1>5
  <2>6. settings \subseteq SettingsSteps \cup {DBVersion}
    BY <1>5
  <2>7. crashes \in 0..MaxCrashes
    BY <1>1, StartupBounds
  <2> QED BY <1>1, <1>6, <2>2, <2>3, <2>4, <2>5, <2>6, <2>7 DEF OriginKept
<1>9. TemplatesKept
  BY <1>1, StartupBounds DEF TemplatesKept
<1>10. GroupsKept
  <2>1. \A x \in DOMAIN endpoints : endpoints[x] # None => x # Primary /\ endpoints[x] = e
    BY <1>4
  <2>2. endpoints[Primary] = None
    BY <1>4
  <2>3. v = 14 => ~(v < 9)
    BY <1>7
  <2>4. v = 14 => e.group = 1
    BY <1>4, <2>3 DEF LeftEndpoint
  <2> QED BY <1>1, <1>7, <2>1, <2>2, <2>4 DEF GroupsKept
<1>11. NewIsEmpty
  BY DEF NewIsEmpty
<1>12. Counted
  <2>1. Repeats = 0
    BY <1>1 DEF Repeats
  <2>2. /\ users.admins \in Nat /\ users.admins <= Repeats + 1
        /\ NoAdminYet => users.admins <= Repeats
    BY <1>2, <1>6, <2>1 DEF NoAdminYet
  <2>3. ASSUME NEW k \in Controls
        PROVE  /\ controls[k] \in Nat /\ controls[k] <= Repeats + 1
               /\ Unwritten(k) => controls[k] <= Repeats
               /\ ~Unwritten(k) /\ k \notin AdminOwned /\ origin # Fresh => controls[k] > 0
    <3>1. controls[k] = IF v < 2 \/ (v >= 14 /\ k \in AdminOwned) THEN 0 ELSE 1
      BY <1>5
    <3>2. v < 2 <=> v \in {0, 1}
      BY <1>7
    <3>3. Unwritten(k) <=> v < 2
      <4>1. v < 2 => v # 14
        BY <1>7
      <4> QED BY <1>1, <1>2, <1>7, <3>2, <4>1 DEF Unwritten, Early
    <3>4. k \notin AdminOwned /\ ~(v < 2) => controls[k] = 1
      BY <3>1
    <3>5. v < 2 => controls[k] = 0
      BY <3>1
    <3>6. controls[k] \in {0, 1}
      BY <3>1
    <3> QED BY <2>1, <3>3, <3>4, <3>5, <3>6
  <2> QED BY <2>2, <2>3 DEF Counted
<1>13. StacksKept
  <2>1. Unconverted
    BY <1>2, <1>5 DEF Unconverted
  <2>2. StacksTyped
    BY <1>1, <1>2, <1>5, <2>1, Had DEF StacksTyped, AtStacks
  <2>3. CASE HadStacks(origin) = {}
    BY <2>2, <2>3, NoStacks
  <2>4. CASE HadStacks(origin) # {}
    <3>1. v # 14
      BY <1>2, <2>4, Had
    <3>2. BeforeStacks /\ ~AtStacks
      BY <1>1, <1>7, <3>1 DEF BeforeStacks, AtStacks, Early
    <3> QED BY <2>1, <2>2, <3>2 DEF StacksKept
  <2> QED BY <2>3, <2>4
<1> QED BY <1>8, <1>9, <1>10, <1>11, <1>12, <1>13 DEF StartInv

LEMMA StartStep == VersionInv /\ StartInv /\ [Next]_vars => StartInv'
<1>1. VersionInv /\ StartInv /\ Next => StartInv'
  <2> SUFFICES ASSUME VersionInv, StartInv, Next PROVE StartInv'
    OBVIOUS
  <2>1. OriginKept /\ TemplatesKept /\ GroupsKept /\ NewIsEmpty /\ Counted /\ StacksKept
    BY DEF StartInv
  <2>2. VersionInv'
    BY VersionStep
  <2>3. StacksTyped
    BY <2>1 DEF StacksKept
  <2>4. OriginKept' /\ TemplatesKept' /\ GroupsKept'
    BY <2>1, <2>2, OriginStep, TemplatesStep, GroupsStep
  <2>5. NewIsEmpty' /\ Counted' /\ StacksKept'
    BY <2>1, <2>3, NewIsEmptyStep, CountedStep, StacksStep
  <2> QED BY <2>4, <2>5 DEF StartInv
<1>2. StartInv /\ UNCHANGED vars => StartInv'
  <2> SUFFICES ASSUME StartInv, UNCHANGED vars PROVE StartInv'
    OBVIOUS
  <2>1. UNCHANGED <<file, version, groups, users, buckets, controls, endpoints, settings,
                    stacks, folders, templates, boot, origin, cut, crashes>>
    BY DEF vars, data, history
  <2>2. OriginKept' /\ TemplatesKept' /\ GroupsKept' /\ NewIsEmpty'
    BY <2>1 DEF StartInv, OriginKept, Present, TemplatesKept, GroupsKept, NewIsEmpty
  <2>3. Counted'
    <3>1. (NoAdminYet' => NoAdminYet) /\ \A k \in Controls : Unwritten(k)' <=> Unwritten(k)
      BY <2>1 DEF NoAdminYet, Unwritten, Present
    <3> QED BY <2>1, <3>1, CountedFrame DEF StartInv
  <2>4. StacksKept'
    <3>1. StacksTyped' /\ (AtStacks' <=> AtStacks) /\ (BeforeStacks' <=> BeforeStacks)
      BY <2>1 DEF StartInv, StacksKept, StacksTyped, AtStacks, BeforeStacks, Present, Unconverted
    <3>2. Converting(boot.todo)' <=> Converting(boot.todo)
      BY <2>1 DEF Converting
    <3> QED BY <2>1, <3>1, <3>2, Unchanging DEF StartInv, StacksKept
  <2> QED BY <2>2, <2>3, <2>4 DEF StartInv
<1> QED BY <1>1, <1>2

LEMMA StartTells == VersionInv /\ StartInv => StartSound
<1> SUFFICES ASSUME VersionInv, StartInv PROVE StartSound
  OBVIOUS
<1>1. /\ Shape /\ OriginKept /\ TemplatesKept /\ GroupsKept /\ NewIsEmpty /\ Counted
      /\ StacksKept /\ StacksTyped /\ VersionTells
  BY DEF VersionInv, StartInv, StacksKept
<1>2. Serving => Present /\ boot.at = "serving" /\ DBVersion \in version
  BY DEF VersionInv, RunsInOrder, Rest, Present, Serving, At
<1>3. Repeats \in Nat /\ Repeats <= MaxCrashes /\ MaxCrashes \in Nat
      /\ ("twice" \notin cut => Repeats = 0)
  BY <1>1, StartupBounds DEF Repeats, OriginKept
<1>4. TypeOK
  <2>1. users \in [legacy : BOOLEAN, admins : 0..(MaxCrashes + 1)]
    <3>1. users.admins \in 0..(MaxCrashes + 1)
      BY <1>1, <1>3 DEF Counted
    <3> QED BY <1>1, <3>1 DEF Shape, OriginKept
  <2>2. controls \in [Controls -> 0..(MaxCrashes + 1)]
    <3>1. \A k \in Controls : controls[k] \in 0..(MaxCrashes + 1)
      BY <1>1, <1>3 DEF Counted
    <3> QED BY <1>1, <3>1 DEF Shape
  <2>3. stacks.old \in SUBSET Stacks
    BY <1>1, Had DEF StacksTyped
  <2>4. stacks \in [old : SUBSET Stacks, rows : [StackIDs -> Stacks \cup {None}], seq : {0} \cup StackIDs]
    BY <1>1, <2>3 DEF Shape, StacksTyped
  <2>5. folders \in [old : SUBSET Stacks, new : [StackIDs -> Stacks \cup {None}]]
    BY <1>1 DEF StacksTyped
  <2>6. /\ file \in BOOLEAN /\ groups \in BOOLEAN /\ buckets \in BOOLEAN
        /\ version \in {{}} \cup {{v} : v \in 1..DBVersion}
        /\ endpoints \in [Endpoints \cup {Primary} -> Endpoint \cup {None}]
        /\ settings \subseteq SettingsSteps \cup {DBVersion}
        /\ templates \in 0..Templates
        /\ boot.at \in Points /\ boot.from \in 0..DBVersion \cup {Fresh}
    BY <1>1 DEF Shape, OriginKept, TemplatesKept
  <2> QED BY <2>1, <2>2, <2>4, <2>5, <2>6 DEF TypeOK
<1>5. EndpointsHaveGroup
  BY <1>1, <1>2 DEF EndpointsHaveGroup, GroupsKept
<1>6. NothingTwice
  <2> SUFFICES ASSUME Serving, "twice" \notin cut
               PROVE  /\ users.admins <= 1
                      /\ \A k \in Controls :
                           controls[k] = IF k \in AdminOwned \/ origin = Fresh THEN 0 ELSE 1
    BY DEF NothingTwice
  <2>1. Repeats = 0 /\ Present
    BY <1>2, <1>3
  <2>2. users.admins <= 1
    BY <1>1, <2>1 DEF Counted
  <2>3. ASSUME NEW k \in Controls
        PROVE  controls[k] = IF k \in AdminOwned \/ origin = Fresh THEN 0 ELSE 1
    <3>1. ~Unwritten(k)
      BY <2>1 DEF Unwritten
    <3>2. /\ controls[k] \in Nat /\ controls[k] <= 1
          /\ k \notin AdminOwned /\ origin # Fresh => controls[k] > 0
      BY <1>1, <2>1, <3>1 DEF Counted
    <3>3. k \in AdminOwned => controls[k] = 0
      BY <1>1, <1>2 DEF VersionTells
    <3>4. origin = Fresh => controls[k] = 0
      BY <1>1 DEF NewIsEmpty
    <3> QED BY <3>2, <3>3, <3>4
  <2> QED BY <2>2, <2>3
<1>7. StacksSurvive
  <2> SUFFICES ASSUME Serving, "stacks" \notin cut
               PROVE  /\ \A s \in HadStacks(origin) :
                           Cardinality({id \in StackIDs : stacks.rows[id] = s}) = 1
                      /\ \A id \in StackIDs : folders.new[id] = stacks.rows[id]
    BY DEF StacksSurvive
  <2>1. ~BeforeStacks /\ ~AtStacks
    BY <1>2 DEF BeforeStacks, AtStacks
  <2>2. Converted
    BY <1>1, <2>1 DEF StacksKept
  <2>3. ASSUME NEW s \in HadStacks(origin)
        PROVE  Cardinality({id \in StackIDs : stacks.rows[id] = s}) = 1
    <3>1. PICK i \in StackIDs : stacks.rows[i] = s /\ \A j \in StackIDs : stacks.rows[j] = s => j = i
      BY <2>2 DEF Converted
    <3>2. {id \in StackIDs : stacks.rows[id] = s} = {i}
      BY <3>1
    <3> QED BY <3>2, FS_Singleton
  <2> QED BY <2>2, <2>3 DEF Converted
<1>8. TemplatesImported
  BY <1>1, <1>2 DEF TemplatesImported, TemplatesKept
<1> QED BY <1>4, <1>5, <1>6, <1>7, <1>8 DEF StartSound

(* A server that serves has every stack, resource control, administrator   *)
(* and template that it should, once, and endpoints in a group that is     *)
(* there, from whatever version it started and however often its start was *)
(* cut short, but for the cuts that the parts of StartSound name: of the   *)
(* migrations of versions 0 and 1, of the conversion of stacks, and of the *)
(* import of templates.                                                    *)
THEOREM StartIsSound == Spec => []StartSound
<1>1. Init => VersionInv /\ StartInv
  BY VersionInit, StartInitNew, StartInitOld
<1>2. VersionInv /\ StartInv /\ [Next]_vars => VersionInv' /\ StartInv'
  BY VersionStep, StartStep
<1>3. VersionInv /\ StartInv => StartSound
  BY StartTells
<1> QED BY <1>1, <1>2, <1>3, PTL DEF Spec
=============================================================================
