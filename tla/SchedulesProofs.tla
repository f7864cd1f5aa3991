--------------------------- MODULE SchedulesProofs ---------------------------
(***************************************************************************)
(* Proofs about Schedules, for any requests, expressions, flags and bounds:*)
(* type correctness; no system schedule is ever deleted or replaced by     *)
(* another kind of schedule; and until the server is restarted the         *)
(* snapshot job stays in a running cron table.  For one request at a time: *)
(* rows, scripts and jobs belong together, the next start can load what is *)
(* stored, and the bucket implements Registry.                             *)
(***************************************************************************)
EXTENDS Schedules, TLAPS, WellFoundedInduction

(* The largest element LastRow chooses exists.                             *)
LEMMA LargestExists ==
  ASSUME NEW N \in Nat, NEW S \in SUBSET (1..N), S # {}
  PROVE  \E x \in S : \A y \in S : y <= x
<1> DEFINE T == {N - x : x \in S}
<1>0. \A x \in S : x \in Nat /\ N - x \in Nat
  OBVIOUS
<1>1. T \subseteq Nat /\ T # {}
  BY <1>0
<1>2. PICK m \in T : \A y \in T : <<y, m>> \notin OpToRel(<, Nat)
  BY <1>1, NatLessThanWellFounded, WFMin
<1>3. \A y \in T : ~(y < m)
  BY <1>1, <1>2 DEF OpToRel
<1>4. PICK x \in S : m = N - x
  BY <1>2
<1>5. ASSUME NEW y \in S PROVE y <= x
  <2>1. ~(N - y < N - x)
    BY <1>3, <1>4
  <2> QED BY <2>1
<1> QED BY <1>5

LEMMA LastRowType ==
  ASSUME TypeOK, Rows # {}
  PROVE  LastRow \in Schedule
<1> DEFINE Largest(id) == \A other \in Rows : other <= id
<1>1. Rows \in SUBSET (1..MaxID) /\ MaxID \in Nat
  BY BoundsAssumption DEF Rows, IDs
<1>2. \E id \in Rows : Largest(id)
  BY <1>1, LargestExists
<1>3. (CHOOSE id \in Rows : Largest(id)) \in Rows
  BY <1>2, Zenon
<1> QED BY <1>3 DEF LastRow, TypeOK, StoreOK, Rows

-----------------------------------------------------------------------------
(* The elements of a cron table after each operation on it.                *)
LEMMA AddElements ==
  ASSUME NEW table, NEW e
  PROVE  BagToSet(Add(table, e)) = BagToSet(table) \cup {e}
BY DEF Add, BagToSet, (+), SetToBag

LEMMA LoadedElements ==
  BagToSet(BagOfAll(LoadedEntry, SetToBag(RowsOfType("script")))) =
    {LoadedEntry(id) : id \in RowsOfType("script")}
BY DEF BagOfAll, BagToSet, SetToBag

-----------------------------------------------------------------------------
(* Types are preserved by a move of one request.                           *)
LEMMA MoveType ==
  ASSUME RequestsOK, NEW r \in Requests, NEW point \in BusyPoints,
         NEW sched \in Schedule, NEW table, BagToSet(table) \subseteq Entry,
         \A e \in BagToSet(table) : Reschedules(point, sched, e) => Parses(sched.expr),
         Move(r, point, sched, table)
  PROVE  RequestsOK'
<1>1. req' = [q \in Requests |-> IF q = r THEN [pc |-> point, sched |-> sched, table |-> table]
                                        ELSE req[q]]
  BY DEF Move, RequestsOK
<1>2. \A q \in Requests : req[q] = [pc |-> req[q].pc, sched |-> req[q].sched, table |-> req[q].table]
  BY DEF RequestsOK
<1>3. \A q \in Requests : req'[q] = [pc |-> req'[q].pc, sched |-> req'[q].sched, table |-> req'[q].table]
  BY <1>1, <1>2
<1>4. ASSUME NEW q \in Requests
      PROVE  /\ BagToSet(req'[q].table) \subseteq Entry
             /\ \A e \in BagToSet(req'[q].table) :
                  Reschedules(req'[q].pc, req'[q].sched, e) => Parses(req'[q].sched.expr)
             /\ \/ req'[q] = Idle
                \/ req'[q].pc \in BusyPoints /\ req'[q].sched \in Schedule
  <2>1. CASE q = r
    BY <1>1, <2>1 DEF BagToSet, Reschedules, Parses
  <2>2. CASE q # r
    BY <1>1, <2>2 DEF RequestsOK, BagToSet, Reschedules, Parses
  <2> QED BY <2>1, <2>2
<1> QED BY <1>1, <1>3, <1>4 DEF RequestsOK, BagToSet, Reschedules, Parses

LEMMA EmptyElements == BagToSet(EmptyBag) = {}
BY DEF BagToSet, EmptyBag, SetToBag

LEMMA DoneType ==
  ASSUME RequestsOK, NEW r \in Requests, Done(r)
  PROVE  RequestsOK'
<1>1. req' = [q \in Requests |-> IF q = r THEN Idle ELSE req[q]]
  BY DEF Done, RequestsOK
<1>2. \A q \in Requests : req[q] = [pc |-> req[q].pc, sched |-> req[q].sched, table |-> req[q].table]
  BY DEF RequestsOK
<1>3. \A q \in Requests : req'[q] = [pc |-> req'[q].pc, sched |-> req'[q].sched, table |-> req'[q].table]
  BY <1>1, <1>2 DEF Idle
<1>4. ASSUME NEW q \in Requests
      PROVE  /\ BagToSet(req'[q].table) \subseteq Entry
             /\ \A e \in BagToSet(req'[q].table) :
                  Reschedules(req'[q].pc, req'[q].sched, e) => Parses(req'[q].sched.expr)
             /\ \/ req'[q] = Idle
                \/ req'[q].pc \in BusyPoints /\ req'[q].sched \in Schedule
  <2>1. CASE q = r
    BY <1>1, <2>1, EmptyElements DEF Idle, BagToSet, Reschedules, Parses
  <2>2. CASE q # r
    BY <1>1, <2>2 DEF RequestsOK, BagToSet, Reschedules, Parses
  <2> QED BY <2>1, <2>2
<1> QED BY <1>1, <1>3, <1>4 DEF RequestsOK, BagToSet, Reschedules, Parses

-----------------------------------------------------------------------------
(* The bucket and the files.                                               *)
LEMMA PutType ==
  ASSUME StoreOK, NEW row \in Schedule, PutNew(row) \/ Put(row), UNCHANGED files
  PROVE  StoreOK'
<1>1. row.id \in IDs /\ row # NoSchedule
  BY NoScheduleAssumption DEF Schedule
<1>2. db' = [db EXCEPT ![row.id] = row] /\ seq' \in 0..MaxID
  BY <1>1 DEF PutNew, Put, StoreOK, IDs
<1>3. db' \in [IDs -> Schedule \cup {NoSchedule}]
  BY <1>2 DEF StoreOK
<1>4. \A id \in Rows' : db'[id].id = id
  BY <1>1, <1>2 DEF StoreOK, Rows
<1> QED BY <1>2, <1>3, <1>4 DEF StoreOK

LEMMA RemoveType ==
  ASSUME StoreOK, NEW id \in IDs, Remove(id), UNCHANGED files
  PROVE  StoreOK'
<1>1. \A x \in Rows' : x \in Rows /\ db'[x] = db[x]
  BY DEF Remove, StoreOK, Rows
<1> QED BY <1>1 DEF Remove, StoreOK

LEMMA RowType == ASSUME StoreOK, NEW id \in Rows PROVE db[id] \in Schedule
BY DEF StoreOK, Rows

LEMMA BusyType ==
  ASSUME RequestsOK, NEW r \in Requests, NEW point \in BusyPoints, At(r, point)
  PROVE  /\ req[r].sched \in Schedule /\ req[r].sched.id \in IDs
         /\ BagToSet(req[r].table) \subseteq Entry
<1>1. req[r] # Idle
  BY DEF At, Idle, BusyPoints, CreatePoints, UpdatePoints, DeletePoints, SettingsPoints
<1> QED BY <1>1 DEF RequestsOK, Schedule

LEMMA AdvanceType ==
  ASSUME RequestsOK, NEW r \in Requests, NEW point \in BusyPoints, NEW next \in BusyPoints,
         At(r, point), Advance(r, next)
  PROVE  RequestsOK'
BY BusyType, MoveType, EmptyElements DEF Advance

LEMMA BeginType ==
  ASSUME RequestsOK, NEW r \in Requests, NEW next \in BusyPoints,
         NEW sched \in Schedule, Begin(r, next, sched)
  PROVE  RequestsOK'
BY MoveType, EmptyElements DEF Begin

LEMMA CopyType ==
  ASSUME RequestsOK, SchedulerOK, NEW r \in Requests, NEW point \in BusyPoints,
         NEW next \in BusyPoints, At(r, point), CopyEntries(r, next),
         \A e \in BagToSet(cron) :
           Reschedules(next, req[r].sched, e) => Parses(req[r].sched.expr)
  PROVE  RequestsOK'
BY BusyType, MoveType DEF CopyEntries, SchedulerOK

-----------------------------------------------------------------------------
(* Each part of the type invariant is kept by each action.                 *)
LEMMA TypeStep == TypeOK /\ [Next]_vars => TypeOK'
<1> SUFFICES ASSUME TypeOK, [Next]_vars PROVE TypeOK'
  OBVIOUS
<1> USE DEF TypeOK
<1>p. /\ CreatePoints \subseteq BusyPoints /\ UpdatePoints \subseteq BusyPoints
      /\ DeletePoints \subseteq BusyPoints /\ SettingsPoints \subseteq BusyPoints
      /\ IOPoints \subseteq BusyPoints
  BY DEF BusyPoints, CreatePoints, UpdatePoints, DeletePoints, SettingsPoints, IOPoints
<1>q. {"create.store", "create.schedule", "create.persist", "update.store", "update.read",
       "update.swap", "update.persist", "delete.remove", "delete.read", "delete.swap",
       "delete.persist", "settings.read", "settings.swap", "settings.persist"}
        \subseteq BusyPoints
  BY DEF BusyPoints, CreatePoints, UpdatePoints, DeletePoints, SettingsPoints
<1>u. ASSUME NEW r \in Requests, NEW point, At(r, point) PROVE phase = "up"
  BY <1>u DEF At
<1>1. CASE LoadSchedules
  <2>1. ASSUME NEW id \in RowsOfType("script") PROVE LoadedEntry(id) \in Entry
    <3>1. id \in Rows /\ db[id] \in Schedule
      BY RowType DEF RowsOfType
    <3>2. LastRow \in Schedule
      BY <3>1, LastRowType
    <3>3. db[id].expr \in ValidExprs
      BY <1>1 DEF LoadSchedules, Parses
    <3> QED BY <3>2, <3>3 DEF LoadedEntry, Entry, JobTypes
  <2>2. BagToSet(cron') \subseteq Entry
    BY <2>1, LoadedElements, <1>1 DEF LoadSchedules
  <2>3. StoreOK' /\ RequestsOK' /\ running' \in BOOLEAN
    BY <1>1 DEF LoadSchedules, store, StoreOK, RequestsOK, SchedulerOK, Rows, BagToSet
  <2> QED BY <1>1, <2>2, <2>3 DEF LoadSchedules, SchedulerOK, BagToSet
<1>2. CASE LoadSchedulesFails
  BY <1>2 DEF LoadSchedulesFails, store, scheduler, StoreOK, RequestsOK, SchedulerOK, Rows, BagToSet
<1>3. ASSUME NEW wanted, NEW type \in JobTypes, LoadSystemSchedule(wanted, type),
             UNCHANGED <<files, running>>
      PROVE  StoreOK' /\ SchedulerOK'
  <2>1. CASE wanted /\ RowsOfType(type) = {}
    <3> DEFINE row == [id |-> NextIdentifier, type |-> type, expr |-> FlagExpr]
    <3>1. NextIdentifier \in IDs /\ cron' = Add(cron, NewEntry(row)) /\ PutNew(row)
      BY <1>3, <2>1 DEF LoadSystemSchedule
    <3>2. row \in Schedule
      BY <3>1, ExprsAssumption DEF Schedule
    <3>3. NewEntry(row) \in Entry
      BY <3>2, ExprsAssumption DEF NewEntry, Entry
    <3>4. StoreOK'
      BY <1>3, <3>1, <3>2, PutType
    <3>5. BagToSet(cron') = BagToSet(cron) \cup {NewEntry(row)}
      BY <3>1, AddElements
    <3>6. SchedulerOK'
      BY <1>3, <3>3, <3>5 DEF SchedulerOK, BagToSet
    <3> QED BY <3>4, <3>6
  <2>2. CASE ~(wanted /\ RowsOfType(type) = {})
    BY <1>3, <2>2 DEF LoadSystemSchedule, StoreOK, SchedulerOK, Rows, BagToSet
  <2> QED BY <2>1, <2>2
<1>4. CASE LoadSyncSchedule
  <2>1. StoreOK' /\ SchedulerOK'
    BY <1>3, <1>4 DEF LoadSyncSchedule, JobTypes
  <2> QED BY <2>1, <1>4 DEF LoadSyncSchedule, RequestsOK, BagToSet
<1>5. CASE LoadSnapshotSchedule
  <2>1. StoreOK' /\ SchedulerOK'
    BY <1>3, <1>5 DEF LoadSnapshotSchedule, JobTypes
  <2> QED BY <2>1, <1>5 DEF LoadSnapshotSchedule, RequestsOK, BagToSet
<1>6. CASE Start
  BY <1>6 DEF Start, store, StoreOK, RequestsOK, SchedulerOK, Rows, BagToSet
<1>7. CASE Crash
  <2>1. RequestsOK'
    BY <1>7, EmptyElements DEF Crash, RequestsOK, Idle, BagToSet
  <2>2. SchedulerOK'
    BY <1>7, EmptyElements DEF Crash, SchedulerOK, BagToSet
  <2>3. restarts' \in 0..MaxRestarts
    BY <1>7, BoundsAssumption DEF Crash
  <2> QED BY <1>7, <2>1, <2>2, <2>3 DEF Crash, store, StoreOK, Rows
<1>8. CASE Relaunch
  BY <1>8 DEF Relaunch, store, scheduler, StoreOK, RequestsOK, SchedulerOK, Rows, BagToSet
<1>9. ASSUME NEW r \in Requests, CreateBegin(r) PROVE TypeOK'
  <2>1. RequestsOK'
    <3>1. PICK expr \in Exprs : Begin(r, "create.store",
                                     [id |-> NextIdentifier, type |-> "script", expr |-> expr])
      BY <1>9 DEF CreateBegin
    <3>2. [id |-> NextIdentifier, type |-> "script", expr |-> expr] \in Schedule
      BY <1>9 DEF CreateBegin, Schedule, JobTypes
    <3> QED BY <3>1, <3>2, <1>q, BeginType
  <2> QED BY <1>9, <2>1, <1>u DEF CreateBegin, store, scheduler, StoreOK, SchedulerOK, Rows, BagToSet
<1>10. ASSUME NEW r \in Requests, CreateStore(r) PROVE TypeOK'
  <2>1. RequestsOK' /\ req[r].sched.id \in IDs
    BY <1>10, <1>q, AdvanceType, BusyType DEF CreateStore
  <2> QED BY <1>10, <2>1, <1>u DEF CreateStore, scheduler, StoreOK, SchedulerOK, Rows, BagToSet
<1>11. ASSUME NEW r \in Requests, CreateSchedule(r) PROVE TypeOK'
  <2>1. req[r].sched \in Schedule
    BY <1>11, <1>q, BusyType DEF CreateSchedule
  <2>2. RequestsOK'
    BY <1>11, <1>q, AdvanceType, DoneType DEF CreateSchedule
  <2>3. SchedulerOK'
    <3>1. CASE Parses(req[r].sched.expr)
      <4>1. NewEntry(req[r].sched) \in Entry
        BY <2>1, <3>1 DEF NewEntry, Entry, Parses, Schedule
      <4>2. BagToSet(cron') = BagToSet(cron) \cup {NewEntry(req[r].sched)} /\ UNCHANGED running
        BY <1>11, <3>1, AddElements DEF CreateSchedule
      <4> QED BY <4>1, <4>2 DEF SchedulerOK, BagToSet
    <3>2. CASE ~Parses(req[r].sched.expr)
      BY <1>11, <3>2 DEF CreateSchedule, SchedulerOK, BagToSet
    <3> QED BY <3>1, <3>2
  <2> QED BY <1>11, <2>2, <2>3, <1>u DEF CreateSchedule, store, StoreOK, Rows
<1>12. ASSUME NEW r \in Requests, CreatePersist(r) PROVE TypeOK'
  <2>1. RequestsOK' /\ StoreOK'
    BY <1>12, <1>q, BusyType, DoneType, PutType DEF CreatePersist
  <2> QED BY <1>12, <2>1, <1>u DEF CreatePersist, scheduler, SchedulerOK, BagToSet
<1>13. ASSUME NEW r \in Requests, UpdateBegin(r) PROVE TypeOK'
  <2>1. RequestsOK'
    <3>1. PICK id \in Rows, expr \in Exprs, point \in BusyPoints :
             \/ Begin(r, point, db[id])
             \/ Begin(r, point, [db[id] EXCEPT !.expr = expr])
      BY <1>13, <1>q, ExprsAssumption DEF UpdateBegin
    <3>2. db[id] \in Schedule /\ [db[id] EXCEPT !.expr = expr] \in Schedule
      BY RowType DEF Schedule
    <3> QED BY <3>1, <3>2, BeginType
  <2> QED BY <1>13, <2>1, <1>u DEF UpdateBegin, store, scheduler, StoreOK, SchedulerOK, Rows, BagToSet
<1>14. ASSUME NEW r \in Requests, UpdateStore(r) PROVE TypeOK'
  <2>1. RequestsOK' /\ req[r].sched.id \in IDs
    BY <1>14, <1>q, AdvanceType, BusyType DEF UpdateStore
  <2> QED BY <1>14, <2>1, <1>u DEF UpdateStore, scheduler, StoreOK, SchedulerOK, Rows, BagToSet
<1>15. ASSUME NEW r \in Requests, UpdateRead(r) PROVE TypeOK'
  <2>1. RequestsOK'
    BY <1>15, <1>q, CopyType, DoneType DEF UpdateRead, Reschedules, Parses
  <2> QED BY <1>15, <2>1, <1>u DEF UpdateRead, store, scheduler, StoreOK, SchedulerOK, Rows, BagToSet
<1>16. ASSUME NEW r \in Requests, UpdateSwap(r) PROVE TypeOK'
  <2> DEFINE matches == {e \in BagToSet(req[r].table) : e.sched.id = req[r].sched.id}
             rescheduled == [e \in matches |->
                               IF e.sched.type = "snapshot"
                                 THEN [e EXCEPT !.at = req[r].sched.expr]
                                 ELSE [sched |-> req[r].sched, runner |-> "script",
                                       at |-> req[r].sched.expr]]
  <2>1. RequestsOK' /\ req[r].sched \in Schedule /\ BagToSet(req[r].table) \subseteq Entry
    BY <1>16, <1>q, AdvanceType, BusyType DEF UpdateSwap
  <2>2. cron' = Rebuild(req[r].table, rescheduled) /\ running' = TRUE
    BY <1>16 DEF UpdateSwap, Replace
  <2>3. ASSUME NEW e \in matches PROVE rescheduled[e] \in Entry
    <3>1. e \in Entry /\ Parses(req[r].sched.expr)
      BY <1>16, <2>1, <2>3 DEF UpdateSwap, At, RequestsOK, Reschedules
    <3> QED BY <3>1, <2>1 DEF Entry, Parses, JobTypes
  <2>d. DOMAIN rescheduled = matches
    OBVIOUS
  <2> HIDE DEF matches, rescheduled
  <2>4. \A e \in BagToSet(cron') :
          e \in BagToSet(req[r].table) \/ \E x \in matches : e = rescheduled[x]
    BY <2>2, <2>d DEF Rebuild, Having, BagToSet, (+), BagOfAll
  <2>5. BagToSet(cron') \subseteq Entry
    BY <2>1, <2>3, <2>4
  <2> QED BY <1>16, <2>1, <2>2, <2>5, <1>u DEF UpdateSwap, store, StoreOK, SchedulerOK, Rows, BagToSet
<1>17. ASSUME NEW r \in Requests, UpdatePersist(r) PROVE TypeOK'
  <2>1. RequestsOK' /\ StoreOK'
    BY <1>17, <1>q, BusyType, DoneType, PutType DEF UpdatePersist
  <2> QED BY <1>17, <2>1, <1>u DEF UpdatePersist, scheduler, SchedulerOK, BagToSet
<1>18. ASSUME NEW r \in Requests, DeleteBegin(r) PROVE TypeOK'
  <2>1. RequestsOK'
    BY <1>18, <1>q, BeginType, RowType DEF DeleteBegin
  <2> QED BY <1>18, <2>1, <1>u DEF DeleteBegin, store, scheduler, StoreOK, SchedulerOK, Rows, BagToSet
<1>19. ASSUME NEW r \in Requests, DeleteRemove(r) PROVE TypeOK'
  <2>1. RequestsOK'
    BY <1>19, <1>q, AdvanceType DEF DeleteRemove
  <2> QED BY <1>19, <2>1, <1>u DEF DeleteRemove, scheduler, StoreOK, SchedulerOK, Rows, BagToSet
<1>20. ASSUME NEW r \in Requests, DeleteRead(r) PROVE TypeOK'
  <2>1. RequestsOK'
    BY <1>20, <1>q, CopyType DEF DeleteRead, Reschedules
  <2> QED BY <1>20, <2>1, <1>u DEF DeleteRead, store, scheduler, StoreOK, SchedulerOK, Rows, BagToSet
<1>21. ASSUME NEW r \in Requests, DeleteSwap(r) PROVE TypeOK'
  <2>1. RequestsOK' /\ BagToSet(req[r].table) \subseteq Entry
    BY <1>21, <1>q, AdvanceType, BusyType DEF DeleteSwap
  <2>2. BagToSet(cron') \subseteq BagToSet(req[r].table) /\ running' = TRUE
    BY <1>21 DEF DeleteSwap, Replace, Having, BagToSet
  <2> QED BY <1>21, <2>1, <2>2, <1>u DEF DeleteSwap, store, StoreOK, SchedulerOK, Rows, BagToSet
<1>22. ASSUME NEW r \in Requests, DeletePersist(r) PROVE TypeOK'
  <2>1. RequestsOK' /\ StoreOK'
    BY <1>22, <1>q, BusyType, DoneType, RemoveType DEF DeletePersist
  <2> QED BY <1>22, <2>1, <1>u DEF DeletePersist, scheduler, SchedulerOK, BagToSet
<1>23. ASSUME NEW r \in Requests, SettingsBegin(r) PROVE TypeOK'
  <2>1. RequestsOK'
    <3>1. PICK id \in Rows, expr \in Exprs :
             Begin(r, "settings.read", [db[id] EXCEPT !.expr = expr])
      BY <1>23 DEF SettingsBegin, RowsOfType
    <3>2. [db[id] EXCEPT !.expr = expr] \in Schedule
      BY RowType DEF Schedule
    <3> QED BY <3>1, <3>2, <1>q, BeginType
  <2> QED BY <1>23, <2>1, <1>u DEF SettingsBegin, store, scheduler, StoreOK, SchedulerOK, Rows, BagToSet
<1>24. ASSUME NEW r \in Requests, SettingsRead(r) PROVE TypeOK'
  <2>1. RequestsOK'
    BY <1>24, <1>q, CopyType, DoneType DEF SettingsRead, Reschedules, Parses
  <2> QED BY <1>24, <2>1, <1>u DEF SettingsRead, store, scheduler, StoreOK, SchedulerOK, Rows, BagToSet
<1>25. ASSUME NEW r \in Requests, SettingsSwap(r) PROVE TypeOK'
  <2> DEFINE matches == {e \in BagToSet(req[r].table) : e.sched.type = "snapshot"}
             rescheduled == [e \in matches |-> [e EXCEPT !.at = req[r].sched.expr]]
  <2>1. RequestsOK' /\ BagToSet(req[r].table) \subseteq Entry
    BY <1>25, <1>q, AdvanceType, BusyType DEF SettingsSwap
  <2>2. cron' = Rebuild(req[r].table, rescheduled) /\ running' = TRUE
    BY <1>25 DEF SettingsSwap, Replace
  <2>3. ASSUME NEW e \in matches PROVE rescheduled[e] \in Entry
    <3>1. e \in Entry /\ Parses(req[r].sched.expr)
      BY <1>25, <2>1, <2>3 DEF SettingsSwap, At, RequestsOK, Reschedules
    <3> QED BY <3>1 DEF Entry, Parses
  <2>d. DOMAIN rescheduled = matches
    OBVIOUS
  <2> HIDE DEF matches, rescheduled
  <2>4. \A e \in BagToSet(cron') :
          e \in BagToSet(req[r].table) \/ \E x \in matches : e = rescheduled[x]
    BY <2>2, <2>d DEF Rebuild, Having, BagToSet, (+), BagOfAll
  <2>5. BagToSet(cron') \subseteq Entry
    BY <2>1, <2>3, <2>4
  <2> QED BY <1>25, <2>1, <2>2, <2>5, <1>u DEF SettingsSwap, store, StoreOK, SchedulerOK, Rows, BagToSet
<1>26. ASSUME NEW r \in Requests, SettingsPersist(r) PROVE TypeOK'
  <2>1. RequestsOK' /\ StoreOK'
    BY <1>26, <1>q, BusyType, DoneType, PutType DEF SettingsPersist
  <2> QED BY <1>26, <2>1, <1>u DEF SettingsPersist, scheduler, SchedulerOK, BagToSet
<1>27. ASSUME NEW r \in Requests, IOError(r) PROVE TypeOK'
  <2>1. RequestsOK' /\ faults' \in 0..MaxFaults
    BY <1>27, DoneType, BoundsAssumption DEF IOError
  <2> QED BY <1>27, <2>1, <1>u DEF IOError, store, scheduler, StoreOK, SchedulerOK, Rows, BagToSet
<1>28. CASE UNCHANGED vars
  BY <1>28 DEF vars, store, scheduler, StoreOK, RequestsOK, SchedulerOK, Rows, BagToSet, Reschedules, Parses
<1> QED
  BY <1>1, <1>2, <1>4, <1>5, <1>6, <1>7, <1>8, <1>9, <1>10, <1>11, <1>12, <1>13, <1>14, <1>15,
     <1>16, <1>17, <1>18, <1>19, <1>20, <1>21, <1>22, <1>23, <1>24, <1>25, <1>26, <1>27, <1>28
  DEF Next, Boot, Create, Update, Delete, Settings

LEMMA TypeInit == Init => TypeOK
<1> SUFFICES ASSUME Init PROVE TypeOK
  OBVIOUS
<1>1. StoreOK
  BY BoundsAssumption DEF Init, StoreOK, Rows, IDs
<1>2. SchedulerOK
  BY EmptyElements DEF Init, SchedulerOK
<1>3. RequestsOK
  BY EmptyElements DEF Init, RequestsOK, Idle
<1> QED BY <1>1, <1>2, <1>3, BoundsAssumption DEF Init, TypeOK

(* Every variable keeps its type, a row stays under its own identifier,    *)
(* and no job is ever in the cron table at an expression that was refused. *)
THEOREM TypeCorrect == Spec => []TypeOK
BY TypeInit, TypeStep, PTL DEF Spec

-----------------------------------------------------------------------------
(* Why system rows are kept: every identifier a creation may write is      *)
(* above all of theirs, a request that holds one of them holds it with its *)
(* own type and is not a deletion, and no request holds a system schedule  *)
(* that has no row.                                                        *)
KeepsSystemRows(r) ==
  /\ Creating(r) => /\ req[r].sched.type = "script"
                    /\ \A id \in SystemRows : id < req[r].sched.id
  /\ \A id \in SystemRows : WorksOn(r, id) =>
       /\ req[r].pc \in UpdatePoints \cup SettingsPoints
       /\ req[r].sched.type = db[id].type
  /\ Busy(r) /\ req[r].sched.type \in SystemTypes => req[r].sched.id \in SystemRows
SystemInv ==
  /\ \A id \in SystemRows : id <= seq
  /\ \A r \in Requests : KeepsSystemRows(r)

SystemRowsStep ==
  \A id \in SystemRows : db'[id] # NoSchedule /\ db'[id].type = db[id].type

LEMMA MoveEffect ==
  ASSUME RequestsOK, NEW r \in Requests, NEW point, NEW sched, NEW table,
         Move(r, point, sched, table)
  PROVE  /\ req'[r] = [pc |-> point, sched |-> sched, table |-> table]
         /\ \A q \in Requests \ {r} : req'[q] = req[q]
BY DEF RequestsOK, Move

LEMMA DoneEffect ==
  ASSUME RequestsOK, NEW r \in Requests, Done(r)
  PROVE  req'[r] = Idle /\ \A q \in Requests \ {r} : req'[q] = req[q]
BY DEF RequestsOK, Done

LEMMA Points ==
  /\ "idle" \notin BusyPoints
  /\ CreatePoints \cap (UpdatePoints \cup DeletePoints \cup SettingsPoints) = {}
  /\ DeletePoints \cap (UpdatePoints \cup SettingsPoints) = {}
  /\ CreatePoints \cup UpdatePoints \cup DeletePoints \cup SettingsPoints = BusyPoints
BY DEF BusyPoints, CreatePoints, UpdatePoints, DeletePoints, SettingsPoints

(* A step of one request that leaves the bucket alone.                     *)
LEMMA SystemFrame ==
  ASSUME SystemInv, UNCHANGED <<db, seq>>, NEW r \in Requests,
         \A q \in Requests \ {r} : req'[q] = req[q], KeepsSystemRows(r)'
  PROVE  SystemInv' /\ SystemRowsStep
BY DEF SystemInv, KeepsSystemRows, Creating, WorksOn, Busy, SystemRows, SystemRowsStep, Rows

LEMMA SystemDone ==
  ASSUME RequestsOK, SystemInv, UNCHANGED <<db, seq>>, NEW r \in Requests, Done(r)
  PROVE  SystemInv' /\ SystemRowsStep
BY DoneEffect, SystemFrame DEF KeepsSystemRows, Creating, WorksOn, Busy

(* A request moves on with the schedule it holds.                          *)
LEMMA SystemAdvance ==
  ASSUME TypeOK, SystemInv, UNCHANGED <<db, seq>>, NEW r \in Requests,
         NEW point \in BusyPoints, NEW next \in BusyPoints, NEW table, At(r, point),
         Move(r, next, req[r].sched, table),
         \/ {point, next} \subseteq CreatePoints
         \/ {point, next} \subseteq UpdatePoints
         \/ {point, next} \subseteq DeletePoints
         \/ {point, next} \subseteq SettingsPoints
  PROVE  SystemInv' /\ SystemRowsStep
<1>1. req'[r] = [pc |-> next, sched |-> req[r].sched, table |-> table] /\ req[r].pc = point
  BY MoveEffect DEF TypeOK, At
<1>2. Busy(r)
  BY <1>1, Points DEF Busy, Idle
<1>3. KeepsSystemRows(r)'
  BY <1>1, <1>2, Points DEF SystemInv, KeepsSystemRows, Creating, WorksOn, Busy, SystemRows, Rows
<1> QED BY <1>3, MoveEffect, SystemFrame DEF TypeOK

(* A request other than a creation begins with a row it read.              *)
LEMMA SystemBegin ==
  ASSUME TypeOK, SystemInv, UNCHANGED <<db, seq>>, NEW r \in Requests,
         NEW id \in Rows, NEW sched, NEW point, Begin(r, point, sched),
         sched.id = id /\ sched.type = db[id].type,
         \/ point \in UpdatePoints \cup SettingsPoints
         \/ point \in DeletePoints /\ id \notin SystemRows
  PROVE  SystemInv' /\ SystemRowsStep
<1>1. req'[r] = [pc |-> point, sched |-> sched, table |-> EmptyBag]
  BY MoveEffect DEF TypeOK, Begin
<1>2. KeepsSystemRows(r)'
  BY <1>1, Points DEF KeepsSystemRows, Creating, WorksOn, Busy, SystemRows, Rows
<1> QED BY <1>2, MoveEffect, SystemFrame DEF TypeOK, Begin

(* A row is written over an absent one above the system rows, or over one  *)
(* of its own type, and the sequence stays above the system rows.          *)
LEMMA SystemPut ==
  ASSUME TypeOK, SystemInv, NEW r \in Requests, NEW point \in BusyPoints, At(r, point),
         Done(r),
         \/ point \in CreatePoints /\ PutNew(req[r].sched)
         \/ point \in UpdatePoints \cup SettingsPoints /\ Put(req[r].sched)
  PROVE  SystemInv' /\ SystemRowsStep
<1> DEFINE row == req[r].sched
<1>1. row \in Schedule /\ row.id \in IDs /\ row # NoSchedule
  BY BusyType, NoScheduleAssumption DEF TypeOK
<1>2. Busy(r) /\ KeepsSystemRows(r) /\ req[r].pc = point
  BY Points DEF SystemInv, At, Busy, Idle
<1>3. db' = [db EXCEPT ![row.id] = row] /\ seq' = (IF point \in CreatePoints THEN row.id ELSE seq)
  BY Points DEF PutNew, Put
<1>4. \A id \in IDs : db'[id] = IF id = row.id THEN row ELSE db[id]
  BY <1>1, <1>3 DEF TypeOK, StoreOK
<1>5. point \in CreatePoints => row.type = "script" /\ \A id \in SystemRows : id < row.id
  BY <1>2 DEF KeepsSystemRows, Creating
<1>6. row.id \in SystemRows => row.type = db[row.id].type
  BY <1>2 DEF KeepsSystemRows, WorksOn
<1>7. row.type \in SystemTypes => row.id \in SystemRows
  BY <1>2 DEF KeepsSystemRows
<1>8. SystemRows' = SystemRows
  <2>1. ASSUME NEW id \in SystemRows PROVE id \in SystemRows'
    BY <1>1, <1>4, <1>6 DEF SystemRows, Rows
  <2>2. ASSUME NEW id \in SystemRows' PROVE id \in SystemRows
    BY <1>1, <1>4, <1>7 DEF SystemRows, Rows
  <2> QED BY <2>1, <2>2
<1>9. SystemRowsStep
  BY <1>1, <1>4, <1>6 DEF SystemRowsStep, SystemRows, Rows
<1>10. \A id \in SystemRows' : id <= seq'
  BY <1>1, <1>3, <1>5, <1>8 DEF SystemInv, SystemRows, Rows, IDs, TypeOK, StoreOK
<1>11. ASSUME NEW q \in Requests PROVE KeepsSystemRows(q)'
  <2>1. CASE q = r
    BY <2>1, DoneEffect DEF TypeOK, KeepsSystemRows, Creating, WorksOn, Busy
  <2>2. CASE q # r
    <3>1. req'[q] = req[q] /\ KeepsSystemRows(q)
      BY <2>2, DoneEffect DEF TypeOK, SystemInv
    <3>2. \A id \in SystemRows : db'[id].type = db[id].type
      BY <1>9 DEF SystemRowsStep
    <3> QED BY <3>1, <3>2, <1>8 DEF KeepsSystemRows, Creating, WorksOn, Busy
  <2> QED BY <2>1, <2>2
<1> QED BY <1>9, <1>10, <1>11 DEF SystemInv

LEMMA SystemRemove ==
  ASSUME TypeOK, SystemInv, NEW r \in Requests, At(r, "delete.persist"), Done(r),
         Remove(req[r].sched.id)
  PROVE  SystemInv' /\ SystemRowsStep
<1>1. req[r].sched.id \in IDs /\ Busy(r) /\ req[r].pc = "delete.persist"
  BY BusyType DEF TypeOK, At, Busy, Idle, BusyPoints, DeletePoints
<1>2. req[r].sched.id \notin SystemRows
  BY <1>1, Points DEF SystemInv, KeepsSystemRows, WorksOn, DeletePoints
<1>3. SystemRows' = SystemRows /\ \A id \in SystemRows : db'[id] = db[id]
  BY <1>1, <1>2 DEF Remove, SystemRows, Rows, TypeOK, StoreOK
<1>4. ASSUME NEW q \in Requests PROVE KeepsSystemRows(q)'
  BY <1>3, DoneEffect DEF TypeOK, SystemInv, KeepsSystemRows, Creating, WorksOn, Busy
<1>5. \A id \in SystemRows' : id <= seq'
  BY <1>3 DEF SystemInv, Remove
<1>6. SystemRowsStep
  BY <1>3 DEF SystemRowsStep, SystemRows, Rows
<1> QED BY <1>4, <1>5, <1>6 DEF SystemInv

(* At start-up no request is under way, and a system schedule is stored    *)
(* under an identifier above all that the bucket has given.                *)
LEMMA SystemLoad ==
  ASSUME TypeOK, SystemInv, phase # "up", NEW type \in SystemTypes,
         NEW wanted, LoadSystemSchedule(wanted, type), UNCHANGED req
  PROVE  SystemInv' /\ SystemRowsStep
<1>1. \A r \in Requests : ~Busy(r) /\ ~Busy(r)'
  BY DEF TypeOK, Busy
<1>2. CASE wanted /\ RowsOfType(type) = {}
  <2> DEFINE row == [id |-> NextIdentifier, type |-> type, expr |-> FlagExpr]
  <2>1. row.id \in IDs /\ row.id = seq + 1 /\ PutNew(row)
    BY <1>2 DEF LoadSystemSchedule, NextIdentifier
  <2>2. row.id \notin SystemRows
    BY <2>1 DEF SystemInv, TypeOK, StoreOK
  <2>3. \A id \in IDs : db'[id] = IF id = row.id THEN row ELSE db[id]
    BY <2>1 DEF PutNew, TypeOK, StoreOK
  <2>4. SystemRowsStep
    BY <2>2, <2>3 DEF SystemRowsStep, SystemRows, Rows
  <2>5. SystemRows' \subseteq SystemRows \cup {row.id}
    BY <2>3 DEF SystemRows, Rows
  <2>6. \A id \in SystemRows' : id <= seq'
    BY <2>1, <2>5 DEF SystemInv, PutNew, SystemRows, Rows, IDs, TypeOK, StoreOK
  <2> QED BY <1>1, <2>4, <2>6 DEF SystemInv, KeepsSystemRows, Creating, WorksOn
<1>3. CASE ~(wanted /\ RowsOfType(type) = {})
  BY <1>1, <1>3 DEF LoadSystemSchedule, SystemInv, KeepsSystemRows, Creating, WorksOn,
    SystemRowsStep, SystemRows, Rows
<1> QED BY <1>2, <1>3

LEMMA SystemStep == TypeOK /\ SystemInv /\ [Next]_vars => SystemInv' /\ SystemRowsStep
<1> SUFFICES ASSUME TypeOK, SystemInv, [Next]_vars PROVE SystemInv' /\ SystemRowsStep
  OBVIOUS
<1> DEFINE Goal == SystemInv' /\ SystemRowsStep
<1>p. /\ {"create.store", "create.schedule", "create.persist"} = CreatePoints
      /\ {"update.store", "update.read", "update.swap", "update.persist"} = UpdatePoints
      /\ {"delete.remove", "delete.read", "delete.swap", "delete.persist"} = DeletePoints
      /\ {"settings.read", "settings.swap", "settings.persist"} = SettingsPoints
      /\ BusyPoints = CreatePoints \cup UpdatePoints \cup DeletePoints \cup SettingsPoints
  BY DEF BusyPoints, CreatePoints, UpdatePoints, DeletePoints, SettingsPoints
<1>t. RequestsOK
  BY DEF TypeOK
<1>1. ASSUME UNCHANGED <<db, seq>>, \A r \in Requests : req'[r] = req[r] \/ req'[r] = Idle
      PROVE  Goal
  BY <1>1 DEF SystemInv, KeepsSystemRows, Creating, WorksOn, Busy, SystemRows, Rows, SystemRowsStep
<1>2. CASE LoadSchedules \/ LoadSchedulesFails \/ Start \/ Crash \/ Relaunch \/ UNCHANGED vars
  BY <1>1, <1>2 DEF LoadSchedules, LoadSchedulesFails, Start, Crash, Relaunch, vars, store
<1>3. CASE LoadSyncSchedule
  BY <1>3, SystemLoad DEF LoadSyncSchedule, SystemTypes
<1>4. CASE LoadSnapshotSchedule
  BY <1>4, SystemLoad DEF LoadSnapshotSchedule, SystemTypes
<1>5. ASSUME NEW r \in Requests, CreateBegin(r) PROVE Goal
  <2>1. PICK expr \in Exprs : Begin(r, "create.store",
                                   [id |-> NextIdentifier, type |-> "script", expr |-> expr])
    BY <1>5 DEF CreateBegin
  <2>2. req'[r] = [pc |-> "create.store", table |-> EmptyBag,
                   sched |-> [id |-> NextIdentifier, type |-> "script", expr |-> expr]]
    BY <2>1, <1>t, MoveEffect DEF Begin
  <2>3. UNCHANGED <<db, seq>>
    BY <1>5 DEF CreateBegin, store
  <2>4. \A id \in SystemRows : id < NextIdentifier /\ id # NextIdentifier
    BY DEF SystemInv, NextIdentifier, SystemRows, Rows, IDs, TypeOK, StoreOK
  <2>5. KeepsSystemRows(r)'
    BY <2>2, <2>3, <2>4, <1>p DEF KeepsSystemRows, Creating, WorksOn, Busy, SystemRows, Rows,
      SystemTypes, NextIdentifier
  <2> QED BY <2>1, <2>3, <2>5, <1>t, MoveEffect, SystemFrame DEF Begin
<1>6. ASSUME NEW r \in Requests, CreateStore(r) PROVE Goal
  BY <1>6, <1>p, SystemAdvance DEF CreateStore, Advance, store
<1>7. ASSUME NEW r \in Requests, UpdateStore(r) PROVE Goal
  BY <1>7, <1>p, SystemAdvance DEF UpdateStore, Advance, store
<1>8. ASSUME NEW r \in Requests, DeleteRemove(r) PROVE Goal
  BY <1>8, <1>p, SystemAdvance DEF DeleteRemove, Advance, store
<1>9. ASSUME NEW r \in Requests, UpdateSwap(r) PROVE Goal
  BY <1>9, <1>p, SystemAdvance DEF UpdateSwap, Advance, store
<1>10. ASSUME NEW r \in Requests, DeleteSwap(r) PROVE Goal
  BY <1>10, <1>p, SystemAdvance DEF DeleteSwap, Advance, store
<1>11. ASSUME NEW r \in Requests, SettingsSwap(r) PROVE Goal
  BY <1>11, <1>p, SystemAdvance DEF SettingsSwap, Advance, store
<1>12. ASSUME NEW r \in Requests, DeleteRead(r) PROVE Goal
  BY <1>12, <1>p, SystemAdvance DEF DeleteRead, CopyEntries, store
<1>13. ASSUME NEW r \in Requests, CreateSchedule(r) PROVE Goal
  BY <1>13, <1>p, <1>t, SystemAdvance, SystemDone DEF CreateSchedule, Advance, store
<1>14. ASSUME NEW r \in Requests, UpdateRead(r) PROVE Goal
  BY <1>14, <1>p, <1>t, SystemAdvance, SystemDone DEF UpdateRead, CopyEntries, store
<1>15. ASSUME NEW r \in Requests, SettingsRead(r) PROVE Goal
  BY <1>15, <1>p, <1>t, SystemAdvance, SystemDone DEF SettingsRead, CopyEntries, store
<1>16. ASSUME NEW r \in Requests, CreatePersist(r) PROVE Goal
  BY <1>16, <1>p, SystemPut DEF CreatePersist
<1>17. ASSUME NEW r \in Requests, UpdatePersist(r) PROVE Goal
  BY <1>17, <1>p, SystemPut DEF UpdatePersist
<1>18. ASSUME NEW r \in Requests, SettingsPersist(r) PROVE Goal
  BY <1>18, <1>p, SystemPut DEF SettingsPersist
<1>19. ASSUME NEW r \in Requests, DeletePersist(r) PROVE Goal
  BY <1>19, SystemRemove DEF DeletePersist
<1>20. ASSUME NEW r \in Requests, IOError(r) PROVE Goal
  BY <1>20, <1>t, SystemDone DEF IOError, store
<1>21. ASSUME NEW r \in Requests, UpdateBegin(r) PROVE Goal
  <2>1. PICK id \in Rows, sched \in Schedule, point \in UpdatePoints :
           Begin(r, point, sched) /\ sched.id = id /\ sched.type = db[id].type
    <3>1. PICK id \in Rows :
             \/ Begin(r, "update.persist", db[id])
             \/ \E expr \in Exprs, point \in {"update.read", "update.store"} :
                  Begin(r, point, [db[id] EXCEPT !.expr = expr])
      BY <1>21 DEF UpdateBegin
    <3>2. db[id] \in Schedule /\ db[id].id = id
      BY RowType DEF TypeOK, StoreOK
    <3>3. \A expr \in Exprs : /\ [db[id] EXCEPT !.expr = expr] \in Schedule
                               /\ [db[id] EXCEPT !.expr = expr].id = id
                               /\ [db[id] EXCEPT !.expr = expr].type = db[id].type
      BY <3>2 DEF Schedule
    <3>4. CASE Begin(r, "update.persist", db[id])
      BY <3>2, <3>4, <1>p
    <3>5. ASSUME NEW expr \in Exprs, NEW point \in {"update.read", "update.store"},
                 Begin(r, point, [db[id] EXCEPT !.expr = expr])
          PROVE  \E sched \in Schedule, point2 \in UpdatePoints :
                   Begin(r, point2, sched) /\ sched.id = id /\ sched.type = db[id].type
      BY <3>3, <3>5, <1>p
    <3> QED BY <3>1, <3>4, <3>5
  <2> QED BY <1>21, <2>1, SystemBegin DEF UpdateBegin, store
<1>22. ASSUME NEW r \in Requests, SettingsBegin(r) PROVE Goal
  <2>1. PICK id \in Rows, expr \in Exprs :
           Begin(r, "settings.read", [db[id] EXCEPT !.expr = expr])
    BY <1>22 DEF SettingsBegin, RowsOfType
  <2>2. db[id] \in Schedule /\ db[id].id = id
    BY RowType DEF TypeOK, StoreOK
  <2>3. [db[id] EXCEPT !.expr = expr].id = id /\ [db[id] EXCEPT !.expr = expr].type = db[id].type
    BY <2>2 DEF Schedule
  <2> QED BY <1>22, <1>p, <2>1, <2>3, SystemBegin DEF SettingsBegin, store
<1>23. ASSUME NEW r \in Requests, DeleteBegin(r) PROVE Goal
  <2>1. PICK id \in Rows \ SystemRows : Begin(r, "delete.remove", db[id])
    BY <1>23 DEF DeleteBegin
  <2>2. db[id].id = id
    BY DEF TypeOK, StoreOK
  <2> QED BY <1>23, <1>p, <2>1, <2>2, SystemBegin DEF DeleteBegin, store
<1> QED
  BY <1>2, <1>3, <1>4, <1>5, <1>6, <1>7, <1>8, <1>9, <1>10, <1>11, <1>12, <1>13, <1>14, <1>15, <1>16, <1>17, <1>18, <1>19, <1>20, <1>21, <1>22, <1>23
  DEF Next, Boot, Create, Update, Delete, Settings

LEMMA SystemInit == Init => SystemInv
BY DEF Init, SystemInv, KeepsSystemRows, Creating, WorksOn, Busy, SystemRows, Rows

(* No interleaving of requests, crash or failing operation makes a system  *)
(* schedule disappear from the database or turn into another kind.         *)
THEOREM SystemSchedulesKept == Spec => SystemRowsKept
<1>1. TypeOK /\ SystemInv /\ [Next]_vars => [SystemRowsStep]_vars
  BY SystemStep
<1> QED BY <1>1, TypeInit, TypeStep, SystemInit, SystemStep, PTL
  DEF Spec, SystemRowsKept, SystemRowsStep

-----------------------------------------------------------------------------
(* Why the snapshot job survives: not only the cron table but every copy   *)
(* of it that a request is about to swap in has its entry, and that entry  *)
(* names a row no deletion can name.                                       *)
HasSnapshot(table) ==
  \E e \in BagToSet(table) : e.runner = "snapshot" /\ e.sched.id \in RowsOfType("snapshot")
SnapshotInv ==
  Snapshot /\ restarts = 0 =>
    /\ phase # "fatal"
    /\ phase \in {"load.scripts", "load.sync"} => Rows = {}
    /\ phase = "load.snapshot" => RowsOfType("snapshot") = {}
    /\ phase \in {"start", "up"} => HasSnapshot(cron)
    /\ phase = "up" => running
    /\ \A r \in Requests : req[r].pc \in SwapPoints => HasSnapshot(req[r].table)

LEMMA SnapshotKept ==
  ASSUME TypeOK, SystemRowsStep, NEW table, HasSnapshot(table)
  PROVE  HasSnapshot(table)'
BY DEF HasSnapshot, SystemRowsStep, SystemRows, SystemTypes, RowsOfType, Rows, BagToSet

(* A step of one request that leaves the cron table alone.                 *)
LEMMA SnapshotFrame ==
  ASSUME TypeOK, SnapshotInv, SystemRowsStep, phase = "up",
         UNCHANGED <<cron, running, phase, restarts>>, NEW r \in Requests,
         \A q \in Requests \ {r} : req'[q] = req[q],
         req'[r].pc \in SwapPoints => req'[r].table = cron
  PROVE  SnapshotInv'
<1> SUFFICES ASSUME Snapshot, restarts = 0 PROVE SnapshotInv'
  BY DEF SnapshotInv
<1>1. HasSnapshot(cron) /\ HasSnapshot(cron)'
  BY SnapshotKept DEF SnapshotInv
<1>2. ASSUME NEW q \in Requests, req'[q].pc \in SwapPoints PROVE HasSnapshot(req[q].table)'
  <2>1. CASE q = r
    BY <1>1, <1>2, <2>1 DEF HasSnapshot, BagToSet
  <2>2. CASE q # r
    <3>1. HasSnapshot(req[q].table) /\ req'[q] = req[q]
      BY <1>2, <2>2 DEF SnapshotInv
    <3>2. \E e \in BagToSet(req[q].table) : e.runner = "snapshot" /\ e.sched.id \in RowsOfType("snapshot")'
      BY <3>1, SystemRowsStep DEF HasSnapshot, SystemRowsStep, SystemRows, SystemTypes, RowsOfType, Rows
    <3> QED BY <3>1, <3>2 DEF HasSnapshot, BagToSet
  <2> QED BY <2>1, <2>2
<1> QED BY <1>1, <1>2 DEF SnapshotInv

LEMMA SnapshotMove ==
  ASSUME TypeOK, SnapshotInv, SystemRowsStep, phase = "up",
         UNCHANGED <<cron, running, phase, restarts>>, NEW r \in Requests,
         NEW point, NEW sched, NEW table, Move(r, point, sched, table),
         point \in SwapPoints => table = cron
  PROVE  SnapshotInv'
<1>1. req'[r] = [pc |-> point, sched |-> sched, table |-> table]
      /\ \A q \in Requests \ {r} : req'[q] = req[q]
  BY MoveEffect DEF TypeOK
<1>2. req'[r].pc = point /\ req'[r].table = table
  BY <1>1
<1> QED BY <1>1, <1>2, SnapshotFrame

LEMMA SnapshotDone ==
  ASSUME TypeOK, SnapshotInv, SystemRowsStep, phase = "up",
         UNCHANGED <<cron, running, phase, restarts>>, NEW r \in Requests, Done(r)
  PROVE  SnapshotInv'
<1>1. req'[r] = Idle /\ \A q \in Requests \ {r} : req'[q] = req[q]
  BY DoneEffect DEF TypeOK
<1>2. req'[r].pc \notin SwapPoints
  BY <1>1 DEF Idle, SwapPoints
<1> QED BY <1>1, <1>2, SnapshotFrame

(* A request swaps in a table made from its copy that kept the entry.      *)
LEMMA SnapshotSwap ==
  ASSUME TypeOK, SnapshotInv, phase = "up", UNCHANGED <<db, phase, restarts>>,
         NEW r \in Requests, NEW next, next \notin SwapPoints, Advance(r, next), running',
         NEW table, cron' = table, Snapshot /\ restarts = 0 => HasSnapshot(table)
  PROVE  SnapshotInv'
<1> SUFFICES ASSUME Snapshot, restarts = 0 PROVE SnapshotInv'
  BY DEF SnapshotInv
<1>1. HasSnapshot(cron)'
  BY DEF HasSnapshot, RowsOfType, Rows, BagToSet
<1>2. \A q \in Requests : req'[q].pc \in SwapPoints => req'[q] = req[q]
  <2>1. req'[r] = [pc |-> next, sched |-> req[r].sched, table |-> EmptyBag]
        /\ \A q \in Requests \ {r} : req'[q] = req[q]
    BY MoveEffect DEF TypeOK, Advance
  <2> QED BY <2>1
<1>3. ASSUME NEW q \in Requests, req'[q].pc \in SwapPoints PROVE HasSnapshot(req[q].table)'
  <2>1. HasSnapshot(req[q].table) /\ req'[q] = req[q]
    BY <1>2, <1>3 DEF SnapshotInv
  <2> QED BY <2>1 DEF HasSnapshot, RowsOfType, Rows, BagToSet
<1> QED BY <1>1, <1>3 DEF SnapshotInv

LEMMA SnapshotStep ==
  TypeOK /\ SystemInv /\ SnapshotInv /\ SystemRowsStep /\ [Next]_vars => SnapshotInv'
<1> SUFFICES ASSUME TypeOK, SystemInv, SnapshotInv, SystemRowsStep, [Next]_vars
             PROVE  SnapshotInv'
  OBVIOUS
<1>t. RequestsOK /\ (phase # "up" => \A r \in Requests : req[r] = Idle)
  BY DEF TypeOK
<1>i. Idle.pc \notin SwapPoints
  BY DEF Idle, SwapPoints
<1>s. SwapPoints = {"update.swap", "delete.swap", "settings.swap"}
  BY DEF SwapPoints
<1>1. CASE LoadSchedules
  BY <1>1, <1>t, <1>i DEF LoadSchedules, SnapshotInv, store, Rows, RowsOfType
<1>2. CASE LoadSchedulesFails
  BY <1>2, <1>t, <1>i DEF LoadSchedulesFails, SnapshotInv, store, Rows, RowsOfType
<1>3. CASE LoadSyncSchedule
  <2> SUFFICES ASSUME Snapshot, restarts = 0 PROVE RowsOfType("snapshot")' = {}
    BY <1>3, <1>t, <1>i DEF LoadSyncSchedule, SnapshotInv
  <2>1. Rows = {}
    BY <1>3 DEF LoadSyncSchedule, SnapshotInv
  <2> QED BY <1>3, <2>1 DEF LoadSyncSchedule, LoadSystemSchedule, PutNew, Rows, RowsOfType,
    TypeOK, StoreOK
<1>4. CASE LoadSnapshotSchedule
  <2> SUFFICES ASSUME Snapshot, restarts = 0 PROVE HasSnapshot(cron)'
    BY <1>4, <1>t, <1>i DEF LoadSnapshotSchedule, SnapshotInv
  <2> DEFINE row == [id |-> NextIdentifier, type |-> "snapshot", expr |-> FlagExpr]
  <2>1. RowsOfType("snapshot") = {}
    BY <1>4 DEF LoadSnapshotSchedule, SnapshotInv
  <2>2. NextIdentifier \in IDs /\ cron' = Add(cron, NewEntry(row)) /\ PutNew(row)
    BY <1>4, <2>1 DEF LoadSnapshotSchedule, LoadSystemSchedule
  <2>3. NewEntry(row) \in BagToSet(cron')
    BY <2>2, AddElements
  <2>4. db'[NextIdentifier] = row /\ row # NoSchedule
    BY <2>2, NoScheduleAssumption, ExprsAssumption DEF PutNew, TypeOK, StoreOK, Schedule, JobTypes
  <2>5. NewEntry(row).runner = "snapshot" /\ NewEntry(row).sched.id \in RowsOfType("snapshot")'
    BY <2>2, <2>4 DEF NewEntry, RowsOfType, Rows
  <2> QED BY <2>3, <2>5 DEF HasSnapshot, BagToSet
<1>5. CASE Start
  <2> SUFFICES ASSUME Snapshot, restarts = 0 PROVE HasSnapshot(cron)' /\ running'
    BY <1>5, <1>t, <1>i DEF Start, SnapshotInv
  <2>1. HasSnapshot(cron)
    BY <1>5 DEF Start, SnapshotInv
  <2>2. cron # EmptyBag
    BY <2>1, EmptyElements DEF HasSnapshot
  <2> QED BY <1>5, <2>1, <2>2, SnapshotKept DEF Start, HasSnapshot, BagToSet, store, RowsOfType, Rows
<1>6. CASE Crash
  BY <1>6 DEF Crash, SnapshotInv, TypeOK
<1>7. CASE Relaunch
  BY <1>7 DEF Relaunch, SnapshotInv
<1>8. ASSUME NEW r \in Requests, CreateBegin(r) PROVE SnapshotInv'
  <2>1. \E point \in BusyPoints \ SwapPoints : \E sched : Begin(r, point, sched)
    BY <1>8 DEF CreateBegin, BusyPoints, CreatePoints, UpdatePoints, DeletePoints, SettingsPoints, SwapPoints
  <2> QED BY <1>8, <2>1, SnapshotMove DEF CreateBegin, Begin, At, scheduler
<1>9. ASSUME NEW r \in Requests, UpdateBegin(r) PROVE SnapshotInv'
  <2>1. \E point \in BusyPoints \ SwapPoints : \E sched : Begin(r, point, sched)
    BY <1>9 DEF UpdateBegin, BusyPoints, CreatePoints, UpdatePoints, DeletePoints, SettingsPoints, SwapPoints
  <2> QED BY <1>9, <2>1, SnapshotMove DEF UpdateBegin, Begin, At, scheduler
<1>10. ASSUME NEW r \in Requests, DeleteBegin(r) PROVE SnapshotInv'
  <2>1. \E point \in BusyPoints \ SwapPoints : \E sched : Begin(r, point, sched)
    BY <1>10 DEF DeleteBegin, BusyPoints, CreatePoints, UpdatePoints, DeletePoints, SettingsPoints, SwapPoints
  <2> QED BY <1>10, <2>1, SnapshotMove DEF DeleteBegin, Begin, At, scheduler
<1>11. ASSUME NEW r \in Requests, SettingsBegin(r) PROVE SnapshotInv'
  <2>1. \E point \in BusyPoints \ SwapPoints : \E sched : Begin(r, point, sched)
    BY <1>11 DEF SettingsBegin, BusyPoints, CreatePoints, UpdatePoints, DeletePoints, SettingsPoints, SwapPoints
  <2> QED BY <1>11, <2>1, SnapshotMove DEF SettingsBegin, Begin, At, scheduler
<1>12. ASSUME NEW r \in Requests, CreateStore(r) PROVE SnapshotInv'
  BY <1>12, <1>s, SnapshotMove DEF CreateStore, Advance, At, scheduler
<1>13. ASSUME NEW r \in Requests, UpdateStore(r) PROVE SnapshotInv'
  BY <1>13, <1>s, SnapshotMove DEF UpdateStore, Advance, At, scheduler
<1>14. ASSUME NEW r \in Requests, DeleteRemove(r) PROVE SnapshotInv'
  BY <1>14, <1>s, SnapshotMove DEF DeleteRemove, Advance, At, scheduler
<1>15. ASSUME NEW r \in Requests, UpdateRead(r) PROVE SnapshotInv'
  BY <1>15, SnapshotMove, SnapshotDone DEF UpdateRead, CopyEntries, At, scheduler
<1>16. ASSUME NEW r \in Requests, DeleteRead(r) PROVE SnapshotInv'
  BY <1>16, SnapshotMove, SnapshotDone DEF DeleteRead, CopyEntries, At, scheduler
<1>17. ASSUME NEW r \in Requests, SettingsRead(r) PROVE SnapshotInv'
  BY <1>17, SnapshotMove, SnapshotDone DEF SettingsRead, CopyEntries, At, scheduler
<1>18. ASSUME NEW r \in Requests, CreatePersist(r) PROVE SnapshotInv'
  BY <1>18, SnapshotDone DEF CreatePersist, At, scheduler
<1>19. ASSUME NEW r \in Requests, UpdatePersist(r) PROVE SnapshotInv'
  BY <1>19, SnapshotDone DEF UpdatePersist, At, scheduler
<1>20. ASSUME NEW r \in Requests, DeletePersist(r) PROVE SnapshotInv'
  BY <1>20, SnapshotDone DEF DeletePersist, At, scheduler
<1>21. ASSUME NEW r \in Requests, SettingsPersist(r) PROVE SnapshotInv'
  BY <1>21, SnapshotDone DEF SettingsPersist, At, scheduler
<1>22. ASSUME NEW r \in Requests, IOError(r) PROVE SnapshotInv'
  BY <1>22, SnapshotDone DEF IOError, At, scheduler
<1>23. ASSUME NEW r \in Requests, CreateSchedule(r) PROVE SnapshotInv'
  <2> SUFFICES ASSUME Snapshot, restarts = 0 PROVE SnapshotInv'
    BY <1>23 DEF CreateSchedule, SnapshotInv
  <2>1. phase = "up" /\ UNCHANGED <<db, running, phase, restarts>>
    BY <1>23 DEF CreateSchedule, At, store
  <2>2. BagToSet(cron) \subseteq BagToSet(cron')
    BY <1>23, AddElements DEF CreateSchedule
  <2>3. HasSnapshot(cron)'
    BY <2>1, <2>2 DEF SnapshotInv, HasSnapshot, RowsOfType, Rows, BagToSet
  <2>4. \A q \in Requests : req'[q].pc \in SwapPoints => req'[q] = req[q]
    <3>1. CASE Advance(r, "create.persist")
      <4>1. req'[r].pc = "create.persist" /\ \A q \in Requests \ {r} : req'[q] = req[q]
        <5>1. req'[r] = [pc |-> "create.persist", sched |-> req[r].sched, table |-> EmptyBag]
              /\ \A q \in Requests \ {r} : req'[q] = req[q]
          BY <1>t, <3>1, MoveEffect DEF Advance
        <5> QED BY <5>1
      <4> QED BY <1>s, <4>1
    <3>2. CASE Done(r)
      BY <1>t, <1>i, <3>2, DoneEffect
    <3> QED BY <1>23, <3>1, <3>2 DEF CreateSchedule
  <2>5. ASSUME NEW q \in Requests, req'[q].pc \in SwapPoints PROVE HasSnapshot(req[q].table)'
    <3>1. HasSnapshot(req[q].table) /\ req'[q] = req[q]
      BY <2>4, <2>5 DEF SnapshotInv
    <3> QED BY <2>1, <3>1 DEF HasSnapshot, RowsOfType, Rows, BagToSet
  <2> QED BY <2>1, <2>3, <2>5 DEF SnapshotInv
<1>24. ASSUME NEW r \in Requests, UpdateSwap(r) PROVE SnapshotInv'
  <2>1. phase = "up" /\ running' /\ UNCHANGED <<db, phase, restarts>>
    BY <1>24 DEF UpdateSwap, At, Replace, store
  <2>2. BagToSet(req[r].table) \subseteq BagToSet(cron')
    BY <1>24 DEF UpdateSwap, Replace, Rebuild, BagToSet, (+)
  <2>3. Snapshot /\ restarts = 0 => HasSnapshot(cron')
    BY <1>24, <1>s, <2>1, <2>2 DEF UpdateSwap, At, SnapshotInv, HasSnapshot
  <2>4. \E next : next \notin SwapPoints /\ Advance(r, next)
    BY <1>24, <1>s DEF UpdateSwap
  <2> QED BY <2>1, <2>3, <2>4, SnapshotSwap
<1>25. ASSUME NEW r \in Requests, SettingsSwap(r) PROVE SnapshotInv'
  <2>1. phase = "up" /\ running' /\ UNCHANGED <<db, phase, restarts>>
    BY <1>25 DEF SettingsSwap, At, Replace, store
  <2>2. BagToSet(req[r].table) \subseteq BagToSet(cron')
    BY <1>25 DEF SettingsSwap, Replace, Rebuild, BagToSet, (+)
  <2>3. Snapshot /\ restarts = 0 => HasSnapshot(cron')
    BY <1>25, <1>s, <2>1, <2>2 DEF SettingsSwap, At, SnapshotInv, HasSnapshot
  <2>4. \E next : next \notin SwapPoints /\ Advance(r, next)
    BY <1>25, <1>s DEF SettingsSwap
  <2> QED BY <2>1, <2>3, <2>4, SnapshotSwap
<1>26. ASSUME NEW r \in Requests, DeleteSwap(r) PROVE SnapshotInv'
  <2>1. phase = "up" /\ running' /\ UNCHANGED <<db, phase, restarts>> /\ req[r].pc = "delete.swap"
    BY <1>26 DEF DeleteSwap, At, Replace, store
  <2>2. req[r].sched.id \notin SystemRows
    BY <2>1 DEF SystemInv, KeepsSystemRows, WorksOn, Busy, Idle, UpdatePoints, SettingsPoints
  <2>3. \A e \in BagToSet(req[r].table) : e.sched.id # req[r].sched.id => e \in BagToSet(cron')
    BY <1>26 DEF DeleteSwap, Replace, Having, BagToSet
  <2>4. Snapshot /\ restarts = 0 => HasSnapshot(cron')
    BY <1>s, <2>1, <2>2, <2>3 DEF SnapshotInv, HasSnapshot, RowsOfType, SystemRows, SystemTypes
  <2> QED BY <1>26, <1>s, <2>1, <2>4, SnapshotSwap DEF DeleteSwap
<1>27. CASE UNCHANGED vars
  BY <1>27 DEF vars, store, scheduler, SnapshotInv, HasSnapshot, RowsOfType, Rows, BagToSet
<1> QED
  BY <1>1, <1>2, <1>3, <1>4, <1>5, <1>6, <1>7, <1>8, <1>9, <1>10, <1>11, <1>12, <1>13, <1>14, <1>15, <1>16, <1>17, <1>18, <1>19, <1>20, <1>21, <1>22, <1>23, <1>24, <1>25, <1>26, <1>27
  DEF Next, Boot, Create, Update, Delete, Settings

LEMMA SnapshotInit == Init => SnapshotInv
BY DEF Init, SnapshotInv, Rows, SwapPoints, Idle

(* Whatever requests overlap, the snapshot job stays in a running cron     *)
(* table until the server is restarted.                                    *)
THEOREM SnapshotSurvives == Spec => []SnapshotJobSurvives
<1>1. SnapshotInv => SnapshotJobSurvives
  BY DEF SnapshotInv, SnapshotJobSurvives, HasSnapshot
<1> QED BY <1>1, TypeInit, TypeStep, SystemInit, SystemStep, SnapshotInit, SnapshotStep, PTL
  DEF Spec

-----------------------------------------------------------------------------
(* Why rows, scripts and jobs belong together while one request runs at a  *)
(* time.  The sequence is above every row, so a creation writes a new one; *)
(* any other request holds a row that exists, with its type; and the table *)
(* a request is about to change is still the one of the scheduler.         *)
RowsNumbered == \A id \in Rows : id <= seq
Tracks(q) ==
  /\ req[q].pc \in CreatePoints => req[q].sched.id = seq + 1 /\ req[q].sched.type = "script"
  /\ req[q].pc \in BusyPoints \ CreatePoints =>
       req[q].sched.id \in Rows /\ req[q].sched.type = db[req[q].sched.id].type
  /\ req[q].pc \in SettingsPoints => req[q].sched.type = "snapshot"
  /\ req[q].pc \in SwapPoints => req[q].table = cron
  /\ req[q].pc = "delete.persist" => \A e \in BagToSet(cron) : e.sched.id # req[q].sched.id

(* A job belongs to a row, or to the one that a creation is about to write.*)
OwnsEntries(q) ==
  faults = 0 => \A e \in BagToSet(cron) :
    \/ e.sched.id \in Rows
    \/ req[q].pc = "create.persist" /\ e.sched.id = req[q].sched.id

(* An entry that does what a row asks for.                                 *)
ArmedBy(entries, row) ==
  \E e \in entries :
    /\ e.sched.id = row.id /\ e.sched.type = row.type /\ e.at = row.expr
    /\ row.type = "script" => e.sched = row

(* At start-up the bucket is empty, but for the system schedule that comes *)
(* with its job; later every row is armed and has its script, but for the  *)
(* one that a deletion is working on, and a row that is about to be written*)
(* is armed before it is.                                                  *)
BootArms ==
  /\ phase # "fatal"
  /\ phase \in {"load.scripts", "load.sync"} => Rows = {}
  /\ phase = "load.snapshot" => RowsOfType("snapshot") = {} /\ (ExternalEndpoints => Rows # {})
  /\ phase = "start" /\ (Snapshot \/ ExternalEndpoints) => Rows # {}
  /\ phase = "up" /\ (Snapshot \/ ExternalEndpoints) => running
RowsArmed(q) ==
  /\ \A id \in Rows :
       \/ ArmedBy(BagToSet(cron), db[id])
       \/ req[q].pc = "delete.persist" /\ req[q].sched.id = id
  /\ req[q].pc \in {"create.persist", "update.persist", "settings.persist"} =>
       ArmedBy(BagToSet(cron), req[q].sched)
RowsStored(q) ==
  /\ \A id \in RowsOfType("script") :
       \/ id \in files
       \/ req[q].pc \in DeletePoints \ {"delete.remove"} /\ req[q].sched.id = id
  /\ req[q].pc \in {"create.schedule", "create.persist"} => req[q].sched.id \in files
AllArmed(q) == Undisturbed => BootArms /\ RowsArmed(q) /\ RowsStored(q) /\ BootCanSucceed

SequentialInv(q) == RowsNumbered /\ Tracks(q) /\ OwnsEntries(q) /\ AllArmed(q)

LEMMA RebuildElements ==
  ASSUME NEW table, NEW f, DOMAIN f \subseteq BagToSet(table)
  PROVE  BagToSet(Rebuild(table, f)) = BagToSet(table) \cup {f[x] : x \in DOMAIN f}
BY DEF Rebuild, Having, BagToSet, (+), BagOfAll

LEMMA HavingElements ==
  ASSUME NEW table, NEW S, S \subseteq BagToSet(table)
  PROVE  BagToSet(Having(table, S)) = S
BY DEF Having, BagToSet

LEMMA LastRowIsRow == ASSUME TypeOK, Rows # {} PROVE LastRow.id \in Rows
<1> DEFINE Largest(id) == \A other \in Rows : other <= id
<1>1. Rows \in SUBSET (1..MaxID) /\ MaxID \in Nat
  BY BoundsAssumption DEF Rows, IDs
<1>2. \E id \in Rows : Largest(id)
  BY <1>1, LargestExists
<1>3. (CHOOSE id \in Rows : Largest(id)) \in Rows
  BY <1>2, Zenon
<1> QED BY <1>3 DEF LastRow, TypeOK, StoreOK

LEMMA ArmedMore ==
  ASSUME NEW S, NEW T, S \subseteq T, NEW row, ArmedBy(S, row)
  PROVE  ArmedBy(T, row)
BY DEF ArmedBy

LEMMA ArmedParses ==
  ASSUME NEW S \in SUBSET Entry, NEW row, ArmedBy(S, row)
  PROVE  Parses(row.expr)
BY DEF ArmedBy, Parses, Entry

(* What a request has become after a move.                                 *)
LEMMA BeginEffect ==
  ASSUME RequestsOK, NEW r \in Requests, NEW point, NEW sched, Begin(r, point, sched)
  PROVE  req'[r].pc = point /\ req'[r].sched = sched
<1>1. req'[r] = [pc |-> point, sched |-> sched, table |-> EmptyBag]
  BY MoveEffect DEF Begin
<1> QED BY <1>1

LEMMA AdvanceEffect ==
  ASSUME RequestsOK, NEW r \in Requests, NEW point, Advance(r, point)
  PROVE  req'[r].pc = point /\ req'[r].sched = req[r].sched
<1>1. req'[r] = [pc |-> point, sched |-> req[r].sched, table |-> EmptyBag]
  BY MoveEffect DEF Advance
<1> QED BY <1>1

LEMMA CopyEffect ==
  ASSUME RequestsOK, NEW r \in Requests, NEW point, CopyEntries(r, point)
  PROVE  req'[r].pc = point /\ req'[r].sched = req[r].sched /\ req'[r].table = cron
<1>1. req'[r] = [pc |-> point, sched |-> req[r].sched, table |-> cron]
  BY MoveEffect DEF CopyEntries
<1> QED BY <1>1

LEMMA IdleEffect ==
  ASSUME RequestsOK, NEW r \in Requests, Done(r)
  PROVE  req'[r].pc = "idle"
BY DoneEffect DEF Idle

LEMMA StartUpIsIdle ==
  ASSUME TypeOK, phase # "up", NEW r \in Requests
  PROVE  req[r].pc = "idle"
BY DEF TypeOK, Idle

(* A step that leaves the bucket and the cron table alone, of a request    *)
(* that is not about to write or to delete the row of a changed job.       *)
LEMMA SequentialFrame ==
  ASSUME NEW r \in Requests, TypeOK, SequentialInv(r), phase = "up",
         UNCHANGED <<db, seq, cron, running, phase, restarts, faults>>,
         req[r].pc \notin {"create.persist", "delete.persist"},
         req'[r].pc \notin {"create.persist", "delete.persist"},
         Tracks(r)', Undisturbed => RowsStored(r)',
         Undisturbed /\ req'[r].pc \in {"update.persist", "settings.persist"} =>
           ArmedBy(BagToSet(cron), req'[r].sched)
  PROVE  SequentialInv(r)'
<1> DEFINE S == BagToSet(cron)
<1>1. BagToSet(cron)' = S /\ Rows' = Rows /\ \A t : RowsOfType(t)' = RowsOfType(t)
  BY DEF Rows, RowsOfType
<1>2. RowsNumbered' /\ OwnsEntries(r)'
  BY <1>1 DEF SequentialInv, RowsNumbered, OwnsEntries
<1>3. ASSUME Undisturbed PROVE BootArms' /\ BootCanSucceed' /\ RowsArmed(r)'
  <2>1. BootArms /\ BootCanSucceed /\ RowsArmed(r)
    BY <1>3 DEF SequentialInv, AllArmed
  <2>2. BootArms' /\ BootCanSucceed'
    BY <1>1, <2>1, <1>3 DEF BootArms, BootCanSucceed, RowsOfType, Undisturbed
  <2>3. RowsArmed(r)'
    BY <1>1, <1>3, <2>1 DEF RowsArmed
  <2> QED BY <2>2, <2>3
<1> QED BY <1>2, <1>3 DEF SequentialInv, AllArmed, Undisturbed

(* The bucket's system schedule of a type is put there with its job.       *)
LEMMA SequentialLoad ==
  ASSUME NEW r \in Requests, TypeOK, SequentialInv(r), phase # "up",
         NEW type \in SystemTypes, NEW wanted, wanted, RowsOfType(type) = {},
         LoadSystemSchedule(wanted, type), UNCHANGED <<files, running, req, restarts, faults>>,
         Undisturbed => BootArms'
  PROVE  SequentialInv(r)' /\ \A id \in Rows' : id \in Rows \/ db'[id].type = type
<1> DEFINE row == [id |-> seq + 1, type |-> type, expr |-> FlagExpr]
<1>1. row.id \in IDs /\ cron' = Add(cron, NewEntry(row)) /\ PutNew(row)
  BY DEF LoadSystemSchedule, NextIdentifier
<1>2. PICK S, T : S = BagToSet(cron) /\ T = BagToSet(cron') /\ T = S \cup {NewEntry(row)}
  BY <1>1, AddElements
<1>3. row \in Schedule /\ row # NoSchedule
  BY <1>1, ExprsAssumption, NoScheduleAssumption DEF Schedule, JobTypes, SystemTypes
<1>4. /\ row.id = seq + 1 /\ row.type = type /\ type # "script"
      /\ NewEntry(row).sched = row /\ NewEntry(row).at = row.expr
  BY DEF NewEntry, SystemTypes
<1>5. \A id \in IDs : db'[id] = IF id = seq + 1 THEN row ELSE db[id]
  BY <1>1, <1>4 DEF PutNew, TypeOK, StoreOK
<1>6. seq' = seq + 1 /\ seq \in Nat
  BY <1>1, <1>4 DEF PutNew, TypeOK, StoreOK
<1> HIDE DEF row
<1>7. /\ Rows' = Rows \cup {seq + 1}
      /\ \A id \in Rows : id # seq + 1 /\ db'[id] = db[id]
  BY <1>1, <1>3, <1>4, <1>5, <1>6 DEF Rows, SequentialInv, RowsNumbered, IDs
<1>8. RowsOfType("script")' = RowsOfType("script")
  BY <1>1, <1>4, <1>5, <1>7 DEF RowsOfType
<1>9. RowsNumbered' /\ Tracks(r)'
  <2>1. req[r].pc = "idle" /\ req'[r].pc = "idle"
    BY StartUpIsIdle
  <2>2. Tracks(r)'
    BY <2>1 DEF Tracks, BusyPoints, CreatePoints, UpdatePoints, DeletePoints, SettingsPoints, SwapPoints
  <2> QED BY <1>6, <1>7, <2>2 DEF RowsNumbered, SequentialInv, Rows, IDs
<1>10. OwnsEntries(r)'
  <2>1. faults = 0 => \A e \in S : e.sched.id \in Rows
    BY <1>2, StartUpIsIdle DEF SequentialInv, OwnsEntries
  <2>2. faults' = 0 => \A e \in T : e.sched.id \in Rows'
    BY <1>2, <1>4, <1>7, <2>1
  <2> QED BY <1>2, <2>2 DEF OwnsEntries
<1>11. ASSUME Undisturbed PROVE RowsArmed(r)' /\ RowsStored(r)' /\ BootCanSucceed'
  <2>0. RowsArmed(r) /\ RowsStored(r) /\ BootCanSucceed /\ req[r].pc = "idle" /\ req'[r].pc = "idle"
    BY <1>11, StartUpIsIdle DEF SequentialInv, AllArmed
  <2>1. ArmedBy(T, db'[seq + 1])
    BY <1>1, <1>2, <1>4, <1>5 DEF ArmedBy
  <2>2. ASSUME NEW id \in Rows PROVE ArmedBy(T, db'[id])
    BY <2>0, <1>2, <1>7, ArmedMore DEF RowsArmed
  <2>3. RowsArmed(r)'
    BY <2>0, <2>1, <2>2, <1>2, <1>7 DEF RowsArmed
  <2>4. RowsStored(r)'
    BY <2>0, <1>8 DEF RowsStored
  <2>5. BootCanSucceed'
    BY <2>0, <1>7, <1>8 DEF BootCanSucceed, RowsOfType, Undisturbed
  <2> QED BY <2>3, <2>4, <2>5
<1> QED BY <1>1, <1>4, <1>5, <1>7, <1>9, <1>10, <1>11 DEF SequentialInv, AllArmed, Undisturbed, Rows

(* A request swaps in a table made from the one of the scheduler.          *)
LEMMA SequentialSwap ==
  ASSUME NEW r \in Requests, TypeOK, SequentialInv(r), phase = "up", req[r].pc \in SwapPoints,
         UNCHANGED <<store, phase, restarts, faults>>, running' = TRUE,
         req'[r].pc \in {"update.persist", "settings.persist", "delete.persist"},
         req'[r].pc = "delete.persist" <=> req[r].pc = "delete.swap",
         req'[r].pc = "settings.persist" <=> req[r].pc = "settings.swap",
         req'[r].sched = req[r].sched,
         NEW S, NEW T, S = BagToSet(cron), T = BagToSet(cron'),
         \A e \in T : e.sched.id \in {x.sched.id : x \in S} \cup {req[r].sched.id},
         req'[r].pc = "delete.persist" => \A e \in T : e.sched.id # req[r].sched.id,
         req'[r].pc # "delete.persist" => S \subseteq T,
         req'[r].pc = "delete.persist" => \A e \in S : e.sched.id # req[r].sched.id => e \in T,
         Undisturbed /\ req'[r].pc # "delete.persist" => ArmedBy(T, req[r].sched)
  PROVE  SequentialInv(r)'
<1> DEFINE id == req[r].sched.id
<1>1. /\ Rows' = Rows /\ \A t : RowsOfType(t)' = RowsOfType(t)
      /\ UNCHANGED <<db, seq, files>>
  BY DEF Rows, RowsOfType, store
<1>2. id \in Rows /\ req[r].sched.type = db[id].type
  BY DEF SequentialInv, Tracks, SwapPoints, BusyPoints, CreatePoints, UpdatePoints, DeletePoints, SettingsPoints
<1>3. RowsNumbered' /\ Tracks(r)'
  <2>1. req[r].pc = "settings.swap" => req[r].sched.type = "snapshot"
    BY DEF SequentialInv, Tracks, SettingsPoints
  <2>2. Tracks(r)'
    BY <1>1, <1>2, <2>1 DEF Tracks, SwapPoints, BusyPoints, CreatePoints, UpdatePoints, DeletePoints, SettingsPoints
  <2> QED BY <1>1, <2>2 DEF SequentialInv, RowsNumbered
<1>4. OwnsEntries(r)'
  <2>1. faults = 0 => \A e \in S : e.sched.id \in Rows
    BY DEF SequentialInv, OwnsEntries, SwapPoints
  <2>2. faults' = 0 => \A e \in T : e.sched.id \in Rows
    BY <1>2, <2>1
  <2> QED BY <1>1, <2>2 DEF OwnsEntries
<1>5. ASSUME Undisturbed PROVE BootArms' /\ RowsArmed(r)' /\ RowsStored(r)' /\ BootCanSucceed'
  <2>1. BootArms /\ RowsArmed(r) /\ RowsStored(r) /\ BootCanSucceed
    BY <1>5 DEF SequentialInv, AllArmed
  <2>2. BootArms' /\ BootCanSucceed'
    BY <1>1, <2>1 DEF BootArms, BootCanSucceed, RowsOfType, Undisturbed
  <2>3. \A x \in Rows : ArmedBy(S, db[x])
    BY <2>1 DEF RowsArmed, SwapPoints
  <2>4. ASSUME NEW x \in Rows, ~(req'[r].pc = "delete.persist" /\ id = x)
        PROVE  ArmedBy(T, db[x])
    <3>1. CASE req'[r].pc # "delete.persist"
      BY <2>3, <3>1, ArmedMore
    <3>2. CASE req'[r].pc = "delete.persist"
      <4>1. db[x].id = x /\ x # id
        BY <2>4, <3>2 DEF TypeOK, StoreOK
      <4> QED BY <2>3, <3>2, <4>1 DEF ArmedBy
    <3> QED BY <3>1, <3>2
  <2>5. RowsArmed(r)'
    BY <1>1, <1>5, <2>4 DEF RowsArmed
  <2>6. RowsStored(r)'
    BY <1>1, <2>1 DEF RowsStored, DeletePoints, SwapPoints
  <2> QED BY <2>2, <2>5, <2>6
<1> QED BY <1>3, <1>4, <1>5 DEF SequentialInv, AllArmed, Undisturbed

(* A row is written whose job has been put in the table before.            *)
LEMMA SequentialPut ==
  ASSUME NEW r \in Requests, TypeOK, SequentialInv(r), phase = "up",
         req[r].pc \in {"create.persist", "update.persist", "settings.persist"},
         UNCHANGED <<files, scheduler, phase, restarts, faults>>, req'[r].pc = "idle",
         IF req[r].pc = "create.persist" THEN PutNew(req[r].sched) ELSE Put(req[r].sched)
  PROVE  SequentialInv(r)' /\ (Rows \cup {req[r].sched.id}) = Rows'
<1>1. PICK row : row = req[r].sched
  OBVIOUS
<1>2. row \in Schedule /\ row.id \in IDs /\ row # NoSchedule
  <2>1. At(r, req[r].pc) /\ req[r].pc \in BusyPoints
    BY DEF At, BusyPoints, CreatePoints, UpdatePoints, SettingsPoints
  <2> QED BY <1>1, <2>1, BusyType, NoScheduleAssumption DEF TypeOK
<1>3. /\ \A id \in IDs : db'[id] = IF id = row.id THEN row ELSE db[id]
      /\ seq' = IF req[r].pc = "create.persist" THEN row.id ELSE seq
  BY <1>1, <1>2 DEF PutNew, Put, TypeOK, StoreOK
<1>4. Rows' = Rows \cup {row.id}
  BY <1>2, <1>3 DEF Rows
<1>5. IF req[r].pc = "create.persist" THEN row.id = seq + 1 /\ row.type = "script"
      ELSE row.id \in Rows /\ row.type = db[row.id].type
  BY <1>1 DEF SequentialInv, Tracks, BusyPoints, CreatePoints, UpdatePoints, SettingsPoints
<1>6. RowsOfType("script")' = RowsOfType("script") \cup (IF row.type = "script" THEN {row.id} ELSE {})
  BY <1>2, <1>3, <1>4, <1>5 DEF RowsOfType, Rows
<1>7. RowsNumbered' /\ Tracks(r)'
  <2>1. Tracks(r)'
    BY DEF Tracks, BusyPoints, CreatePoints, UpdatePoints, DeletePoints, SettingsPoints, SwapPoints
  <2>2. seq \in Nat /\ \A id \in Rows : id \in Nat /\ id <= seq
    BY DEF SequentialInv, RowsNumbered, TypeOK, StoreOK, Rows, IDs
  <2>3. \A id \in Rows' : id <= seq'
    BY <1>3, <1>4, <1>5, <2>2
  <2> QED BY <2>1, <2>3 DEF RowsNumbered
<1>8. OwnsEntries(r)'
  BY <1>1, <1>4 DEF SequentialInv, OwnsEntries, scheduler, BagToSet
<1>9. ASSUME Undisturbed PROVE BootArms' /\ RowsArmed(r)' /\ RowsStored(r)' /\ BootCanSucceed'
  <2>1. BootArms /\ RowsArmed(r) /\ RowsStored(r) /\ BootCanSucceed
    BY <1>9 DEF SequentialInv, AllArmed
  <2>2. PICK S : S = BagToSet(cron) /\ S = BagToSet(cron') /\ S \in SUBSET Entry
    BY DEF scheduler, TypeOK, SchedulerOK
  <2>3. ArmedBy(S, row)
    BY <1>1, <2>1, <2>2 DEF RowsArmed
  <2>4. \A id \in Rows' : ArmedBy(S, db'[id])
    BY <1>2, <1>3, <1>4, <2>1, <2>2, <2>3 DEF RowsArmed, Rows
  <2>5. RowsArmed(r)'
    BY <2>2, <2>4 DEF RowsArmed
  <2>6. RowsStored(r)'
    BY <1>1, <1>5, <1>6, <2>1 DEF RowsStored, RowsOfType, DeletePoints
  <2>7. BootCanSucceed'
    BY <1>2, <1>3, <1>6, <2>1, <2>2, <2>3, ArmedParses DEF BootCanSucceed, RowsOfType, Rows, Undisturbed
  <2>8. BootArms'
    BY <1>4, <2>1 DEF BootArms, scheduler
  <2> QED BY <2>5, <2>6, <2>7, <2>8
<1> QED BY <1>1, <1>4, <1>7, <1>8, <1>9 DEF SequentialInv, AllArmed, Undisturbed

LEMMA SequentialStep ==
  ASSUME NEW r, Requests = {r}
  PROVE  TypeOK /\ SequentialInv(r) /\ [Next]_vars => SequentialInv(r)'
<1> SUFFICES ASSUME TypeOK, SequentialInv(r), [Next]_vars PROVE SequentialInv(r)'
  OBVIOUS
<1> DEFINE Goal == SequentialInv(r)'
<1>t. RequestsOK /\ StoreOK /\ SchedulerOK /\ r \in Requests
  BY DEF TypeOK
<1>p. /\ CreatePoints = {"create.store", "create.schedule", "create.persist"}
      /\ UpdatePoints = {"update.store", "update.read", "update.swap", "update.persist"}
      /\ DeletePoints = {"delete.remove", "delete.read", "delete.swap", "delete.persist"}
      /\ SettingsPoints = {"settings.read", "settings.swap", "settings.persist"}
      /\ BusyPoints = CreatePoints \cup UpdatePoints \cup DeletePoints \cup SettingsPoints
      /\ SwapPoints = {"update.swap", "delete.swap", "settings.swap"}
  BY DEF BusyPoints, CreatePoints, UpdatePoints, DeletePoints, SettingsPoints, SwapPoints
<1>q. RowsNumbered /\ Tracks(r) /\ OwnsEntries(r) /\ AllArmed(r)
  BY DEF SequentialInv
<1>s. ASSUME Undisturbed, phase = "up"
      PROVE  RowsArmed(r) /\ RowsStored(r) /\ BootArms /\ BootCanSucceed
  BY <1>s, <1>q DEF AllArmed
<1>i. ASSUME UNCHANGED <<db, seq, files>>, req'[r].pc = "idle", faults' # 0 \/ restarts' # 0,
             faults' = 0 => OwnsEntries(r)'
      PROVE  Goal
  <2>1. RowsNumbered' /\ Tracks(r)'
    BY <1>i, <1>p, <1>q DEF RowsNumbered, Tracks, Rows
  <2> QED BY <1>i, <2>1 DEF SequentialInv, AllArmed, Undisturbed, OwnsEntries
<1>1. CASE LoadSchedules
  <2>0. req[r].pc = "idle" /\ req' = req /\ UNCHANGED <<db, seq, files, running, restarts, faults>>
    BY <1>1, StartUpIsIdle DEF LoadSchedules, store
  <2>1. RowsNumbered' /\ Tracks(r)'
    BY <2>0, <1>p, <1>q DEF RowsNumbered, Tracks, Rows
  <2>2. OwnsEntries(r)'
    <3>1. BagToSet(cron') = {LoadedEntry(id) : id \in RowsOfType("script")}
      BY <1>1, LoadedElements DEF LoadSchedules
    <3>2. \A id \in RowsOfType("script") : LoadedEntry(id).sched.id \in Rows
      BY LastRowIsRow DEF LoadedEntry, RowsOfType
    <3>3. Rows' = Rows
      BY <2>0 DEF Rows
    <3> QED BY <3>1, <3>2, <3>3 DEF OwnsEntries
  <2>3. ASSUME Undisturbed PROVE BootArms' /\ RowsArmed(r)' /\ RowsStored(r)' /\ BootCanSucceed'
    <3>1. phase = "load.scripts" /\ phase' = "load.sync"
      BY <1>1 DEF LoadSchedules
    <3>2. Rows' = {}
      BY <1>q, <2>0, <2>3, <3>1 DEF AllArmed, BootArms, Rows
    <3> QED BY <2>0, <3>1, <3>2 DEF BootArms, RowsArmed, RowsStored, BootCanSucceed, RowsOfType
  <2> QED BY <2>0, <2>1, <2>2, <2>3 DEF SequentialInv, AllArmed, Undisturbed
<1>2. CASE LoadSchedulesFails
  <2>0. req[r].pc = "idle" /\ req' = req /\ UNCHANGED <<db, seq, files, cron, running, restarts, faults>>
    BY <1>2, StartUpIsIdle DEF LoadSchedulesFails, store, scheduler
  <2>1. ~Undisturbed
    BY <1>2, <1>q DEF LoadSchedulesFails, AllArmed, BootCanSucceed
  <2>2. RowsNumbered' /\ Tracks(r)' /\ OwnsEntries(r)'
    BY <2>0, <1>p, <1>q DEF RowsNumbered, Tracks, OwnsEntries, Rows, BagToSet
  <2> QED BY <2>0, <2>1, <2>2 DEF SequentialInv, AllArmed, Undisturbed
<1>3. CASE LoadSyncSchedule
  <2>0. phase = "load.sync" /\ phase' = "load.snapshot" /\ UNCHANGED <<files, running, req, restarts, faults>>
        /\ LoadSystemSchedule(ExternalEndpoints, "sync")
    BY <1>3 DEF LoadSyncSchedule
  <2>1. Undisturbed => Rows = {}
    BY <1>q, <2>0 DEF AllArmed, BootArms
  <2>2. CASE ExternalEndpoints /\ RowsOfType("sync") = {}
    <3>1. NextIdentifier \in Rows' /\ \A id \in IDs \ {NextIdentifier} : db'[id] = db[id]
      BY <1>t, <2>0, <2>2, ExprsAssumption, NoScheduleAssumption
      DEF LoadSystemSchedule, PutNew, StoreOK, Rows, Schedule, JobTypes
    <3>2. db'[NextIdentifier].type = "sync"
      BY <1>t, <2>0, <2>2 DEF LoadSystemSchedule, PutNew, StoreOK
    <3>3. Undisturbed => BootArms'
      BY <2>0, <2>1, <3>1, <3>2 DEF BootArms, RowsOfType, Rows
    <3> QED BY <2>0, <2>2, <3>3, <1>t, SequentialLoad DEF SystemTypes
  <2>3. CASE ~(ExternalEndpoints /\ RowsOfType("sync") = {})
    <3>1. UNCHANGED <<db, seq, cron>> /\ req[r].pc = "idle"
      BY <2>0, <2>3, StartUpIsIdle DEF LoadSystemSchedule
    <3>2. RowsNumbered' /\ Tracks(r)' /\ OwnsEntries(r)'
      BY <2>0, <3>1, <1>p, <1>q DEF RowsNumbered, Tracks, OwnsEntries, Rows, BagToSet
    <3>3. ASSUME Undisturbed PROVE BootArms' /\ RowsArmed(r)' /\ RowsStored(r)' /\ BootCanSucceed'
      <4>1. Rows = {} /\ Rows' = {} /\ ~ExternalEndpoints
        BY <2>1, <2>3, <3>1, <3>3 DEF Rows, RowsOfType
      <4> QED BY <2>0, <3>1, <4>1 DEF BootArms, RowsArmed, RowsStored, BootCanSucceed, RowsOfType
    <3> QED BY <2>0, <3>2, <3>3 DEF SequentialInv, AllArmed, Undisturbed
  <2> QED BY <2>2, <2>3
<1>4. CASE LoadSnapshotSchedule
  <2>0. phase = "load.snapshot" /\ phase' = "start" /\ UNCHANGED <<files, running, req, restarts, faults>>
        /\ LoadSystemSchedule(Snapshot, "snapshot")
    BY <1>4 DEF LoadSnapshotSchedule
  <2>1. Undisturbed => RowsOfType("snapshot") = {} /\ (ExternalEndpoints => Rows # {})
    BY <1>q, <2>0 DEF AllArmed, BootArms
  <2>2. CASE Snapshot /\ RowsOfType("snapshot") = {}
    <3>1. NextIdentifier \in Rows'
      BY <1>t, <2>0, <2>2, ExprsAssumption, NoScheduleAssumption
      DEF LoadSystemSchedule, PutNew, StoreOK, Rows, Schedule, JobTypes
    <3>2. Undisturbed => BootArms'
      BY <2>0, <3>1 DEF BootArms
    <3> QED BY <2>0, <2>2, <3>2, <1>t, SequentialLoad DEF SystemTypes
  <2>3. CASE ~(Snapshot /\ RowsOfType("snapshot") = {})
    <3>1. UNCHANGED <<db, seq, cron>> /\ req[r].pc = "idle"
      BY <2>0, <2>3, StartUpIsIdle DEF LoadSystemSchedule
    <3>2. RowsNumbered' /\ Tracks(r)' /\ OwnsEntries(r)'
      BY <2>0, <3>1, <1>p, <1>q DEF RowsNumbered, Tracks, OwnsEntries, Rows, BagToSet
    <3>3. ASSUME Undisturbed PROVE BootArms' /\ RowsArmed(r)' /\ RowsStored(r)' /\ BootCanSucceed'
      <4>1. ~Snapshot /\ (ExternalEndpoints => Rows # {}) /\ Rows' = Rows
        BY <2>1, <2>3, <3>1, <3>3 DEF Rows
      <4>2. RowsArmed(r) /\ RowsStored(r) /\ BootCanSucceed
        BY <1>q, <3>3 DEF AllArmed
      <4>3. BootArms'
        BY <2>0, <4>1 DEF BootArms
      <4> QED BY <2>0, <3>1, <4>1, <4>2, <4>3 DEF RowsArmed, RowsStored, BootCanSucceed, RowsOfType, BagToSet, Undisturbed
    <3> QED BY <2>0, <3>2, <3>3 DEF SequentialInv, AllArmed, Undisturbed
  <2> QED BY <2>2, <2>3
<1>5. CASE Start
  <2>0. /\ phase = "start" /\ phase' = "up" /\ UNCHANGED <<db, seq, files, cron, req, restarts, faults>>
        /\ running' = (cron # EmptyBag) /\ req[r].pc = "idle"
    BY <1>5, StartUpIsIdle DEF Start, store
  <2>1. RowsNumbered' /\ Tracks(r)' /\ OwnsEntries(r)' /\ Rows' = Rows
    BY <2>0, <1>p, <1>q DEF RowsNumbered, Tracks, OwnsEntries, Rows, BagToSet
  <2>2. ASSUME Undisturbed PROVE BootArms' /\ RowsArmed(r)' /\ RowsStored(r)' /\ BootCanSucceed'
    <3>1. RowsArmed(r) /\ RowsStored(r) /\ BootCanSucceed /\ BootArms
      BY <1>q, <2>2 DEF AllArmed
    <3>2. Snapshot \/ ExternalEndpoints => running'
      <4>1. Rows # {} => BagToSet(cron) # {}
        BY <2>0, <3>1 DEF RowsArmed, ArmedBy
      <4> QED BY <2>0, <3>1, <4>1, EmptyElements DEF BootArms
    <3>3. BootArms'
      BY <2>0, <3>2 DEF BootArms
    <3> QED BY <2>0, <2>1, <3>1, <3>3 DEF RowsArmed, RowsStored, BootCanSucceed, RowsOfType, BagToSet, Undisturbed
  <2> QED BY <2>0, <2>1, <2>2 DEF SequentialInv, AllArmed, Undisturbed
<1>6. CASE Crash
  <2>1. req'[r].pc = "idle" /\ restarts' # 0
    BY <1>6, <1>t DEF Crash, Idle, TypeOK
  <2>2. OwnsEntries(r)'
    BY <1>6, EmptyElements DEF Crash, OwnsEntries
  <2> QED BY <1>6, <1>i, <2>1, <2>2 DEF Crash, store
<1>7. CASE Relaunch
  <2>0. req[r].pc = "idle" /\ req' = req /\ UNCHANGED <<db, seq, files, cron, running, restarts, faults>>
    BY <1>7, StartUpIsIdle DEF Relaunch, store, scheduler
  <2>1. ~Undisturbed
    BY <1>7, <1>q DEF Relaunch, AllArmed, BootArms
  <2>2. RowsNumbered' /\ Tracks(r)' /\ OwnsEntries(r)'
    BY <2>0, <1>p, <1>q DEF RowsNumbered, Tracks, OwnsEntries, Rows, BagToSet
  <2> QED BY <2>0, <2>1, <2>2 DEF SequentialInv, AllArmed, Undisturbed
<1>8. ASSUME CreateBegin(r) PROVE Goal
  <2>0. phase = "up" /\ req[r].pc = "idle" /\ UNCHANGED <<db, seq, files, cron, running, phase, restarts, faults>>
    BY <1>8 DEF CreateBegin, At, store, scheduler
  <2>1. PICK sched : sched.id = seq + 1 /\ sched.type = "script" /\ Begin(r, "create.store", sched)
    BY <1>8 DEF CreateBegin, NextIdentifier
  <2>2. req'[r].pc = "create.store" /\ req'[r].sched = sched
    BY <1>t, <2>1, BeginEffect
  <2>3. Tracks(r)'
    BY <2>0, <2>1, <2>2, <1>p DEF Tracks
  <2>4. Undisturbed => RowsStored(r)'
    BY <1>s, <2>0, <2>2, <1>p DEF RowsStored, RowsOfType, Rows
  <2> QED BY <2>0, <2>2, <2>3, <2>4, <1>t, SequentialFrame
<1>9. ASSUME CreateStore(r) PROVE Goal
  <2>0. /\ phase = "up" /\ req[r].pc = "create.store" /\ UNCHANGED <<db, seq, cron, running, phase, restarts, faults>>
        /\ files' = files \cup {req[r].sched.id}
        /\ req'[r].pc = "create.schedule" /\ req'[r].sched = req[r].sched
    BY <1>9, <1>t, AdvanceEffect DEF CreateStore, At, scheduler
  <2>3. Tracks(r)'
    BY <2>0, <1>p, <1>q DEF Tracks
  <2>4. Undisturbed => RowsStored(r)'
    BY <1>s, <2>0, <1>p DEF RowsStored, RowsOfType, Rows
  <2> QED BY <2>0, <2>3, <2>4, <1>t, SequentialFrame
<1>10. ASSUME CreateSchedule(r) PROVE Goal
  <2> DEFINE sched == req[r].sched
  <2>0. phase = "up" /\ req[r].pc = "create.schedule" /\ UNCHANGED <<db, seq, files, running, phase, restarts, faults>>
    BY <1>10 DEF CreateSchedule, At, store
  <2>1. CASE ~Parses(sched.expr)
    <3>1. req'[r].pc = "idle" /\ UNCHANGED cron
      BY <1>10, <2>1, <1>t, IdleEffect DEF CreateSchedule
    <3>2. Tracks(r)'
      BY <3>1, <1>p DEF Tracks
    <3>3. Undisturbed => RowsStored(r)'
      BY <1>s, <2>0, <3>1, <1>p DEF RowsStored, RowsOfType, Rows
    <3> QED BY <2>0, <3>1, <3>2, <3>3, <1>t, SequentialFrame
  <2>2. CASE Parses(sched.expr)
    <3>1. /\ req'[r].pc = "create.persist" /\ req'[r].sched = req[r].sched
          /\ cron' = Add(cron, NewEntry(sched))
      BY <1>10, <2>2, <1>t, AdvanceEffect DEF CreateSchedule
    <3>2. PICK S, T : S = BagToSet(cron) /\ T = BagToSet(cron') /\ T = S \cup {NewEntry(sched)}
      BY <3>1, AddElements
    <3>3. NewEntry(sched).sched = sched /\ NewEntry(sched).at = sched.expr
      BY DEF NewEntry
    <3>4. Rows' = Rows /\ \A t : RowsOfType(t)' = RowsOfType(t)
      BY <2>0 DEF Rows, RowsOfType
    <3>5. RowsNumbered' /\ Tracks(r)'
      BY <2>0, <3>1, <3>4, <1>p, <1>q DEF RowsNumbered, Tracks
    <3>6. OwnsEntries(r)'
      <4>1. faults = 0 => \A e \in S : e.sched.id \in Rows
        BY <1>q, <2>0, <3>2 DEF OwnsEntries
      <4>2. faults' = 0 => \A e \in T : e.sched.id \in Rows \/ e.sched.id = sched.id
        BY <2>0, <3>2, <3>3, <4>1
      <4> QED BY <3>1, <3>2, <3>4, <4>2 DEF OwnsEntries
    <3>7. ASSUME Undisturbed PROVE BootArms' /\ RowsArmed(r)' /\ RowsStored(r)' /\ BootCanSucceed'
      <4>1. RowsArmed(r) /\ RowsStored(r) /\ BootCanSucceed /\ BootArms
        BY <1>q, <3>7 DEF AllArmed
      <4>2. ArmedBy(T, sched)
        BY <3>2, <3>3 DEF ArmedBy
      <4>3. \A id \in Rows : ArmedBy(T, db[id])
        BY <2>0, <3>2, <4>1, ArmedMore DEF RowsArmed
      <4>4. RowsArmed(r)'
        BY <2>0, <3>1, <3>2, <3>4, <4>2, <4>3 DEF RowsArmed
      <4>5. RowsStored(r)'
        BY <2>0, <3>1, <3>4, <4>1, <1>p DEF RowsStored
      <4>6. BootArms' /\ BootCanSucceed'
        BY <2>0, <3>4, <4>1 DEF BootArms, BootCanSucceed, Undisturbed
      <4> QED BY <4>4, <4>5, <4>6
    <3> QED BY <2>0, <3>5, <3>6, <3>7 DEF SequentialInv, AllArmed, Undisturbed
  <2> QED BY <2>1, <2>2
<1>11. ASSUME CreatePersist(r) PROVE Goal
  <2>1. phase = "up" /\ req[r].pc = "create.persist" /\ req'[r].pc = "idle"
    BY <1>11, <1>t, IdleEffect DEF CreatePersist, At
  <2> QED BY <1>11, <2>1, <1>t, SequentialPut DEF CreatePersist
<1>12. ASSUME UpdateBegin(r) PROVE Goal
  <2>0. phase = "up" /\ req[r].pc = "idle" /\ UNCHANGED <<db, seq, files, cron, running, phase, restarts, faults>>
    BY <1>12 DEF UpdateBegin, At, store, scheduler
  <2>1. PICK id \in Rows, sched \in Schedule, point \in {"update.persist", "update.read", "update.store"} :
          /\ Begin(r, point, sched) /\ sched.id = id /\ sched.type = db[id].type
          /\ point = "update.persist" => sched = db[id]
    <3>1. PICK id \in Rows :
             \/ Begin(r, "update.persist", db[id])
             \/ \E expr \in Exprs, point \in {"update.read", "update.store"} :
                  Begin(r, point, [db[id] EXCEPT !.expr = expr])
      BY <1>12 DEF UpdateBegin
    <3>2. db[id] \in Schedule /\ db[id].id = id
      BY RowType, <1>t DEF StoreOK
    <3>3. \A expr \in Exprs : /\ [db[id] EXCEPT !.expr = expr] \in Schedule
                               /\ [db[id] EXCEPT !.expr = expr].id = id
                               /\ [db[id] EXCEPT !.expr = expr].type = db[id].type
      BY <3>2 DEF Schedule
    <3>4. CASE Begin(r, "update.persist", db[id])
      BY <3>2, <3>4
    <3>5. ASSUME NEW expr \in Exprs, NEW point \in {"update.read", "update.store"},
                 Begin(r, point, [db[id] EXCEPT !.expr = expr])
          PROVE  \E sched \in Schedule :
                   Begin(r, point, sched) /\ sched.id = id /\ sched.type = db[id].type
      BY <3>3, <3>5
    <3> QED BY <3>1, <3>4, <3>5
  <2>2. req'[r].pc = point /\ req'[r].sched = sched
    BY <1>t, <2>1, BeginEffect
  <2>3. Tracks(r)'
    BY <2>0, <2>1, <2>2, <1>p DEF Tracks, Rows
  <2>4. Undisturbed => RowsStored(r)'
    BY <1>s, <2>0, <2>2, <1>p DEF RowsStored, RowsOfType, Rows
  <2>5. Undisturbed /\ req'[r].pc \in {"update.persist", "settings.persist"} =>
          ArmedBy(BagToSet(cron), req'[r].sched)
    BY <1>s, <2>0, <2>1, <2>2 DEF RowsArmed
  <2> QED BY <2>0, <2>2, <2>3, <2>4, <2>5, <1>t, SequentialFrame
<1>13. ASSUME UpdateStore(r) PROVE Goal
  <2>0. /\ phase = "up" /\ req[r].pc = "update.store" /\ UNCHANGED <<db, seq, cron, running, phase, restarts, faults>>
        /\ files' = files \cup {req[r].sched.id}
        /\ req'[r].pc = "update.read" /\ req'[r].sched = req[r].sched
    BY <1>13, <1>t, AdvanceEffect DEF UpdateStore, At, scheduler
  <2>3. Tracks(r)'
    BY <2>0, <1>p, <1>q DEF Tracks, Rows
  <2>4. Undisturbed => RowsStored(r)'
    BY <1>s, <2>0, <1>p DEF RowsStored, RowsOfType, Rows
  <2> QED BY <2>0, <2>3, <2>4, <1>t, SequentialFrame
<1>r. ASSUME NEW point \in {"update.read", "delete.read", "settings.read"}, At(r, point),
             UNCHANGED <<store, scheduler, phase, restarts, faults>>,
             \/ Done(r)
             \/ point = "update.read" /\ CopyEntries(r, "update.swap")
             \/ point = "delete.read" /\ CopyEntries(r, "delete.swap")
             \/ point = "settings.read" /\ CopyEntries(r, "settings.swap"),
             point = "delete.read" => ~Done(r)
      PROVE  Goal
  <2>0. phase = "up" /\ req[r].pc = point /\ UNCHANGED <<db, seq, files, cron, running, phase, restarts, faults>>
    BY <1>r DEF At, store, scheduler
  <2>1. \/ point # "delete.read" /\ req'[r].pc = "idle"
        \/ /\ req'[r].sched = req[r].sched /\ req'[r].table = cron
           /\ \/ point = "update.read" /\ req'[r].pc = "update.swap"
              \/ point = "delete.read" /\ req'[r].pc = "delete.swap"
              \/ point = "settings.read" /\ req'[r].pc = "settings.swap"
    BY <1>r, <1>t, CopyEffect, IdleEffect
  <2>3. Tracks(r)'
    BY <2>0, <2>1, <1>p, <1>q DEF Tracks, Rows
  <2>4. Undisturbed => RowsStored(r)'
    BY <1>s, <2>0, <2>1, <1>p DEF RowsStored, RowsOfType, Rows
  <2> QED BY <2>0, <2>1, <2>3, <2>4, <1>t, SequentialFrame
<1>14. ASSUME UpdateRead(r) PROVE Goal
  BY <1>14, <1>r DEF UpdateRead
<1>15. ASSUME UpdateSwap(r) PROVE Goal
  <2> DEFINE sched == req[r].sched
             matches == {e \in BagToSet(req[r].table) : e.sched.id = sched.id}
             rescheduled == [e \in matches |->
                               IF e.sched.type = "snapshot"
                                 THEN [e EXCEPT !.at = sched.expr]
                                 ELSE [sched |-> sched, runner |-> "script", at |-> sched.expr]]
  <2>0. /\ phase = "up" /\ req[r].pc = "update.swap" /\ UNCHANGED <<store, phase, restarts, faults>>
        /\ running' = TRUE /\ req'[r].pc = "update.persist" /\ req'[r].sched = sched
        /\ cron' = Rebuild(req[r].table, rescheduled) /\ req[r].table = cron
    BY <1>15, <1>t, <1>p, <1>q, AdvanceEffect DEF UpdateSwap, Replace, At, Tracks
  <2>d. DOMAIN rescheduled = matches /\ matches \subseteq BagToSet(req[r].table)
    OBVIOUS
  <2>1. PICK S, T : S = BagToSet(cron) /\ T = BagToSet(cron') /\ S \in SUBSET Entry
                    /\ T = S \cup {rescheduled[x] : x \in matches}
    BY <2>0, <2>d, <1>t, RebuildElements DEF SchedulerOK
  <2>2. \A x \in matches : x \in S /\ x \in Entry /\ x.sched.id = sched.id
    BY <2>0, <2>1
  <2>3. ASSUME NEW x \in matches
        PROVE  /\ rescheduled[x].sched.id = sched.id /\ rescheduled[x].at = sched.expr
               /\ IF x.sched.type = "snapshot" THEN rescheduled[x].sched = x.sched
                                               ELSE rescheduled[x].sched = sched
    BY <2>2 DEF Entry
  <2>4. Undisturbed => ArmedBy(T, sched)
    <3> SUFFICES ASSUME Undisturbed PROVE ArmedBy(T, sched)
      OBVIOUS
    <3>1. sched.id \in Rows /\ sched.type = db[sched.id].type /\ db[sched.id].id = sched.id
      BY <1>p, <1>q, <1>t, <2>0 DEF Tracks, StoreOK
    <3>2. ArmedBy(S, db[sched.id])
      BY <1>s, <2>0, <2>1, <3>1 DEF RowsArmed
    <3>3. PICK x \in S : x.sched.id = sched.id /\ x.sched.type = sched.type
      BY <3>1, <3>2 DEF ArmedBy
    <3>4. x \in matches /\ rescheduled[x] \in T
      BY <2>0, <2>1, <3>3
    <3>5. PICK e \in T : e = rescheduled[x]
      BY <3>4
    <3>6. e.sched.id = sched.id /\ e.at = sched.expr
          /\ (IF x.sched.type = "snapshot" THEN e.sched = x.sched ELSE e.sched = sched)
      BY <2>3, <3>4, <3>5
    <3> QED BY <3>3, <3>6 DEF ArmedBy
  <2>5. ASSUME NEW e \in T PROVE e.sched.id \in {x.sched.id : x \in S} \cup {sched.id}
    <3>1. CASE e \in S
      BY <3>1
    <3>2. ASSUME NEW x \in matches, e = rescheduled[x]
          PROVE  e.sched.id \in {y.sched.id : y \in S} \cup {sched.id}
      <4>1. e.sched.id = sched.id
        BY <2>3, <3>2
      <4> QED BY <2>2, <4>1
    <3> QED BY <2>1, <3>1, <3>2
  <2>6. S \subseteq T
    BY <2>1
  <2> HIDE DEF rescheduled, matches
  <2> QED BY <2>0, <2>1, <2>4, <2>5, <2>6, <1>t, <1>p, SequentialSwap
<1>16. ASSUME UpdatePersist(r) PROVE Goal
  <2>1. phase = "up" /\ req[r].pc = "update.persist" /\ req'[r].pc = "idle"
    BY <1>16, <1>t, IdleEffect DEF UpdatePersist, At
  <2> QED BY <1>16, <2>1, <1>t, SequentialPut DEF UpdatePersist
<1>17. ASSUME DeleteBegin(r) PROVE Goal
  <2>0. phase = "up" /\ req[r].pc = "idle" /\ UNCHANGED <<db, seq, files, cron, running, phase, restarts, faults>>
    BY <1>17 DEF DeleteBegin, At, store, scheduler
  <2>1. PICK id \in Rows : Begin(r, "delete.remove", db[id])
    BY <1>17 DEF DeleteBegin
  <2>2. req'[r].pc = "delete.remove" /\ req'[r].sched = db[id] /\ db[id].id = id
    BY <1>t, <2>1, BeginEffect DEF StoreOK
  <2>3. Tracks(r)'
    BY <2>0, <2>1, <2>2, <1>p DEF Tracks, Rows
  <2>4. Undisturbed => RowsStored(r)'
    BY <1>s, <2>0, <2>2, <1>p DEF RowsStored, RowsOfType, Rows
  <2> QED BY <2>0, <2>2, <2>3, <2>4, <1>t, SequentialFrame
<1>18. ASSUME DeleteRemove(r) PROVE Goal
  <2>0. /\ phase = "up" /\ req[r].pc = "delete.remove" /\ UNCHANGED <<db, seq, cron, running, phase, restarts, faults>>
        /\ files' = files \ {req[r].sched.id}
        /\ req'[r].pc = "delete.read" /\ req'[r].sched = req[r].sched
    BY <1>18, <1>t, AdvanceEffect DEF DeleteRemove, At, scheduler
  <2>3. Tracks(r)'
    BY <2>0, <1>p, <1>q DEF Tracks, Rows
  <2>4. Undisturbed => RowsStored(r)'
    BY <1>s, <2>0, <1>p DEF RowsStored, RowsOfType, Rows
  <2> QED BY <2>0, <2>3, <2>4, <1>t, SequentialFrame
<1>19. ASSUME DeleteRead(r) PROVE Goal
  <2>0. ~Done(r)
    <3>1. req'[r].pc = "delete.swap"
      BY <1>19, <1>t, CopyEffect DEF DeleteRead
    <3> QED BY <3>1, <1>t, IdleEffect
  <2> QED BY <1>19, <2>0, <1>r DEF DeleteRead
<1>20. ASSUME DeleteSwap(r) PROVE Goal
  <2> DEFINE others == {e \in BagToSet(req[r].table) : e.sched.id # req[r].sched.id}
  <2>0. /\ phase = "up" /\ req[r].pc = "delete.swap" /\ UNCHANGED <<store, phase, restarts, faults>>
        /\ running' = TRUE /\ req'[r].pc = "delete.persist" /\ req'[r].sched = req[r].sched
        /\ cron' = Having(req[r].table, others) /\ req[r].table = cron
    BY <1>20, <1>t, <1>p, <1>q, AdvanceEffect DEF DeleteSwap, Replace, At, Tracks
  <2>d. others \subseteq BagToSet(req[r].table)
    OBVIOUS
  <2>1. PICK S, T : S = BagToSet(cron) /\ T = BagToSet(cron') /\ T = others
    BY <2>0, <2>d, HavingElements
  <2>2. T = {e \in S : e.sched.id # req[r].sched.id}
    BY <2>0, <2>1
  <2> HIDE DEF others
  <2> QED BY <2>0, <2>1, <2>2, <1>t, <1>p, SequentialSwap
<1>21. ASSUME DeletePersist(r) PROVE Goal
  <2> DEFINE id == req[r].sched.id
  <2>0. /\ phase = "up" /\ req[r].pc = "delete.persist" /\ req'[r].pc = "idle"
        /\ UNCHANGED <<files, seq, cron, running, phase, restarts, faults>>
        /\ db' = [db EXCEPT ![id] = NoSchedule]
    BY <1>21, <1>t, IdleEffect DEF DeletePersist, At, scheduler, Remove
  <2>1. Rows' = Rows \ {id} /\ \A x \in Rows' : db'[x] = db[x]
    BY <2>0, <1>t DEF Rows, StoreOK
  <2>2. RowsOfType("script")' = RowsOfType("script") \ {id}
    BY <2>1 DEF RowsOfType
  <2>3. RowsNumbered' /\ Tracks(r)'
    BY <2>0, <2>1, <1>p, <1>q DEF RowsNumbered, Tracks
  <2>4. OwnsEntries(r)'
    <3>1. \A e \in BagToSet(cron) : e.sched.id # id
      BY <1>q, <2>0 DEF Tracks
    <3>2. PICK S : S = BagToSet(cron) /\ S = BagToSet(cron')
      BY <2>0
    <3>3. faults = 0 => \A e \in S : e.sched.id \in Rows /\ e.sched.id # id
      BY <1>q, <2>0, <3>1, <3>2 DEF OwnsEntries
    <3> QED BY <2>0, <2>1, <3>2, <3>3 DEF OwnsEntries
  <2>5. ASSUME Undisturbed PROVE BootArms' /\ RowsArmed(r)' /\ RowsStored(r)' /\ BootCanSucceed'
    <3>1. RowsArmed(r) /\ RowsStored(r) /\ BootCanSucceed /\ BootArms
      BY <1>q, <2>5 DEF AllArmed
    <3>2. PICK S : S = BagToSet(cron) /\ S = BagToSet(cron')
      BY <2>0
    <3>3. \A x \in Rows' : ArmedBy(S, db'[x])
      BY <2>0, <2>1, <3>1, <3>2 DEF RowsArmed
    <3>4. RowsArmed(r)'
      BY <2>0, <3>2, <3>3 DEF RowsArmed
    <3>5. RowsStored(r)' /\ BootArms' /\ BootCanSucceed'
      BY <2>0, <2>1, <2>2, <3>1 DEF RowsStored, BootArms, BootCanSucceed, RowsOfType, Undisturbed
    <3> QED BY <3>4, <3>5
  <2> QED BY <2>0, <2>3, <2>4, <2>5 DEF SequentialInv, AllArmed, Undisturbed
<1>22. ASSUME SettingsBegin(r) PROVE Goal
  <2>0. phase = "up" /\ req[r].pc = "idle" /\ UNCHANGED <<db, seq, files, cron, running, phase, restarts, faults>>
    BY <1>22 DEF SettingsBegin, At, store, scheduler
  <2>1. PICK id \in RowsOfType("snapshot"), expr \in Exprs :
           Begin(r, "settings.read", [db[id] EXCEPT !.expr = expr])
    BY <1>22 DEF SettingsBegin
  <2>2. id \in Rows /\ db[id] \in Schedule /\ db[id].id = id /\ db[id].type = "snapshot"
    BY RowType, <1>t DEF StoreOK, RowsOfType
  <2>3. PICK sched : sched = [db[id] EXCEPT !.expr = expr]
    OBVIOUS
  <2>4. sched.id = id /\ sched.type = "snapshot"
    BY <2>2, <2>3 DEF Schedule
  <2>5. req'[r].pc = "settings.read" /\ req'[r].sched = sched
    BY <1>t, <2>1, <2>3, BeginEffect
  <2>6. Tracks(r)'
    BY <2>0, <2>2, <2>4, <2>5, <1>p DEF Tracks, Rows
  <2>7. Undisturbed => RowsStored(r)'
    BY <1>s, <2>0, <2>5, <1>p DEF RowsStored, RowsOfType, Rows
  <2> QED BY <2>0, <2>5, <2>6, <2>7, <1>t, SequentialFrame
<1>23. ASSUME SettingsRead(r) PROVE Goal
  BY <1>23, <1>r DEF SettingsRead
<1>24. ASSUME SettingsSwap(r) PROVE Goal
  <2> DEFINE sched == req[r].sched
             matches == {e \in BagToSet(req[r].table) : e.sched.type = "snapshot"}
             rescheduled == [e \in matches |-> [e EXCEPT !.at = sched.expr]]
  <2>0. /\ phase = "up" /\ req[r].pc = "settings.swap" /\ UNCHANGED <<store, phase, restarts, faults>>
        /\ running' = TRUE /\ req'[r].pc = "settings.persist" /\ req'[r].sched = sched
        /\ cron' = Rebuild(req[r].table, rescheduled) /\ req[r].table = cron
    BY <1>24, <1>t, <1>p, <1>q, AdvanceEffect DEF SettingsSwap, Replace, At, Tracks
  <2>d. DOMAIN rescheduled = matches /\ matches \subseteq BagToSet(req[r].table)
    OBVIOUS
  <2>1. PICK S, T : S = BagToSet(cron) /\ T = BagToSet(cron') /\ S \in SUBSET Entry
                    /\ T = S \cup {rescheduled[x] : x \in matches}
    BY <2>0, <2>d, <1>t, RebuildElements DEF SchedulerOK
  <2>2. \A x \in matches : x \in S /\ x \in Entry /\ x.sched.type = "snapshot"
    BY <2>0, <2>1
  <2>3. ASSUME NEW x \in matches
        PROVE  rescheduled[x].sched = x.sched /\ rescheduled[x].at = sched.expr
    BY <2>2 DEF Entry
  <2>4. Undisturbed => ArmedBy(T, sched)
    <3> SUFFICES ASSUME Undisturbed PROVE ArmedBy(T, sched)
      OBVIOUS
    <3>1. sched.id \in Rows /\ sched.type = db[sched.id].type /\ db[sched.id].id = sched.id
          /\ sched.type = "snapshot"
      BY <1>p, <1>q, <1>t, <2>0 DEF Tracks, StoreOK
    <3>2. ArmedBy(S, db[sched.id])
      BY <1>s, <2>0, <2>1, <3>1 DEF RowsArmed
    <3>3. PICK x \in S : x.sched.id = sched.id /\ x.sched.type = sched.type
      BY <3>1, <3>2 DEF ArmedBy
    <3>4. x \in matches /\ rescheduled[x] \in T
      BY <2>0, <2>1, <3>1, <3>3
    <3>5. PICK e \in T : e = rescheduled[x]
      BY <3>4
    <3>6. e.sched = x.sched /\ e.at = sched.expr
      BY <2>3, <3>4, <3>5
    <3> QED BY <3>1, <3>3, <3>6 DEF ArmedBy
  <2>5. ASSUME NEW e \in T PROVE e.sched.id \in {x.sched.id : x \in S} \cup {sched.id}
    <3>1. CASE e \in S
      BY <3>1
    <3>2. ASSUME NEW x \in matches, e = rescheduled[x]
          PROVE  e.sched.id \in {y.sched.id : y \in S} \cup {sched.id}
      <4>1. e.sched = x.sched /\ x \in S
        BY <2>2, <2>3, <3>2
      <4> QED BY <2>2, <4>1
    <3> QED BY <2>1, <3>1, <3>2
  <2>6. S \subseteq T
    BY <2>1
  <2> HIDE DEF rescheduled, matches
  <2> QED BY <2>0, <2>1, <2>4, <2>5, <2>6, <1>t, <1>p, SequentialSwap
<1>25. ASSUME SettingsPersist(r) PROVE Goal
  <2>1. phase = "up" /\ req[r].pc = "settings.persist" /\ req'[r].pc = "idle"
    BY <1>25, <1>t, IdleEffect DEF SettingsPersist, At
  <2> QED BY <1>25, <2>1, <1>t, SequentialPut DEF SettingsPersist
<1>26. ASSUME IOError(r) PROVE Goal
  BY <1>26, <1>i, <1>t, IdleEffect DEF IOError, TypeOK, store
<1>27. CASE UNCHANGED vars
  <2>0. UNCHANGED <<db, seq, files, cron, running, phase, req, restarts, faults>>
    BY <1>27 DEF vars, store, scheduler
  <2>1. Rows' = Rows /\ \A t : RowsOfType(t)' = RowsOfType(t)
    BY <2>0 DEF Rows, RowsOfType
  <2>2. PICK S : S = BagToSet(cron) /\ S = BagToSet(cron')
    BY <2>0
  <2>3. RowsNumbered' /\ Tracks(r)' /\ OwnsEntries(r)' /\ RowsArmed(r)' = RowsArmed(r)
    BY <1>q, <2>0, <2>1, <2>2 DEF RowsNumbered, Tracks, OwnsEntries, RowsArmed
  <2>4. AllArmed(r)'
    BY <1>q, <2>0, <2>1, <2>3 DEF AllArmed, BootArms, RowsStored, BootCanSucceed, Undisturbed
  <2> QED BY <2>3, <2>4 DEF SequentialInv
<1> QED
  BY <1>1, <1>2, <1>3, <1>4, <1>5, <1>6, <1>7, <1>8, <1>9, <1>10, <1>11, <1>12, <1>13, <1>14, <1>15,
     <1>16, <1>17, <1>18, <1>19, <1>20, <1>21, <1>22, <1>23, <1>24, <1>25, <1>26, <1>27
  DEF Next, Boot, Create, Update, Delete, Settings

LEMMA SequentialInit == ASSUME NEW r, Requests = {r} PROVE Init => SequentialInv(r)
<1> SUFFICES ASSUME Init PROVE SequentialInv(r)
  OBVIOUS
<1>1. Rows = {} /\ req[r].pc = "idle" /\ phase = "load.scripts" /\ BagToSet(cron) = {}
  BY EmptyElements DEF Init, Rows, Idle
<1>2. RowsNumbered /\ OwnsEntries(r) /\ Tracks(r)
  BY <1>1 DEF RowsNumbered, OwnsEntries, Tracks, BusyPoints, CreatePoints, UpdatePoints,
    DeletePoints, SettingsPoints, SwapPoints
<1>3. AllArmed(r)
  BY <1>1 DEF AllArmed, BootArms, RowsArmed, RowsStored, BootCanSucceed, RowsOfType
<1> QED BY <1>2, <1>3 DEF SequentialInv

LEMMA SequentialSound ==
  ASSUME NEW r, Requests = {r}, TypeOK, SequentialInv(r)
  PROVE  SchedulesSound /\ BootCanSucceed
<1>1. PendingIdIsFree
  <2>1. Creating(r) => req[r].sched.id = seq + 1 /\ req[r].sched.id \in IDs
    BY Points DEF SequentialInv, Tracks, Creating, Busy, TypeOK, RequestsOK, Schedule
  <2>2. Creating(r) => req[r].sched.id \notin Rows
    BY <2>1 DEF SequentialInv, RowsNumbered, TypeOK, StoreOK
  <2> QED BY <2>1, <2>2 DEF PendingIdIsFree, Rows
<1>2. NoOrphanEntry
  BY DEF SequentialInv, OwnsEntries, NoOrphanEntry, WorksOn, Busy, Idle
<1>3. ASSUME Undisturbed, NEW id \in Rows, AtRest(id)
      PROVE  /\ Snapshot \/ ExternalEndpoints => running
             /\ ArmedBy(BagToSet(cron), db[id])
             /\ id \in RowsOfType("script") => id \in files
  <2>1. ~(Busy(r) /\ req[r].sched.id = id) /\ phase = "up"
    BY <1>3 DEF AtRest, WorksOn
  <2>2. ~(req[r].pc \in DeletePoints /\ req[r].sched.id = id)
    BY <2>1 DEF Busy, Idle, DeletePoints
  <2>3. BootArms /\ RowsArmed(r) /\ RowsStored(r)
    BY <1>3 DEF SequentialInv, AllArmed
  <2> QED BY <2>1, <2>2, <2>3 DEF BootArms, RowsArmed, RowsStored, DeletePoints
<1>4. ScheduleIsArmed
  <2>1. ASSUME Undisturbed, NEW id \in Rows, AtRest(id)
        PROVE  \E e \in EntriesOf(id) :
                 e.at = db[id].expr /\ (db[id].type = "script" => e.sched = db[id])
    <3>1. ArmedBy(BagToSet(cron), db[id]) /\ db[id].id = id
      BY <1>3, <2>1 DEF TypeOK, StoreOK
    <3> QED BY <3>1 DEF ArmedBy, EntriesOf
  <2> QED BY <1>3, <2>1 DEF ScheduleIsArmed
<1>5. ScriptIsStored
  BY <1>3 DEF ScriptIsStored, RowsOfType
<1>6. BootCanSucceed
  BY DEF SequentialInv, AllArmed, BootCanSucceed
<1> QED BY <1>1, <1>2, <1>4, <1>5, <1>6 DEF SchedulesSound

(* One request at a time: every schedule at rest is in the cron table with *)
(* its latest settings and has its script, no job outlives its schedule    *)
(* and no creation overwrites one.                                         *)
THEOREM SchedulesAreSound == ASSUME NEW r, Requests = {r} PROVE Spec => []SchedulesSound
<1>1. TypeOK /\ SequentialInv(r) => SchedulesSound
  BY SequentialSound
<1>2. Init => SequentialInv(r)
  BY SequentialInit
<1>3. TypeOK /\ SequentialInv(r) /\ [Next]_vars => SequentialInv(r)'
  BY SequentialStep
<1> QED BY <1>1, <1>2, <1>3, TypeInit, TypeStep, PTL DEF Spec

(* One request at a time: as long as nothing fails halfway, the next start *)
(* of the server can schedule every script it finds in the bucket.         *)
THEOREM BootSucceeds == ASSUME NEW r, Requests = {r} PROVE Spec => []BootCanSucceed
<1>1. TypeOK /\ SequentialInv(r) => BootCanSucceed
  BY SequentialSound
<1>2. Init => SequentialInv(r)
  BY SequentialInit
<1>3. TypeOK /\ SequentialInv(r) /\ [Next]_vars => SequentialInv(r)'
  BY SequentialStep
<1> QED BY <1>1, <1>2, <1>3, TypeInit, TypeStep, PTL DEF Spec

-----------------------------------------------------------------------------
(* The bucket implements the registry: every step creates, updates or      *)
(* deletes one row as a registry does, or leaves the bucket alone.         *)
LEMMA RegistryPut ==
  ASSUME TypeOK, RowsNumbered, NEW row \in Schedule,
         \/ row.id = seq + 1 /\ PutNew(row)
         \/ row.id \in Rows /\ Put(row)
  PROVE  Abstract!Next
<1>1. row.id \in IDs
  BY DEF Schedule
<1>2. CASE row.id = seq + 1 /\ PutNew(row)
  <2>1. seq \in Nat /\ row.id \notin Rows
    BY <1>2 DEF TypeOK, StoreOK, RowsNumbered
  <2>2. row.id \notin 1..seq /\ 1..seq' = (1..seq) \cup {row.id}
    BY <1>2, <2>1 DEF PutNew
  <2>3. Abstract!Create(row.id, row)
    BY <1>1, <1>2, <2>1, <2>2 DEF Abstract!Create, PutNew, Rows
  <2> QED BY <1>1, <2>3 DEF Abstract!Next
<1>3. CASE row.id \in Rows /\ Put(row)
  <2>1. Abstract!Update(row.id, row)
    BY <1>3 DEF Abstract!Update, Put, Rows
  <2> QED BY <1>1, <2>1 DEF Abstract!Next
<1> QED BY <1>2, <1>3

LEMMA RegistryLoad ==
  ASSUME TypeOK, RowsNumbered, NEW wanted, NEW type \in JobTypes,
         LoadSystemSchedule(wanted, type)
  PROVE  Abstract!Next \/ UNCHANGED <<db, seq>>
<1>1. CASE wanted /\ RowsOfType(type) = {}
  <2>1. PICK row : row = [id |-> NextIdentifier, type |-> type, expr |-> FlagExpr]
    OBVIOUS
  <2>2. NextIdentifier \in IDs /\ PutNew(row)
    BY <1>1, <2>1 DEF LoadSystemSchedule
  <2>3. row \in Schedule /\ row.id = seq + 1
    BY <2>1, <2>2, ExprsAssumption DEF Schedule, NextIdentifier
  <2> QED BY <2>2, <2>3, RegistryPut
<1>2. CASE ~(wanted /\ RowsOfType(type) = {})
  BY <1>2 DEF LoadSystemSchedule
<1> QED BY <1>1, <1>2

LEMMA RegistryStep ==
  ASSUME NEW r, Requests = {r}
  PROVE  TypeOK /\ SequentialInv(r) /\ [Next]_vars => [Abstract!Next]_(Abstract!vars)
<1> SUFFICES ASSUME TypeOK, SequentialInv(r), [Next]_vars
             PROVE  Abstract!Next \/ UNCHANGED <<db, seq>>
  BY DEF Abstract!vars
<1>t. RequestsOK /\ StoreOK /\ r \in Requests /\ RowsNumbered /\ Tracks(r)
  BY DEF TypeOK, SequentialInv
<1>p. /\ CreatePoints = {"create.store", "create.schedule", "create.persist"}
      /\ UpdatePoints = {"update.store", "update.read", "update.swap", "update.persist"}
      /\ DeletePoints = {"delete.remove", "delete.read", "delete.swap", "delete.persist"}
      /\ SettingsPoints = {"settings.read", "settings.swap", "settings.persist"}
      /\ BusyPoints = CreatePoints \cup UpdatePoints \cup DeletePoints \cup SettingsPoints
  BY DEF BusyPoints, CreatePoints, UpdatePoints, DeletePoints, SettingsPoints
<1>1. CASE LoadSyncSchedule
  BY <1>1, <1>t, RegistryLoad DEF LoadSyncSchedule, JobTypes
<1>2. CASE LoadSnapshotSchedule
  BY <1>2, <1>t, RegistryLoad DEF LoadSnapshotSchedule, JobTypes
<1>3. CASE CreatePersist(r)
  <2>1. req[r].sched \in Schedule /\ req[r].sched.id = seq + 1
    BY <1>3, <1>t, <1>p, BusyType DEF CreatePersist, At, Tracks
  <2> QED BY <1>3, <1>t, <2>1, RegistryPut DEF CreatePersist
<1>4. CASE UpdatePersist(r) \/ SettingsPersist(r)
  <2>1. req[r].sched \in Schedule /\ req[r].sched.id \in Rows /\ Put(req[r].sched)
    BY <1>4, <1>t, <1>p, BusyType DEF UpdatePersist, SettingsPersist, At, Tracks
  <2> QED BY <1>t, <2>1, RegistryPut
<1>5. CASE DeletePersist(r)
  <2>1. req[r].sched.id \in Rows /\ Remove(req[r].sched.id)
    BY <1>5, <1>t, <1>p DEF DeletePersist, At, Tracks
  <2>2. Abstract!Delete(req[r].sched.id) /\ req[r].sched.id \in IDs
    BY <2>1 DEF Abstract!Delete, Remove, Rows
  <2> QED BY <2>2 DEF Abstract!Next
<1>6. CASE UNCHANGED <<db, seq>>
  BY <1>6
<1>7. ASSUME \/ LoadSchedules \/ LoadSchedulesFails \/ Start \/ Crash \/ Relaunch
             \/ UNCHANGED vars
      PROVE  UNCHANGED <<db, seq>>
  BY <1>7 DEF LoadSchedules, LoadSchedulesFails, Start, Crash, Relaunch, vars, store
<1>8. ASSUME CreateBegin(r) \/ CreateStore(r) \/ CreateSchedule(r)
             \/ UpdateBegin(r) \/ UpdateStore(r) \/ UpdateRead(r) \/ UpdateSwap(r)
      PROVE  UNCHANGED <<db, seq>>
  BY <1>8 DEF CreateBegin, CreateStore, CreateSchedule, UpdateBegin, UpdateStore, UpdateRead,
    UpdateSwap, store
<1>9. ASSUME DeleteBegin(r) \/ DeleteRemove(r) \/ DeleteRead(r) \/ DeleteSwap(r)
             \/ SettingsBegin(r) \/ SettingsRead(r) \/ SettingsSwap(r) \/ IOError(r)
      PROVE  UNCHANGED <<db, seq>>
  BY <1>9 DEF DeleteBegin, DeleteRemove, DeleteRead, DeleteSwap, SettingsBegin, SettingsRead,
    SettingsSwap, IOError, store
<1> QED BY <1>1, <1>2, <1>3, <1>4, <1>5, <1>6, <1>7, <1>8, <1>9
  DEF Next, Boot, Create, Update, Delete, Settings

(* One request at a time, whatever crashes and fails: the bucket promises  *)
(* what a registry with atomic operations promises.                        *)
THEOREM BucketIsRegistry == ASSUME NEW r, Requests = {r} PROVE Spec => RefinesRegistry
<1>1. Init => Abstract!Init
  BY DEF Init, Abstract!Init
<1>2. Init => SequentialInv(r)
  BY SequentialInit
<1>3. TypeOK /\ SequentialInv(r) /\ [Next]_vars => SequentialInv(r)'
  BY SequentialStep
<1>4. TypeOK /\ SequentialInv(r) /\ [Next]_vars => [Abstract!Next]_(Abstract!vars)
  BY RegistryStep
<1> QED BY <1>1, <1>2, <1>3, <1>4, TypeInit, TypeStep, PTL
  DEF Spec, RefinesRegistry, Abstract!Spec
=============================================================================
