------------------------------ MODULE Schedules ------------------------------
(***************************************************************************)
(* The schedule subsystem of the API server: the "schedules" bucket        *)
(* (bolt/schedule), the script folders on disk (filesystem), the in-memory *)
(* cron table (cron/scheduler.go), the HTTP handlers that create, update   *)
(* and delete schedules (http/handler/schedules), the settings handler     *)
(* that moves the snapshot interval, and the start-up sequence of          *)
(* cmd/portainer/main.go that rebuilds the cron table from the bucket.     *)
(*                                                                         *)
(* A request is a goroutine.  Each database transaction, file operation    *)
(* and scheduler call of a handler is a step of its own, because another   *)
(* request, or a crash, may come between two of them.  A scheduler update  *)
(* is two steps: it copies cron.Entries(), then swaps the new cron in.     *)
(*                                                                         *)
(* A schedule's endpoints, image and retry settings are abstracted: an     *)
(* update that changes only those is one that leaves expr as it is.        *)
(***************************************************************************)
EXTENDS Naturals, FiniteSets, Bags

CONSTANTS
  Requests,           \* the request goroutines
  Exprs,              \* cron expressions a client may send
  ValidExprs,         \* those the cron library can parse
  FlagExpr,           \* "@every <interval>" given on the command line
  Snapshot,           \* BOOLEAN: flag --no-snapshot is absent
  ExternalEndpoints,  \* BOOLEAN: flag --external-endpoints is given
  NoSchedule,         \* an absent row
  MaxID,              \* bound: highest schedule identifier
  MaxEntries,         \* bound: cron entries before no update is started
  MaxRestarts,        \* bound: crashes of the server
  MaxFaults           \* bound: database and file operations that fail

ASSUME ExprsAssumption == ValidExprs \subseteq Exprs /\ FlagExpr \in ValidExprs
ASSUME FlagsAssumption == Snapshot \in BOOLEAN /\ ExternalEndpoints \in BOOLEAN
ASSUME BoundsAssumption ==
  /\ MaxID \in Nat /\ MaxEntries \in Nat
  /\ MaxRestarts \in Nat /\ MaxFaults \in Nat

IDs == 1..MaxID
JobTypes == {"script", "snapshot", "sync"}
SystemTypes == {"snapshot", "sync"}

(* A schedule in memory: the row, and what a runner's pointer leads to.    *)
Schedule == [id: IDs, type: JobTypes, expr: Exprs]
ASSUME NoScheduleAssumption == NoSchedule \notin Schedule

(* A cron entry: the schedule its runner points to, the kind of runner,    *)
(* and the parsed cron expression it fires at.                             *)
Entry == [sched: Schedule, runner: JobTypes, at: ValidExprs]

VARIABLES
  db,         \* bucket "schedules"
  seq,        \* the bucket's sequence number
  files,      \* identifiers that have a script folder on disk
  cron,       \* entries of scheduler.cron, a bag
  running,    \* the cron goroutine runs
  phase,      \* where the server process is in main()
  req,        \* the state of each request
  restarts, faults

store == <<db, seq, files>>
scheduler == <<cron, running>>
vars == <<store, scheduler, phase, req, restarts, faults>>

Rows == {id \in IDs : db[id] # NoSchedule}
RowsOfType(t) == {id \in Rows : db[id].type = t}
SystemRows == {id \in Rows : db[id].type \in SystemTypes}

(* A request: what it is about to do, the schedule object it holds, and    *)
(* the entries it copied out of the scheduler.                             *)
Idle == [pc |-> "idle", sched |-> NoSchedule, table |-> EmptyBag]

CreatePoints == {"create.store", "create.schedule", "create.persist"}
UpdatePoints == {"update.store", "update.read", "update.swap", "update.persist"}
DeletePoints == {"delete.remove", "delete.read", "delete.swap", "delete.persist"}
SettingsPoints == {"settings.read", "settings.swap", "settings.persist"}
BusyPoints == CreatePoints \cup UpdatePoints \cup DeletePoints \cup SettingsPoints
SwapPoints == {"update.swap", "delete.swap", "settings.swap"}
IOPoints == {"create.store", "create.persist", "update.store", "update.persist",
             "delete.remove", "delete.persist", "settings.persist"}

At(r, point) == phase = "up" /\ req[r].pc = point
Move(r, point, sched, table) ==
  req' = [req EXCEPT ![r] = [pc |-> point, sched |-> sched, table |-> table]]
Begin(r, point, sched) == Move(r, point, sched, EmptyBag)
Advance(r, point) == Move(r, point, req[r].sched, EmptyBag)
CopyEntries(r, point) == Move(r, point, req[r].sched, cron)
Done(r) == req' = [req EXCEPT ![r] = Idle]

-----------------------------------------------------------------------------
(* The bucket.                                                             *)

NextIdentifier == seq + 1
PutNewOffByOne(row) == db' = [db EXCEPT ![row.id] = row] /\ seq' = row.id + 1
PutNewKeepsSequence(row) == db' = [db EXCEPT ![row.id] = row] /\ UNCHANGED seq
PutNew(row) == db' = [db EXCEPT ![row.id] = row] /\ seq' = row.id
Put(row) == db' = [db EXCEPT ![row.id] = row] /\ UNCHANGED seq
Remove(id) == db' = [db EXCEPT ![id] = NoSchedule] /\ UNCHANGED seq

(* The cron table.                                                         *)

Parses(expr) == expr \in ValidExprs
NewEntry(row) == [sched |-> row, runner |-> row.type, at |-> row.expr]
Add(table, entry) == table (+) SetToBag({entry})
Having(table, kept) == [e \in BagToSet(table) \cap kept |-> table[e]]

(* The rebuild of UpdateJobSchedule and UpdateSystemJobSchedule: every old *)
(* entry is scheduled again, next to what each match is rescheduled as.    *)
RebuildForgets(table, rescheduled) == table
Rebuild(table, rescheduled) ==
  table (+) BagOfAll(LAMBDA e : rescheduled[e], Having(table, DOMAIN rescheduled))

Replace(table) == cron' = table /\ running' = TRUE

-----------------------------------------------------------------------------
Init ==
  /\ db = [id \in IDs |-> NoSchedule]
  /\ seq = 0
  /\ files = {}
  /\ cron = EmptyBag /\ running = FALSE
  /\ phase = "load.scripts"
  /\ req = [r \in Requests |-> Idle]
  /\ restarts = 0 /\ faults = 0

(* main(): loadSchedulesFromDatabase.  Every runner is given the address   *)
(* of the loop variable, so once the loop ends all of them point to the    *)
(* last schedule of the bucket, whatever its type.                         *)
LastRow == db[CHOOSE id \in Rows : \A other \in Rows : other <= id]
LoadedEntry(id) == [sched |-> LastRow, runner |-> "script", at |-> db[id].expr]
LoadSchedules ==
  /\ phase = "load.scripts"
  /\ \A id \in RowsOfType("script") : Parses(db[id].expr)
  /\ cron' = BagOfAll(LoadedEntry, SetToBag(RowsOfType("script")))
  /\ phase' = "load.sync"
  /\ UNCHANGED <<store, running, req, restarts, faults>>

(* ScheduleJob refuses a row: log.Fatal ends the process.                  *)
LoadSchedulesFails ==
  /\ phase = "load.scripts"
  /\ \E id \in RowsOfType("script") : ~Parses(db[id].expr)
  /\ phase' = "fatal"
  /\ UNCHANGED <<store, scheduler, req, restarts, faults>>

(* A system schedule is put in the cron table only when the bucket holds   *)
(* none of its type yet.                                                   *)
LoadSystemSchedule(wanted, type) ==
  IF wanted /\ RowsOfType(type) = {}
    THEN LET row == [id |-> NextIdentifier, type |-> type, expr |-> FlagExpr]
         IN  /\ NextIdentifier \in IDs
             /\ cron' = Add(cron, NewEntry(row))
             /\ PutNew(row)
    ELSE UNCHANGED <<cron, db, seq>>

LoadSyncSchedule ==
  /\ phase = "load.sync"
  /\ LoadSystemSchedule(ExternalEndpoints, "sync")
  /\ phase' = "load.snapshot"
  /\ UNCHANGED <<files, running, req, restarts, faults>>

LoadSnapshotSchedule ==
  /\ phase = "load.snapshot"
  /\ LoadSystemSchedule(Snapshot, "snapshot")
  /\ phase' = "start"
  /\ UNCHANGED <<files, running, req, restarts, faults>>

(* JobScheduler.Start: the cron goroutine starts only if there are entries.*)
Start ==
  /\ phase = "start"
  /\ running' = (cron # EmptyBag)
  /\ phase' = "up"
  /\ UNCHANGED <<store, cron, req, restarts, faults>>

(* The process dies and is started again: only the database and the files  *)
(* survive.  A process that died at start-up dies there again.             *)
Crash ==
  /\ phase # "fatal" /\ restarts < MaxRestarts
  /\ restarts' = restarts + 1
  /\ phase' = "load.scripts"
  /\ cron' = EmptyBag /\ running' = FALSE
  /\ req' = [r \in Requests |-> Idle]
  /\ UNCHANGED <<store, faults>>

Relaunch ==
  /\ phase = "fatal"
  /\ phase' = "load.scripts"
  /\ UNCHANGED <<store, scheduler, req, restarts, faults>>

-----------------------------------------------------------------------------
(* POST /schedules.  The identifier is read before the script is stored,   *)
(* and the row is written last.                                            *)
CreateBegin(r) ==
  /\ At(r, "idle") /\ NextIdentifier \in IDs
  /\ \E expr \in Exprs :
       Begin(r, "create.store",
             [id |-> NextIdentifier, type |-> "script", expr |-> expr])
  /\ UNCHANGED <<store, scheduler, phase, restarts, faults>>

CreateStoreElsewhere(r) ==
  /\ At(r, "create.store")
  /\ Advance(r, "create.schedule")
  /\ UNCHANGED <<store, scheduler, phase, restarts, faults>>

CreateStore(r) ==
  /\ At(r, "create.store")
  /\ files' = files \cup {req[r].sched.id}
  /\ Advance(r, "create.schedule")
  /\ UNCHANGED <<db, seq, scheduler, phase, restarts, faults>>

CreateSchedule(r) ==
  /\ At(r, "create.schedule")
  /\ IF Parses(req[r].sched.expr)
       THEN /\ cron' = Add(cron, NewEntry(req[r].sched))
            /\ Advance(r, "create.persist")
       ELSE Done(r) /\ UNCHANGED cron
  /\ UNCHANGED <<store, running, phase, restarts, faults>>

CreatePersist(r) ==
  /\ At(r, "create.persist")
  /\ PutNew(req[r].sched)
  /\ Done(r)
  /\ UNCHANGED <<files, scheduler, phase, restarts, faults>>

(* PUT /schedules/:id.  A change of the name only is written back without  *)
(* touching the scheduler; a new script is stored before the scheduler is  *)
(* updated; a change of a script setting needs a script schedule.          *)
UpdateBegin(r) ==
  /\ At(r, "idle")
  /\ \E id \in Rows :
       \/ Begin(r, "update.persist", db[id])
       \/ /\ BagCardinality(cron) < MaxEntries
          /\ \E expr \in Exprs, point \in {"update.read", "update.store"} :
               Begin(r, point, [db[id] EXCEPT !.expr = expr])
  /\ UNCHANGED <<store, scheduler, phase, restarts, faults>>

UpdateStore(r) ==
  /\ At(r, "update.store")
  /\ files' = files \cup {req[r].sched.id}
  /\ Advance(r, "update.read")
  /\ UNCHANGED <<db, seq, scheduler, phase, restarts, faults>>

UpdateReadUnchecked(r) ==
  /\ At(r, "update.read")
  /\ CopyEntries(r, "update.swap")
  /\ UNCHANGED <<store, scheduler, phase, restarts, faults>>

(* UpdateJobSchedule: the expression is parsed only if an entry matches.   *)
UpdateRead(r) ==
  LET matched == \E e \in BagToSet(cron) : e.sched.id = req[r].sched.id IN
  /\ At(r, "update.read")
  /\ IF matched /\ ~Parses(req[r].sched.expr)
       THEN Done(r)
       ELSE CopyEntries(r, "update.swap")
  /\ UNCHANGED <<store, scheduler, phase, restarts, faults>>

UpdateSwap(r) ==
  LET sched == req[r].sched
      matches == {e \in BagToSet(req[r].table) : e.sched.id = sched.id}
      rescheduled == [e \in matches |->
        IF e.sched.type = "snapshot"
          THEN [e EXCEPT !.at = sched.expr]
          ELSE [sched |-> sched, runner |-> "script", at |-> sched.expr]]
  IN
  /\ At(r, "update.swap")
  /\ Replace(Rebuild(req[r].table, rescheduled))
  /\ Advance(r, "update.persist")
  /\ UNCHANGED <<store, phase, restarts, faults>>

UpdatePersist(r) ==
  /\ At(r, "update.persist")
  /\ Put(req[r].sched)
  /\ Done(r)
  /\ UNCHANGED <<files, scheduler, phase, restarts, faults>>

(* DELETE /schedules/:id.                                                  *)
DeleteBeginAny(r) ==
  /\ At(r, "idle")
  /\ \E id \in Rows : Begin(r, "delete.remove", db[id])
  /\ UNCHANGED <<store, scheduler, phase, restarts, faults>>

DeleteBegin(r) ==
  /\ At(r, "idle")
  /\ \E id \in Rows \ SystemRows : Begin(r, "delete.remove", db[id])
  /\ UNCHANGED <<store, scheduler, phase, restarts, faults>>

DeleteRemove(r) ==
  /\ At(r, "delete.remove")
  /\ files' = files \ {req[r].sched.id}
  /\ Advance(r, "delete.read")
  /\ UNCHANGED <<db, seq, scheduler, phase, restarts, faults>>

DeleteRead(r) ==
  /\ At(r, "delete.read")
  /\ CopyEntries(r, "delete.swap")
  /\ UNCHANGED <<store, scheduler, phase, restarts, faults>>

DeleteSwapKeeps(r) ==
  /\ At(r, "delete.swap")
  /\ Replace(req[r].table)
  /\ Advance(r, "delete.persist")
  /\ UNCHANGED <<store, phase, restarts, faults>>

DeleteSwapInverted(r) ==
  LET named == {e \in BagToSet(req[r].table) : e.sched.id = req[r].sched.id} IN
  /\ At(r, "delete.swap")
  /\ Replace(Having(req[r].table, named))
  /\ Advance(r, "delete.persist")
  /\ UNCHANGED <<store, phase, restarts, faults>>

DeleteSwap(r) ==
  LET others == {e \in BagToSet(req[r].table) : e.sched.id # req[r].sched.id} IN
  /\ At(r, "delete.swap")
  /\ Replace(Having(req[r].table, others))
  /\ Advance(r, "delete.persist")
  /\ UNCHANGED <<store, phase, restarts, faults>>

DeletePersist(r) ==
  /\ At(r, "delete.persist")
  /\ Remove(req[r].sched.id)
  /\ Done(r)
  /\ UNCHANGED <<files, scheduler, phase, restarts, faults>>

(* PUT /settings with another snapshot interval: the first snapshot row is *)
(* moved, and every entry whose runner points to a snapshot schedule.      *)
SettingsBegin(r) ==
  /\ At(r, "idle") /\ BagCardinality(cron) < MaxEntries
  /\ \E id \in RowsOfType("snapshot"), expr \in Exprs :
       /\ \A other \in RowsOfType("snapshot") : id <= other
       /\ Begin(r, "settings.read", [db[id] EXCEPT !.expr = expr])
  /\ UNCHANGED <<store, scheduler, phase, restarts, faults>>

SettingsRead(r) ==
  LET matched == \E e \in BagToSet(cron) : e.sched.type = "snapshot" IN
  /\ At(r, "settings.read")
  /\ IF matched /\ ~Parses(req[r].sched.expr)
       THEN Done(r)
       ELSE CopyEntries(r, "settings.swap")
  /\ UNCHANGED <<store, scheduler, phase, restarts, faults>>

SettingsSwap(r) ==
  LET matches == {e \in BagToSet(req[r].table) : e.sched.type = "snapshot"}
      rescheduled == [e \in matches |-> [e EXCEPT !.at = req[r].sched.expr]]
  IN
  /\ At(r, "settings.swap")
  /\ Replace(Rebuild(req[r].table, rescheduled))
  /\ Advance(r, "settings.persist")
  /\ UNCHANGED <<store, phase, restarts, faults>>

SettingsPersist(r) ==
  /\ At(r, "settings.persist")
  /\ Put(req[r].sched)
  /\ Done(r)
  /\ UNCHANGED <<files, scheduler, phase, restarts, faults>>

(* A database or file operation fails: the handler returns an error and    *)
(* leaves what it did before.                                              *)
IOError(r) ==
  /\ \E point \in IOPoints : At(r, point)
  /\ faults < MaxFaults
  /\ faults' = faults + 1
  /\ Done(r)
  /\ UNCHANGED <<store, scheduler, phase, restarts>>

-----------------------------------------------------------------------------
Boot == LoadSchedules \/ LoadSchedulesFails \/ LoadSyncSchedule
        \/ LoadSnapshotSchedule \/ Start
Create(r) == CreateBegin(r) \/ CreateStore(r) \/ CreateSchedule(r) \/ CreatePersist(r)
Update(r) == UpdateBegin(r) \/ UpdateStore(r) \/ UpdateRead(r) \/ UpdateSwap(r)
             \/ UpdatePersist(r)
Delete(r) == DeleteBegin(r) \/ DeleteRemove(r) \/ DeleteRead(r) \/ DeleteSwap(r)
             \/ DeletePersist(r)
Settings(r) == SettingsBegin(r) \/ SettingsRead(r) \/ SettingsSwap(r) \/ SettingsPersist(r)

Next ==
  \/ Boot \/ Crash \/ Relaunch
  \/ \E r \in Requests : Create(r) \/ Update(r) \/ Delete(r) \/ Settings(r) \/ IOError(r)

Spec == Init /\ [][Next]_vars

-----------------------------------------------------------------------------
(* Every variable has its type, a row is stored under its own identifier,  *)
(* and every entry of the cron table fires at an expression that parses.   *)
StoreOK ==
  /\ db \in [IDs -> Schedule \cup {NoSchedule}]
  /\ \A id \in Rows : db[id].id = id
  /\ seq \in 0..MaxID
  /\ files \subseteq IDs
SchedulerOK == BagToSet(cron) \subseteq Entry /\ running \in BOOLEAN
Reschedules(point, sched, e) ==
  \/ point = "update.swap" /\ e.sched.id = sched.id
  \/ point = "settings.swap" /\ e.sched.type = "snapshot"
RequestsOK ==
  /\ req = [r \in Requests |->
              [pc |-> req[r].pc, sched |-> req[r].sched, table |-> req[r].table]]
  /\ \A r \in Requests :
       /\ BagToSet(req[r].table) \subseteq Entry
       /\ \A e \in BagToSet(req[r].table) :
            Reschedules(req[r].pc, req[r].sched, e) => Parses(req[r].sched.expr)
       /\ \/ req[r] = Idle
          \/ req[r].pc \in BusyPoints /\ req[r].sched \in Schedule
TypeOK ==
  /\ StoreOK /\ SchedulerOK /\ RequestsOK
  /\ phase \in {"load.scripts", "load.sync", "load.snapshot", "start", "up", "fatal"}
  /\ phase # "up" => \A r \in Requests : req[r] = Idle
  /\ restarts \in 0..MaxRestarts
  /\ faults \in 0..MaxFaults

Busy(r) == req[r] # Idle
WorksOn(r, id) == Busy(r) /\ req[r].sched.id = id
Creating(r) == Busy(r) /\ req[r].pc \in CreatePoints
AtRest(id) == phase = "up" /\ \A r \in Requests : ~WorksOn(r, id)
EntriesOf(id) == {e \in BagToSet(cron) : e.sched.id = id}

(* A system schedule is never deleted, and no script schedule ever takes   *)
(* its row, whatever the requests, crashes and failures (schedule_delete   *)
(* refuses it, and an identifier read by a creation is above it).          *)
SystemRowsKept ==
  [][\A id \in SystemRows :
       db'[id] # NoSchedule /\ db'[id].type = db[id].type]_vars

(* Until the server is restarted, the snapshot job stays in a cron table   *)
(* that runs, whatever rebuilds of the table overlap: no request can drop  *)
(* an entry it does not name, and none can name this one to delete it.     *)
SnapshotJobSurvives ==
  Snapshot /\ restarts = 0 /\ phase = "up" =>
    running /\ \E e \in BagToSet(cron) : e.runner = "snapshot"

(* One request at a time: the identifier a creation was given names no     *)
(* schedule until it is persisted, so a creation overwrites nothing.       *)
PendingIdIsFree ==
  \A r \in Requests : Creating(r) => db[req[r].sched.id] = NoSchedule

(* One request at a time, no failing operation: a job in the cron table    *)
(* belongs to a schedule of the database, also after restarts, unless the  *)
(* request under way is about to write or to delete that row.              *)
NoOrphanEntry ==
  faults = 0 => \A e \in BagToSet(cron) :
    e.sched.id \in Rows \/ \E r \in Requests : WorksOn(r, e.sched.id)

(* One request at a time, until a crash or an operation that fails halfway:*)
(* a schedule at rest is in the cron table with its latest expression, a   *)
(* script schedule with all its latest settings; the table runs, unless it *)
(* was empty at Start, where neither flag asks for a system schedule; and  *)
(* the script folder it runs from exists.                                  *)
Undisturbed == restarts = 0 /\ faults = 0
ScheduleIsArmed ==
  Undisturbed => \A id \in Rows : AtRest(id) =>
    /\ Snapshot \/ ExternalEndpoints => running
    /\ \E e \in EntriesOf(id) :
         e.at = db[id].expr /\ (db[id].type = "script" => e.sched = db[id])
ScriptIsStored ==
  Undisturbed => \A id \in RowsOfType("script") : AtRest(id) => id \in files

(* One request at a time, until a crash or a failure: the handlers let no  *)
(* expression the cron library refuses reach the database, so that the next*)
(* start can schedule every row it finds.                                  *)
BootCanSucceed == Undisturbed => \A id \in RowsOfType("script") : Parses(db[id].expr)

(* One request at a time: rows, scripts and cron entries belong together,  *)
(* and no creation is about to overwrite a schedule.                       *)
SchedulesSound ==
  ScheduleIsArmed /\ ScriptIsStored /\ NoOrphanEntry /\ PendingIdIsFree

(* One request at a time, the bucket is a registry with atomic operations. *)
Abstract == INSTANCE Registry WITH
  Ids <- IDs, Objects <- Schedule, Absent <- NoSchedule,
  objects <- db, used <- 1..seq
RefinesRegistry == Abstract!Spec

-----------------------------------------------------------------------------
(* What a comment of the code says and a run refutes.                      *)

(* cron/scheduler.go: UpdateJobSchedule re-schedules "the new job" among   *)
(* "all the existing jobs": a schedule at rest has one entry.              *)
OneEntryPerSchedule ==
  \A id \in Rows : AtRest(id) => Cardinality(EntriesOf(id)) <= 1
=============================================================================
