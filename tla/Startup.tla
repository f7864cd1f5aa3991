------------------------------ MODULE Startup -------------------------------
(* The start of the server: it opens or creates the database, migrates it  *)
(* from the version that an older server left, and fills in defaults, one  *)
(* transaction after another.  The server may stop between any two; only   *)
(* the version, stored last, tells the next start what has been done.      *)
EXTENDS Naturals, FiniteSets, Sequences

CONSTANTS
  Endpoints, Stacks,  \* endpoints and swarm stacks that exist before
  Controls,           \* resource controls that exist before
  AdminOwned,         \* those of an administrator
  Origins,            \* the versions the database may have at first; 0 for one
                      \* that stores none, Fresh for no database file
  Fresh,
  Primary,            \* the endpoint that the command line names
  AdminFlag,          \* whether the command line has an administrator password
  Templates,          \* how many templates the templates file defines
  None,
  MaxCrashes          \* bound: how often the server stops

ASSUME OriginsAssumption == Origins \subseteq 0..14 \cup {Fresh} /\ Fresh \notin 0..14
ASSUME OwnersAssumption == AdminOwned \subseteq Controls
ASSUME PrimaryAssumption == Primary \notin Endpoints
ASSUME NoneAssumption == None \notin Stacks
ASSUME StacksAssumption == IsFiniteSet(Stacks)
ASSUME StartupBounds == Templates \in Nat /\ MaxCrashes \in Nat

DBVersion == 14
StackIDs == 1..Cardinality(Stacks)

VARIABLES
  file,       \* whether the database file exists
  version,    \* the version stored in it: a set, empty when there is none
  groups,     \* whether it has an endpoint group; the first is Unassigned
  users,      \* [legacy: an administrator stored by name, admins: how many]
  buckets,    \* whether it has the resource control buckets of version 1,
              \* which no migration removes
  controls,   \* how many rows each resource control has
  endpoints,  \* the endpoints bucket
  settings,   \* the migrations that shaped the settings; {DBVersion} when they
              \* were written in their present form; only a new database has none
  stacks,     \* [old: legacy rows, rows: rows by identifier, seq: sequence]
  folders,    \* [old: legacy folders, new: folders by identifier]
  templates,  \* how many templates are stored
  boot,       \* the server: how far its start has come
  origin,     \* (history) the version the database had at first
  cut,        \* (history) what a stop has cut in two
  crashes

data == <<version, groups, users, buckets, controls, endpoints, settings,
          stacks, folders, templates>>
history == <<origin, cut, crashes>>
vars == <<file, data, boot, history>>

(* The server: its program point, the version it found (Fresh without a    *)
(* file), the migration it runs, the rows that one has still to write, and *)
(* the stack it converts with its new identifier.                          *)
Down == [at |-> "down", from |-> Fresh, step |-> 0, todo |-> {}, stack |-> None, id |-> 0]
At(point) == boot.at = point
Goto(point) == boot' = [boot EXCEPT !.at = point]
Serving == At("serving")

-----------------------------------------------------------------------------
(* The migrations in their order: each runs when the version found is below *)
(* the number.                                                             *)
Migrations ==
  << [below |-> 1,  what |-> "admin"],     [below |-> 2,  what |-> "controls"],
     [below |-> 2,  what |-> "teams"],     [below |-> 3,  what |-> "settings"],
     [below |-> 4,  what |-> "tls"],       [below |-> 5,  what |-> "settings"],
     [below |-> 6,  what |-> "settings"],  [below |-> 7,  what |-> "settings"],
     [below |-> 8,  what |-> "extensions"], [below |-> 9,  what |-> "group"],
     [below |-> 10, what |-> "type"],      [below |-> 11, what |-> "verify"],
     [below |-> 12, what |-> "tags"],      [below |-> 12, what |-> "stacks"],
     [below |-> 13, what |-> "settings"],  [below |-> 14, what |-> "prune"] >>
OnEndpoints == {"teams", "tls", "extensions", "group", "type", "verify", "tags"}
SettingsSteps == {Migrations[i].below : i \in {j \in DOMAIN Migrations : Migrations[j].what = "settings"}}
What == Migrations[boot.step].what

Since == [teams |-> 2, tls |-> 4, extensions |-> 8, tags |-> 12]
Endpoint == [fields : SUBSET DOMAIN Since, group : {0, 1},
             type : {"", "docker", "agent"}, tls : BOOLEAN, skip : BOOLEAN]

\* What a migration writes over an endpoint.
Migrated(e, what) ==
  CASE what \in DOMAIN Since -> [e EXCEPT !.fields = @ \cup {what},
                                          !.skip = @ /\ what # "tls"]
    [] what = "group" -> [e EXCEPT !.group = 1]
    [] what = "type" -> [e EXCEPT !.type = "docker"]
    [] what = "verify" -> IF e.type = "agent" THEN [e EXCEPT !.tls = TRUE, !.skip = TRUE]
                          ELSE [e EXCEPT !.skip = @ /\ e.tls]

-----------------------------------------------------------------------------
(* What a server of version v left behind; stacks came with version 8, the *)
(* group of an endpoint with 9, agents with 10.                            *)
HadStacks(v) == IF v \in 8..11 THEN Stacks ELSE {}
LeftEndpoint(e, v) ==
  /\ e.fields = {f \in DOMAIN Since : Since[f] <= v}
  /\ e.group = IF v < 9 THEN 0 ELSE 1
  /\ (v < 10) <=> (e.type = "")
  /\ v < 4 => ~e.skip
  /\ v >= 11 => (e.skip => e.tls) /\ (e.type = "agent" => e.tls /\ e.skip)

Left(v) ==
  /\ version = IF v = 0 THEN {} ELSE {v}
  /\ groups = (v >= 9)
  /\ users \in [legacy : {TRUE, FALSE} \cap {v = 0, FALSE}, admins : {IF v = 0 THEN 0 ELSE 1}]
  /\ buckets \in {TRUE, v < 2}
  /\ controls = [k \in Controls |-> IF v < 2 \/ (v >= 14 /\ k \in AdminOwned) THEN 0 ELSE 1]
  /\ \E e \in Endpoint :
       /\ LeftEndpoint(e, v)
       /\ endpoints = [x \in Endpoints \cup {Primary} |-> IF x = Primary THEN None ELSE e]
  /\ settings = {n \in SettingsSteps : n <= v}
  /\ stacks = [old |-> HadStacks(v), rows |-> [id \in StackIDs |-> None], seq |-> 0]
  /\ folders = [old |-> HadStacks(v), new |-> [id \in StackIDs |-> None]]

Nothing ==
  /\ version = {} /\ groups = FALSE /\ users = [legacy |-> FALSE, admins |-> 0]
  /\ buckets = FALSE /\ controls = [k \in Controls |-> 0]
  /\ endpoints = [x \in Endpoints \cup {Primary} |-> None] /\ settings = {}
  /\ stacks = [old |-> {}, rows |-> [id \in StackIDs |-> None], seq |-> 0]
  /\ folders = [old |-> {}, new |-> [id \in StackIDs |-> None]]

Init ==
  /\ origin \in Origins
  /\ file = (origin # Fresh)
  /\ IF origin = Fresh THEN Nothing ELSE Left(origin)
  /\ templates = 0
  /\ boot = Down /\ cut = {} /\ crashes = 0

-----------------------------------------------------------------------------
(* Opening the database *)
Launch ==
  /\ At("down")
  /\ boot' = [Down EXCEPT !.at = "open", !.from = IF file THEN 0 ELSE Fresh]
  /\ UNCHANGED <<file, data, history>>

Open ==
  /\ At("open") /\ file' = TRUE /\ Goto("init")
  /\ UNCHANGED <<data, history>>

NeedsGroupFresh == ~groups /\ boot.from = Fresh
NeedsGroup == ~groups
InitGroups ==
  /\ At("init") /\ groups' = (groups \/ NeedsGroup) /\ Goto("migrate data")
  /\ UNCHANGED <<file, version, users, buckets, controls, endpoints, settings,
                 stacks, folders, templates, history>>

\* The first migration from position i on that is due, if there is one.
DueToo(i) == boot.from <= Migrations[i].below
Due(i) == boot.from < Migrations[i].below
Proceed(i) ==
  LET due == {j \in DOMAIN Migrations : j >= i /\ Due(j)}
  IN  IF due = {} THEN boot' = [boot EXCEPT !.at = "store version", !.step = 0]
      ELSE boot' = [boot EXCEPT !.at = "read", !.todo = {}, !.stack = None, !.id = 0,
                      !.step = CHOOSE j \in due : \A k \in due : j <= k]

\* A database that is not new and stores no version counts as version 0.
MigrateDataEarly ==
  /\ At("migrate data")
  /\ IF boot.from = Fresh \/ version # {DBVersion}
     THEN version' = {DBVersion} ELSE UNCHANGED version
  /\ IF boot.from = Fresh THEN Goto("templates")
     ELSE boot' = [boot EXCEPT !.from = IF version = {} THEN 0 ELSE CHOOSE v \in version : TRUE,
                               !.at = IF version = {DBVersion} THEN "templates" ELSE "migrate"]
  /\ UNCHANGED <<file, groups, users, buckets, controls, endpoints, settings,
                 stacks, folders, templates, history>>
MigrateData ==
  /\ At("migrate data")
  /\ IF boot.from = Fresh
     THEN version' = {DBVersion} /\ Goto("templates")
     ELSE /\ boot' = [boot EXCEPT
               !.from = IF version = {} THEN 0 ELSE CHOOSE v \in version : TRUE,
               !.at = IF version = {DBVersion} THEN "templates" ELSE "migrate"]
          /\ UNCHANGED version
  /\ UNCHANGED <<file, groups, users, buckets, controls, endpoints, settings,
                 stacks, folders, templates, history>>

Migrate == At("migrate") /\ Proceed(1) /\ UNCHANGED <<file, data, history>>

-----------------------------------------------------------------------------
(* The migrations: the rows are read at once, and written one by one.      *)
Readable ==
  CASE What = "controls" -> buckets
    [] What = "stacks" -> \A id \in StackIDs : stacks.rows[id] = None
    [] OTHER -> TRUE
RowsToWrite ==
  CASE What = "controls" -> Controls
    [] What \in OnEndpoints -> {x \in DOMAIN endpoints : endpoints[x] # None}
    [] What = "stacks" -> stacks.old
    [] What = "admin" -> IF users.legacy \/ users.admins > 0 THEN {"admin"} ELSE {}
    [] OTHER -> {}

ReadRows ==
  /\ At("read") /\ Readable
  /\ boot' = [boot EXCEPT !.at = "write", !.todo = RowsToWrite]
  /\ UNCHANGED <<file, data, history>>

\* Old buckets that are missing, and stacks in the new form among the old,
\* cannot be read: the server exits.
ReadFails ==
  /\ At("read") /\ ~Readable
  /\ boot' = Down
  /\ UNCHANGED <<file, data, history>>

Writing(what) == At("write") /\ What = what
NextMigration ==
  /\ At("write") /\ boot.todo = {} /\ What \notin {"settings", "prune"}
  /\ Proceed(boot.step + 1)
  /\ UNCHANGED <<file, data, history>>

\* The administrator of version 0 is created anew, then removed by name.
MoveAdmin ==
  /\ Writing("admin") /\ boot.todo # {}
  /\ users' = [users EXCEPT !.admins = @ + 1]
  /\ Goto("remove admin")
  /\ UNCHANGED <<file, version, groups, buckets, controls, endpoints, settings,
                 stacks, folders, templates, history>>
RemoveAdmin ==
  /\ At("remove admin")
  /\ users' = [users EXCEPT !.legacy = FALSE]
  /\ Proceed(boot.step + 1)
  /\ UNCHANGED <<file, version, groups, buckets, controls, endpoints, settings,
                 stacks, folders, templates, history>>

MoveControl ==
  /\ Writing("controls")
  /\ \E k \in boot.todo :
       /\ controls' = [controls EXCEPT ![k] = @ + 1]
       /\ boot' = [boot EXCEPT !.todo = @ \ {k}]
  /\ UNCHANGED <<file, version, groups, users, buckets, endpoints, settings,
                 stacks, folders, templates, history>>

MigrateEndpoint ==
  /\ At("write") /\ What \in OnEndpoints
  /\ \E x \in boot.todo :
       /\ endpoints' = [endpoints EXCEPT ![x] = Migrated(@, What)]
       /\ boot' = [boot EXCEPT !.todo = @ \ {x}]
  /\ UNCHANGED <<file, version, groups, users, buckets, controls, settings,
                 stacks, folders, templates, history>>

MigrateSettings ==
  /\ Writing("settings")
  /\ settings' = settings \cup {Migrations[boot.step].below}
  /\ Proceed(boot.step + 1)
  /\ UNCHANGED <<file, version, groups, users, buckets, controls, endpoints,
                 stacks, folders, templates, history>>

\* A stack takes the next identifier: its folder is renamed, its old row
\* removed, and the new row stored.
RenamedNot(f, s, id) == f
Renamed(f, s, id) == [old |-> f.old \ {s}, new |-> [f.new EXCEPT ![id] = s]]
RenameFolder ==
  /\ Writing("stacks")
  /\ LET id == stacks.seq + 1
     IN  \E s \in boot.todo :
           IF id \in StackIDs /\ s \in folders.old /\ folders.new[id] = None
           THEN /\ folders' = Renamed(folders, s, id)
                /\ boot' = [boot EXCEPT !.at = "remove stack", !.stack = s, !.id = id]
           ELSE boot' = Down /\ UNCHANGED folders
  /\ UNCHANGED <<file, version, groups, users, buckets, controls, endpoints,
                 settings, stacks, templates, history>>
RemoveStack ==
  /\ At("remove stack")
  /\ stacks' = [stacks EXCEPT !.old = @ \ {boot.stack}]
  /\ Goto("create stack")
  /\ UNCHANGED <<file, version, groups, users, buckets, controls, endpoints,
                 settings, folders, templates, history>>
StoredLoose(s, id) == [stacks EXCEPT !.rows[id] = s]
Stored(s, id) == [stacks EXCEPT !.rows[id] = s, !.seq = id]
CreateStack ==
  /\ At("create stack")
  /\ stacks' = Stored(boot.stack, boot.id)
  /\ boot' = [boot EXCEPT !.at = "write", !.todo = @ \ {boot.stack}, !.stack = None, !.id = 0]
  /\ UNCHANGED <<file, version, groups, users, buckets, controls, endpoints,
                 settings, folders, templates, history>>

PruneControl ==
  /\ Writing("prune")
  /\ \/ \E k \in AdminOwned :
          /\ controls[k] > 0 /\ controls' = [controls EXCEPT ![k] = @ - 1]
          /\ UNCHANGED boot
     \/ /\ \A k \in AdminOwned : controls[k] = 0
        /\ Proceed(boot.step + 1) /\ UNCHANGED controls
  /\ UNCHANGED <<file, version, groups, users, buckets, endpoints, settings,
                 stacks, folders, templates, history>>

StoreDBVersion ==
  /\ At("store version") /\ version' = {DBVersion} /\ Goto("templates")
  /\ UNCHANGED <<file, groups, users, buckets, controls, endpoints, settings,
                 stacks, folders, templates, history>>

-----------------------------------------------------------------------------
(* Defaults *)
ImportDueAlways == Templates > 0
ImportDue == templates = 0 /\ Templates > 0
ImportedShort(count) == count + 1 >= Templates
Imported(count) == count >= Templates
InitTemplates ==
  /\ At("templates") /\ Goto(IF ImportDue THEN "import" ELSE "settings")
  /\ UNCHANGED <<file, data, history>>
CreateTemplate ==
  /\ At("import")
  /\ templates' = templates + 1
  /\ IF Imported(templates + 1) THEN Goto("settings") ELSE UNCHANGED boot
  /\ UNCHANGED <<file, version, groups, users, buckets, controls, endpoints,
                 settings, stacks, folders, history>>

InitSettings ==
  /\ At("settings")
  /\ settings' = IF settings = {} THEN {DBVersion} ELSE settings
  /\ Goto("endpoint")
  /\ UNCHANGED <<file, version, groups, users, buckets, controls, endpoints,
                 stacks, folders, templates, history>>

InitEndpoint ==
  /\ At("endpoint")
  /\ \/ /\ \A x \in DOMAIN endpoints : endpoints[x] = None
        /\ \E e \in Endpoint :
             /\ e.fields = DOMAIN Since /\ e.group = 1 /\ e.type # ""
             /\ (e.skip => e.tls) /\ (e.type = "agent" => e.tls)
             /\ endpoints' = [endpoints EXCEPT ![Primary] = e]
     \/ /\ \E x \in DOMAIN endpoints : endpoints[x] # None
        /\ UNCHANGED endpoints
  /\ Goto("admin")
  /\ UNCHANGED <<file, version, groups, users, buckets, controls, settings,
                 stacks, folders, templates, history>>

InitAdmin ==
  /\ At("admin")
  /\ users' = [users EXCEPT !.admins = IF @ = 0 /\ AdminFlag THEN 1 ELSE @]
  /\ Goto("serving")
  /\ UNCHANGED <<file, version, groups, buckets, controls, endpoints, settings,
                 stacks, folders, templates, history>>

-----------------------------------------------------------------------------
(* The server stops, or an operation fails and it exits.                   *)
Pending == file /\ version # {DBVersion}
CutNow ==
  {what \in {"database", "twice", "stacks", "templates"} :
     CASE what = "database" -> Pending /\ origin = Fresh
       [] what = "twice" -> Pending /\ origin \in {0, 1}
       [] what = "stacks" -> Pending /\ folders.old # HadStacks(origin)
       [] what = "templates" -> templates \in 1..(Templates - 1)}
Crash ==
  /\ ~At("down") /\ crashes < MaxCrashes
  /\ boot' = Down /\ crashes' = crashes + 1
  /\ cut' = cut \cup CutNow
  /\ UNCHANGED <<file, data, origin>>

Boot ==
  \/ Launch \/ Open \/ InitGroups \/ MigrateData \/ Migrate \/ ReadRows \/ ReadFails
  \/ NextMigration \/ MoveAdmin \/ RemoveAdmin \/ MoveControl \/ MigrateEndpoint
  \/ MigrateSettings \/ RenameFolder \/ RemoveStack \/ CreateStack \/ PruneControl
  \/ StoreDBVersion \/ InitTemplates \/ CreateTemplate \/ InitSettings
  \/ InitEndpoint \/ InitAdmin

Next == Boot \/ Crash

Spec == Init /\ [][Next]_vars
\* The start goes on, and a server that stopped is started again.
FairSpec == Spec /\ WF_vars(Boot)

-----------------------------------------------------------------------------
Points == {"down", "open", "init", "migrate data", "migrate", "read", "write",
           "remove admin", "remove stack", "create stack", "store version",
           "templates", "import", "settings", "endpoint", "admin", "serving"}

(* Every variable has its type; templates are imported once.               *)
TypeOK ==
  /\ file \in BOOLEAN /\ groups \in BOOLEAN /\ buckets \in BOOLEAN
  /\ version \in {{}} \cup {{v} : v \in 1..DBVersion}
  /\ users \in [legacy : BOOLEAN, admins : 0..(MaxCrashes + 1)]
  /\ controls \in [Controls -> 0..(MaxCrashes + 1)]
  /\ endpoints \in [Endpoints \cup {Primary} -> Endpoint \cup {None}]
  /\ settings \subseteq SettingsSteps \cup {DBVersion}
  /\ stacks \in [old : SUBSET Stacks, rows : [StackIDs -> Stacks \cup {None}],
                 seq : {0} \cup StackIDs]
  /\ folders \in [old : SUBSET Stacks, new : [StackIDs -> Stacks \cup {None}]]
  /\ templates \in 0..Templates
  /\ boot.at \in Points /\ boot.from \in 0..DBVersion \cup {Fresh}

(* However often the start is cut short: a database that says it has the   *)
(* present version is in the form of that version throughout, so that no   *)
(* migration is skipped.                                                   *)
VersionTells ==
  DBVersion \in version =>
    /\ ~users.legacy /\ stacks.old = {}
    /\ \A k \in AdminOwned : controls[k] = 0
    /\ SettingsSteps \subseteq settings \/ settings \in {{}, {DBVersion}}
    /\ \A x \in Endpoints : endpoints[x] # None =>
         /\ endpoints[x].fields = DOMAIN Since /\ endpoints[x].type # ""
         /\ endpoints[x].skip => endpoints[x].tls
         /\ endpoints[x].type = "agent" => endpoints[x].tls /\ endpoints[x].skip

(* A server that serves has the group that the migration and the command   *)
(* line put endpoints into, by the number 1 that they assume.              *)
EndpointsHaveGroup ==
  Serving => \A x \in DOMAIN endpoints :
    endpoints[x] # None => endpoints[x].group = 1 /\ groups

(* A migration that is repeated after it was cut short repeats no creation, *)
(* unless it started from version 0 or 1; and nothing is lost.             *)
NothingTwice ==
  Serving /\ "twice" \notin cut =>
    /\ users.admins <= 1
    /\ \A k \in Controls :
         controls[k] = IF k \in AdminOwned \/ origin = Fresh THEN 0 ELSE 1

(* Every stack comes through the conversion with one row and, under the    *)
(* same identifier, its folder, unless a stop cuts the conversion short.   *)
StacksSurvive ==
  Serving /\ "stacks" \notin cut =>
    /\ \A s \in HadStacks(origin) :
         Cardinality({id \in StackIDs : stacks.rows[id] = s}) = 1
    /\ \A id \in StackIDs : folders.new[id] = stacks.rows[id]

(* The templates of the file are imported once and all, unless a stop cuts *)
(* the import short.                                                       *)
TemplatesImported ==
  Serving /\ "templates" \notin cut => templates = Templates

(* A server that serves has all that it had before, once, in the form of   *)
(* its version, but for the cuts that the parts name.                      *)
StartSound ==
  TypeOK /\ EndpointsHaveGroup /\ NothingTwice /\ StacksSurvive /\ TemplatesImported

(* The server comes up, though it may stop any time on the way, unless it  *)
(* stopped before a new database had a version or after the conversion of  *)
(* stacks began.                                                           *)
ComesUp == <>[]Serving \/ <>(cut \cap {"database", "stacks"} # {})
=============================================================================
