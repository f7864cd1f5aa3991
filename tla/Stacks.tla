------------------------------- MODULE Stacks -------------------------------
(* Stacks: a row in the database, a folder with the stack file, and what   *)
(* the Docker engines run.  A request writes them one after another; only  *)
(* the login, deployment and logout of one request are kept together, by   *)
(* the creation mutex, because logins live in one file that all share.     *)
EXTENDS Naturals, FiniteSets

CONSTANTS
  Procs,        \* the requests the server handles at once
  Names,        \* stack names, up to letter case
  Types,        \* kinds of stacks: a subset of {"compose", "swarm"}
  Engines,      \* endpoints: a Docker engine or a swarm each
  Contents,     \* contents of a stack file
  Hub,          \* the DockerHub registry
  Registries,   \* the other registries that ask for a login
  Renames,      \* names that a migration asks for
  None,         \* no stack, folder, deployment or process
  MaxID,        \* bound: stack identifiers
  MaxOps,       \* bound: requests
  MaxOverlaps,  \* bound: requests that begin while another is in progress
  MaxFailures   \* bound: operations that fail and restarts of the server

ASSUME TypesAssumption == Types \subseteq {"compose", "swarm"}
ASSUME RenamesAssumption == Renames \subseteq Names
ASSUME NoneAssumption == None \notin Procs /\ None \notin Contents
ASSUME StackBounds ==
  MaxID \in Nat /\ MaxOps \in Nat /\ MaxOverlaps \in Nat /\ MaxFailures \in Nat

IDs == 1..MaxID
Stack == [name : Names, type : Types, engine : Engines]
ASSUME NoStackAssumption == None \notin Stack
Projects == Types \X Engines \X Names
Project(type, engine, name) == <<type, engine, name>>
NameOf(project) == project[3]

VARIABLES
  stacks,      \* the stacks bucket
  seq,         \* its sequence
  folders,     \* the stack file in the folder of each identifier
  deployed,    \* the file each project that runs was deployed from
  logins,      \* the registries the shared config.json holds a login for
  mutex,       \* stackCreationMutex: the process that holds it
  op,          \* what each process is doing
  overlaps,    \* (history) requests that began while another was in progress
  doomed,      \* (history) stacks that a request has taken down for good
  astray,      \* (history) names of the stacks that a request led astray
  ops, restarts, faults

disk == <<stacks, seq, folders>>
history == <<overlaps, doomed, astray>>
bounds == <<restarts, faults>>
vars == <<disk, deployed, logins, mutex, op, history, ops, bounds>>

Rows == {id \in IDs : stacks[id] # None}

(* A request: its kind, the stack as it was read or is created (id, row),  *)
(* on the endpoint that the request says it is on, the project it deploys  *)
(* (row.type, to, name), the new file until it is stored, and the logins   *)
(* it has made until it has deployed.                                      *)
Idle == [pc |-> "idle", kind |-> "", id |-> 0, row |-> None, to |-> None,
         name |-> None, file |-> None, logged |-> {}]

At(p, point) == op[p].pc = point
Become(p, state) == op' = [op EXCEPT ![p] = state]
Quiet == \A p \in Procs : op[p] = Idle
Advance(p, point) == op' = [op EXCEPT ![p].pc = point]
Done(p) == Become(p, Idle)

(* The endpointId of a request goes before the endpoint of the stack, and  *)
(* a migration may ask for the endpoint that the stack is on: nobody says  *)
(* no, and the engine is left with a project too many, or too few.         *)
MigratesHome(o) == o.kind = "migrate" /\ o.to = o.row.engine
Misleads(o) == o.id \in Rows /\ (o.row # stacks[o.id] \/ MigratesHome(o))
Addressed(id, engine) == [stacks[id] EXCEPT !.engine = engine]

Begin(p, state) ==
  /\ At(p, "idle") /\ ops < MaxOps /\ ops' = ops + 1
  /\ Become(p, state)
  /\ astray' = IF Misleads(state) THEN astray \cup {stacks[state.id].name} ELSE astray
  /\ \/ Quiet /\ UNCHANGED overlaps
     \/ ~Quiet /\ overlaps < MaxOverlaps /\ overlaps' = overlaps + 1
  /\ UNCHANGED <<disk, deployed, logins, mutex, doomed, bounds>>

-----------------------------------------------------------------------------
Init ==
  /\ stacks = [id \in IDs |-> None] /\ seq = 0
  /\ folders = [id \in IDs |-> None]
  /\ deployed = [project \in Projects |-> None]
  /\ logins = {} /\ mutex = None
  /\ op = [p \in Procs |-> Idle]
  /\ overlaps = 0 /\ doomed = {} /\ astray = {}
  /\ ops = 0 /\ restarts = 0 /\ faults = 0

(* POST /stacks: the name must be free among the stacks listed; then the   *)
(* identifier is read, the file stored, the stack deployed, and stored.    *)
CreateBegin(p) ==
  \E row \in Stack, file \in Contents :
    /\ \A id \in Rows : stacks[id].name # row.name
    /\ Begin(p, [Idle EXCEPT !.pc = "identify", !.kind = "create", !.row = row,
                   !.to = row.engine, !.name = row.name,
                   !.file = file])

Identify(p) ==
  /\ At(p, "identify") /\ seq + 1 \in IDs
  /\ Become(p, [op[p] EXCEPT !.pc = "store", !.id = seq + 1])
  /\ UNCHANGED <<disk, deployed, logins, mutex, history, ops, bounds>>

(* PUT /stacks/:id: the new file is stored, deployed, and the row stored,  *)
(* with the endpoint that the request named.                               *)
UpdateBegin(p) ==
  \E id \in Rows, engine \in Engines, file \in Contents :
    Begin(p, [Idle EXCEPT !.pc = "store", !.kind = "update", !.id = id,
                !.row = Addressed(id, engine), !.to = engine,
                !.name = stacks[id].name, !.file = file])

(* POST /stacks/:id/migrate: deployed at the target under the name asked   *)
(* for, if any, then taken down where the request says it was.             *)
MigrateBegin(p) ==
  \E id \in Rows, engine, target \in Engines, name \in Names :
    /\ name = stacks[id].name \/ name \in Renames
    /\ Begin(p, [Idle EXCEPT !.pc = "lock", !.kind = "migrate", !.id = id,
                   !.row = Addressed(id, engine), !.to = target, !.name = name])

(* DELETE /stacks/:id: taken down where the request says it is, then the   *)
(* row and the folder removed.                                             *)
DeleteBegin(p) ==
  \E id \in Rows, engine \in Engines :
    Begin(p, [Idle EXCEPT !.pc = "down", !.kind = "delete", !.id = id,
                !.row = Addressed(id, engine)])

(* DELETE /stacks/:name?external=true, for a swarm stack without a row.    *)
ExternalBegin(p) ==
  \E engine \in Engines, name \in Names :
    /\ "swarm" \in Types
    /\ \A id \in Rows : stacks[id].name # name
    /\ Begin(p, [Idle EXCEPT !.pc = "down", !.kind = "external",
                   !.row = [name |-> name, type |-> "swarm", engine |-> engine]])

Store(p) ==
  /\ At(p, "store")
  /\ folders' = [folders EXCEPT ![op[p].id] = op[p].file]
  /\ Become(p, [op[p] EXCEPT !.pc = "lock", !.file = None])
  /\ UNCHANGED <<stacks, seq, deployed, logins, mutex, history, ops, bounds>>

-----------------------------------------------------------------------------
(* A deployment, under the mutex.  Login ignores the logins that fail;     *)
(* Logout only leaves DockerHub.                                           *)

LockUnguarded(p) ==
  /\ At(p, "lock")
  /\ mutex' = p
  /\ Advance(p, "login")
  /\ UNCHANGED <<disk, deployed, logins, history, ops, bounds>>
Lock(p) ==
  /\ At(p, "lock") /\ mutex = None
  /\ mutex' = p
  /\ Advance(p, "login")
  /\ UNCHANGED <<disk, deployed, logins, history, ops, bounds>>

Login(p) ==
  /\ At(p, "login")
  /\ \E logged \in SUBSET (Registries \cup {Hub}) :
       /\ logins' = logins \cup logged
       /\ Become(p, [op[p] EXCEPT !.pc = "up", !.logged = logged])
  /\ UNCHANGED <<disk, deployed, mutex, history, ops, bounds>>

Deploy(p) ==
  deployed' = [deployed EXCEPT ![Project(op[p].row.type, op[p].to, op[p].name)] =
                 folders[op[p].id]]
Up(p) ==
  /\ At(p, "up") /\ folders[op[p].id] # None
  /\ Deploy(p)
  /\ doomed' = doomed \ {op[p].id}
  /\ Become(p, [op[p] EXCEPT !.pc = "logout", !.logged = {}])
  /\ UNCHANGED <<disk, logins, mutex, overlaps, astray, ops, bounds>>

Logout(p) ==
  /\ At(p, "logout")
  /\ logins' = logins \ {Hub}
  /\ mutex' = None
  /\ Advance(p, IF op[p].kind = "migrate" THEN "down" ELSE "persist")
  /\ UNCHANGED <<disk, deployed, history, ops, bounds>>

-----------------------------------------------------------------------------
(* Taking a compose stack down reads its file; a swarm stack only has to   *)
(* be named.                                                               *)
NeedsFile(row) == row.type = "compose"
TakesDown(o) == o.kind = "delete" \/ MigratesHome(o)
AfterDown(p) ==
  CASE op[p].kind = "migrate" -> Advance(p, "persist")
    [] op[p].kind = "delete" -> Advance(p, "remove.row")
    [] op[p].kind = "external" -> Done(p)
DownTarget(p) ==
  /\ At(p, "down")
  /\ NeedsFile(op[p].row) => folders[op[p].id] # None
  /\ deployed' = [deployed EXCEPT ![Project(op[p].row.type, op[p].to, op[p].row.name)] = None]
  /\ doomed' = IF TakesDown(op[p]) THEN doomed \cup {op[p].id} ELSE doomed
  /\ AfterDown(p)
  /\ UNCHANGED <<disk, logins, mutex, overlaps, astray, ops, bounds>>
Down(p) ==
  /\ At(p, "down")
  /\ NeedsFile(op[p].row) => folders[op[p].id] # None
  /\ deployed' = [deployed EXCEPT
       ![Project(op[p].row.type, op[p].row.engine, op[p].row.name)] = None]
  /\ doomed' = IF TakesDown(op[p]) THEN doomed \cup {op[p].id} ELSE doomed
  /\ AfterDown(p)
  /\ UNCHANGED <<disk, logins, mutex, overlaps, astray, ops, bounds>>

RemoveRow(p) ==
  /\ At(p, "remove.row")
  /\ stacks' = [stacks EXCEPT ![op[p].id] = None]
  /\ Advance(p, "remove.folder")
  /\ UNCHANGED <<seq, folders, deployed, logins, mutex, history, ops, bounds>>

RemoveFolder(p) ==
  /\ At(p, "remove.folder")
  /\ folders' = [folders EXCEPT ![op[p].id] = None]
  /\ Done(p)
  /\ UNCHANGED <<stacks, seq, deployed, logins, mutex, history, ops, bounds>>

(* CreateStack also sets the sequence; UpdateStack puts the row that was   *)
(* read, with the endpoint it was migrated to but not the name.            *)
PersistStays(p) ==
  /\ At(p, "persist")
  /\ stacks' = [stacks EXCEPT ![op[p].id] = op[p].row]
  /\ seq' = IF op[p].kind = "create" THEN op[p].id ELSE seq
  /\ Done(p)
  /\ UNCHANGED <<folders, deployed, logins, mutex, history, ops, bounds>>
Persist(p) ==
  /\ At(p, "persist")
  /\ stacks' = [stacks EXCEPT ![op[p].id] = [op[p].row EXCEPT !.engine = op[p].to]]
  /\ seq' = IF op[p].kind = "create" THEN op[p].id ELSE seq
  /\ Done(p)
  /\ UNCHANGED <<folders, deployed, logins, mutex, history, ops, bounds>>

(* A creation that fails once its file is stored removes the folder.       *)
Cleanup(p) ==
  /\ At(p, "cleanup")
  /\ folders' = [folders EXCEPT ![op[p].id] = None]
  /\ Done(p)
  /\ UNCHANGED <<stacks, seq, deployed, logins, mutex, history, ops, bounds>>

-----------------------------------------------------------------------------
(* How a request fails: the mutex, if held, is released on the way out.    *)
(* A creation that could not store its file leaves the folder, unless it   *)
(* cloned a repository into it.                                            *)
CleansUpUpdates(o, cloned) ==
  o.kind \in {"create", "update"} /\ (o.pc = "store" => cloned)
CleansUp(o, cloned) == o.kind = "create" /\ (o.pc = "store" => cloned)
FailHolding(p) ==
  \E cloned \in BOOLEAN :
    /\ IF CleansUp(op[p], cloned) THEN Advance(p, "cleanup") ELSE Done(p)
    /\ UNCHANGED mutex
Fail(p) ==
  \E cloned \in BOOLEAN :
    /\ IF CleansUp(op[p], cloned) THEN Advance(p, "cleanup") ELSE Done(p)
    /\ mutex' = IF mutex = p THEN None ELSE mutex

(* The file is gone: the deployment or the removal cannot read it.         *)
FileMissing(p) ==
  /\ At(p, "up") \/ (At(p, "down") /\ NeedsFile(op[p].row))
  /\ folders[op[p].id] = None
  /\ Fail(p)
  /\ UNCHANGED <<disk, deployed, logins, history, ops, bounds>>

(* The disk, the database or the engine fails; a deployment that fails may *)
(* have deployed.                                                          *)
FaultPoints == {"store", "lock", "up", "logout", "down", "persist",
                "remove.row", "remove.folder"}
IOError(p) ==
  /\ op[p].pc \in FaultPoints
  /\ restarts + faults < MaxFailures /\ faults' = faults + 1
  /\ Fail(p)
  /\ \/ At(p, "up") /\ folders[op[p].id] # None /\ Deploy(p)
     \/ UNCHANGED deployed
  /\ UNCHANGED <<disk, logins, history, ops, restarts>>

\* The failure of a clean-up is only logged; it belongs to the failure before.
CleanupError(p) ==
  /\ At(p, "cleanup")
  /\ Done(p)
  /\ UNCHANGED <<disk, deployed, logins, mutex, history, ops, bounds>>

Restart ==
  /\ restarts + faults < MaxFailures /\ restarts' = restarts + 1
  /\ op' = [p \in Procs |-> Idle] /\ mutex' = None
  /\ UNCHANGED <<disk, deployed, logins, history, ops, faults>>

Request(p) ==
  CreateBegin(p) \/ UpdateBegin(p) \/ MigrateBegin(p) \/ DeleteBegin(p) \/ ExternalBegin(p)

Continue(p) ==
  \/ Identify(p) \/ Store(p) \/ Lock(p) \/ Login(p) \/ Up(p) \/ Logout(p)
  \/ Down(p) \/ RemoveRow(p) \/ RemoveFolder(p) \/ Persist(p)
  \/ Cleanup(p) \/ FileMissing(p)

Next ==
  \/ Restart
  \/ \E p \in Procs : Request(p) \/ Continue(p) \/ IOError(p) \/ CleanupError(p)

Spec == Init /\ [][Next]_vars

(* What a handler began it goes on with, and the mutex is handed on.       *)
FairSpec == Spec /\ \A p \in Procs : WF_vars(Continue(p))

-----------------------------------------------------------------------------
(* Every variable has its type; only deployments hold the mutex.           *)
Points == {"idle", "identify", "login", "cleanup"} \cup FaultPoints
Op == [pc : Points, kind : {"", "create", "update", "migrate", "delete", "external"},
       id : IDs \cup {0}, row : Stack \cup {None}, to : Engines \cup {None},
       name : Names \cup {None}, file : Contents \cup {None},
       logged : SUBSET (Registries \cup {Hub})]
TypeOK ==
  /\ stacks \in [IDs -> Stack \cup {None}] /\ seq \in 0..MaxID
  /\ folders \in [IDs -> Contents \cup {None}]
  /\ deployed \in [Projects -> Contents \cup {None}]
  /\ logins \subseteq Registries \cup {Hub}
  /\ mutex \in Procs \cup {None}
  /\ op \in [Procs -> Op]
  /\ \A p \in Procs : mutex = p <=> op[p].pc \in {"login", "up", "logout"}
  /\ overlaps \in 0..MaxOverlaps /\ doomed \subseteq IDs /\ astray \subseteq Names
  /\ ops \in 0..MaxOps /\ restarts \in Nat /\ faults \in Nat
  /\ restarts + faults <= MaxFailures

Undisturbed == overlaps = 0 /\ restarts = 0 /\ faults = 0

(* Whatever fails or crashes: a stack that is stored has its file, without *)
(* which a compose stack can neither be removed nor migrated.              *)
StackHasFile == overlaps = 0 => \A id \in Rows : folders[id] # None

(* Without failures: the folders on disk are those of the stacks stored,   *)
(* and what the engines run is exactly these stacks, with their latest     *)
(* file; but nothing is said of a name whose stack a request led astray,   *)
(* by naming another endpoint than the stack's, or that one as the target. *)
DeploymentsMatch ==
  Quiet /\ Undisturbed =>
    /\ \A id \in IDs : folders[id] # None => id \in Rows
    /\ {<<x, deployed[x]>> : x \in {y \in Projects : deployed[y] # None /\ NameOf(y) \notin astray}}
         = {<<Project(stacks[id].type, stacks[id].engine, stacks[id].name), folders[id]>> :
              id \in {i \in Rows : stacks[i].name \notin astray}}

(* Whatever fails or crashes: a stack that no deletion, and no migration   *)
(* to the endpoint it was said to be on, has taken down runs somewhere; a  *)
(* migration that breaks off leaves it at one end or at both.              *)
RunsSomewhere ==
  overlaps = 0 => \A id \in Rows \ doomed : \E engine \in Engines :
    deployed[Project(stacks[id].type, engine, stacks[id].name)] # None

(* Whatever fails or crashes, a stack that is stored is whole: its row is  *)
(* well-formed, its file is on disk, and it runs somewhere.                *)
StacksSound == TypeOK /\ StackHasFile /\ RunsSomewhere

(* However requests overlap: no other request ends the logins of a         *)
(* deployment before it has pulled its images.                             *)
DeployKeepsLogin == \A p \in Procs : At(p, "up") => op[p].logged \subseteq logins

(* A request that began ends, whatever fails: none waits for a mutex that  *)
(* nobody gives back.                                                      *)
RequestsEnd == \A p \in Procs : ~At(p, "idle") ~> At(p, "idle")
=============================================================================
