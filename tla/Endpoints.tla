------------------------------ MODULE Endpoints ------------------------------
(* The endpoints bucket and everything that reads a whole endpoint, works  *)
(* for a while and writes the whole endpoint back: the endpoint handlers,  *)
(* the group handlers, the snapshot job, the synchronisation job; and the  *)
(* reverse proxies the server keeps per endpoint.  A database call is one  *)
(* transaction and one step; what happens between two calls is not.        *)
EXTENDS Naturals, FiniteSets

CONSTANTS
  Foreground,   \* the requests the server handles at once
  Background,   \* the background jobs (snapshot, synchronisation) that run
  Names,        \* endpoint names
  URLs,         \* addresses: a URL and its TLS configuration
  Reachable,    \* the addresses at which a Docker engine answers
  Users,        \* users an endpoint can be opened to
  Modes,        \* is --external-endpoints given? (the values considered)
  None,         \* no endpoint, proxy, snapshot or extension
  MaxID,        \* bound: endpoint identifiers
  MaxGroup,     \* bound: endpoint group identifiers
  MaxOps,       \* bound: administrator requests and changes of the file
  MaxRestarts,  \* bound: restarts of the server
  MaxFaults     \* bound: database operations that fail

ASSUME ReachableAssumption == Reachable \subseteq URLs
ASSUME ModesAssumption == Modes \subseteq BOOLEAN
ASSUME BoundsAssumption ==
  /\ MaxID \in Nat /\ MaxGroup \in Nat \ {0}
  /\ MaxOps \in Nat /\ MaxRestarts \in Nat /\ MaxFaults \in Nat

Procs == Foreground \cup Background
IDs == 1..MaxID
Unassigned == 1     \* the group that exists from the first start
NoGroup == 0        \* the group of an endpoint that a file defines
GroupIDs == Unassigned..MaxGroup
Kinds == {"docker", "extension"}

Endpoint == [name : Names, url : URLs, group : GroupIDs \cup {NoGroup},
             access : SUBSET Users, up : BOOLEAN,
             snap : URLs \cup {None}, ext : URLs \cup {None}]
Bucket == [IDs -> Endpoint \cup {None}]
Files == UNION {[entries -> URLs] : entries \in {E \in SUBSET Names : IsFiniteSet(E)}}

ASSUME NoEndpointAssumption == None \notin Endpoint

VARIABLES
  db,         \* the endpoints bucket
  seq,        \* its sequence
  groups,     \* the endpoint groups bucket (a group has nothing else here)
  groupSeq,   \* its sequence
  proxies,    \* the proxy manager: address of each proxy, per kind and endpoint
  external,   \* the server was started with --external-endpoints
  file,       \* the external endpoint file: name |-> address
  op,         \* what each process is doing, and the copies it holds
  overtaken,  \* (history) snapshot writes whose row another process wrote
  strays,     \* (history) groups that requests named though there were none
  ops, restarts, faults

store == <<db, seq, groups, groupSeq>>
past == <<strays, restarts, faults>>
vars == <<store, proxies, external, file, op, overtaken, ops, past>>

Rows == {id \in IDs : db[id] # None}
Least(ids) == CHOOSE id \in ids : \A other \in ids : id <= other
NoRows == [id \in IDs |-> None]

(* A process: where it is, the endpoint it writes next (id, row), what it  *)
(* listed (list, todo), and what it was asked to do to a group or a proxy. *)
Idle == [pc |-> "idle", id |-> 0, row |-> None, list |-> NoRows, todo |-> {},
         kind |-> "", group |-> NoGroup, members |-> {}, wanted |-> <<>>]

At(p, point) == op[p].pc = point
Become(p, state) == op' = [op EXCEPT ![p] = state]
Holding(point, id, row) == [Idle EXCEPT !.pc = point, !.id = id, !.row = row]
Advance(p, point) == op' = [op EXCEPT ![p].pc = point]
Done(p) == Become(p, Idle)
Asked == ops < MaxOps /\ ops' = ops + 1
Unasked == UNCHANGED ops

(* Nobody looks up the group of an endpoint that a request names.          *)
Naming(group) == strays' = strays \cup ({group} \ groups)

(* Each write marks the snapshot writes it overtakes.                      *)
Overtakes(p, ids) ==
  overtaken' = overtaken \cup {q \in Procs \ {p} : At(q, "snap.write") /\ op[q].id \in ids}

-----------------------------------------------------------------------------
(* The bucket.  UpdateEndpoint puts: it creates a row that is gone.        *)

NextIdentifier == seq + 1
CreateEndpointOffByOne(id, row) == db' = [db EXCEPT ![id] = row] /\ seq' = id + 1
CreateEndpointKeeps(id, row) == db' = [db EXCEPT ![id] = row] /\ UNCHANGED seq
CreateEndpoint(id, row) == db' = [db EXCEPT ![id] = row] /\ seq' = id
UpdateEndpoint(id, row) == db' = [db EXCEPT ![id] = row] /\ UNCHANGED seq
DeleteEndpoint(id) == db' = [db EXCEPT ![id] = None] /\ UNCHANGED seq

(* What a snapshot of an address, taken some time ago, makes of a row.     *)
SnapshotNeverUp(row, url) ==
  [row EXCEPT !.up = @ /\ url \in Reachable,
              !.snap = IF url \in Reachable THEN url ELSE @]
Snapshotted(row, url) ==
  [row EXCEPT !.up = url \in Reachable,
              !.snap = IF url \in Reachable THEN url ELSE @]

-----------------------------------------------------------------------------
Init ==
  /\ db = NoRows /\ seq = 0
  /\ groups = {Unassigned} /\ groupSeq = Unassigned
  /\ proxies = [k \in Kinds |-> NoRows]
  /\ external \in Modes
  /\ file = <<>>
  /\ op = [p \in Procs |-> Idle]
  /\ overtaken = {} /\ strays = {}
  /\ ops = 0 /\ restarts = 0 /\ faults = 0

(* POST /endpoints: the identifier is read first, then a snapshot is taken *)
(* and the endpoint stored.                                                *)
CreateBegin(p) ==
  /\ At(p, "idle") /\ ~external /\ Asked
  /\ NextIdentifier \in IDs
  /\ \E name \in Names, url \in URLs, group \in GroupIDs :
       /\ Become(p, Holding("create.persist", NextIdentifier,
            [name |-> name, url |-> url, group |-> group, access |-> {},
             up |-> TRUE, snap |-> None, ext |-> None]))
       /\ Naming(group)
  /\ UNCHANGED <<store, proxies, external, file, overtaken, restarts, faults>>

CreatePersist(p) ==
  /\ At(p, "create.persist")
  /\ CreateEndpoint(op[p].id, Snapshotted(op[p].row, op[p].row.url))
  /\ Overtakes(p, {op[p].id})
  /\ Done(p) /\ Unasked
  /\ UNCHANGED <<groups, groupSeq, proxies, external, file, past>>

(* PUT /endpoints/:id: a new address registers a new proxy before the      *)
(* endpoint is stored; other fields are only stored.                       *)
UpdateBegin(p) ==
  /\ At(p, "idle") /\ ~external /\ Asked
  /\ \E id \in Rows :
       \/ \E url \in URLs :
            /\ Become(p, Holding("update.proxy", id, [db[id] EXCEPT !.url = url]))
            /\ UNCHANGED strays
       \/ \E group \in GroupIDs \cup {NoGroup} :
            /\ Become(p, Holding("persist", id, [db[id] EXCEPT !.group = group]))
            /\ Naming(group)
       \/ \E up \in BOOLEAN :
            /\ Become(p, Holding("persist", id, [db[id] EXCEPT !.up = up]))
            /\ UNCHANGED strays
  /\ UNCHANGED <<store, proxies, external, file, overtaken, restarts, faults>>

UpdateProxyLate(p) ==
  /\ At(p, "update.proxy")
  /\ proxies' = [proxies EXCEPT !["docker"][op[p].id] = db[op[p].id].url]
  /\ Advance(p, "persist") /\ Unasked
  /\ UNCHANGED <<store, external, file, overtaken, past>>

UpdateProxy(p) ==
  /\ At(p, "update.proxy")
  /\ proxies' = [proxies EXCEPT !["docker"][op[p].id] = op[p].row.url]
  /\ Advance(p, "persist") /\ Unasked
  /\ UNCHANGED <<store, external, file, overtaken, past>>

(* PUT /endpoints/:id/access.                                              *)
UpdateAccess(p) ==
  /\ At(p, "idle") /\ ~external /\ Asked
  /\ \E id \in Rows, access \in SUBSET Users :
       Become(p, Holding("persist", id, [db[id] EXCEPT !.access = access]))
  /\ UNCHANGED <<store, proxies, external, file, overtaken, past>>

(* POST and DELETE /endpoints/:id/extensions: the address of an extension  *)
(* that exists is set on a copy and lost; what is stored does not change.  *)
ExtensionAdd(p) ==
  /\ At(p, "idle") /\ Asked
  /\ \E id \in Rows, url \in URLs :
       Become(p, Holding("persist", id,
         [db[id] EXCEPT !.ext = IF @ = None THEN url ELSE @]))
  /\ UNCHANGED <<store, proxies, external, file, overtaken, past>>

ExtensionRemove(p) ==
  /\ At(p, "idle") /\ Asked
  /\ \E id \in Rows : Become(p, Holding("persist", id, [db[id] EXCEPT !.ext = None]))
  /\ UNCHANGED <<store, proxies, external, file, overtaken, past>>

(* The UpdateEndpoint that ends these handlers.                            *)
Persist(p) ==
  /\ At(p, "persist")
  /\ UpdateEndpoint(op[p].id, op[p].row)
  /\ Overtakes(p, {op[p].id})
  /\ Done(p) /\ Unasked
  /\ UNCHANGED <<groups, groupSeq, proxies, external, file, past>>

(* DELETE /endpoints/:id: the row, then both proxies.                      *)
DeleteBegin(p) ==
  /\ At(p, "idle") /\ ~external /\ Asked
  /\ \E id \in Rows : Become(p, Holding("delete", id, None))
  /\ UNCHANGED <<store, proxies, external, file, overtaken, past>>

Delete(p) ==
  /\ At(p, "delete")
  /\ DeleteEndpoint(op[p].id)
  /\ Overtakes(p, {op[p].id})
  /\ Advance(p, "delete.proxies") /\ Unasked
  /\ UNCHANGED <<groups, groupSeq, proxies, external, file, past>>

DeleteProxies(p) ==
  /\ At(p, "delete.proxies")
  /\ proxies' = [k \in Kinds |-> [proxies[k] EXCEPT ![op[p].id] = None]]
  /\ Done(p) /\ Unasked
  /\ UNCHANGED <<store, external, file, overtaken, past>>

-----------------------------------------------------------------------------
(* The group handlers write the group first, then list all endpoints and   *)
(* write back, one by one, the listed copy of each whose group changes.    *)

GroupRequest(point, kind, group, members) ==
  [Idle EXCEPT !.pc = point, !.kind = kind, !.group = group, !.members = members]

GroupCreate(p) ==
  /\ At(p, "idle") /\ Asked
  /\ groupSeq + 1 \in GroupIDs
  /\ groupSeq' = groupSeq + 1
  /\ groups' = groups \cup {groupSeq + 1}
  /\ \E members \in SUBSET Rows :
       Become(p, GroupRequest("group.list", "create", groupSeq + 1, members))
  /\ UNCHANGED <<db, seq, proxies, external, file, overtaken, past>>

GroupUpdateBegin(p) ==
  /\ At(p, "idle") /\ Asked
  /\ \E group \in groups, members \in SUBSET Rows :
       Become(p, GroupRequest("group.put", "update", group, members))
  /\ UNCHANGED <<store, proxies, external, file, overtaken, past>>

GroupPut(p) ==
  /\ At(p, "group.put")
  /\ groups' = groups \cup {op[p].group}
  /\ Advance(p, "group.list") /\ Unasked
  /\ UNCHANGED <<db, seq, groupSeq, proxies, external, file, overtaken, past>>

GroupDeleteBegin(p) ==
  /\ At(p, "idle") /\ Asked
  /\ \E group \in groups \ {Unassigned} :
       Become(p, GroupRequest("group.delete", "delete", group, {}))
  /\ UNCHANGED <<store, proxies, external, file, overtaken, past>>

GroupDelete(p) ==
  /\ At(p, "group.delete")
  /\ groups' = groups \ {op[p].group}
  /\ Advance(p, "group.list") /\ Unasked
  /\ UNCHANGED <<db, seq, groupSeq, proxies, external, file, overtaken, past>>

GroupList(p) ==
  /\ At(p, "group.list")
  /\ Become(p, [op[p] EXCEPT !.pc = "group.walk", !.list = db, !.todo = Rows])
  /\ Unasked
  /\ UNCHANGED <<store, proxies, external, file, overtaken, past>>

(* Which listed endpoints a handler moves into its group, and out of it.   *)
Joins(o, id) ==
  /\ o.kind # "delete" /\ o.group # Unassigned
  /\ o.list[id].group = Unassigned /\ id \in o.members
LeavesOnUpdate(o, id) ==
  o.list[id].group = o.group /\ o.kind = "update" /\ id \notin o.members
Leaves(o, id) ==
  /\ o.list[id].group = o.group
  /\ o.kind = "delete" \/ (o.kind = "update" /\ id \notin o.members)

Walked(p, id) == Become(p, [op[p] EXCEPT !.todo = @ \ {id}])
Regroup(p, id, group) ==
  /\ UpdateEndpoint(id, [op[p].list[id] EXCEPT !.group = group])
  /\ Overtakes(p, {id})

GroupWalk(p) ==
  /\ At(p, "group.walk") /\ op[p].todo # {}
  /\ LET id == Least(op[p].todo) IN
       /\ Walked(p, id)
       /\ \/ Joins(op[p], id) /\ Regroup(p, id, op[p].group)
          \/ Leaves(op[p], id) /\ Regroup(p, id, Unassigned)
          \/ /\ ~Joins(op[p], id) /\ ~Leaves(op[p], id)
             /\ UNCHANGED <<db, seq, overtaken>>
  /\ Unasked
  /\ UNCHANGED <<groups, groupSeq, proxies, external, file, past>>

GroupDone(p) ==
  /\ At(p, "group.walk") /\ op[p].todo = {}
  /\ Done(p) /\ Unasked
  /\ UNCHANGED <<store, proxies, external, file, overtaken, past>>

-----------------------------------------------------------------------------
(* Snapshots: the job and two handlers list endpoints, take a snapshot of  *)
(* each at the listed address, read the endpoint again and write it back.  *)

SnapshotBegin(p, ids) ==
  /\ At(p, "idle") /\ ids \subseteq Rows
  /\ Become(p, [Idle EXCEPT !.pc = "snap.read", !.list = db, !.todo = ids])
  /\ Unasked
  /\ UNCHANGED <<store, proxies, external, file, overtaken, past>>

SnapshotReadNever(p) ==
  /\ At(p, "snap.read") /\ op[p].todo # {}
  /\ LET id == Least(op[p].todo)
         listed == op[p].list[id]
     IN  Become(p, [op[p] EXCEPT !.pc = "snap.write", !.id = id,
                       !.row = Snapshotted(listed, listed.url)])
  /\ overtaken' = overtaken \ {p}
  /\ Unasked
  /\ UNCHANGED <<store, proxies, external, file, past>>

SnapshotRead(p) ==
  /\ At(p, "snap.read") /\ op[p].todo # {}
  /\ LET id == Least(op[p].todo) IN
       \/ /\ id \in Rows
          /\ Become(p, [op[p] EXCEPT !.pc = "snap.write", !.id = id,
                          !.row = Snapshotted(db[id], op[p].list[id].url)])
       \/ /\ id \notin Rows
          /\ Walked(p, id)
  /\ overtaken' = overtaken \ {p}
  /\ Unasked
  /\ UNCHANGED <<store, proxies, external, file, past>>

SnapshotWrite(p) ==
  /\ At(p, "snap.write")
  /\ UpdateEndpoint(op[p].id, op[p].row)
  /\ Overtakes(p, {op[p].id})
  /\ Become(p, [op[p] EXCEPT !.pc = "snap.read", !.todo = @ \ {op[p].id},
                  !.id = 0, !.row = None])
  /\ Unasked
  /\ UNCHANGED <<groups, groupSeq, proxies, external, file, past>>

SnapshotDone(p) ==
  /\ At(p, "snap.read") /\ op[p].todo = {}
  /\ Done(p) /\ Unasked
  /\ UNCHANGED <<store, proxies, external, file, overtaken, past>>

-----------------------------------------------------------------------------
(* The synchronisation job reads the file and the endpoints, and applies   *)
(* the difference in one transaction.  An empty file changes nothing.      *)

FileChange ==
  /\ external /\ Asked
  /\ file' \in Files \ {file}
  /\ UNCHANGED <<store, proxies, external, op, overtaken, past>>

Listed(list) == {id \in IDs : list[id] # None}
Missing(list, wanted) == DOMAIN wanted \ {list[id].name : id \in Listed(list)}
SyncBegin(p) ==
  /\ At(p, "idle") /\ external /\ file # <<>>
  /\ seq + Cardinality(Missing(db, file)) <= MaxID
  /\ Become(p, [Idle EXCEPT !.pc = "sync", !.list = db, !.wanted = file])
  /\ Unasked
  /\ UNCHANGED <<store, proxies, external, file, overtaken, past>>

Created(name, url) ==
  [name |-> name, url |-> url, group |-> NoGroup, access |-> {},
   up |-> TRUE, snap |-> None, ext |-> None]
MergedNeverDeletes(row, wanted) ==
  IF row.name \in DOMAIN wanted THEN [row EXCEPT !.url = wanted[row.name]] ELSE row
Merged(row, wanted) ==
  IF row.name \in DOMAIN wanted THEN [row EXCEPT !.url = wanted[row.name]] ELSE None

(* Rows that need no change are not written: they keep what the bucket has *)
(* now, whatever was listed.                                               *)
Synchronize(list, wanted, names) ==
  LET changed == {id \in Listed(list) : Merged(list[id], wanted) # list[id]} IN
  db' = [id \in IDs |->
           IF id \in changed THEN Merged(list[id], wanted)
           ELSE IF id \in DOMAIN names THEN Created(names[id], wanted[names[id]])
           ELSE db[id]]

Sync(p) ==
  LET list == op[p].list  wanted == op[p].wanted
      missing == Missing(list, wanted)
      new == NextIdentifier..(seq + Cardinality(missing))
  IN
  /\ At(p, "sync") /\ new \subseteq IDs
  /\ \E names \in [new -> missing] :
       /\ {names[id] : id \in new} = missing
       /\ Synchronize(list, wanted, names)
  /\ seq' = seq + Cardinality(missing)
  /\ Overtakes(p, {id \in IDs : db'[id] # db[id]})
  /\ Done(p) /\ Unasked
  /\ UNCHANGED <<groups, groupSeq, proxies, external, file, past>>

-----------------------------------------------------------------------------
(* A proxied request reads the endpoint, then looks for its proxy, and if  *)
(* there is none registers one for the address it read.                    *)

Target(kind, row) == IF kind = "docker" THEN row.url ELSE row.ext

ProxyBegin(p) ==
  /\ At(p, "idle")
  /\ \E id \in Rows, kind \in Kinds :
       /\ kind = "docker" => db[id].up
       /\ Target(kind, db[id]) # None
       /\ Become(p, [Holding("proxy.get", id, db[id]) EXCEPT !.kind = kind])
  /\ Unasked
  /\ UNCHANGED <<store, proxies, external, file, overtaken, past>>

ProxyGet(p) ==
  /\ At(p, "proxy.get")
  /\ IF proxies[op[p].kind][op[p].id] # None
       THEN Done(p)
       ELSE Advance(p, "proxy.create")
  /\ Unasked
  /\ UNCHANGED <<store, proxies, external, file, overtaken, past>>

ProxyCreate(p) ==
  /\ At(p, "proxy.create")
  /\ proxies' = [proxies EXCEPT ![op[p].kind][op[p].id] = Target(op[p].kind, op[p].row)]
  /\ Done(p) /\ Unasked
  /\ UNCHANGED <<store, external, file, overtaken, past>>

-----------------------------------------------------------------------------
IOPoints == {"create.persist", "persist", "delete", "group.put", "group.delete",
             "group.list", "group.walk", "snap.write", "sync"}
IOError(p) ==
  /\ op[p].pc \in IOPoints
  /\ faults < MaxFaults /\ faults' = faults + 1
  /\ Done(p) /\ Unasked
  /\ UNCHANGED <<store, proxies, external, file, overtaken, strays, restarts>>

(* The server stops and starts again, with or without the file.            *)
Restart ==
  /\ restarts < MaxRestarts /\ restarts' = restarts + 1
  /\ op' = [p \in Procs |-> Idle]
  /\ overtaken' = {}
  /\ proxies' = [k \in Kinds |-> NoRows]
  /\ external' \in Modes
  /\ Unasked
  /\ UNCHANGED <<store, file, strays, faults>>

Request(p) ==
  \/ CreateBegin(p) \/ UpdateBegin(p) \/ UpdateAccess(p) \/ ExtensionAdd(p)
  \/ ExtensionRemove(p) \/ DeleteBegin(p) \/ ProxyBegin(p)
  \/ GroupCreate(p) \/ GroupUpdateBegin(p) \/ GroupDeleteBegin(p)
  \/ \E id \in Rows : SnapshotBegin(p, {id})

(* Every step of a request or a job after its first.                       *)
Continue(p) ==
  \/ CreatePersist(p) \/ UpdateProxy(p) \/ Persist(p) \/ Delete(p) \/ DeleteProxies(p)
  \/ GroupPut(p) \/ GroupDelete(p) \/ GroupList(p) \/ GroupWalk(p) \/ GroupDone(p)
  \/ SnapshotRead(p) \/ SnapshotWrite(p) \/ SnapshotDone(p) \/ Sync(p)
  \/ ProxyGet(p) \/ ProxyCreate(p)

Next ==
  \/ FileChange \/ Restart
  \/ \E p \in Foreground : Request(p) \/ SnapshotBegin(p, Rows)
  \/ \E p \in Background : SnapshotBegin(p, Rows) \/ SyncBegin(p)
  \/ \E p \in Procs : Continue(p) \/ IOError(p)

Spec == Init /\ [][Next]_vars

(* What a handler or a job began it goes on with, and the snapshot job is  *)
(* started at every tick of its schedule.                                  *)
Fairness ==
  /\ \A p \in Procs : WF_vars(Continue(p))
  /\ \A p \in Background : WF_vars(SnapshotBegin(p, Rows))
FairSpec == Spec /\ Fairness

-----------------------------------------------------------------------------
(* Every variable has its type; a copy that is held is an endpoint.        *)
Points == {"create.persist", "update.proxy", "persist", "delete", "delete.proxies",
           "group.put", "group.delete", "group.list", "group.walk", "snap.read",
           "snap.write", "sync", "proxy.get", "proxy.create"}
Op == [pc : Points \cup {"idle"}, id : IDs \cup {0}, row : Endpoint \cup {None},
       list : Bucket, todo : SUBSET IDs, kind : Kinds \cup {"", "create", "update", "delete"},
       group : GroupIDs \cup {NoGroup}, members : SUBSET IDs, wanted : Files]
Writing == {"create.persist", "update.proxy", "persist", "snap.write", "proxy.get", "proxy.create"}
OpOK(p) ==
  /\ op[p] \in Op
  /\ op[p].todo \subseteq Listed(op[p].list)
  /\ op[p].pc \in Writing => op[p].id \in IDs /\ op[p].row \in Endpoint
  /\ op[p].pc \in {"delete", "delete.proxies"} => op[p].id \in IDs
  /\ op[p].pc = "group.put" => op[p].group \in GroupIDs
TypeOK ==
  /\ db \in Bucket /\ seq \in 0..MaxID
  /\ groups \subseteq GroupIDs /\ groupSeq \in GroupIDs
  /\ proxies \in [Kinds -> [IDs -> URLs \cup {None}]]
  /\ external \in BOOLEAN /\ file \in Files
  /\ DOMAIN op = Procs /\ \A p \in Procs : OpOK(p)
  /\ overtaken \subseteq Procs /\ strays \subseteq GroupIDs \cup {NoGroup}
  /\ ops \in 0..MaxOps /\ restarts \in 0..MaxRestarts /\ faults \in 0..MaxFaults

Quiet == \A p \in Procs : op[p] = Idle

(* One operation at a time, no failing one, endpoints managed here: a      *)
(* request is always forwarded to the address the endpoint has now, and no *)
(* proxy outlives its endpoint.  (Update registers the new proxy itself,   *)
(* delete drops both, a restart forgets them all.)                         *)
ProxyIsCurrent ==
  Quiet /\ faults = 0 /\ ~external => \A id \in IDs :
    /\ proxies["docker"][id] # None => id \in Rows /\ proxies["docker"][id] = db[id].url
    /\ proxies["extension"][id] # None => id \in Rows

(* One operation at a time, no crash and no failure: every endpoint is in  *)
(* a group that exists, whatever groups were deleted, unless a request has *)
(* named one that was not there.  (EndpointAccess refuses everyone but     *)
(* administrators otherwise.)                                              *)
GroupsExist ==
  /\ Unassigned \in groups
  /\ Quiet /\ faults = 0 /\ restarts = 0 => \A id \in Rows :
       db[id].group \in groups \cup strays \/ (external /\ db[id].group = NoGroup)

(* One operation at a time: a synchronisation leaves exactly what the file *)
(* defines, and endpoints it keeps keep their identifier, access, group    *)
(* and snapshot.                                                           *)
MatchesFile(wanted) ==
  /\ {<<db'[id].name, db'[id].url>> : id \in {x \in IDs : db'[x] # None}}
       = {<<name, wanted[name]>> : name \in DOMAIN wanted}
  /\ \A id \in Rows : db[id].name \in DOMAIN wanted =>
       db'[id] = [db[id] EXCEPT !.url = wanted[db[id].name]]
SyncMatchesFile ==
  [][\A p \in Procs : Sync(p) => MatchesFile(op[p].wanted)]_vars

(* One operation at a time: the identifier a creation holds is the next    *)
(* one and names no endpoint, also when handlers and synchronisations      *)
(* create by turns.                                                        *)
PendingIdIsFree ==
  \A p \in Procs : At(p, "create.persist") =>
    db[op[p].id] = None /\ op[p].id = NextIdentifier

(* One operation at a time: endpoints are well-formed, in groups that      *)
(* exist (or that a request made up), and no creation is about to          *)
(* overwrite one.                                                          *)
EndpointsSound == TypeOK /\ GroupsExist /\ PendingIdIsFree

(* Any overlap: a snapshot changes nothing but the status and the snapshot *)
(* of an endpoint, and revives none, unless another write came between its *)
(* second read and its write: nothing done while it was taken is lost.     *)
OnlySnapshotChanges(id) ==
  /\ db[id] # None
  /\ db'[id] = [db[id] EXCEPT !.up = db'[id].up, !.snap = db'[id].snap]
SnapshotKeepsEarlierChanges ==
  [][\A p \in Procs \ overtaken :
       SnapshotWrite(p) => OnlySnapshotChanges(op[p].id)]_vars

(* Any overlap, endpoints managed here: once administrators leave them     *)
(* alone, the status of each endpoint becomes and stays that of its        *)
(* address, and its snapshot is one of that address.                       *)
SnapshotsConverge ==
  <>[](~external => \A id \in Rows :
         /\ db[id].up = (db[id].url \in Reachable)
         /\ db[id].up => db[id].snap = db[id].url)

=============================================================================
