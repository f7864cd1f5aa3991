-------------------------- MODULE EndpointsProofs --------------------------
(***************************************************************************)
(* Proofs about Endpoints, for any names, addresses, users and bounds:     *)
(* with any number of requests and jobs, type correctness and what a       *)
(* snapshot may change; with one operation at a time, that endpoints stay  *)
(* well-formed, proxies current and a synchronisation equal to its file.   *)
(***************************************************************************)
EXTENDS Endpoints, TLAPS, FiniteSetTheorems, WellFoundedInduction

(* A snapshot about to be written that nothing overtook holds the row of   *)
(* its endpoint, but for the status and the snapshot.                      *)
OnlySnapshotDiffers(old, new) ==
  old # None /\ new = [old EXCEPT !.up = new.up, !.snap = new.snap]
Fresh(p) ==
  At(p, "snap.write") => OnlySnapshotDiffers(db[op[p].id], op[p].row)
Inv == TypeOK /\ \A p \in Procs \ overtaken : Fresh(p)

(* What the only process p knows of the bucket.                            *)
Touching == {"update.proxy", "persist", "delete", "snap.write", "proxy.get", "proxy.create"}
Numbered == \A id \in Rows : id <= seq
Knows(p) ==
  /\ At(p, "create.persist") => op[p].id = seq + 1
  /\ op[p].pc \in Touching => op[p].id \in Rows
  /\ op[p].pc \in {"group.walk", "snap.read", "snap.write"} =>
       \A id \in op[p].todo : op[p].list[id] = db[id]
  /\ At(p, "sync") => external /\ op[p].list = db
SoloInv(p) == Numbered /\ Knows(p)

(* Groups that exist or that a request has made up, but for the endpoints  *)
(* a deletion has yet to move.                                             *)
GroupKnown(group) == group \in groups \cup strays \/ (external /\ group = NoGroup)
Moving(p, id) ==
  /\ op[p].kind = "delete" /\ db[id].group = op[p].group
  /\ At(p, "group.list") \/ (At(p, "group.walk") /\ id \in op[p].todo)
GroupSteps(p) ==
  /\ Unassigned \in groups
  /\ At(p, "group.delete") => op[p].kind = "delete" /\ op[p].group # Unassigned
  /\ At(p, "group.put") => op[p].kind = "update"
RowsGrouped(p) == \A id \in Rows : GroupKnown(db[id].group) \/ Moving(p, id)
HeldGrouped(p) ==
  /\ op[p].pc \in {"create.persist", "update.proxy", "persist", "snap.write"} =>
       GroupKnown(op[p].row.group)
  /\ op[p].pc \in {"group.list", "group.walk"} /\ op[p].kind # "delete" =>
       op[p].group \in groups
GroupsInv(p) ==
  GroupSteps(p) /\ (restarts = 0 /\ faults = 0 => RowsGrouped(p) /\ HeldGrouped(p))

(* Proxies, but for the one that an update has registered or a deletion    *)
(* has yet to drop.                                                        *)
ProxyOK(p, id) ==
  \/ At(p, "delete.proxies") /\ op[p].id = id
  \/ /\ proxies["docker"][id] # None =>
          /\ id \in Rows
          /\ proxies["docker"][id] =
               IF At(p, "persist") /\ op[p].id = id THEN op[p].row.url ELSE db[id].url
     /\ proxies["extension"][id] # None => id \in Rows
ProxiesInv(p) ==
  faults = 0 /\ ~external =>
    /\ \A id \in IDs : ProxyOK(p, id)
    /\ op[p].pc \in {"snap.write", "proxy.get", "proxy.create"} =>
         op[p].row.url = db[op[p].id].url

-----------------------------------------------------------------------------
(* Types.                                                                  *)
OpFits(o) ==
  /\ o \in Op
  /\ o.todo \subseteq Listed(o.list)
  /\ o.pc \in Writing => o.id \in IDs /\ o.row \in Endpoint
  /\ o.pc \in {"delete", "delete.proxies"} => o.id \in IDs
  /\ o.pc = "group.put" => o.group \in GroupIDs
OpsOK == DOMAIN op = Procs /\ \A p \in Procs : OpFits(op[p])
DataOK ==
  /\ db \in Bucket /\ seq \in 0..MaxID
  /\ groups \subseteq GroupIDs /\ groupSeq \in GroupIDs
  /\ proxies \in [Kinds -> [IDs -> URLs \cup {None}]]
  /\ external \in BOOLEAN /\ file \in Files
  /\ overtaken \subseteq Procs
BoundsOK ==
  /\ strays \subseteq GroupIDs \cup {NoGroup}
  /\ ops \in 0..MaxOps /\ restarts \in 0..MaxRestarts /\ faults \in 0..MaxFaults

LEMMA TypeParts == TypeOK <=> OpsOK /\ DataOK /\ BoundsOK
BY DEF TypeOK, OpsOK, OpFits, OpOK, DataOK, BoundsOK

(* The endpoint Least chooses is one of those it chooses from.             *)
LEMMA LeastIn ==
  ASSUME NEW ids \in SUBSET IDs, ids # {}
  PROVE  Least(ids) \in ids
<1> DEFINE First(id) == \A other \in ids : id <= other
<1>1. ids \subseteq Nat
  BY BoundsAssumption DEF IDs
<1>2. PICK m \in ids : \A y \in ids : <<y, m>> \notin OpToRel(<, Nat)
  BY <1>1, NatLessThanWellFounded, WFMin
<1>3. \A y \in ids : ~(y < m)
  BY <1>1, <1>2 DEF OpToRel
<1>4. First(m)
  BY <1>1, <1>3
<1> HIDE DEF First
<1>5. (CHOOSE id \in ids : First(id)) \in ids
  BY <1>4, Zenon
<1> QED BY <1>5 DEF First, Least

LEMMA NoFile == <<>> \in Files
<1>1. <<>> \in [{} -> URLs]
  OBVIOUS
<1>2. IsFiniteSet({}) /\ {} \in SUBSET Names
  BY FS_EmptySet
<1> QED BY <1>1, <1>2 DEF Files

LEMMA NoRowsType == NoRows \in Bucket /\ Listed(NoRows) = {}
BY DEF NoRows, Bucket, Listed

LEMMA IdleFits ==
  /\ OpFits(Idle)
  /\ Idle.pc = "idle" /\ Idle.kind = "" /\ Idle.todo = {} /\ Idle.list = NoRows
<1>1. /\ Idle.pc = "idle" /\ Idle.kind = "" /\ Idle.todo = {} /\ Idle.list = NoRows
      /\ Idle \in Op
  <2>1. {} \in SUBSET IDs
    OBVIOUS
  <2> QED BY <2>1, NoFile, NoRowsType DEF Idle, Op
<1> QED BY <1>1 DEF OpFits, Writing

LEMMA HoldingFits ==
  ASSUME NEW point, point \in Points \ {"group.put"}, NEW id, id \in IDs, NEW row,
         row \in Endpoint \/ (row = None /\ point \notin Writing)
  PROVE  OpFits(Holding(point, id, row))
<1> DEFINE o == Holding(point, id, row)
<1>1. /\ o.pc = point /\ o.id = id /\ o.row = row /\ o \in Op
      /\ o.todo = {} /\ o.list = NoRows
  BY IdleFits DEF Holding, OpFits, Op
<1> HIDE DEF o
<1>2. OpFits(o)
  BY <1>1 DEF OpFits
<1> QED BY <1>2 DEF o

LEMMA GroupFits ==
  ASSUME NEW point \in Points \ (Writing \cup {"delete", "delete.proxies"}),
         NEW kind \in {"create", "update", "delete"},
         NEW group \in GroupIDs, NEW members \in SUBSET IDs
  PROVE  /\ OpFits(GroupRequest(point, kind, group, members))
         /\ GroupRequest(point, kind, group, members).pc = point
         /\ GroupRequest(point, kind, group, members).kind = kind
         /\ GroupRequest(point, kind, group, members).group = group
<1> DEFINE o == GroupRequest(point, kind, group, members)
<1>1. /\ o.pc = point /\ o.kind = kind /\ o.group = group /\ o \in Op
      /\ o.todo = {} /\ o.list = NoRows
  BY IdleFits DEF GroupRequest, OpFits, Op
<1> HIDE DEF o
<1>2. OpFits(o)
  BY <1>1 DEF OpFits
<1> QED BY <1>1, <1>2 DEF o

(* A move of one process leaves the others where they are.                 *)
Others(p) == \A q \in Procs \ {p} : op'[q] = op[q]

LEMMA BecomeMove ==
  ASSUME OpsOK, NEW p \in Procs, NEW o, Become(p, o)
  PROVE  Others(p) /\ op'[p] = o /\ (OpFits(o) => OpsOK')
<1>1. DOMAIN op' = Procs /\ Others(p) /\ op'[p] = o
  BY DEF OpsOK, Become, Others
<1>2. ASSUME OpFits(o) PROVE OpsOK'
  <2>1. ASSUME NEW q \in Procs PROVE OpFits(op'[q])
    BY <1>1, <1>2 DEF Others, OpsOK
  <2> QED BY <1>1, <2>1 DEF OpsOK, OpFits
<1> QED BY <1>1, <1>2

LEMMA HoldMove ==
  ASSUME OpsOK, NEW p \in Procs, NEW point \in Points \ {"group.put"}, NEW id \in IDs, NEW row,
         row \in Endpoint \/ (row = None /\ point \notin Writing),
         Become(p, Holding(point, id, row))
  PROVE  /\ Others(p) /\ OpsOK'
         /\ op'[p].pc = point /\ op'[p].id = id /\ op'[p].row = row /\ op'[p].kind = ""
<1>1. OpFits(Holding(point, id, row))
  BY HoldingFits, Zenon
<1>2. Others(p) /\ OpsOK' /\ op'[p] = Holding(point, id, row)
  BY <1>1, BecomeMove, Zenon
<1> QED BY <1>2 DEF Holding, Idle

(* What a process keeps when only its place changes.                       *)
SameWork(p) ==
  /\ op'[p].id = op[p].id /\ op'[p].row = op[p].row /\ op'[p].list = op[p].list
  /\ op'[p].todo = op[p].todo /\ op'[p].kind = op[p].kind
  /\ op'[p].group = op[p].group /\ op'[p].wanted = op[p].wanted

LEMMA AdvanceMove ==
  ASSUME OpsOK, NEW p \in Procs, NEW point \in Points, Advance(p, point),
         point \in Writing => op[p].pc \in Writing,
         point \notin {"delete", "group.put"},
         point = "delete.proxies" => At(p, "delete")
  PROVE  Others(p) /\ op'[p].pc = point /\ SameWork(p) /\ OpsOK'
<1> DEFINE o == [op[p] EXCEPT !.pc = point]
<1>1. Become(p, o)
  BY DEF Become, Advance, OpsOK
<1>2. /\ o \in Op /\ o.pc = point
      /\ o.id = op[p].id /\ o.row = op[p].row /\ o.list = op[p].list
      /\ o.todo = op[p].todo /\ o.kind = op[p].kind
      /\ o.group = op[p].group /\ o.wanted = op[p].wanted
  BY DEF OpsOK, OpFits, Op
<1> HIDE DEF o
<1>3. OpFits(op[p])
  BY DEF OpsOK
<1>4. OpFits(o)
  BY <1>2, <1>3 DEF OpFits, At
<1> QED BY <1>1, <1>2, <1>4, BecomeMove DEF SameWork

-----------------------------------------------------------------------------
(* The first step of each request and job.                                 *)
LEMMA RowTypes == \A id \in Rows : id \in IDs /\ db[id] # None /\ (DataOK => db[id] \in Endpoint)
BY DEF Rows, DataOK, Bucket

LEMMA CreateBeginMove ==
  ASSUME OpsOK, DataOK, NEW p \in Procs, CreateBegin(p)
  PROVE  /\ Others(p) /\ OpsOK'
         /\ op'[p].pc = "create.persist" /\ op'[p].id = seq + 1
         /\ op'[p].row.group \in groups \cup strays' /\ op'[p].kind = ""
         /\ strays \subseteq strays'
<1>1. PICK name \in Names, url \in URLs, group \in GroupIDs :
        /\ Become(p, Holding("create.persist", NextIdentifier,
             [name |-> name, url |-> url, group |-> group, access |-> {},
              up |-> TRUE, snap |-> None, ext |-> None]))
        /\ Naming(group)
  BY DEF CreateBegin
<1> DEFINE row == [name |-> name, url |-> url, group |-> group, access |-> {},
                   up |-> TRUE, snap |-> None, ext |-> None]
<1>2. row \in Endpoint /\ row.group \in groups \cup strays' /\ strays \subseteq strays'
  <2>1. {} \in SUBSET Users
    OBVIOUS
  <2>2. group \in groups \cup strays' /\ strays \subseteq strays'
    BY <1>1 DEF Naming
  <2> QED BY <2>1, <2>2 DEF Endpoint
<1> HIDE DEF row
<1>3. NextIdentifier \in IDs /\ NextIdentifier = seq + 1 /\ "create.persist" \in Points
  BY DEF CreateBegin, NextIdentifier, Points
<1>4. Become(p, Holding("create.persist", NextIdentifier, row))
  BY <1>1 DEF row
<1>5. /\ Others(p) /\ OpsOK'
      /\ op'[p].pc = "create.persist" /\ op'[p].id = NextIdentifier
      /\ op'[p].row = row /\ op'[p].kind = ""
  BY <1>2, <1>3, <1>4, HoldMove
<1> QED BY <1>2, <1>3, <1>5

(* Handlers that hold an edited copy of an endpoint, and write it back.    *)
Edit(p) == UpdateBegin(p) \/ UpdateAccess(p) \/ ExtensionAdd(p) \/ ExtensionRemove(p)

LEMMA EditMove ==
  ASSUME OpsOK, DataOK, NEW p \in Procs, Edit(p)
  PROVE  /\ Others(p) /\ OpsOK'
         /\ op'[p].pc \in {"update.proxy", "persist"}
         /\ op'[p].id \in Rows /\ op'[p].kind = ""
         /\ op'[p].row.group \in groups \cup strays' \cup {db[op'[p].id].group}
         /\ strays \subseteq strays'
         /\ At(p, "persist")' => op'[p].row.url = db[op'[p].id].url
<1>1. PICK id \in Rows, row \in Endpoint, point \in {"update.proxy", "persist"} :
        /\ Become(p, Holding(point, id, row))
        /\ row.group \in groups \cup strays' \cup {db[id].group}
        /\ point = "persist" => row.url = db[id].url
  <2>0. \A id \in Rows : db[id] \in Endpoint
    BY RowTypes
  <2>1. CASE UpdateBegin(p)
    <3>1. PICK id \in Rows :
            \/ \E url \in URLs :
                 Become(p, Holding("update.proxy", id, [db[id] EXCEPT !.url = url]))
            \/ \E group \in GroupIDs \cup {NoGroup} :
                 /\ Become(p, Holding("persist", id, [db[id] EXCEPT !.group = group]))
                 /\ Naming(group)
            \/ \E up \in BOOLEAN :
                 Become(p, Holding("persist", id, [db[id] EXCEPT !.up = up]))
      BY <2>1 DEF UpdateBegin
    <3>2. CASE \E url \in URLs :
                 Become(p, Holding("update.proxy", id, [db[id] EXCEPT !.url = url]))
      <4>1. PICK url \in URLs :
              Become(p, Holding("update.proxy", id, [db[id] EXCEPT !.url = url]))
        BY <3>2
      <4>2. /\ [db[id] EXCEPT !.url = url] \in Endpoint
            /\ [db[id] EXCEPT !.url = url].group = db[id].group
        BY <2>0 DEF Endpoint
      <4> QED BY <4>1, <4>2
    <3>3. CASE \E group \in GroupIDs \cup {NoGroup} :
                 /\ Become(p, Holding("persist", id, [db[id] EXCEPT !.group = group]))
                 /\ Naming(group)
      <4>1. PICK group \in GroupIDs \cup {NoGroup} :
              /\ Become(p, Holding("persist", id, [db[id] EXCEPT !.group = group]))
              /\ Naming(group)
        BY <3>3
      <4>3. group \in groups \cup strays'
        BY <4>1 DEF Naming
      <4>2. /\ [db[id] EXCEPT !.group = group] \in Endpoint
            /\ [db[id] EXCEPT !.group = group].group = group
            /\ [db[id] EXCEPT !.group = group].url = db[id].url
        BY <2>0 DEF Endpoint
      <4> QED BY <4>1, <4>2, <4>3
    <3>4. CASE \E up \in BOOLEAN :
                 Become(p, Holding("persist", id, [db[id] EXCEPT !.up = up]))
      <4>1. PICK up \in BOOLEAN :
              Become(p, Holding("persist", id, [db[id] EXCEPT !.up = up]))
        BY <3>4
      <4>2. /\ [db[id] EXCEPT !.up = up] \in Endpoint
            /\ [db[id] EXCEPT !.up = up].group = db[id].group
            /\ [db[id] EXCEPT !.up = up].url = db[id].url
        BY <2>0 DEF Endpoint
      <4> QED BY <4>1, <4>2
    <3> QED BY <3>1, <3>2, <3>3, <3>4
  <2>2. CASE UpdateAccess(p)
    <3>1. PICK id \in Rows, access \in SUBSET Users :
            Become(p, Holding("persist", id, [db[id] EXCEPT !.access = access]))
      BY <2>2 DEF UpdateAccess
    <3>2. /\ [db[id] EXCEPT !.access = access] \in Endpoint
          /\ [db[id] EXCEPT !.access = access].group = db[id].group
          /\ [db[id] EXCEPT !.access = access].url = db[id].url
      BY <2>0 DEF Endpoint
    <3> QED BY <3>1, <3>2
  <2>3. CASE ExtensionAdd(p) \/ ExtensionRemove(p)
    <3>1. PICK id \in Rows, ext \in URLs \cup {None} :
            Become(p, Holding("persist", id, [db[id] EXCEPT !.ext = ext]))
      <4>1. CASE ExtensionAdd(p)
        <5>1. PICK id \in Rows, url \in URLs :
                Become(p, Holding("persist", id,
                  [db[id] EXCEPT !.ext = IF @ = None THEN url ELSE @]))
          BY <4>1 DEF ExtensionAdd
        <5>2. (IF db[id].ext = None THEN url ELSE db[id].ext) \in URLs \cup {None}
          BY <2>0 DEF Endpoint
        <5> QED BY <5>1, <5>2
      <4>2. CASE ExtensionRemove(p)
        BY <4>2 DEF ExtensionRemove
      <4> QED BY <2>3, <4>1, <4>2
    <3>2. /\ [db[id] EXCEPT !.ext = ext] \in Endpoint
          /\ [db[id] EXCEPT !.ext = ext].group = db[id].group
          /\ [db[id] EXCEPT !.ext = ext].url = db[id].url
      BY <2>0 DEF Endpoint
    <3> QED BY <3>1, <3>2
  <2> QED BY <2>1, <2>2, <2>3 DEF Edit
<1>2. point \in Points /\ id \in IDs
  BY <1>1, RowTypes DEF Points
<1>3. /\ Others(p) /\ OpsOK'
      /\ op'[p].pc = point /\ op'[p].id = id /\ op'[p].row = row /\ op'[p].kind = ""
  BY <1>1, <1>2, HoldMove
<1>4. strays \subseteq strays'
  BY DEF Edit, UpdateBegin, UpdateAccess, ExtensionAdd, ExtensionRemove, Naming, past
<1> QED BY <1>1, <1>3, <1>4 DEF At

LEMMA DeleteBeginMove ==
  ASSUME OpsOK, DataOK, NEW p \in Procs, DeleteBegin(p)
  PROVE  /\ Others(p) /\ OpsOK' /\ op'[p].pc = "delete"
         /\ op'[p].id \in Rows /\ op'[p].kind = ""
<1>1. PICK id \in Rows : Become(p, Holding("delete", id, None))
  BY DEF DeleteBegin
<1>2. "delete" \in Points /\ "delete" \notin Writing /\ id \in IDs
  BY <1>1, RowTypes DEF Points, Writing
<1> QED BY <1>1, <1>2, HoldMove

LEMMA ProxyBeginMove ==
  ASSUME OpsOK, DataOK, NEW p \in Procs, ProxyBegin(p)
  PROVE  /\ Others(p) /\ OpsOK' /\ op'[p].pc = "proxy.get"
         /\ op'[p].id \in Rows /\ op'[p].row = db[op'[p].id] /\ op'[p].kind \in Kinds
<1>1. PICK id \in Rows, kind \in Kinds :
        Become(p, [Holding("proxy.get", id, db[id]) EXCEPT !.kind = kind])
  BY DEF ProxyBegin
<1> DEFINE h == Holding("proxy.get", id, db[id])
           o == [h EXCEPT !.kind = kind]
<1>2. "proxy.get" \in Points /\ id \in IDs /\ db[id] \in Endpoint
  BY <1>1, RowTypes DEF Points
<1>3. h.pc = "proxy.get" /\ h.id = id /\ h.row = db[id]
  BY DEF Holding, Idle
<1>7. OpFits(h)
  BY <1>2, HoldingFits, Zenon
<1> HIDE DEF h
<1>4. /\ o \in Op /\ o.pc = h.pc /\ o.id = h.id /\ o.row = h.row /\ o.kind = kind
      /\ o.todo = h.todo /\ o.list = h.list
  BY <1>7 DEF OpFits, Op
<1>5. Become(p, o)
  BY <1>1 DEF h
<1> HIDE DEF o
<1>6. OpFits(o)
  BY <1>2, <1>3, <1>4, <1>7 DEF OpFits
<1> QED BY <1>3, <1>4, <1>5, <1>6, BecomeMove

LEMMA GroupRequestMove ==
  ASSUME OpsOK, DataOK, NEW p \in Procs, NEW point \in {"group.list", "group.put", "group.delete"},
         NEW kind \in {"create", "update", "delete"}, NEW group \in GroupIDs,
         NEW members \in SUBSET Rows, Become(p, GroupRequest(point, kind, group, members))
  PROVE  /\ Others(p) /\ OpsOK'
         /\ op'[p].pc = point /\ op'[p].kind = kind /\ op'[p].group = group
<1>1. members \in SUBSET IDs /\ point \in Points \ (Writing \cup {"delete", "delete.proxies"})
  BY DEF Rows, Points, Writing
<1> QED BY <1>1, GroupFits, BecomeMove

LEMMA GroupCreateMove ==
  ASSUME OpsOK, DataOK, NEW p \in Procs, GroupCreate(p)
  PROVE  /\ Others(p) /\ OpsOK'
         /\ op'[p].pc = "group.list" /\ op'[p].kind = "create" /\ op'[p].group \in groups'
BY GroupRequestMove DEF GroupCreate

LEMMA GroupUpdateMove ==
  ASSUME OpsOK, DataOK, NEW p \in Procs, GroupUpdateBegin(p)
  PROVE  Others(p) /\ OpsOK' /\ op'[p].pc = "group.put" /\ op'[p].kind = "update"
<1>1. PICK group \in groups, members \in SUBSET Rows :
        Become(p, GroupRequest("group.put", "update", group, members))
  BY DEF GroupUpdateBegin
<1>2. group \in GroupIDs
  BY <1>1 DEF DataOK
<1> QED BY <1>1, <1>2, GroupRequestMove

LEMMA GroupDeleteMove ==
  ASSUME OpsOK, DataOK, NEW p \in Procs, GroupDeleteBegin(p)
  PROVE  /\ Others(p) /\ OpsOK' /\ op'[p].pc = "group.delete" /\ op'[p].kind = "delete"
         /\ op'[p].group # Unassigned
<1>1. PICK group \in groups \ {Unassigned} :
        Become(p, GroupRequest("group.delete", "delete", group, {}))
  BY DEF GroupDeleteBegin
<1>2. group \in GroupIDs /\ {} \in SUBSET Rows
  BY <1>1 DEF DataOK
<1> QED BY <1>1, <1>2, GroupRequestMove

(* A list taken of the bucket, of which some rows are to be visited.       *)
LEMMA SnapshotBeginMove ==
  ASSUME OpsOK, DataOK, NEW p \in Procs, NEW ids, SnapshotBegin(p, ids)
  PROVE  /\ Others(p) /\ OpsOK' /\ op'[p].pc = "snap.read"
         /\ op'[p].list = db /\ op'[p].todo = ids /\ op'[p].kind = ""
<1> DEFINE o == [Idle EXCEPT !.pc = "snap.read", !.list = db, !.todo = ids]
<1>1. ids \subseteq Rows /\ Become(p, o)
  BY DEF SnapshotBegin
<1>2. ids \in SUBSET IDs /\ ids \subseteq Listed(db) /\ "snap.read" \in Points
  BY <1>1 DEF Rows, Listed, Points
<1>3. /\ o \in Op /\ o.pc = "snap.read" /\ o.list = db /\ o.todo = ids /\ o.kind = ""
  BY <1>2, IdleFits DEF OpFits, Op, DataOK
<1> HIDE DEF o
<1>4. OpFits(o)
  BY <1>2, <1>3 DEF OpFits, Writing
<1> QED BY <1>1, <1>3, <1>4, BecomeMove

LEMMA SyncBeginMove ==
  ASSUME OpsOK, DataOK, NEW p \in Procs, SyncBegin(p)
  PROVE  /\ Others(p) /\ OpsOK' /\ op'[p].pc = "sync"
         /\ op'[p].list = db /\ op'[p].kind = ""
<1> DEFINE o == [Idle EXCEPT !.pc = "sync", !.list = db, !.wanted = file]
<1>1. Become(p, o)
  BY DEF SyncBegin
<1>2. "sync" \in Points
  BY DEF Points
<1>3. /\ o \in Op /\ o.pc = "sync" /\ o.list = db /\ o.todo = {} /\ o.kind = ""
  BY <1>2, IdleFits DEF OpFits, Op, DataOK
<1> HIDE DEF o
<1>4. OpFits(o)
  BY <1>3 DEF OpFits, Writing
<1> QED BY <1>1, <1>3, <1>4, BecomeMove

LEMMA DoneMove ==
  ASSUME OpsOK, NEW p \in Procs, Done(p)
  PROVE  Others(p) /\ OpsOK' /\ op'[p] = Idle
BY BecomeMove, IdleFits DEF Done

-----------------------------------------------------------------------------
(* The steps that go through a list of endpoints.                          *)
LEMMA SnapshottedRow ==
  ASSUME NEW row \in Endpoint, NEW url \in URLs
  PROVE  /\ Snapshotted(row, url) \in Endpoint
         /\ Snapshotted(row, url).url = row.url
         /\ Snapshotted(row, url).group = row.group
         /\ OnlySnapshotDiffers(row, Snapshotted(row, url))
<1> DEFINE up == url \in Reachable
           snap == IF url \in Reachable THEN url ELSE row.snap
           new == [row EXCEPT !.up = up, !.snap = snap]
<1>1. up \in BOOLEAN /\ snap \in URLs \cup {None}
  BY DEF Endpoint
<1>2. new = Snapshotted(row, url)
  BY DEF Snapshotted
<1> HIDE DEF up, snap
<1>3. /\ new \in Endpoint /\ new.url = row.url /\ new.group = row.group
      /\ new.up = up /\ new.snap = snap
  BY <1>1 DEF Endpoint
<1>4. new = [row EXCEPT !.up = new.up, !.snap = new.snap]
  BY <1>3
<1>5. row # None
  BY NoEndpointAssumption
<1> HIDE DEF new
<1> QED BY <1>2, <1>3, <1>4, <1>5 DEF OnlySnapshotDiffers

LEMMA ListedRow ==
  ASSUME OpsOK, NEW p \in Procs
  PROVE  /\ op[p].todo \in SUBSET IDs /\ op[p].list \in Bucket
         /\ \A id \in op[p].todo : id \in IDs /\ op[p].list[id] \in Endpoint
<1>1. /\ op[p].todo \in SUBSET IDs /\ op[p].list \in Bucket
      /\ op[p].todo \subseteq Listed(op[p].list)
  BY DEF OpsOK, OpFits, Op
<1>2. ASSUME NEW id \in op[p].todo PROVE op[p].list[id] \in Endpoint
  BY <1>1 DEF Listed, Bucket
<1> QED BY <1>1, <1>2

LEMMA GroupListMove ==
  ASSUME OpsOK, DataOK, NEW p \in Procs, GroupList(p)
  PROVE  /\ Others(p) /\ OpsOK' /\ op'[p].pc = "group.walk"
         /\ op'[p].list = db /\ op'[p].todo = Rows
         /\ op'[p].kind = op[p].kind /\ op'[p].group = op[p].group
<1> DEFINE o == [op[p] EXCEPT !.pc = "group.walk", !.list = db, !.todo = Rows]
<1>1. Become(p, o)
  BY DEF GroupList
<1>2. Rows \in SUBSET IDs /\ Rows = Listed(db) /\ "group.walk" \in Points
  BY DEF Rows, Listed, Points
<1>3. /\ o \in Op /\ o.pc = "group.walk" /\ o.list = db /\ o.todo = Rows
      /\ o.kind = op[p].kind /\ o.group = op[p].group
  <2>1. db \in Bucket /\ op[p] \in Op
    BY DEF DataOK, OpsOK, OpFits
  <2> QED BY <1>2, <2>1 DEF Op
<1> HIDE DEF o
<1>4. OpFits(o)
  BY <1>2, <1>3 DEF OpFits, Writing
<1> QED BY <1>1, <1>3, <1>4, BecomeMove

LEMMA WalkedMove ==
  ASSUME OpsOK, NEW p \in Procs, NEW id, Walked(p, id)
  PROVE  /\ Others(p) /\ OpsOK' /\ op'[p].pc = op[p].pc
         /\ op'[p].list = op[p].list /\ op'[p].todo = op[p].todo \ {id}
         /\ op'[p].kind = op[p].kind /\ op'[p].group = op[p].group
<1> DEFINE o == [op[p] EXCEPT !.todo = op[p].todo \ {id}]
<1>1. Become(p, o)
  BY DEF Walked, OpsOK, OpFits, Op
<1>2. /\ o \in Op /\ o.pc = op[p].pc /\ o.list = op[p].list
      /\ o.todo = op[p].todo \ {id} /\ o.id = op[p].id /\ o.row = op[p].row
      /\ o.kind = op[p].kind /\ o.group = op[p].group
  BY DEF OpsOK, OpFits, Op
<1>3. OpFits(op[p])
  BY DEF OpsOK
<1> HIDE DEF o
<1>4. OpFits(o)
  BY <1>2, <1>3 DEF OpFits
<1> QED BY <1>1, <1>2, <1>4, BecomeMove

LEMMA GroupWalkMove ==
  ASSUME OpsOK, NEW p \in Procs, GroupWalk(p)
  PROVE  \E id \in op[p].todo :
           /\ Walked(p, id)
           /\ \/ /\ UNCHANGED <<db, seq, overtaken>>
                 /\ ~Joins(op[p], id) /\ ~Leaves(op[p], id)
              \/ \E group \in GroupIDs \cup {NoGroup} :
                   /\ Regroup(p, id, group)
                   /\ \/ group = op[p].group /\ Joins(op[p], id)
                      \/ group = Unassigned
<1> DEFINE id == Least(op[p].todo)
<1>1. id \in op[p].todo
  BY LeastIn, ListedRow DEF GroupWalk
<1>2. op[p].group \in GroupIDs \cup {NoGroup}
  BY DEF OpsOK, OpFits, Op
<1>4. Unassigned \in GroupIDs
  BY BoundsAssumption DEF GroupIDs, Unassigned
<1>3. /\ Walked(p, id)
      /\ \/ Joins(op[p], id) /\ Regroup(p, id, op[p].group)
         \/ Leaves(op[p], id) /\ Regroup(p, id, Unassigned)
         \/ /\ ~Joins(op[p], id) /\ ~Leaves(op[p], id)
            /\ UNCHANGED <<db, seq, overtaken>>
  BY DEF GroupWalk
<1> HIDE DEF id
<1> QED BY <1>1, <1>2, <1>3, <1>4

LEMMA SnapshotReadMove ==
  ASSUME OpsOK, DataOK, NEW p \in Procs, SnapshotRead(p)
  PROVE  /\ Others(p) /\ OpsOK'
         /\ op'[p].list = op[p].list /\ op'[p].kind = op[p].kind
         /\ \E id \in op[p].todo :
              /\ op[p].list[id].url \in URLs
              /\ \/ /\ id \in Rows /\ op'[p].pc = "snap.write" /\ op'[p].id = id
                    /\ op'[p].row = Snapshotted(db[id], op[p].list[id].url)
                    /\ op'[p].todo = op[p].todo
                 \/ /\ op'[p].pc = "snap.read" /\ op'[p].todo = op[p].todo \ {id}
<1> DEFINE id == Least(op[p].todo)
           row == Snapshotted(db[id], op[p].list[id].url)
<1>1. id \in op[p].todo
  BY LeastIn, ListedRow DEF SnapshotRead
<1>2. id \in IDs /\ op[p].list[id].url \in URLs
  BY <1>1, ListedRow DEF Endpoint
<1>3. \/ /\ id \in Rows
         /\ Become(p, [op[p] EXCEPT !.pc = "snap.write", !.id = id, !.row = row])
      \/ At(p, "snap.read") /\ Walked(p, id)
  BY DEF SnapshotRead
<1>4. CASE /\ id \in Rows
           /\ Become(p, [op[p] EXCEPT !.pc = "snap.write", !.id = id, !.row = row])
  <2>1. row \in Endpoint
    BY <1>2, <1>4, RowTypes, SnapshottedRow
  <2> HIDE DEF id, row
  <2> DEFINE o == [op[p] EXCEPT !.pc = "snap.write", !.id = id, !.row = row]
  <2>2. "snap.write" \in Points
    BY DEF Points
  <2>3. /\ o \in Op /\ o.pc = "snap.write" /\ o.id = id /\ o.row = row
        /\ o.list = op[p].list /\ o.todo = op[p].todo /\ o.kind = op[p].kind
    BY <1>2, <2>1, <2>2 DEF OpsOK, OpFits, Op
  <2>4. Become(p, o)
    BY <1>4
  <2>5. OpFits(op[p])
    BY DEF OpsOK
  <2> HIDE DEF o
  <2>6. OpFits(o)
    BY <1>2, <2>1, <2>3, <2>5 DEF OpFits
  <2>7. Others(p) /\ OpsOK' /\ op'[p] = o
    BY <2>4, <2>6, BecomeMove
  <2> QED BY <1>1, <1>2, <1>4, <2>3, <2>7 DEF row
<1>5. CASE At(p, "snap.read") /\ Walked(p, id)
  BY <1>1, <1>2, <1>5, WalkedMove DEF At
<1> QED BY <1>3, <1>4, <1>5

LEMMA SnapshotWriteMove ==
  ASSUME OpsOK, NEW p \in Procs, SnapshotWrite(p)
  PROVE  /\ Others(p) /\ OpsOK' /\ op'[p].pc = "snap.read"
         /\ op'[p].list = op[p].list /\ op'[p].kind = op[p].kind
         /\ op'[p].todo = op[p].todo \ {op[p].id}
<1> DEFINE o == [op[p] EXCEPT !.pc = "snap.read", !.todo = op[p].todo \ {op[p].id},
                   !.id = 0, !.row = None]
<1>1. Become(p, o)
  BY DEF SnapshotWrite, OpsOK, OpFits, Op
<1>2. "snap.read" \in Points
  BY DEF Points
<1>3. /\ o \in Op /\ o.pc = "snap.read" /\ o.list = op[p].list
      /\ o.todo = op[p].todo \ {op[p].id} /\ o.kind = op[p].kind
  BY <1>2 DEF OpsOK, OpFits, Op
<1>4. OpFits(op[p])
  BY DEF OpsOK
<1> HIDE DEF o
<1>5. OpFits(o)
  BY <1>3, <1>4 DEF OpFits, Writing
<1> QED BY <1>1, <1>3, <1>5, BecomeMove

(* A synchronisation merges what it listed, or creates, or changes nothing. *)
LEMMA SyncMove ==
  ASSUME OpsOK, DataOK, NEW p \in Procs, Sync(p)
  PROVE  /\ db' \in Bucket /\ seq' \in 0..MaxID /\ seq <= seq'
         /\ \E names \in [(seq + 1)..seq' -> Missing(op[p].list, op[p].wanted)] :
              /\ {names[id] : id \in (seq + 1)..seq'} = Missing(op[p].list, op[p].wanted)
              /\ \A id \in IDs :
                   \/ /\ id \in Listed(op[p].list)
                      /\ Merged(op[p].list[id], op[p].wanted) # op[p].list[id]
                      /\ db'[id] = Merged(op[p].list[id], op[p].wanted)
                   \/ /\ id \in Listed(op[p].list) =>
                           Merged(op[p].list[id], op[p].wanted) = op[p].list[id]
                      /\ \/ /\ id \in (seq + 1)..seq'
                            /\ db'[id] = Created(names[id], op[p].wanted[names[id]])
                         \/ id \notin (seq + 1)..seq' /\ db'[id] = db[id]
<1> DEFINE list == op[p].list
           wanted == op[p].wanted
           missing == Missing(list, wanted)
           new == (seq + 1)..(seq + Cardinality(missing))
           changed == {id \in Listed(list) : Merged(list[id], wanted) # list[id]}
<1>1. list \in Bucket /\ wanted \in Files /\ seq \in 0..MaxID /\ db \in Bucket
  BY DEF OpsOK, OpFits, Op, DataOK
<1>2. missing \subseteq DOMAIN wanted
  BY DEF Missing
<1>3. DOMAIN wanted \subseteq Names /\ IsFiniteSet(DOMAIN wanted) /\ wanted \in [DOMAIN wanted -> URLs]
  BY <1>1 DEF Files
<1>4. Cardinality(missing) \in Nat
  <2> HIDE DEF missing, wanted
  <2> QED BY <1>2, <1>3, FS_Subset, FS_CardinalityType
<1>5. /\ new \subseteq IDs /\ seq' = seq + Cardinality(missing)
      /\ \E names \in [new -> missing] :
           /\ {names[id] : id \in new} = missing
           /\ Synchronize(list, wanted, names)
  BY DEF Sync, NextIdentifier
<1>6. PICK names \in [new -> missing] :
        {names[id] : id \in new} = missing /\ Synchronize(list, wanted, names)
  BY <1>5
<1>7. db' = [id \in IDs |->
               IF id \in changed THEN Merged(list[id], wanted)
               ELSE IF id \in new THEN Created(names[id], wanted[names[id]])
               ELSE db[id]]
  BY <1>6 DEF Synchronize
<1> HIDE DEF list, wanted, missing
<1>8. seq' \in 0..MaxID /\ seq <= seq'
  <2>1. CASE Cardinality(missing) = 0
    BY <1>1, <1>5, <2>1
  <2>2. CASE Cardinality(missing) # 0
    <3>1. seq + Cardinality(missing) \in new
      BY <1>1, <1>4, <2>2
    <3> QED BY <1>1, <1>4, <1>5, <3>1, BoundsAssumption DEF IDs
  <2> QED BY <2>1, <2>2
<1>9. ASSUME NEW id \in Listed(list) PROVE Merged(list[id], wanted) \in Endpoint \cup {None}
  <2>1. list[id] \in Endpoint
    BY <1>1 DEF Listed, Bucket
  <2>2. CASE list[id].name \in DOMAIN wanted
    <3>1. wanted[list[id].name] \in URLs
      BY <1>3, <2>2
    <3>2. [list[id] EXCEPT !.url = wanted[list[id].name]] \in Endpoint
      BY <2>1, <3>1 DEF Endpoint
    <3> QED BY <2>2, <3>2 DEF Merged
  <2> QED BY <2>2 DEF Merged
<1>10. ASSUME NEW id \in new PROVE Created(names[id], wanted[names[id]]) \in Endpoint
  <2>1. names[id] \in Names /\ wanted[names[id]] \in URLs
    BY <1>2, <1>3, <1>6
  <2>2. {} \in SUBSET Users
    OBVIOUS
  <2> QED BY <2>1, <2>2 DEF Created, Endpoint
<1>11. db' \in Bucket
  <2>1. \A id \in changed : id \in Listed(list)
    OBVIOUS
  <2>2. \A id \in IDs : db[id] \in Endpoint \cup {None}
    BY <1>1 DEF Bucket
  <2> HIDE DEF changed, new
  <2> QED BY <1>7, <1>9, <1>10, <2>1, <2>2 DEF Bucket
<1>12. new = (seq + 1)..seq'
  BY <1>5
<1>13. \A id \in IDs :
         \/ id \in changed /\ db'[id] = Merged(list[id], wanted)
         \/ id \notin changed /\ id \in new /\ db'[id] = Created(names[id], wanted[names[id]])
         \/ id \notin changed /\ id \notin new /\ db'[id] = db[id]
  <2> HIDE DEF changed, new
  <2> QED BY <1>7
<1> QED BY <1>6, <1>8, <1>11, <1>12, <1>13 DEF list, wanted, missing

-----------------------------------------------------------------------------
(* All first steps at once.                                                *)
Begins(p) == Request(p) \/ SnapshotBegin(p, Rows) \/ SyncBegin(p)
Begun(p) ==
  /\ op'[p].pc \in {"create.persist", "update.proxy", "persist", "delete", "proxy.get",
                    "group.list", "group.put", "group.delete", "snap.read", "sync"}
  /\ At(p, "create.persist")' => op'[p].id = seq + 1 /\ op'[p].row.group \in groups \cup strays'
  /\ op'[p].pc \in {"update.proxy", "persist", "delete", "proxy.get"} => op'[p].id \in Rows
  /\ op'[p].pc \in {"update.proxy", "persist"} =>
       op'[p].row.group \in groups \cup strays' \cup {db[op'[p].id].group}
  /\ At(p, "persist")' => op'[p].row.url = db[op'[p].id].url
  /\ At(p, "proxy.get")' => op'[p].row = db[op'[p].id]
  /\ At(p, "snap.read")' => op'[p].list = db
  /\ At(p, "sync")' => op'[p].list = db /\ external
  /\ At(p, "group.list")' => op'[p].kind = "create" /\ op'[p].group \in groups'
  /\ At(p, "group.put")' => op'[p].kind = "update"
  /\ At(p, "group.delete")' => op'[p].kind = "delete" /\ op'[p].group # Unassigned

LEMMA BeginMove ==
  ASSUME OpsOK, DataOK, NEW p \in Procs, Begins(p)
  PROVE  /\ Others(p) /\ OpsOK' /\ Begun(p) /\ At(p, "idle")
         /\ UNCHANGED <<db, seq, proxies, external, file, overtaken, restarts, faults>>
         /\ strays \subseteq strays'
         /\ \/ UNCHANGED <<groups, groupSeq>>
            \/ /\ groupSeq' \in GroupIDs /\ groupSeq' = groupSeq + 1
               /\ groups' = groups \cup {groupSeq + 1}
         /\ Asked \/ Unasked
<1>1. CASE CreateBegin(p)
  BY <1>1, CreateBeginMove DEF Begun, CreateBegin, At, store
<1>2. CASE Edit(p)
  <2>1. /\ At(p, "idle") /\ Asked
        /\ UNCHANGED <<store, proxies, external, file, overtaken, restarts, faults>>
    BY <1>2 DEF past, Edit, UpdateBegin, UpdateAccess, ExtensionAdd, ExtensionRemove
  <2> QED BY <1>2, <2>1, EditMove DEF Begun, At, store
<1>3. CASE DeleteBegin(p)
  BY <1>3, DeleteBeginMove DEF Begun, DeleteBegin, At, store, past
<1>4. CASE ProxyBegin(p)
  BY <1>4, ProxyBeginMove DEF Begun, ProxyBegin, At, store, past
<1>5. CASE GroupCreate(p)
  BY <1>5, GroupCreateMove DEF Begun, GroupCreate, At, past
<1>6. CASE GroupUpdateBegin(p)
  BY <1>6, GroupUpdateMove DEF Begun, GroupUpdateBegin, At, store, past
<1>7. CASE GroupDeleteBegin(p)
  BY <1>7, GroupDeleteMove DEF Begun, GroupDeleteBegin, At, store, past
<1>8. CASE \E ids : SnapshotBegin(p, ids)
  <2>1. PICK ids : SnapshotBegin(p, ids)
    BY <1>8
  <2> QED BY <2>1, SnapshotBeginMove DEF Begun, SnapshotBegin, At, store, past
<1>9. CASE SyncBegin(p)
  BY <1>9, SyncBeginMove DEF Begun, SyncBegin, At, store, past
<1> QED BY <1>1, <1>2, <1>3, <1>4, <1>5, <1>6, <1>7, <1>8, <1>9 DEF Begins, Request, Edit

-----------------------------------------------------------------------------
(* Types and fresh snapshots, with any number of processes.                *)
AllFresh == \A p \in Procs \ overtaken : Fresh(p)

LEMMA FreshSteady ==
  ASSUME AllFresh, NEW p \in Procs, Others(p), UNCHANGED <<db, overtaken>>,
         op'[p].pc # "snap.write"
  PROVE  AllFresh'
BY DEF AllFresh, Fresh, Others, At

LEMMA FreshWrite ==
  ASSUME AllFresh, OpsOK, NEW p \in Procs, Others(p), NEW ids, Overtakes(p, ids),
         op'[p].pc # "snap.write", \A id \in IDs \ ids : db'[id] = db[id]
  PROVE  AllFresh'
<1>1. \A q \in Procs : At(q, "snap.write") => op[q].id \in IDs
  BY DEF OpsOK, OpFits, At, Writing
<1>2. ASSUME NEW q \in Procs \ overtaken', At(q, "snap.write")'
      PROVE  OnlySnapshotDiffers(db'[op'[q].id], op'[q].row)
  <2>1. q # p /\ op'[q] = op[q] /\ At(q, "snap.write") /\ q \notin overtaken
    BY <1>2 DEF Others, At, Overtakes
  <2>2. op[q].id \notin ids
    BY <1>2, <2>1 DEF Overtakes
  <2>3. db'[op[q].id] = db[op[q].id]
    BY <1>1, <2>1, <2>2
  <2>4. OnlySnapshotDiffers(db[op[q].id], op[q].row)
    BY <2>1 DEF AllFresh, Fresh
  <2> QED BY <2>1, <2>3, <2>4
<1> QED BY <1>2 DEF AllFresh, Fresh

(* A row written by a process that ends or goes on with its work.          *)
LEMMA RowWritten ==
  ASSUME OpsOK, OpsOK', DataOK, AllFresh, NEW p \in Procs, Others(p),
         NEW id \in IDs, NEW row \in Endpoint \cup {None}, NEW ids, id \in ids,
         db' = [db EXCEPT ![id] = row], seq' \in 0..MaxID, Overtakes(p, ids),
         op'[p].pc # "snap.write",
         UNCHANGED <<groups, groupSeq, proxies, external, file>>
  PROVE  DataOK' /\ AllFresh'
<1>1. db' \in Bucket /\ \A other \in IDs \ ids : db'[other] = db[other]
  BY DEF DataOK, Bucket
<1>2. overtaken' \subseteq Procs
  BY DEF Overtakes, DataOK
<1>3. DataOK'
  BY <1>1, <1>2 DEF DataOK
<1> QED BY <1>1, <1>3, FreshWrite

LEMMA ContinueKeeps ==
  ASSUME OpsOK, DataOK, AllFresh, NEW p \in Procs, Continue(p) \/ IOError(p)
  PROVE  OpsOK' /\ DataOK' /\ AllFresh'
<1>0. OpFits(op[p]) /\ op[p] \in Op
  BY IdleFits DEF OpsOK, OpFits
<1>1. CASE CreatePersist(p)
  <2>1. op[p].id \in IDs /\ op[p].row \in Endpoint
    BY <1>0, <1>1 DEF CreatePersist, OpFits, At, Writing
  <2>2. Snapshotted(op[p].row, op[p].row.url) \in Endpoint
    <3>1. op[p].row.url \in URLs
      BY <2>1 DEF Endpoint
    <3> QED BY <2>1, <3>1, SnapshottedRow
  <2>3. /\ db' = [db EXCEPT ![op[p].id] = Snapshotted(op[p].row, op[p].row.url)]
        /\ seq' = op[p].id /\ Overtakes(p, {op[p].id}) /\ Done(p)
        /\ UNCHANGED <<groups, groupSeq, proxies, external, file>>
    BY <1>1 DEF CreatePersist, CreateEndpoint
  <2>4. seq' \in 0..MaxID
    BY <2>1, <2>3, BoundsAssumption DEF IDs
  <2>5. Others(p) /\ OpsOK' /\ op'[p].pc # "snap.write"
    BY <2>3, DoneMove, IdleFits
  <2> QED BY <2>1, <2>2, <2>3, <2>4, <2>5, RowWritten
<1>2. CASE Persist(p)
  <2>1. op[p].id \in IDs /\ op[p].row \in Endpoint
    BY <1>0, <1>2 DEF Persist, OpFits, At, Writing
  <2>2. /\ db' = [db EXCEPT ![op[p].id] = op[p].row]
        /\ seq' = seq /\ Overtakes(p, {op[p].id}) /\ Done(p)
        /\ UNCHANGED <<groups, groupSeq, proxies, external, file>>
    BY <1>2 DEF Persist, UpdateEndpoint
  <2>3. Others(p) /\ OpsOK' /\ op'[p].pc # "snap.write" /\ seq' \in 0..MaxID
    BY <2>2, DoneMove, IdleFits DEF DataOK
  <2> QED BY <2>1, <2>2, <2>3, RowWritten
<1>3. CASE Delete(p)
  <2>1. op[p].id \in IDs
    BY <1>0, <1>3 DEF Delete, OpFits, At
  <2>2. /\ db' = [db EXCEPT ![op[p].id] = None]
        /\ seq' = seq /\ Overtakes(p, {op[p].id}) /\ Advance(p, "delete.proxies")
        /\ At(p, "delete") /\ UNCHANGED <<groups, groupSeq, proxies, external, file>>
    BY <1>3 DEF Delete, DeleteEndpoint
  <2>3. "delete.proxies" \in Points \ Writing
    BY DEF Points, Writing
  <2>4. Others(p) /\ OpsOK' /\ op'[p].pc # "snap.write" /\ seq' \in 0..MaxID
    BY <2>2, <2>3, AdvanceMove DEF DataOK
  <2> QED BY <2>1, <2>2, <2>4, RowWritten
<1>4. CASE GroupWalk(p)
  <2>1. PICK id \in op[p].todo :
          /\ Walked(p, id)
          /\ \/ UNCHANGED <<db, seq, overtaken>>
             \/ \E group \in GroupIDs \cup {NoGroup} : Regroup(p, id, group)
    BY <1>4, GroupWalkMove
  <2>2. /\ Others(p) /\ OpsOK' /\ op'[p].pc # "snap.write"
        /\ UNCHANGED <<groups, groupSeq, proxies, external, file>>
    BY <1>4, <2>1, WalkedMove DEF GroupWalk, At
  <2>3. CASE UNCHANGED <<db, seq, overtaken>>
    <3>1. DataOK'
      BY <2>2, <2>3 DEF DataOK
    <3> QED BY <2>2, <2>3, <3>1, FreshSteady
  <2>4. CASE \E group \in GroupIDs \cup {NoGroup} : Regroup(p, id, group)
    <3>1. PICK group \in GroupIDs \cup {NoGroup} : Regroup(p, id, group)
      BY <2>4
    <3> DEFINE row == [op[p].list[id] EXCEPT !.group = group]
    <3>2. id \in IDs /\ row \in Endpoint
      BY <2>1, ListedRow DEF Endpoint
    <3>3. db' = [db EXCEPT ![id] = row] /\ seq' \in 0..MaxID /\ Overtakes(p, {id})
      BY <3>1 DEF Regroup, UpdateEndpoint, DataOK
    <3> HIDE DEF row
    <3> QED BY <2>2, <3>2, <3>3, RowWritten
  <2> QED BY <2>1, <2>3, <2>4
<1>5. CASE SnapshotWrite(p)
  <2>1. op[p].id \in IDs /\ op[p].row \in Endpoint
    BY <1>0, <1>5 DEF SnapshotWrite, OpFits, At, Writing
  <2>2. /\ db' = [db EXCEPT ![op[p].id] = op[p].row]
        /\ seq' = seq /\ Overtakes(p, {op[p].id})
        /\ UNCHANGED <<groups, groupSeq, proxies, external, file>>
    BY <1>5 DEF SnapshotWrite, UpdateEndpoint
  <2>3. Others(p) /\ OpsOK' /\ op'[p].pc # "snap.write" /\ seq' \in 0..MaxID
    BY <1>5, <2>2, SnapshotWriteMove DEF DataOK
  <2> QED BY <2>1, <2>2, <2>3, RowWritten
<1>6. CASE Sync(p)
  <2>1. db' \in Bucket /\ seq' \in 0..MaxID
    BY <1>6, SyncMove
  <2>2. /\ Overtakes(p, {id \in IDs : db'[id] # db[id]}) /\ Done(p)
        /\ UNCHANGED <<groups, groupSeq, proxies, external, file>>
    BY <1>6 DEF Sync
  <2>3. Others(p) /\ OpsOK' /\ op'[p].pc # "snap.write"
    BY <2>2, DoneMove, IdleFits
  <2>4. DataOK'
    BY <2>1, <2>2 DEF DataOK, Overtakes
  <2> DEFINE ids == {id \in IDs : db'[id] # db[id]}
  <2>5. Overtakes(p, ids) /\ \A id \in IDs \ ids : db'[id] = db[id]
    BY <2>2
  <2> HIDE DEF ids
  <2> QED BY <2>3, <2>4, <2>5, FreshWrite
<1>7. CASE SnapshotRead(p)
  <2>1. /\ overtaken' = overtaken \ {p}
        /\ UNCHANGED <<db, seq, groups, groupSeq, proxies, external, file>>
    BY <1>7 DEF SnapshotRead, store
  <2>2. OpsOK' /\ Others(p)
    BY <1>7, SnapshotReadMove
  <2>3. DataOK'
    BY <2>1 DEF DataOK
  <2>4. Fresh(p)'
    <3>1. PICK id \in op[p].todo :
            /\ op[p].list[id].url \in URLs
            /\ \/ /\ id \in Rows /\ op'[p].pc = "snap.write" /\ op'[p].id = id
                  /\ op'[p].row = Snapshotted(db[id], op[p].list[id].url)
               \/ op'[p].pc = "snap.read"
      BY <1>7, SnapshotReadMove
    <3>2. CASE id \in Rows /\ op'[p].pc = "snap.write" /\ op'[p].id = id
               /\ op'[p].row = Snapshotted(db[id], op[p].list[id].url)
      <4>1. OnlySnapshotDiffers(db[id], op'[p].row)
        BY <3>1, <3>2, RowTypes, SnapshottedRow
      <4> QED BY <2>1, <3>2, <4>1 DEF Fresh, At
    <3> QED BY <3>1, <3>2 DEF Fresh, At
  <2>5. \A q \in Procs \ overtaken' : q # p => Fresh(q)'
    BY <2>1, <2>2 DEF AllFresh, Fresh, Others, At
  <2> QED BY <2>2, <2>3, <2>4, <2>5 DEF AllFresh
<1>8. ASSUME \/ UpdateProxy(p) \/ GroupPut(p) \/ GroupDelete(p)
             \/ GroupList(p)
             \/ (ProxyGet(p) /\ Advance(p, "proxy.create"))
             \/ (Done(p) /\ UNCHANGED <<db, overtaken>>)
      PROVE  OpsOK' /\ Others(p) /\ op'[p].pc # "snap.write" /\ UNCHANGED <<db, overtaken>>
  <2>0. "idle" # "snap.write" /\ {"persist", "group.list", "proxy.create"} \subseteq Points
    BY DEF Points
  <2>1. CASE UpdateProxy(p)
    <3>1. At(p, "update.proxy") /\ Advance(p, "persist") /\ UNCHANGED <<db, overtaken>>
      BY <2>1 DEF UpdateProxy, store
    <3>2. op[p].pc \in Writing
      BY <3>1 DEF At, Writing
    <3> QED BY <2>0, <3>1, <3>2, AdvanceMove
  <2>2. CASE GroupPut(p) \/ GroupDelete(p)
    <3>1. Advance(p, "group.list") /\ UNCHANGED <<db, overtaken>> /\ "group.list" \notin Writing
      BY <2>2 DEF GroupPut, GroupDelete, Writing
    <3> QED BY <2>0, <3>1, AdvanceMove
  <2>3. CASE GroupList(p)
    BY <2>3, GroupListMove DEF GroupList, store
  <2>4. CASE ProxyGet(p) /\ Advance(p, "proxy.create")
    <3>1. At(p, "proxy.get") /\ UNCHANGED <<db, overtaken>>
      BY <2>4 DEF ProxyGet, store
    <3>2. op[p].pc \in Writing
      BY <3>1 DEF At, Writing
    <3> QED BY <2>0, <2>4, <3>1, <3>2, AdvanceMove
  <2>5. CASE Done(p) /\ UNCHANGED <<db, overtaken>>
    BY <2>5, DoneMove, IdleFits
  <2> QED BY <1>8, <2>1, <2>2, <2>3, <2>4, <2>5
<1>9. CASE UpdateProxy(p)
  <2>1. proxies' \in [Kinds -> [IDs -> URLs \cup {None}]]
    <3>1. op[p].row.url \in URLs /\ op[p].id \in IDs
      BY <1>0, <1>9 DEF UpdateProxy, OpFits, At, Writing, Endpoint
    <3> QED BY <1>9, <3>1 DEF UpdateProxy, DataOK, Kinds
  <2>2. DataOK'
    BY <1>9, <2>1 DEF UpdateProxy, DataOK, store
  <2> QED BY <1>8, <1>9, <2>2, FreshSteady
<1>10. CASE GroupPut(p) \/ GroupDelete(p)
  <2>1. groups' \subseteq GroupIDs
    BY <1>0, <1>10 DEF GroupPut, GroupDelete, OpFits, At, DataOK
  <2>2. UNCHANGED <<db, seq, groupSeq, proxies, external, file, overtaken>>
    BY <1>10 DEF GroupPut, GroupDelete
  <2>3. DataOK'
    BY <2>1, <2>2 DEF DataOK
  <2> QED BY <1>8, <1>10, <2>3, FreshSteady
<1>11. CASE GroupList(p) \/ ProxyGet(p)
  <2>1. UNCHANGED <<db, seq, groups, groupSeq, proxies, external, file, overtaken>>
    BY <1>11 DEF GroupList, ProxyGet, store
  <2>2. Done(p) \/ Advance(p, "proxy.create") \/ GroupList(p)
    BY <1>11 DEF ProxyGet
  <2>3. DataOK'
    BY <2>1 DEF DataOK
  <2>4. OpsOK' /\ Others(p) /\ op'[p].pc # "snap.write" /\ UNCHANGED <<db, overtaken>>
    <3>1. CASE Done(p)
      BY <1>8, <2>1, <3>1
    <3>2. CASE GroupList(p) \/ Advance(p, "proxy.create")
      <4>1. GroupList(p) \/ (ProxyGet(p) /\ Advance(p, "proxy.create"))
        BY <1>11, <3>2
      <4> QED BY <1>8, <4>1
    <3> QED BY <2>2, <3>1, <3>2
  <2> QED BY <2>3, <2>4, FreshSteady
<1>12. CASE DeleteProxies(p) \/ ProxyCreate(p)
  <2>1. /\ Done(p)
        /\ UNCHANGED <<db, seq, groups, groupSeq, external, file, overtaken>>
    BY <1>12 DEF DeleteProxies, ProxyCreate, store
  <2>2. proxies' \in [Kinds -> [IDs -> URLs \cup {None}]]
    <3>1. CASE DeleteProxies(p)
      BY <3>1 DEF DeleteProxies, DataOK
    <3>2. CASE ProxyCreate(p)
      <4>1. op[p].row \in Endpoint
        BY <1>0, <3>2 DEF ProxyCreate, OpFits, At, Writing
      <4>2. Target(op[p].kind, op[p].row) \in URLs \cup {None}
        BY <4>1 DEF Target, Endpoint
      <4>3. proxies' = [proxies EXCEPT ![op[p].kind][op[p].id] = Target(op[p].kind, op[p].row)]
        BY <3>2 DEF ProxyCreate
      <4> HIDE DEF Target
      <4> QED BY <4>2, <4>3 DEF DataOK
    <3> QED BY <1>12, <3>1, <3>2
  <2>3. DataOK'
    BY <2>1, <2>2 DEF DataOK
  <2> QED BY <1>8, <2>1, <2>3, FreshSteady
<1>13. CASE GroupDone(p) \/ SnapshotDone(p) \/ IOError(p)
  <2>1. /\ Done(p)
        /\ UNCHANGED <<db, seq, groups, groupSeq, proxies, external, file, overtaken>>
    BY <1>13 DEF GroupDone, SnapshotDone, IOError, store
  <2>2. DataOK'
    BY <2>1 DEF DataOK
  <2> QED BY <1>8, <2>1, <2>2, FreshSteady
<1> QED BY <1>1, <1>2, <1>3, <1>4, <1>5, <1>6, <1>7, <1>9, <1>10, <1>11, <1>12, <1>13
        DEF Continue

LEMMA BoundsKept ==
  ASSUME BoundsOK, [Next]_vars
  PROVE  BoundsOK'
<1> USE BoundsAssumption DEF BoundsOK, Asked, Unasked, past
<1>1. ASSUME NEW p, CreateBegin(p) \/ UpdateBegin(p) \/ UpdateAccess(p) \/ ExtensionAdd(p)
                 \/ ExtensionRemove(p) \/ DeleteBegin(p) \/ ProxyBegin(p)
                 \/ GroupCreate(p) \/ GroupUpdateBegin(p) \/ GroupDeleteBegin(p)
      PROVE  BoundsOK'
  <2>1. UNCHANGED <<restarts, faults>>
    BY <1>1 DEF CreateBegin, UpdateBegin, UpdateAccess, ExtensionAdd, ExtensionRemove,
                DeleteBegin, ProxyBegin, GroupCreate, GroupUpdateBegin, GroupDeleteBegin
  <2>2. strays' \subseteq GroupIDs \cup {NoGroup}
    <3>1. UNCHANGED strays \/ \E group \in GroupIDs \cup {NoGroup} : Naming(group)
      BY <1>1 DEF CreateBegin, UpdateBegin, UpdateAccess, ExtensionAdd, ExtensionRemove,
                  DeleteBegin, ProxyBegin, GroupCreate, GroupUpdateBegin, GroupDeleteBegin
    <3> QED BY <3>1 DEF Naming
  <2>3. Asked \/ Unasked
    BY <1>1 DEF CreateBegin, UpdateBegin, UpdateAccess, ExtensionAdd, ExtensionRemove,
                DeleteBegin, ProxyBegin, GroupCreate, GroupUpdateBegin, GroupDeleteBegin
  <2> QED BY <2>1, <2>2, <2>3
<1>2. ASSUME NEW p, SyncBegin(p) \/ \E ids : SnapshotBegin(p, ids) PROVE BoundsOK'
  <2>1. UNCHANGED <<ops, strays, restarts, faults>>
    BY <1>2 DEF SnapshotBegin, SyncBegin
  <2> QED BY <2>1
<1>3. ASSUME NEW p, Continue(p) PROVE BoundsOK'
  <2>1. UNCHANGED <<ops, strays, restarts, faults>>
    BY <1>3 DEF Continue, CreatePersist, UpdateProxy, Persist, Delete, DeleteProxies,
                GroupPut, GroupDelete, GroupList, GroupWalk, GroupDone, SnapshotRead,
                SnapshotWrite, SnapshotDone, Sync, ProxyGet, ProxyCreate
  <2> QED BY <2>1
<1>4. CASE FileChange
  BY <1>4 DEF FileChange
<1>5. CASE Restart
  BY <1>5 DEF Restart
<1>6. ASSUME NEW p, IOError(p) PROVE BoundsOK'
  BY <1>6 DEF IOError
<1>7. CASE UNCHANGED vars
  <2>1. UNCHANGED <<ops, strays, restarts, faults>>
    BY <1>7 DEF vars
  <2> QED BY <2>1
<1> QED BY <1>1, <1>2, <1>3, <1>4, <1>5, <1>6, <1>7 DEF Next, Request

LEMMA Parts == Inv <=> OpsOK /\ DataOK /\ BoundsOK /\ AllFresh
BY TypeParts DEF Inv, AllFresh

LEMMA InitInv == Init => Inv
<1> SUFFICES ASSUME Init PROVE Inv
  OBVIOUS
<1>1. op = [p \in Procs |-> Idle]
  BY DEF Init
<1>2. OpsOK
  BY <1>1, IdleFits DEF OpsOK
<1>3. DataOK
  <2>1. 0 \in 0..MaxID /\ Unassigned \in GroupIDs
    BY BoundsAssumption DEF GroupIDs, Unassigned
  <2>2. NoRows \in [IDs -> URLs \cup {None}]
    BY DEF NoRows
  <2> QED BY <2>1, <2>2, NoFile, NoRowsType, ModesAssumption DEF Init, DataOK
<1>4. BoundsOK
  BY BoundsAssumption DEF Init, BoundsOK
<1>5. AllFresh
  BY <1>1, IdleFits DEF AllFresh, Fresh, At
<1> QED BY <1>2, <1>3, <1>4, <1>5, Parts

LEMMA InvStep == Inv /\ [Next]_vars => Inv'
<1> SUFFICES ASSUME OpsOK, DataOK, BoundsOK, AllFresh, [Next]_vars
             PROVE  OpsOK' /\ DataOK' /\ AllFresh'
  BY BoundsKept, Parts, PTL
<1>1. ASSUME NEW p \in Procs, Begins(p) PROVE OpsOK' /\ DataOK' /\ AllFresh'
  <2>1. /\ Others(p) /\ OpsOK' /\ op'[p].pc # "snap.write"
        /\ UNCHANGED <<db, seq, proxies, external, file, overtaken>>
        /\ \/ UNCHANGED <<groups, groupSeq>>
           \/ groupSeq' \in GroupIDs /\ groups' = groups \cup {groupSeq'}
    BY <1>1, BeginMove DEF Begun
  <2>2. DataOK'
    BY <2>1 DEF DataOK
  <2> QED BY <2>1, <2>2, FreshSteady
<1>2. ASSUME NEW p \in Procs, Continue(p) \/ IOError(p) PROVE OpsOK' /\ DataOK' /\ AllFresh'
  BY <1>2, ContinueKeeps
<1>3. CASE FileChange
  <2>1. /\ file' \in Files
        /\ UNCHANGED <<db, seq, groups, groupSeq, proxies, external, op, overtaken>>
    BY <1>3 DEF FileChange, store
  <2> QED BY <2>1 DEF OpsOK, DataOK, AllFresh, Fresh, At
<1>4. CASE Restart
  <2>1. /\ op' = [p \in Procs |-> Idle] /\ overtaken' = {} /\ external' \in Modes
        /\ proxies' = [k \in Kinds |-> NoRows]
        /\ UNCHANGED <<db, seq, groups, groupSeq, file>>
    BY <1>4 DEF Restart, store
  <2>2. OpsOK' /\ AllFresh'
    BY <2>1, IdleFits DEF OpsOK, AllFresh, Fresh, At
  <2>3. NoRows \in [IDs -> URLs \cup {None}]
    BY DEF NoRows
  <2> QED BY <2>1, <2>2, <2>3, ModesAssumption DEF DataOK
<1>5. CASE UNCHANGED vars
  BY <1>5 DEF vars, store, OpsOK, DataOK, AllFresh, Fresh, At
<1> QED BY <1>1, <1>2, <1>3, <1>4, <1>5 DEF Next, Begins, Procs

(* What the requests and jobs leave in the buckets, and the copies they    *)
(* hold meanwhile, are endpoints and groups, however many run at once.     *)
THEOREM TypeCorrect == Spec => []TypeOK
<1>1. Inv => TypeOK
  BY DEF Inv
<1> QED BY InitInv, InvStep, <1>1, PTL DEF Spec

(* Any overlap: a snapshot changes nothing but the status and the snapshot *)
(* of an endpoint, and revives none, unless another write came between its *)
(* second read and its write (SnapshotEndpoint of the endpoint handlers    *)
(* and of the snapshot job).                                               *)
THEOREM SnapshotsKeep == Spec => SnapshotKeepsEarlierChanges
<1>1. ASSUME Inv, NEW p \in Procs \ overtaken, SnapshotWrite(p)
      PROVE  OnlySnapshotChanges(op[p].id)
  <2>1. /\ At(p, "snap.write") /\ db' = [db EXCEPT ![op[p].id] = op[p].row]
    BY <1>1 DEF SnapshotWrite, UpdateEndpoint
  <2>2. OnlySnapshotDiffers(db[op[p].id], op[p].row)
    BY <1>1, <2>1 DEF Inv, Fresh
  <2>3. op[p].id \in DOMAIN db
    BY <1>1, <2>1 DEF Inv, TypeOK, OpOK, Writing, Bucket, At
  <2>4. db'[op[p].id] = op[p].row
    BY <2>1, <2>3
  <2> QED BY <2>2, <2>4 DEF OnlySnapshotDiffers, OnlySnapshotChanges
<1>2. Inv /\ [Next]_vars =>
        [\A p \in Procs \ overtaken :
           SnapshotWrite(p) => OnlySnapshotChanges(op[p].id)]_vars
  BY <1>1
<1> QED BY InitInv, InvStep, <1>2, PTL DEF Spec, SnapshotKeepsEarlierChanges

-----------------------------------------------------------------------------
(* One operation at a time: what the process knows of the bucket.          *)
Restful == {"idle", "group.put", "group.delete", "group.list", "delete.proxies"}

LEMMA KnowsNothing ==
  ASSUME NEW p, op'[p].pc \in Restful
  PROVE  Knows(p)'
BY DEF Knows, At, Touching, Restful

LEMMA DoneKnows ==
  ASSUME OpsOK, NEW p \in Procs, Done(p)
  PROVE  Knows(p)'
<1>1. op'[p].pc = "idle"
  BY DoneMove, IdleFits
<1> QED BY <1>1 DEF Knows, At, Touching

LEMMA NumberedWrite ==
  ASSUME Numbered, DataOK, NEW id \in Rows, NEW row, db' = [db EXCEPT ![id] = row], seq' = seq
  PROVE  Numbered'
BY DEF Numbered, DataOK, Bucket, Rows

LEMMA NumberedSame ==
  ASSUME Numbered, UNCHANGED <<db, seq>>
  PROVE  Numbered'
BY DEF Numbered, Rows

LEMMA SoloBegin ==
  ASSUME OpsOK, DataOK, NEW p \in Procs, SoloInv(p), Begins(p)
  PROVE  SoloInv(p)'
<1>1. /\ OpsOK' /\ Begun(p) /\ UNCHANGED <<db, seq, external>>
  BY BeginMove
<1>2. \A id \in op'[p].todo : id \in IDs
  BY <1>1 DEF OpsOK, OpFits, Op
<1>3. Knows(p)'
  BY <1>1, <1>2 DEF Begun, Knows, At, Touching, Rows
<1> QED BY <1>1, <1>3, NumberedSame DEF SoloInv

LEMMA SoloContinue ==
  ASSUME OpsOK, DataOK, NEW p \in Procs, SoloInv(p), Continue(p) \/ IOError(p)
  PROVE  SoloInv(p)'
<1>0. Numbered /\ Knows(p) /\ OpFits(op[p])
  BY DEF SoloInv, OpsOK
<1>1. CASE CreatePersist(p)
  <2>1. /\ db' = [db EXCEPT ![seq + 1] = Snapshotted(op[p].row, op[p].row.url)]
        /\ seq' = seq + 1 /\ Done(p)
    BY <1>0, <1>1 DEF CreatePersist, CreateEndpoint, Knows
  <2>2. Numbered'
    BY <1>0, <2>1 DEF Numbered, Rows, DataOK, Bucket, IDs
  <2> QED BY <2>1, <2>2, DoneKnows DEF SoloInv
<1>2. CASE Persist(p)
  <2>1. op[p].id \in Rows /\ Done(p) /\ db' = [db EXCEPT ![op[p].id] = op[p].row] /\ seq' = seq
    BY <1>0, <1>2 DEF Persist, UpdateEndpoint, Knows, At, Touching
  <2> QED BY <1>0, <2>1, NumberedWrite, DoneKnows DEF SoloInv
<1>3. CASE Delete(p)
  <2>1. /\ op[p].id \in Rows /\ Advance(p, "delete.proxies") /\ At(p, "delete")
        /\ db' = [db EXCEPT ![op[p].id] = None] /\ seq' = seq
    BY <1>0, <1>3 DEF Delete, DeleteEndpoint, Knows, At, Touching
  <2>2. "delete.proxies" \in Points \ Writing
    BY DEF Points, Writing
  <2>3. op'[p].pc = "delete.proxies"
    BY <2>1, <2>2, AdvanceMove
  <2>4. Knows(p)'
    BY <2>3, KnowsNothing DEF Restful
  <2> QED BY <1>0, <2>1, <2>4, NumberedWrite DEF SoloInv
<1>4. CASE GroupWalk(p)
  <2>1. PICK id \in op[p].todo :
          /\ Walked(p, id)
          /\ \/ UNCHANGED <<db, seq, overtaken>>
             \/ \E group \in GroupIDs \cup {NoGroup} : Regroup(p, id, group)
    BY <1>4, GroupWalkMove
  <2>2. At(p, "group.walk") /\ op'[p].pc = "group.walk"
    BY <1>4, <2>1, WalkedMove DEF GroupWalk, At
  <2>3. op'[p].list = op[p].list /\ op'[p].todo = op[p].todo \ {id}
    BY <2>1, WalkedMove
  <2>4. \A other \in op[p].todo : op[p].list[other] = db[other] /\ other \in IDs
    BY <1>0, <2>2, ListedRow DEF Knows, At
  <2>5. id \in Rows
    BY <2>1, <2>4, ListedRow, NoEndpointAssumption DEF Rows
  <2>6. Numbered' /\ \A other \in IDs \ {id} : db'[other] = db[other]
    <3>1. CASE UNCHANGED <<db, seq, overtaken>>
      BY <1>0, <3>1, NumberedSame
    <3>2. CASE \E group \in GroupIDs \cup {NoGroup} : Regroup(p, id, group)
      <4>1. PICK row : db' = [db EXCEPT ![id] = row] /\ seq' = seq
        BY <3>2 DEF Regroup, UpdateEndpoint
      <4> QED BY <1>0, <2>5, <4>1, NumberedWrite DEF DataOK, Bucket
    <3> QED BY <2>1, <3>1, <3>2
  <2>7. Knows(p)'
    BY <2>2, <2>3, <2>4, <2>6 DEF Knows, At, Touching
  <2> QED BY <2>6, <2>7 DEF SoloInv
<1>5. CASE SnapshotWrite(p)
  <2>1. /\ op[p].id \in Rows /\ At(p, "snap.write")
        /\ db' = [db EXCEPT ![op[p].id] = op[p].row] /\ seq' = seq
    BY <1>0, <1>5 DEF SnapshotWrite, UpdateEndpoint, Knows, At, Touching
  <2>2. /\ op'[p].pc = "snap.read" /\ op'[p].list = op[p].list
        /\ op'[p].todo = op[p].todo \ {op[p].id}
    BY <1>5, SnapshotWriteMove
  <2>3. \A id \in op[p].todo : op[p].list[id] = db[id] /\ id \in IDs
    BY <1>0, <2>1, ListedRow DEF Knows, At
  <2>4. \A id \in IDs \ {op[p].id} : db'[id] = db[id]
    BY <2>1 DEF DataOK, Bucket
  <2>5. Knows(p)'
    BY <2>2, <2>3, <2>4 DEF Knows, At, Touching
  <2> QED BY <1>0, <2>1, <2>5, NumberedWrite DEF SoloInv
<1>6. CASE Sync(p)
  <2>1. op[p].list = db /\ Done(p)
    BY <1>0, <1>6 DEF Knows, Sync
  <2>2. seq \in Nat /\ seq' \in Nat /\ seq <= seq'
    BY <1>6, SyncMove, BoundsAssumption DEF DataOK
  <2>3. \A id \in IDs : id \in Listed(op[p].list) \/ id \in (seq + 1)..seq' \/ db'[id] = db[id]
    BY <1>6, SyncMove
  <2>4. Numbered'
    BY <1>0, <2>1, <2>2, <2>3 DEF Numbered, Rows, Listed, IDs
  <2> QED BY <2>1, <2>4, DoneKnows DEF SoloInv
<1>7. CASE SnapshotRead(p)
  <2>1. PICK id \in op[p].todo :
          \/ id \in Rows /\ op'[p].pc = "snap.write" /\ op'[p].id = id /\ op'[p].todo = op[p].todo
          \/ op'[p].pc = "snap.read" /\ op'[p].todo = op[p].todo \ {id}
    BY <1>7, SnapshotReadMove
  <2>2. op'[p].list = op[p].list /\ At(p, "snap.read") /\ UNCHANGED <<db, seq>>
    BY <1>7, SnapshotReadMove DEF SnapshotRead, store
  <2>3. \A other \in op[p].todo : op[p].list[other] = db[other]
    BY <1>0, <2>2 DEF Knows, At
  <2>4. Knows(p)'
    BY <2>1, <2>2, <2>3 DEF Knows, At, Touching, Rows
  <2> QED BY <1>0, <2>2, <2>4, NumberedSame DEF SoloInv
<1>8. CASE UpdateProxy(p)
  <2>1. /\ At(p, "update.proxy") /\ Advance(p, "persist") /\ UNCHANGED <<db, seq>>
        /\ op[p].pc \in Writing /\ "persist" \in Points
    BY <1>8 DEF UpdateProxy, store, At, Writing, Points
  <2>2. op'[p].pc = "persist" /\ op'[p].id = op[p].id
    BY <2>1, AdvanceMove DEF SameWork
  <2>3. op[p].id \in Rows
    BY <1>0, <2>1 DEF Knows, At, Touching
  <2>4. Knows(p)'
    BY <2>1, <2>2, <2>3 DEF Knows, At, Touching, Rows
  <2> QED BY <1>0, <2>1, <2>4, NumberedSame DEF SoloInv
<1>9. CASE GroupPut(p) \/ GroupDelete(p)
  <2>1. Advance(p, "group.list") /\ UNCHANGED <<db, seq>>
    BY <1>9 DEF GroupPut, GroupDelete
  <2>2. "group.list" \in Points \ Writing
    BY DEF Points, Writing
  <2>3. op'[p].pc = "group.list"
    BY <2>1, <2>2, AdvanceMove
  <2>4. Knows(p)'
    BY <2>3, KnowsNothing DEF Restful
  <2> QED BY <1>0, <2>1, <2>4, NumberedSame DEF SoloInv
<1>10. CASE GroupList(p)
  <2>1. op'[p].pc = "group.walk" /\ op'[p].list = db /\ UNCHANGED <<db, seq>>
    BY <1>10, GroupListMove DEF GroupList, store
  <2>2. Knows(p)'
    BY <2>1 DEF Knows, At, Touching
  <2> QED BY <1>0, <2>1, <2>2, NumberedSame DEF SoloInv
<1>11. CASE ProxyGet(p) /\ Advance(p, "proxy.create")
  <2>1. /\ At(p, "proxy.get") /\ UNCHANGED <<db, seq>>
        /\ op[p].pc \in Writing /\ "proxy.create" \in Points
    BY <1>11 DEF ProxyGet, store, At, Writing, Points
  <2>2. op'[p].pc = "proxy.create" /\ op'[p].id = op[p].id
    BY <1>11, <2>1, AdvanceMove DEF SameWork
  <2>3. op[p].id \in Rows
    BY <1>0, <2>1 DEF Knows, At, Touching
  <2>4. Knows(p)'
    BY <2>1, <2>2, <2>3 DEF Knows, At, Touching, Rows
  <2> QED BY <1>0, <2>1, <2>4, NumberedSame DEF SoloInv
<1>12. CASE Done(p) /\ UNCHANGED <<db, seq>>
  BY <1>0, <1>12, DoneKnows, NumberedSame DEF SoloInv
<1>13. ASSUME \/ DeleteProxies(p) \/ GroupDone(p) \/ SnapshotDone(p) \/ ProxyCreate(p)
              \/ IOError(p)
       PROVE  Done(p) /\ UNCHANGED <<db, seq>>
  BY <1>13 DEF DeleteProxies, GroupDone, SnapshotDone, ProxyCreate, IOError, store
<1>14. ProxyGet(p) => Advance(p, "proxy.create") \/ (Done(p) /\ UNCHANGED <<db, seq>>)
  BY DEF ProxyGet, store
<1> QED BY <1>1, <1>2, <1>3, <1>4, <1>5, <1>6, <1>7, <1>8, <1>9, <1>10, <1>11, <1>12,
           <1>13, <1>14 DEF Continue

-----------------------------------------------------------------------------
(* One operation at a time: the groups of the endpoints exist.             *)
LEMMA GroupsBegin ==
  ASSUME OpsOK, DataOK, NEW p \in Procs, GroupsInv(p), Begins(p)
  PROVE  GroupsInv(p)'
<1>1. /\ Begun(p) /\ At(p, "idle") /\ UNCHANGED <<db, external, restarts, faults>>
      /\ groups \subseteq groups' /\ strays \subseteq strays'
  BY BeginMove DEF past
<1>2. GroupSteps(p)'
  BY <1>1 DEF GroupsInv, GroupSteps, Begun, At
<1>3. ASSUME RowsGrouped(p) PROVE RowsGrouped(p)' /\ HeldGrouped(p)'
  <2>1. \A id \in Rows : GroupKnown(db[id].group)
    BY <1>1, <1>3 DEF RowsGrouped, Moving, At
  <2>2. \A group : GroupKnown(group) => GroupKnown(group)'
    BY <1>1 DEF GroupKnown
  <2>3. RowsGrouped(p)'
    BY <1>1, <2>1, <2>2 DEF RowsGrouped, Rows
  <2>4. ASSUME op'[p].pc \in {"create.persist", "update.proxy", "persist", "snap.write"}
        PROVE  GroupKnown(op[p].row.group)'
    <3>1. CASE op'[p].row.group \in groups \cup strays'
      BY <1>1, <3>1 DEF GroupKnown
    <3>2. CASE op'[p].id \in Rows /\ op'[p].row.group = db[op'[p].id].group
      <4>1. GroupKnown(op'[p].row.group)
        BY <2>1, <3>2
      <4> QED BY <1>1, <4>1 DEF GroupKnown
    <3> QED BY <1>1, <2>4, <3>1, <3>2 DEF Begun, At
  <2>5. op'[p].pc \in {"group.list", "group.walk"} => op'[p].group \in groups'
    BY <1>1 DEF Begun, At
  <2> QED BY <2>2, <2>3, <2>4, <2>5 DEF HeldGrouped
<1> QED BY <1>1, <1>2, <1>3 DEF GroupsInv

(* A step that neither begins nor ends a change of groups.                 *)
LEMMA GroupsAside ==
  ASSUME NEW p, GroupsInv(p), UNCHANGED <<groups, external, strays, restarts, faults>>,
         op[p].pc \notin {"group.list", "group.walk"},
         op'[p].pc \notin {"group.put", "group.delete", "group.list", "group.walk"},
         RowsGrouped(p) /\ HeldGrouped(p) =>
           /\ \A id \in Rows' : (id \in Rows /\ db'[id] = db[id]) \/ GroupKnown(db'[id].group)
           /\ op'[p].pc \in {"create.persist", "update.proxy", "persist", "snap.write"} =>
                GroupKnown(op'[p].row.group)
  PROVE  GroupsInv(p)'
<1>1. GroupSteps(p)'
  BY DEF GroupsInv, GroupSteps, At
<1>2. ASSUME RowsGrouped(p), HeldGrouped(p) PROVE RowsGrouped(p)' /\ HeldGrouped(p)'
  <2>1. \A group : GroupKnown(group) => GroupKnown(group)'
    BY DEF GroupKnown
  <2>2. \A id \in Rows : GroupKnown(db[id].group)
    BY <1>2 DEF RowsGrouped, Moving, At
  <2>3. \A id \in Rows' : GroupKnown(db'[id].group)
    BY <1>2, <2>2
  <2>4. RowsGrouped(p)'
    BY <2>1, <2>3 DEF RowsGrouped
  <2>5. HeldGrouped(p)'
    BY <1>2, <2>1 DEF HeldGrouped
  <2> QED BY <2>4, <2>5
<1> QED BY <1>1, <1>2 DEF GroupsInv

LEMMA GroupsEnd ==
  ASSUME OpsOK, NEW p \in Procs, GroupsInv(p), UNCHANGED <<groups, external, strays, restarts, faults>>,
         op[p].pc \notin {"group.list", "group.walk"}, Done(p),
         RowsGrouped(p) /\ HeldGrouped(p) =>
           \A id \in Rows' : (id \in Rows /\ db'[id] = db[id]) \/ GroupKnown(db'[id].group)
  PROVE  GroupsInv(p)'
<1>1. op'[p].pc = "idle"
  BY DoneMove, IdleFits
<1> QED BY <1>1, GroupsAside

LEMMA GroupsContinue ==
  ASSUME OpsOK, DataOK, NEW p \in Procs, SoloInv(p), GroupsInv(p), Continue(p)
  PROVE  GroupsInv(p)'
<1>0. /\ Knows(p) /\ OpFits(op[p]) /\ op[p] \in Op
  BY DEF SoloInv, OpsOK, OpFits
<1>1. CASE CreatePersist(p)
  <2> DEFINE row == Snapshotted(op[p].row, op[p].row.url)
  <2>1. op[p].id \in IDs /\ op[p].row \in Endpoint
    BY <1>0, <1>1 DEF CreatePersist, OpFits, At, Writing
  <2>2. row.group = op[p].row.group
    <3>1. op[p].row.url \in URLs
      BY <2>1 DEF Endpoint
    <3> QED BY <2>1, <3>1, SnapshottedRow
  <2>3. /\ db' = [db EXCEPT ![op[p].id] = row] /\ Done(p) /\ At(p, "create.persist")
        /\ UNCHANGED <<groups, external, strays, restarts, faults>>
    BY <1>1 DEF CreatePersist, CreateEndpoint, past
  <2> HIDE DEF row
  <2>4. HeldGrouped(p) =>
          \A id \in Rows' : (id \in Rows /\ db'[id] = db[id]) \/ GroupKnown(db'[id].group)
    BY <2>1, <2>2, <2>3 DEF HeldGrouped, At, DataOK, Bucket, Rows
  <2>5. op[p].pc \notin {"group.list", "group.walk"}
    BY <2>3 DEF At
  <2> QED BY <2>3, <2>4, <2>5, GroupsEnd
<1>2. CASE Persist(p)
  <2>1. /\ db' = [db EXCEPT ![op[p].id] = op[p].row] /\ Done(p) /\ At(p, "persist")
        /\ UNCHANGED <<groups, external, strays, restarts, faults>>
    BY <1>2 DEF Persist, UpdateEndpoint, past
  <2>2. op[p].id \in IDs
    BY <1>0, <2>1 DEF OpFits, At, Writing
  <2>3. HeldGrouped(p) =>
          \A id \in Rows' : (id \in Rows /\ db'[id] = db[id]) \/ GroupKnown(db'[id].group)
    BY <2>1, <2>2 DEF HeldGrouped, At, DataOK, Bucket, Rows
  <2>4. op[p].pc \notin {"group.list", "group.walk"}
    BY <2>1 DEF At
  <2> QED BY <2>1, <2>3, <2>4, GroupsEnd
<1>3. CASE Delete(p)
  <2>1. /\ db' = [db EXCEPT ![op[p].id] = None] /\ Advance(p, "delete.proxies")
        /\ At(p, "delete") /\ UNCHANGED <<groups, external, strays, restarts, faults>>
    BY <1>3 DEF Delete, DeleteEndpoint, past
  <2>2. "delete.proxies" \in Points \ Writing
    BY DEF Points, Writing
  <2>3. op'[p].pc = "delete.proxies" /\ op[p].pc = "delete"
    BY <2>1, <2>2, AdvanceMove DEF At
  <2>4. \A id \in Rows' : id \in Rows /\ db'[id] = db[id]
    BY <2>1 DEF DataOK, Bucket, Rows
  <2> QED BY <2>1, <2>3, <2>4, GroupsAside
<1>4. CASE UpdateProxy(p)
  <2>1. /\ At(p, "update.proxy") /\ Advance(p, "persist") /\ UNCHANGED db
        /\ op[p].pc \in Writing /\ "persist" \in Points
        /\ UNCHANGED <<groups, external, strays, restarts, faults>>
    BY <1>4 DEF UpdateProxy, store, At, Writing, Points, past
  <2>2. op'[p].pc = "persist" /\ op'[p].row = op[p].row /\ op[p].pc = "update.proxy"
    BY <2>1, AdvanceMove DEF SameWork, At
  <2>3. /\ \A id \in Rows' : id \in Rows /\ db'[id] = db[id]
        /\ HeldGrouped(p) => GroupKnown(op'[p].row.group)
    BY <2>1, <2>2 DEF Rows, HeldGrouped
  <2> QED BY <2>1, <2>2, <2>3, GroupsAside
<1>5. CASE ProxyGet(p) /\ Advance(p, "proxy.create")
  <2>1. /\ At(p, "proxy.get") /\ UNCHANGED db
        /\ op[p].pc \in Writing /\ "proxy.create" \in Points
        /\ UNCHANGED <<groups, external, strays, restarts, faults>>
    BY <1>5 DEF ProxyGet, store, At, Writing, Points, past
  <2>2. op'[p].pc = "proxy.create" /\ op[p].pc = "proxy.get"
    BY <1>5, <2>1, AdvanceMove DEF At
  <2>3. \A id \in Rows' : id \in Rows /\ db'[id] = db[id]
    BY <2>1 DEF Rows
  <2> QED BY <2>1, <2>2, <2>3, GroupsAside
<1>6. CASE DeleteProxies(p) \/ ProxyCreate(p) \/ SnapshotDone(p) \/ (ProxyGet(p) /\ Done(p))
  <2>1. /\ Done(p) /\ UNCHANGED <<groups, external, strays, restarts, faults>> /\ UNCHANGED db
        /\ op[p].pc \notin {"group.list", "group.walk"}
    BY <1>6 DEF DeleteProxies, ProxyCreate, SnapshotDone, ProxyGet, store, past, At
  <2>2. \A id \in Rows' : id \in Rows /\ db'[id] = db[id]
    BY <2>1 DEF Rows
  <2> QED BY <2>1, <2>2, GroupsEnd
<1>7. CASE GroupPut(p)
  <2>1. /\ At(p, "group.put") /\ Advance(p, "group.list") /\ op[p].kind = "update"
        /\ groups' = groups \cup {op[p].group}
        /\ UNCHANGED <<db, external, strays, restarts, faults>>
    BY <1>7 DEF GroupPut, past, GroupsInv, GroupSteps
  <2>2. "group.list" \in Points \ Writing
    BY DEF Points, Writing
  <2>3. op'[p].pc = "group.list" /\ op'[p].group = op[p].group
    BY <2>1, <2>2, AdvanceMove DEF SameWork
  <2>4. GroupSteps(p)'
    BY <2>1, <2>3 DEF GroupsInv, GroupSteps, At
  <2>5. ASSUME RowsGrouped(p) PROVE RowsGrouped(p)'
    BY <2>1, <2>5 DEF RowsGrouped, Moving, At, GroupKnown, Rows
  <2>6. HeldGrouped(p)'
    BY <2>1, <2>3 DEF HeldGrouped
  <2> QED BY <2>1, <2>4, <2>5, <2>6 DEF GroupsInv
<1>8. CASE GroupDelete(p)
  <2>1. /\ At(p, "group.delete") /\ Advance(p, "group.list") /\ op[p].kind = "delete"
        /\ groups' = groups \ {op[p].group} /\ op[p].group # Unassigned
        /\ UNCHANGED <<db, external, strays, restarts, faults>>
    BY <1>8 DEF GroupDelete, past, GroupsInv, GroupSteps
  <2>2. "group.list" \in Points \ Writing
    BY DEF Points, Writing
  <2>3. op'[p].pc = "group.list" /\ op'[p].group = op[p].group /\ op'[p].kind = "delete"
    BY <2>1, <2>2, AdvanceMove DEF SameWork
  <2>4. GroupSteps(p)'
    BY <2>1, <2>3 DEF GroupsInv, GroupSteps, At
  <2>5. ASSUME RowsGrouped(p) PROVE RowsGrouped(p)'
    BY <2>1, <2>3, <2>5 DEF RowsGrouped, Moving, At, GroupKnown, Rows
  <2>6. HeldGrouped(p)'
    BY <2>1, <2>3 DEF HeldGrouped
  <2> QED BY <2>1, <2>4, <2>5, <2>6 DEF GroupsInv
<1>9. CASE GroupList(p)
  <2>1. /\ At(p, "group.list") /\ op'[p].pc = "group.walk" /\ op'[p].todo = Rows
        /\ op'[p].kind = op[p].kind /\ op'[p].group = op[p].group
        /\ UNCHANGED <<db, groups, external, strays, restarts, faults>>
    BY <1>9, GroupListMove DEF GroupList, store, past
  <2>2. GroupSteps(p)'
    BY <2>1 DEF GroupsInv, GroupSteps, At
  <2>3. ASSUME RowsGrouped(p) PROVE RowsGrouped(p)'
    BY <2>1, <2>3 DEF RowsGrouped, Moving, At, GroupKnown, Rows
  <2>4. ASSUME HeldGrouped(p) PROVE HeldGrouped(p)'
    BY <2>1, <2>4 DEF HeldGrouped, At
  <2> QED BY <2>1, <2>2, <2>3, <2>4 DEF GroupsInv
<1>10. CASE GroupDone(p)
  <2>1. /\ At(p, "group.walk") /\ op[p].todo = {} /\ Done(p)
        /\ UNCHANGED <<db, groups, external, strays, restarts, faults>>
    BY <1>10 DEF GroupDone, store, past
  <2>2. op'[p].pc = "idle"
    BY <2>1, DoneMove, IdleFits
  <2>3. GroupSteps(p)'
    BY <2>1, <2>2 DEF GroupsInv, GroupSteps, At
  <2>4. ASSUME RowsGrouped(p) PROVE RowsGrouped(p)'
    BY <2>1, <2>4 DEF RowsGrouped, Moving, At, GroupKnown, Rows
  <2>5. HeldGrouped(p)'
    BY <2>2 DEF HeldGrouped
  <2> QED BY <2>1, <2>3, <2>4, <2>5 DEF GroupsInv
<1>11. CASE SnapshotRead(p)
  <2>1. /\ At(p, "snap.read") /\ UNCHANGED <<groups, external, strays, restarts, faults>>
        /\ UNCHANGED db
    BY <1>11 DEF SnapshotRead, store, past
  <2>2. PICK id \in op[p].todo :
          /\ op[p].list[id].url \in URLs
          /\ \/ /\ id \in Rows /\ op'[p].pc = "snap.write"
                /\ op'[p].row = Snapshotted(db[id], op[p].list[id].url)
             \/ op'[p].pc = "snap.read"
    BY <1>11, SnapshotReadMove
  <2>3. \/ op'[p].pc = "snap.read"
        \/ id \in Rows /\ op'[p].pc = "snap.write" /\ op'[p].row.group = db[id].group
    BY <2>2, RowTypes, SnapshottedRow
  <2>4. /\ \A other \in Rows' : other \in Rows /\ db'[other] = db[other]
        /\ RowsGrouped(p) /\ op'[p].pc = "snap.write" => GroupKnown(op'[p].row.group)
    BY <2>1, <2>3 DEF Rows, RowsGrouped, Moving, At
  <2>5. op[p].pc = "snap.read" /\ op'[p].pc \in {"snap.read", "snap.write"}
    BY <2>1, <2>3 DEF At
  <2> QED BY <2>1, <2>4, <2>5, GroupsAside
<1>12. CASE SnapshotWrite(p)
  <2>1. /\ db' = [db EXCEPT ![op[p].id] = op[p].row] /\ op[p].pc = "snap.write"
        /\ UNCHANGED <<groups, external, strays, restarts, faults>>
    BY <1>12 DEF SnapshotWrite, UpdateEndpoint, past, At
  <2>2. op[p].id \in IDs /\ op'[p].pc = "snap.read"
    BY <1>0, <1>12, <2>1, SnapshotWriteMove DEF OpFits, Writing
  <2>3. HeldGrouped(p) =>
          \A id \in Rows' : (id \in Rows /\ db'[id] = db[id]) \/ GroupKnown(db'[id].group)
    BY <2>1, <2>2 DEF HeldGrouped, DataOK, Bucket, Rows
  <2> QED BY <2>1, <2>2, <2>3, GroupsAside
<1>13. CASE Sync(p)
  <2>1. /\ At(p, "sync") /\ Done(p) /\ external /\ op[p].list = db
        /\ UNCHANGED <<groups, external, strays, restarts, faults>>
    BY <1>0, <1>13 DEF Sync, Knows, past
  <2>2. PICK names \in [(seq + 1)..seq' -> Missing(op[p].list, op[p].wanted)] :
          \A id \in IDs :
             \/ id \in Listed(op[p].list) /\ db'[id] = Merged(op[p].list[id], op[p].wanted)
             \/ db'[id] = Created(names[id], op[p].wanted[names[id]])
             \/ db'[id] = db[id]
    BY <1>13, SyncMove
  <2>3. ASSUME NEW id \in Rows', RowsGrouped(p)
        PROVE  (id \in Rows /\ db'[id] = db[id]) \/ GroupKnown(db'[id].group)
    <3>1. id \in IDs /\ db'[id] # None
      BY DEF Rows
    <3>2. CASE id \in Listed(db) /\ db'[id] = Merged(db[id], op[p].wanted)
      <4>1. id \in Rows /\ db[id] \in Endpoint
        BY <3>2, RowTypes DEF Listed, Rows
      <4>2. db'[id] = [db[id] EXCEPT !.url = op[p].wanted[db[id].name]]
        BY <3>1, <3>2 DEF Merged
      <4>3. db'[id].group = db[id].group
        BY <4>1, <4>2 DEF Endpoint
      <4>4. ~Moving(p, id)
        BY <2>1 DEF Moving, At
      <4> QED BY <2>3, <4>1, <4>3, <4>4 DEF RowsGrouped
    <3>3. CASE db'[id] = Created(names[id], op[p].wanted[names[id]])
      BY <2>1, <3>3 DEF Created, GroupKnown
    <3> QED BY <2>1, <2>2, <3>1, <3>2, <3>3 DEF Rows
  <2>4. op[p].pc \notin {"group.list", "group.walk"}
    BY <2>1 DEF At
  <2> QED BY <2>1, <2>3, <2>4, GroupsEnd
<1>14. CASE GroupWalk(p)
  <2>1. PICK id \in op[p].todo :
          /\ Walked(p, id)
          /\ \/ /\ UNCHANGED <<db, seq, overtaken>>
                /\ ~Joins(op[p], id) /\ ~Leaves(op[p], id)
             \/ \E group \in GroupIDs \cup {NoGroup} :
                  /\ Regroup(p, id, group)
                  /\ \/ group = op[p].group /\ Joins(op[p], id)
                     \/ group = Unassigned
    BY <1>14, GroupWalkMove
  <2>2. /\ At(p, "group.walk") /\ At(p, "group.walk")'
        /\ UNCHANGED <<groups, external, strays, restarts, faults>>
        /\ op'[p].todo = op[p].todo \ {id} /\ op'[p].kind = op[p].kind
        /\ op'[p].group = op[p].group
    BY <1>14, <2>1, WalkedMove DEF GroupWalk, At, past
  <2>3. id \in IDs /\ op[p].list[id] = db[id] /\ db[id] \in Endpoint
    BY <1>0, <2>1, <2>2, ListedRow DEF Knows, At
  <2>4. GroupSteps(p)'
    BY <2>2 DEF GroupsInv, GroupSteps, At
  <2>5. ASSUME RowsGrouped(p), HeldGrouped(p) PROVE RowsGrouped(p)'
    <3>1. GroupKnown(db'[id].group)
      <4>1. CASE UNCHANGED <<db, seq, overtaken>> /\ ~Leaves(op[p], id)
        <5>1. id \in Rows
          BY <2>3, NoEndpointAssumption DEF Rows
        <5>2. ~Moving(p, id)
          BY <2>3, <4>1 DEF Moving, Leaves
        <5> QED BY <2>5, <4>1, <5>1, <5>2 DEF RowsGrouped
      <4>2. ASSUME NEW group \in GroupIDs \cup {NoGroup}, Regroup(p, id, group),
                   \/ group = op[p].group /\ Joins(op[p], id)
                   \/ group = Unassigned
            PROVE  GroupKnown(db'[id].group)
        <5>1. db'[id] = [db[id] EXCEPT !.group = group]
          BY <2>3, <4>2 DEF Regroup, UpdateEndpoint, DataOK, Bucket
        <5>2. db'[id].group = group
          BY <2>3, <5>1 DEF Endpoint
        <5>3. group \in groups
          BY <2>2, <2>5, <4>2 DEF GroupsInv, GroupSteps, HeldGrouped, Joins, At
        <5> QED BY <5>2, <5>3 DEF GroupKnown
      <4> QED BY <2>1, <4>1, <4>2
    <3>2. ASSUME NEW other \in Rows', other # id
          PROVE  other \in Rows /\ db'[other] = db[other]
      <4>1. other \in IDs /\ db'[other] # None
        BY DEF Rows
      <4>2. db'[other] = db[other]
        <5>1. UNCHANGED db \/ \E row : db' = [db EXCEPT ![id] = row]
          BY <2>1 DEF Regroup, UpdateEndpoint
        <5> QED BY <3>2, <4>1, <5>1 DEF DataOK, Bucket
      <4> QED BY <4>1, <4>2 DEF Rows
    <3>3. ASSUME NEW other \in Rows', other # id
          PROVE  GroupKnown(db[other].group)' \/ Moving(p, other)'
      <4>1. GroupKnown(db[other].group) \/ Moving(p, other)
        BY <2>5, <3>2, <3>3 DEF RowsGrouped
      <4>2. db'[other] = db[other]
        BY <3>2, <3>3
      <4> QED BY <2>2, <3>3, <4>1, <4>2 DEF GroupKnown, Moving, At
    <3>4. GroupKnown(db[id].group)'
      BY <2>2, <3>1 DEF GroupKnown
    <3> QED BY <3>3, <3>4 DEF RowsGrouped
  <2>6. ASSUME HeldGrouped(p) PROVE HeldGrouped(p)'
    BY <2>2, <2>6 DEF HeldGrouped, At
  <2> QED BY <2>2, <2>4, <2>5, <2>6 DEF GroupsInv
<1>15. ProxyGet(p) => Advance(p, "proxy.create") \/ Done(p)
  BY DEF ProxyGet
<1> QED BY <1>1, <1>2, <1>3, <1>4, <1>5, <1>6, <1>7, <1>8, <1>9, <1>10, <1>11, <1>12,
           <1>13, <1>14, <1>15 DEF Continue

(* The steps of one process alone: its own, and those of no process.       *)
LEMMA AloneStep ==
  ASSUME NEW p, Procs = {p}, [Next]_vars
  PROVE  Begins(p) \/ Continue(p) \/ IOError(p) \/ FileChange \/ Restart \/ UNCHANGED vars
<1>1. \A q \in Foreground \cup Background : q = p
  BY DEF Procs
<1> QED BY <1>1 DEF Next, Begins, Procs

LEMMA FaultCounted ==
  ASSUME OpsOK, BoundsOK, NEW p \in Procs, IOError(p)
  PROVE  /\ faults' # 0 /\ op'[p] = Idle
         /\ UNCHANGED <<db, seq, groups, proxies, external, strays, restarts>>
<1>1. faults' = faults + 1 /\ faults \in Nat
  BY BoundsAssumption DEF IOError, BoundsOK
<1> QED BY <1>1, DoneMove DEF IOError, store

LEMMA RestartMove ==
  ASSUME BoundsOK, NEW p \in Procs, Restart
  PROVE  /\ restarts' # 0 /\ op'[p] = Idle /\ proxies' = [k \in Kinds |-> NoRows]
         /\ UNCHANGED <<db, seq, groups>>
<1>1. restarts' = restarts + 1 /\ restarts \in Nat
  BY BoundsAssumption DEF Restart, BoundsOK
<1> QED BY <1>1 DEF Restart, store

-----------------------------------------------------------------------------
(* One operation at a time: proxies.                                       *)
DockerCurrent(id, url) ==
  proxies["docker"][id] # None => id \in Rows /\ proxies["docker"][id] = url
ExtensionCurrent(id) == proxies["extension"][id] # None => id \in Rows
Current(id) == DockerCurrent(id, db[id].url) /\ ExtensionCurrent(id)

LEMMA ProxyParts ==
  ASSUME NEW p, NEW id
  PROVE  /\ op[p].pc \notin {"persist", "delete.proxies"} => (ProxyOK(p, id) <=> Current(id))
         /\ op[p].id # id => (ProxyOK(p, id) <=> Current(id))
         /\ At(p, "delete.proxies") /\ op[p].id = id => ProxyOK(p, id)
         /\ At(p, "persist") /\ op[p].id = id =>
              (ProxyOK(p, id) <=> DockerCurrent(id, op[p].row.url) /\ ExtensionCurrent(id))
BY DEF ProxyOK, Current, DockerCurrent, ExtensionCurrent, At

(* A row that is written keeps its address, and so its proxy.              *)
LEMMA CurrentStays ==
  ASSUME NEW id, Current(id), UNCHANGED proxies,
         id \in Rows => id \in Rows' /\ db'[id].url = db[id].url
  PROVE  Current(id)'
BY DEF Current, DockerCurrent, ExtensionCurrent

LEMMA ProxiesBegin ==
  ASSUME OpsOK, DataOK, NEW p \in Procs, ProxiesInv(p), Begins(p)
  PROVE  ProxiesInv(p)'
<1>1. /\ Begun(p) /\ At(p, "idle") /\ UNCHANGED <<db, proxies, external, faults>>
  BY BeginMove DEF past
<1>2. ASSUME NEW id \in IDs, ProxyOK(p, id) PROVE ProxyOK(p, id)'
  <2>1. Current(id)
    BY <1>1, <1>2, ProxyParts DEF At
  <2> QED BY <1>1, <2>1 DEF ProxyOK, Current, DockerCurrent, ExtensionCurrent, At, Begun, Rows
<1>3. op'[p].pc \in {"snap.write", "proxy.get", "proxy.create"} =>
        op'[p].row.url = db'[op'[p].id].url
  BY <1>1 DEF Begun, At
<1> QED BY <1>1, <1>2, <1>3 DEF ProxiesInv

(* A step between two points at which every proxy is current.              *)
LEMMA ProxiesAside ==
  ASSUME NEW p, ProxiesInv(p), UNCHANGED <<external, faults>>,
         op[p].pc \notin {"persist", "delete.proxies"},
         op'[p].pc \notin {"persist", "delete.proxies"},
         \A id \in IDs : Current(id) => Current(id)',
         op'[p].pc \in {"snap.write", "proxy.get", "proxy.create"} =>
           op'[p].row.url = db'[op'[p].id].url
  PROVE  ProxiesInv(p)'
<1>1. \A id \in IDs : ProxyOK(p, id) => ProxyOK(p, id)'
  BY DEF ProxyOK, Current, DockerCurrent, ExtensionCurrent, At
<1> QED BY <1>1 DEF ProxiesInv

LEMMA ProxiesContinue ==
  ASSUME OpsOK, DataOK, NEW p \in Procs, SoloInv(p), ProxiesInv(p), Continue(p)
  PROVE  ProxiesInv(p)'
<1>0. /\ Numbered /\ Knows(p) /\ OpFits(op[p]) /\ op[p] \in Op
  BY DEF SoloInv, OpsOK, OpFits
<1>1. CASE CreatePersist(p)
  <2>1. /\ At(p, "create.persist") /\ op[p].id \in IDs
        /\ db' = [db EXCEPT ![op[p].id] = Snapshotted(op[p].row, op[p].row.url)]
        /\ Done(p) /\ UNCHANGED <<proxies, external, faults>>
    BY <1>0, <1>1 DEF CreatePersist, CreateEndpoint, OpFits, At, Writing, past
  <2>2. op[p].id \notin Rows
    <3>1. op[p].id = seq + 1 /\ seq \in Nat
      BY <1>0, <2>1, BoundsAssumption DEF Knows, DataOK
    <3> QED BY <1>0, <3>1 DEF Numbered
  <2>3. ASSUME NEW id \in IDs, Current(id) PROVE Current(id)'
    <3>1. id \in Rows => id \in Rows' /\ db'[id].url = db[id].url
      BY <2>1, <2>2 DEF DataOK, Bucket, Rows
    <3> QED BY <2>1, <2>3, <3>1, CurrentStays
  <2>4. op'[p].pc = "idle" /\ op[p].pc = "create.persist"
    BY <2>1, DoneMove, IdleFits DEF At
  <2> QED BY <2>1, <2>3, <2>4, ProxiesAside
<1>2. CASE UpdateProxy(p)
  <2>1. /\ At(p, "update.proxy") /\ Advance(p, "persist") /\ UNCHANGED <<db, external, faults>>
        /\ op[p].pc \in Writing /\ "persist" \in Points
        /\ proxies' = [proxies EXCEPT !["docker"][op[p].id] = op[p].row.url]
    BY <1>2 DEF UpdateProxy, store, At, Writing, Points, past
  <2>2. /\ op'[p].pc = "persist" /\ op'[p].row = op[p].row /\ op'[p].id = op[p].id
        /\ op[p].pc = "update.proxy"
    BY <2>1, AdvanceMove DEF SameWork, At
  <2>3. op[p].id \in Rows /\ op[p].id \in IDs
    BY <1>0, <2>2 DEF Knows, Touching, Rows
  <2>4. /\ \A id \in IDs : proxies'["extension"][id] = proxies["extension"][id]
        /\ \A id \in IDs \ {op[p].id} : proxies'["docker"][id] = proxies["docker"][id]
        /\ proxies'["docker"][op[p].id] = op[p].row.url
    BY <2>1, <2>3 DEF DataOK, Kinds
  <2>5. ASSUME NEW id \in IDs, ProxyOK(p, id) PROVE ProxyOK(p, id)'
    <3>1. Current(id)
      BY <2>2, <2>5, ProxyParts
    <3> QED BY <2>1, <2>2, <2>3, <2>4, <3>1
            DEF ProxyOK, Current, DockerCurrent, ExtensionCurrent, At, Rows
  <2> QED BY <2>1, <2>2, <2>5 DEF ProxiesInv
<1>3. CASE Persist(p)
  <2>1. /\ At(p, "persist") /\ db' = [db EXCEPT ![op[p].id] = op[p].row]
        /\ Done(p) /\ UNCHANGED <<proxies, external, faults>>
    BY <1>3 DEF Persist, UpdateEndpoint, past
  <2>2. op[p].id \in IDs /\ op[p].id \in Rows /\ op[p].row # None
    BY <1>0, <2>1, NoEndpointAssumption DEF OpFits, Writing, Knows, Touching, At
  <2>3. op'[p].pc = "idle"
    BY <2>1, DoneMove, IdleFits
  <2>4. ASSUME NEW id \in IDs, ProxyOK(p, id) PROVE ProxyOK(p, id)'
    <3>1. CASE id = op[p].id
      <4>1. DockerCurrent(id, op[p].row.url) /\ ExtensionCurrent(id)
        BY <2>1, <2>4, <3>1, ProxyParts
      <4>2. id \in Rows' /\ db'[id] = op[p].row
        BY <2>1, <2>2, <3>1 DEF DataOK, Bucket, Rows
      <4> QED BY <2>1, <2>3, <4>1, <4>2 DEF ProxyOK, DockerCurrent, ExtensionCurrent, At
    <3>2. CASE id # op[p].id
      <4>1. Current(id)
        BY <2>4, <3>2, ProxyParts
      <4>2. db'[id] = db[id]
        BY <2>1, <3>2 DEF DataOK, Bucket
      <4>3. Current(id)'
        BY <2>1, <4>1, <4>2, CurrentStays DEF Rows
      <4> QED BY <2>3, <4>3 DEF ProxyOK, Current, DockerCurrent, ExtensionCurrent, At
    <3> QED BY <3>1, <3>2
  <2> QED BY <2>1, <2>3, <2>4 DEF ProxiesInv
<1>4. CASE Delete(p)
  <2>1. /\ db' = [db EXCEPT ![op[p].id] = None] /\ Advance(p, "delete.proxies")
        /\ op[p].pc = "delete" /\ UNCHANGED <<proxies, external, faults>>
        /\ At(p, "delete")
    BY <1>4 DEF Delete, DeleteEndpoint, past, At
  <2>2. "delete.proxies" \in Points \ Writing
    BY DEF Points, Writing
  <2>3. op'[p].pc = "delete.proxies" /\ op'[p].id = op[p].id
    BY <2>1, <2>2, AdvanceMove DEF SameWork
  <2>4. ASSUME NEW id \in IDs, ProxyOK(p, id) PROVE ProxyOK(p, id)'
    <3>1. CASE id # op[p].id
      <4>1. Current(id)
        BY <2>4, <3>1, ProxyParts
      <4>2. db'[id] = db[id]
        BY <2>1, <3>1 DEF DataOK, Bucket
      <4>3. Current(id)'
        BY <2>1, <4>1, <4>2, CurrentStays DEF Rows
      <4> QED BY <2>3, <4>3 DEF ProxyOK, Current, DockerCurrent, ExtensionCurrent, At
    <3> QED BY <2>3, <3>1 DEF ProxyOK, At
  <2> QED BY <2>1, <2>3, <2>4 DEF ProxiesInv
<1>5. CASE DeleteProxies(p)
  <2>1. /\ At(p, "delete.proxies") /\ Done(p) /\ UNCHANGED <<db, external, faults>>
        /\ proxies' = [k \in Kinds |-> [proxies[k] EXCEPT ![op[p].id] = None]]
    BY <1>5 DEF DeleteProxies, store, past
  <2>2. op'[p].pc = "idle"
    BY <2>1, DoneMove, IdleFits
  <2>3. \A k \in Kinds, id \in IDs :
          proxies'[k][id] = IF id = op[p].id THEN None ELSE proxies[k][id]
    BY <2>1 DEF DataOK
  <2>4. "docker" \in Kinds /\ "extension" \in Kinds
    BY DEF Kinds
  <2>5. ASSUME NEW id \in IDs, ProxyOK(p, id) PROVE ProxyOK(p, id)'
    <3>1. CASE id = op[p].id
      BY <2>3, <2>4, <3>1 DEF ProxyOK
    <3>2. CASE id # op[p].id
      <4>1. Current(id)
        BY <2>5, <3>2, ProxyParts
      <4> QED BY <2>1, <2>2, <2>3, <2>4, <3>2, <4>1
              DEF ProxyOK, Current, DockerCurrent, ExtensionCurrent, At, Rows
    <3> QED BY <3>1, <3>2
  <2> QED BY <2>1, <2>2, <2>5 DEF ProxiesInv
<1>6. CASE ProxyGet(p) /\ Advance(p, "proxy.create")
  <2>1. /\ At(p, "proxy.get") /\ UNCHANGED <<db, proxies, external, faults>>
        /\ op[p].pc \in Writing /\ "proxy.create" \in Points
    BY <1>6 DEF ProxyGet, store, At, Writing, Points, past
  <2>2. /\ op'[p].pc = "proxy.create" /\ op[p].pc = "proxy.get"
        /\ op'[p].id = op[p].id /\ op'[p].row = op[p].row
    BY <1>6, <2>1, AdvanceMove DEF At, SameWork
  <2>3. \A id \in IDs : ProxyOK(p, id) => ProxyOK(p, id)'
    BY <2>1, <2>2 DEF ProxyOK, At, Rows
  <2> QED BY <2>1, <2>2, <2>3 DEF ProxiesInv
<1>7. CASE ProxyCreate(p)
  <2>1. /\ op[p].pc = "proxy.create" /\ Done(p) /\ UNCHANGED <<db, external, faults>>
        /\ proxies' = [proxies EXCEPT ![op[p].kind][op[p].id] = Target(op[p].kind, op[p].row)]
    BY <1>7 DEF ProxyCreate, store, past, At
  <2>2. op'[p].pc = "idle"
    BY <2>1, DoneMove, IdleFits
  <2>3. op[p].id \in Rows
    BY <1>0, <2>1 DEF Knows, Touching
  <2>4. ASSUME NEW id \in IDs, Current(id), op[p].row.url = db[op[p].id].url PROVE Current(id)'
    <3>1. \A k \in Kinds : proxies'[k][id] = proxies[k][id]
                             \/ (k = op[p].kind /\ id = op[p].id
                                 /\ proxies'[k][id] = Target(k, op[p].row))
      <4> HIDE DEF Target
      <4> QED BY <2>1 DEF DataOK
    <3>2. "docker" \in Kinds /\ "extension" \in Kinds
      BY DEF Kinds
    <3>3. Target("docker", op[p].row) = op[p].row.url
      BY DEF Target
    <3> QED BY <2>1, <2>3, <2>4, <3>1, <3>2, <3>3
            DEF Current, DockerCurrent, ExtensionCurrent, Rows
  <2>5. ASSUME NEW id \in IDs, ProxyOK(p, id), op[p].row.url = db[op[p].id].url
        PROVE  ProxyOK(p, id)'
    <3>1. Current(id)
      BY <2>1, <2>5, ProxyParts
    <3>2. Current(id)'
      BY <2>4, <2>5, <3>1
    <3> QED BY <2>2, <3>2 DEF ProxyOK, Current, DockerCurrent, ExtensionCurrent, At
  <2> QED BY <2>1, <2>2, <2>5 DEF ProxiesInv
<1>8. CASE GroupWalk(p)
  <2>1. PICK id \in op[p].todo :
          /\ Walked(p, id)
          /\ \/ UNCHANGED <<db, seq, overtaken>>
             \/ \E group \in GroupIDs \cup {NoGroup} : Regroup(p, id, group)
    BY <1>8, GroupWalkMove
  <2>2. /\ op[p].pc = "group.walk" /\ op'[p].pc = "group.walk"
        /\ UNCHANGED <<proxies, external, faults>>
    BY <1>8, <2>1, WalkedMove DEF GroupWalk, At, past
  <2>3. id \in IDs /\ op[p].list[id] = db[id] /\ db[id] \in Endpoint
    BY <1>0, <2>1, <2>2, ListedRow DEF Knows
  <2>4. ASSUME NEW other \in IDs, Current(other) PROVE Current(other)'
    <3>1. other \in Rows => other \in Rows' /\ db'[other].url = db[other].url
      <4>1. CASE UNCHANGED <<db, seq, overtaken>>
        BY <4>1 DEF Rows
      <4>2. ASSUME NEW group \in GroupIDs \cup {NoGroup}, Regroup(p, id, group)
            PROVE  other \in Rows => other \in Rows' /\ db'[other].url = db[other].url
        <5> DEFINE row == [db[id] EXCEPT !.group = group]
        <5>1. db' = [db EXCEPT ![id] = row]
          BY <2>3, <4>2 DEF Regroup, UpdateEndpoint
        <5>2. row \in Endpoint /\ row.url = db[id].url
          BY <2>3 DEF Endpoint
        <5> HIDE DEF row
        <5> QED BY <2>3, <5>1, <5>2, NoEndpointAssumption DEF Rows, DataOK, Bucket
      <4> QED BY <2>1, <4>1, <4>2
    <3> QED BY <2>2, <2>4, <3>1, CurrentStays
  <2> QED BY <2>2, <2>4, ProxiesAside
<1>9. CASE SnapshotRead(p)
  <2>1. op[p].pc = "snap.read" /\ UNCHANGED <<db, proxies, external, faults>>
    BY <1>9 DEF SnapshotRead, store, past, At
  <2>2. PICK id \in op[p].todo :
          /\ op[p].list[id].url \in URLs
          /\ \/ /\ id \in Rows /\ op'[p].pc = "snap.write" /\ op'[p].id = id
                /\ op'[p].row = Snapshotted(db[id], op[p].list[id].url)
             \/ op'[p].pc = "snap.read"
    BY <1>9, SnapshotReadMove
  <2>3. \/ op'[p].pc = "snap.read"
        \/ op'[p].pc = "snap.write" /\ op'[p].row.url = db[op'[p].id].url
    BY <2>2, RowTypes, SnapshottedRow
  <2>4. \A other \in IDs : Current(other) => Current(other)'
    BY <2>1, CurrentStays DEF Rows
  <2> QED BY <2>1, <2>3, <2>4, ProxiesAside
<1>10. CASE SnapshotWrite(p)
  <2>1. /\ db' = [db EXCEPT ![op[p].id] = op[p].row] /\ op[p].pc = "snap.write"
        /\ UNCHANGED <<proxies, external, faults>>
    BY <1>10 DEF SnapshotWrite, UpdateEndpoint, past, At
  <2>2. /\ op[p].id \in IDs /\ op'[p].pc = "snap.read" /\ op[p].row # None
    BY <1>0, <1>10, <2>1, SnapshotWriteMove, NoEndpointAssumption DEF OpFits, Writing
  <2>3. ASSUME NEW id \in IDs, Current(id), op[p].row.url = db[op[p].id].url PROVE Current(id)'
    <3>1. id \in Rows => id \in Rows' /\ db'[id].url = db[id].url
      BY <2>1, <2>2, <2>3 DEF Rows, DataOK, Bucket
    <3> QED BY <2>1, <2>3, <3>1, CurrentStays
  <2>4. faults = 0 /\ ~external => op[p].row.url = db[op[p].id].url
    BY <2>1 DEF ProxiesInv
  <2>5. ASSUME NEW id \in IDs, ProxyOK(p, id), op[p].row.url = db[op[p].id].url
        PROVE  ProxyOK(p, id)'
    <3>1. Current(id)'
      BY <2>1, <2>3, <2>5, ProxyParts
    <3> QED BY <2>2, <3>1 DEF ProxyOK, Current, DockerCurrent, ExtensionCurrent, At
  <2> QED BY <2>1, <2>2, <2>4, <2>5 DEF ProxiesInv
<1>11. CASE Sync(p)
  BY <1>0, <1>11 DEF Sync, Knows, ProxiesInv
<1>12. CASE GroupPut(p) \/ GroupDelete(p) \/ GroupList(p)
  <2>1. /\ op[p].pc \in {"group.put", "group.delete", "group.list"}
        /\ UNCHANGED <<db, proxies, external, faults>>
        /\ Advance(p, "group.list") \/ GroupList(p)
    BY <1>12 DEF GroupPut, GroupDelete, GroupList, store, past, At
  <2>2. op'[p].pc \in {"group.list", "group.walk"}
    <3>1. "group.list" \in Points \ Writing
      BY DEF Points, Writing
    <3> QED BY <2>1, <3>1, AdvanceMove, GroupListMove
  <2>3. \A id \in IDs : Current(id) => Current(id)'
    BY <2>1, CurrentStays DEF Rows
  <2> QED BY <2>1, <2>2, <2>3, ProxiesAside
<1>13. CASE GroupDone(p) \/ SnapshotDone(p) \/ (ProxyGet(p) /\ Done(p))
  <2>1. /\ op[p].pc \in {"group.walk", "snap.read", "proxy.get"} /\ Done(p)
        /\ UNCHANGED <<db, proxies, external, faults>>
    BY <1>13 DEF GroupDone, SnapshotDone, ProxyGet, store, past, At
  <2>2. op'[p].pc = "idle"
    BY <2>1, DoneMove, IdleFits
  <2>3. \A id \in IDs : Current(id) => Current(id)'
    BY <2>1, CurrentStays DEF Rows
  <2> QED BY <2>1, <2>2, <2>3, ProxiesAside
<1>14. ProxyGet(p) => Advance(p, "proxy.create") \/ Done(p)
  BY DEF ProxyGet
<1> QED BY <1>1, <1>2, <1>3, <1>4, <1>5, <1>6, <1>7, <1>8, <1>9, <1>10, <1>11, <1>12,
           <1>13, <1>14 DEF Continue

-----------------------------------------------------------------------------
(* What holds with one operation at a time.                                *)
AloneInv(p) == Inv /\ SoloInv(p) /\ GroupsInv(p) /\ ProxiesInv(p)

LEMMA AloneInit ==
  ASSUME NEW p, Procs = {p}
  PROVE  Init => AloneInv(p)
<1> SUFFICES ASSUME Init PROVE AloneInv(p)
  OBVIOUS
<1>1. op[p] = Idle /\ db = NoRows /\ Rows = {} /\ p \in Procs
  BY DEF Init, NoRows, Rows
<1>2. op[p].pc = "idle"
  BY <1>1, IdleFits
<1>3. SoloInv(p)
  BY <1>1, <1>2 DEF SoloInv, Numbered, Knows, At, Touching
<1>4. GroupsInv(p)
  BY <1>1, <1>2 DEF GroupsInv, GroupSteps, RowsGrouped, HeldGrouped, At, Init
<1>5. ProxiesInv(p)
  <2>1. \A k \in Kinds, id \in IDs : proxies[k][id] = None
    BY DEF Init, NoRows
  <2> QED BY <1>2, <2>1 DEF ProxiesInv, ProxyOK, At, Kinds
<1> QED BY <1>3, <1>4, <1>5, InitInv DEF AloneInv

LEMMA AloneInvStep ==
  ASSUME NEW p, Procs = {p}
  PROVE  AloneInv(p) /\ [Next]_vars => AloneInv(p)'
<1> SUFFICES ASSUME AloneInv(p), [Next]_vars PROVE AloneInv(p)'
  OBVIOUS
<1>0. /\ p \in Procs /\ OpsOK /\ DataOK /\ BoundsOK
      /\ SoloInv(p) /\ GroupsInv(p) /\ ProxiesInv(p) /\ Inv'
  BY InvStep, Parts DEF AloneInv
<1>1. CASE Begins(p)
  BY <1>0, <1>1, SoloBegin, GroupsBegin, ProxiesBegin DEF AloneInv
<1>2. CASE Continue(p)
  BY <1>0, <1>2, SoloContinue, GroupsContinue, ProxiesContinue DEF AloneInv
<1>3. CASE IOError(p)
  <2>1. /\ faults' # 0 /\ op'[p] = Idle
        /\ UNCHANGED <<db, seq, groups, proxies, external, restarts>>
    BY <1>0, <1>3, FaultCounted
  <2>2. op'[p].pc = "idle"
    BY <2>1, IdleFits
  <2>3. GroupsInv(p)' /\ ProxiesInv(p)'
    BY <1>0, <2>1, <2>2 DEF GroupsInv, GroupSteps, ProxiesInv, At
  <2> QED BY <1>0, <1>3, <2>3, SoloContinue DEF AloneInv
<1>4. CASE FileChange
  <2>1. UNCHANGED <<db, seq, groups, proxies, external, op, strays, restarts, faults>>
    BY <1>4 DEF FileChange, store, past
  <2>2. SoloInv(p)'
    BY <1>0, <2>1 DEF SoloInv, Numbered, Knows, Rows, At
  <2>3. GroupsInv(p)'
    BY <1>0, <2>1 DEF GroupsInv, GroupSteps, RowsGrouped, HeldGrouped, GroupKnown, Moving,
                      Rows, At
  <2>4. ProxiesInv(p)'
    BY <1>0, <2>1 DEF ProxiesInv, ProxyOK, Rows, At
  <2> QED BY <1>0, <2>2, <2>3, <2>4 DEF AloneInv
<1>5. CASE Restart
  <2>1. /\ restarts' # 0 /\ op'[p] = Idle /\ proxies' = [k \in Kinds |-> NoRows]
        /\ UNCHANGED <<db, seq, groups>>
    BY <1>0, <1>5, RestartMove
  <2>2. op'[p].pc = "idle"
    BY <2>1, IdleFits
  <2>3. SoloInv(p)'
    BY <1>0, <2>1, <2>2 DEF SoloInv, Numbered, Knows, Rows, At, Touching
  <2>4. GroupsInv(p)'
    BY <1>0, <2>1, <2>2 DEF GroupsInv, GroupSteps, At
  <2>5. ProxiesInv(p)'
    <3>1. \A k \in Kinds, id \in IDs : proxies'[k][id] = None
      BY <2>1 DEF NoRows
    <3> QED BY <2>2, <3>1 DEF ProxiesInv, ProxyOK, At, Kinds
  <2> QED BY <1>0, <2>3, <2>4, <2>5 DEF AloneInv
<1>6. CASE UNCHANGED vars
  <2>1. UNCHANGED <<db, seq, groups, proxies, external, op, strays, restarts, faults>>
    BY <1>6 DEF vars, store, past
  <2>2. SoloInv(p)'
    BY <1>0, <2>1 DEF SoloInv, Numbered, Knows, Rows, At
  <2>3. GroupsInv(p)'
    BY <1>0, <2>1 DEF GroupsInv, GroupSteps, RowsGrouped, HeldGrouped, GroupKnown, Moving,
                      Rows, At
  <2>4. ProxiesInv(p)'
    BY <1>0, <2>1 DEF ProxiesInv, ProxyOK, Rows, At
  <2> QED BY <1>0, <2>2, <2>3, <2>4 DEF AloneInv
<1> QED BY <1>1, <1>2, <1>3, <1>4, <1>5, <1>6, AloneStep

LEMMA QuietAlone ==
  ASSUME NEW p \in Procs, Quiet
  PROVE  op[p].pc = "idle" /\ op[p].kind = ""
BY IdleFits DEF Quiet

(* One operation at a time, whatever fails and restarts: no creation is    *)
(* about to overwrite an endpoint, and while nothing has failed every      *)
(* endpoint is in a group that exists, or that a request named though it   *)
(* did not, whatever groups the handlers of endpoint groups created,       *)
(* changed and deleted.                                                    *)
THEOREM EndpointsAreSound ==
  ASSUME NEW p, Procs = {p}
  PROVE  Spec => []EndpointsSound
<1>1. AloneInv(p) => EndpointsSound
  <2> SUFFICES ASSUME AloneInv(p) PROVE GroupsExist /\ PendingIdIsFree
    BY DEF EndpointsSound, AloneInv, Inv
  <2>1. DataOK /\ OpsOK /\ p \in Procs
    BY Parts DEF AloneInv
  <2>2. GroupsExist
    <3>1. ASSUME Quiet, faults = 0, restarts = 0, NEW id \in Rows
          PROVE  GroupKnown(db[id].group)
      <4>1. ~Moving(p, id)
        BY <2>1, <3>1, QuietAlone DEF Moving
      <4> QED BY <3>1, <4>1 DEF AloneInv, GroupsInv, RowsGrouped
    <3> QED BY <3>1 DEF GroupsExist, GroupKnown, AloneInv, GroupsInv, GroupSteps
  <2>3. ASSUME At(p, "create.persist") PROVE db[op[p].id] = None /\ op[p].id = NextIdentifier
    <3>1. op[p].id = seq + 1 /\ op[p].id \in IDs /\ seq \in Nat
      BY <2>1, <2>3, BoundsAssumption
         DEF AloneInv, SoloInv, Knows, OpsOK, OpFits, Writing, At, DataOK
    <3>2. op[p].id \notin Rows
      BY <3>1 DEF AloneInv, SoloInv, Numbered
    <3> QED BY <3>1, <3>2 DEF Rows, NextIdentifier
  <2> QED BY <2>2, <2>3 DEF PendingIdIsFree
<1>2. Init => AloneInv(p)
  BY AloneInit
<1>3. AloneInv(p) /\ [Next]_vars => AloneInv(p)'
  BY AloneInvStep
<1> QED BY <1>1, <1>2, <1>3, PTL DEF Spec

(* One operation at a time, none failing, endpoints managed here: no proxy *)
(* of the proxy manager outlives its endpoint or leads to an address the   *)
(* endpoint no longer has.                                                 *)
THEOREM ProxiesAreCurrent ==
  ASSUME NEW p, Procs = {p}
  PROVE  Spec => []ProxyIsCurrent
<1>1. AloneInv(p) => ProxyIsCurrent
  <2> SUFFICES ASSUME AloneInv(p), Quiet, faults = 0, ~external, NEW id \in IDs
               PROVE  /\ proxies["docker"][id] # None =>
                           id \in Rows /\ proxies["docker"][id] = db[id].url
                      /\ proxies["extension"][id] # None => id \in Rows
    BY DEF ProxyIsCurrent
  <2>1. op[p].pc = "idle" /\ ProxyOK(p, id)
    BY QuietAlone DEF AloneInv, ProxiesInv
  <2> QED BY <2>1 DEF ProxyOK, At
<1>2. Init => AloneInv(p)
  BY AloneInit
<1>3. AloneInv(p) /\ [Next]_vars => AloneInv(p)'
  BY AloneInvStep
<1> QED BY <1>1, <1>2, <1>3, PTL DEF Spec

(* What a synchronisation of the rows it listed makes of each row.         *)
LEMMA SyncExact ==
  ASSUME OpsOK, DataOK, NEW p \in Procs, SoloInv(p), Sync(p)
  PROVE  /\ \A id \in Rows : db'[id] = Merged(db[id], op[p].wanted)
         /\ \A name \in Missing(db, op[p].wanted) : \E id \in IDs :
              db'[id] = Created(name, op[p].wanted[name])
         /\ \A id \in IDs \ Rows : db'[id] = None \/ \E name \in Missing(db, op[p].wanted) :
              db'[id] = Created(name, op[p].wanted[name])
<1>1. op[p].list = db
  BY DEF Sync, SoloInv, Knows
<1>2. Listed(db) = Rows
  BY DEF Listed, Rows
<1>12. PICK names \in [(seq + 1)..seq' -> Missing(op[p].list, op[p].wanted)] :
         /\ {names[id] : id \in (seq + 1)..seq'} = Missing(op[p].list, op[p].wanted)
         /\ \A id \in IDs :
              \/ /\ id \in Listed(op[p].list)
                 /\ Merged(op[p].list[id], op[p].wanted) # op[p].list[id]
                 /\ db'[id] = Merged(op[p].list[id], op[p].wanted)
              \/ /\ id \in Listed(op[p].list) =>
                      Merged(op[p].list[id], op[p].wanted) = op[p].list[id]
                 /\ \/ /\ id \in (seq + 1)..seq'
                       /\ db'[id] = Created(names[id], op[p].wanted[names[id]])
                    \/ id \notin (seq + 1)..seq' /\ db'[id] = db[id]
  BY SyncMove
<1>13. {names[id] : id \in (seq + 1)..seq'} = Missing(db, op[p].wanted)
  BY <1>1, <1>12
<1>3. /\ \A id \in (seq + 1)..seq' : names[id] \in Missing(db, op[p].wanted)
      /\ \A id \in IDs :
              \/ id \in Rows /\ db'[id] = Merged(db[id], op[p].wanted)
              \/ /\ id \in Rows => Merged(db[id], op[p].wanted) = db[id]
                 /\ \/ /\ id \in (seq + 1)..seq'
                       /\ db'[id] = Created(names[id], op[p].wanted[names[id]])
                    \/ id \notin (seq + 1)..seq' /\ db'[id] = db[id]
  BY <1>1, <1>2, <1>12, <1>13
<1>4. seq \in Nat /\ seq' \in 0..MaxID /\ MaxID \in Nat
  BY SyncMove, BoundsAssumption DEF DataOK
<1>5. \A id \in (seq + 1)..seq' : id \in IDs /\ id \notin Rows
  BY <1>4 DEF IDs, SoloInv, Numbered
<1>6. \A id \in IDs \ Rows : db[id] = None
  BY DEF Rows
<1>7. \A id \in Rows : id \in IDs
  BY DEF Rows
<1>8. \A name \in Missing(db, op[p].wanted) : \E id \in (seq + 1)..seq' : name = names[id]
  BY <1>13
<1>9. \A id \in Rows : db'[id] = Merged(db[id], op[p].wanted)
  BY <1>3, <1>5, <1>7
<1>10. \A name \in Missing(db, op[p].wanted) : \E id \in IDs :
         db'[id] = Created(name, op[p].wanted[name])
  BY <1>3, <1>5, <1>8
<1>11. ASSUME NEW id \in IDs \ Rows
       PROVE  db'[id] = None \/ \E name \in Missing(db, op[p].wanted) :
                db'[id] = Created(name, op[p].wanted[name])
  BY <1>3, <1>6
<1> QED BY <1>9, <1>10, <1>11

(* One operation at a time: a synchronisation leaves exactly the endpoints *)
(* the file defines, and those it keeps keep all but their address (Run of *)
(* the endpoint synchronisation job).                                      *)
THEOREM SyncsMatch ==
  ASSUME NEW one, Procs = {one}
  PROVE  Spec => SyncMatchesFile
<1>1. ASSUME AloneInv(one), NEW p \in Procs, Sync(p)
      PROVE  MatchesFile(op[p].wanted)
  <2> DEFINE wanted == op[one].wanted
             after == {x \in IDs : db'[x] # None}
  <2>1. p = one /\ OpsOK /\ DataOK /\ SoloInv(one)
    BY <1>1, Parts DEF AloneInv
  <2>2. /\ \A id \in Rows : db'[id] = Merged(db[id], wanted)
        /\ \A name \in Missing(db, wanted) : \E id \in IDs :
             db'[id] = Created(name, wanted[name])
        /\ \A id \in IDs \ Rows : db'[id] = None \/ \E name \in Missing(db, wanted) :
             db'[id] = Created(name, wanted[name])
    BY <1>1, <2>1, SyncExact
  <2>10. \A name \in DOMAIN wanted : name \in Names /\ wanted[name] \in URLs
    <3>1. wanted \in Files
      BY <2>1 DEF OpsOK, OpFits, Op
    <3> QED BY <3>1 DEF Files
  <2>3. Missing(db, wanted) = DOMAIN wanted \ {db[id].name : id \in Rows}
    BY DEF Missing, Listed, Rows
  <2> HIDE DEF wanted
  <2>4. ASSUME NEW name, NEW url
        PROVE  Created(name, url).name = name /\ Created(name, url).url = url
    BY DEF Created
  <2>5. ASSUME NEW id \in Rows, db[id].name \in DOMAIN wanted
        PROVE  /\ db'[id] = [db[id] EXCEPT !.url = wanted[db[id].name]]
               /\ db'[id].name = db[id].name /\ db'[id].url = wanted[db[id].name]
    <3>1. db'[id] = [db[id] EXCEPT !.url = wanted[db[id].name]]
      BY <2>2, <2>5 DEF Merged
    <3>2. db[id] \in Endpoint
      BY <2>1, RowTypes
    <3> QED BY <3>1, <3>2 DEF Endpoint
  <2>6. ASSUME NEW id \in Rows, db[id].name \notin DOMAIN wanted PROVE db'[id] = None
    BY <2>2, <2>6 DEF Merged
  <2>7. ASSUME NEW id \in after
        PROVE  \E name \in DOMAIN wanted : <<db'[id].name, db'[id].url>> = <<name, wanted[name]>>
    <3>1. CASE id \in Rows
      BY <2>5, <2>6, <2>7, <3>1
    <3>2. CASE id \notin Rows
      <4>1. PICK name \in Missing(db, wanted) : db'[id] = Created(name, wanted[name])
        BY <2>2, <2>7, <3>2
      <4> QED BY <2>3, <2>4, <4>1
    <3> QED BY <3>1, <3>2
  <2>8. ASSUME NEW name \in DOMAIN wanted
        PROVE  \E id \in after : <<db'[id].name, db'[id].url>> = <<name, wanted[name]>>
    <3>1. CASE name \in Missing(db, wanted)
      <4>1. PICK id \in IDs : db'[id] = Created(name, wanted[name])
        BY <2>2, <3>1
      <4>2. Created(name, wanted[name]) # None
        <5>1. name \in Names /\ wanted[name] \in URLs
          BY <2>8, <2>10
        <5>2. {} \in SUBSET Users
          OBVIOUS
        <5>3. Created(name, wanted[name]) \in Endpoint
          BY <5>1, <5>2 DEF Created, Endpoint
        <5> QED BY <5>3, NoEndpointAssumption
      <4> QED BY <2>4, <4>1, <4>2
    <3>2. CASE name \notin Missing(db, wanted)
      <4>1. PICK id \in Rows : db[id].name = name
        BY <2>3, <2>8, <3>2
      <4>2. db[id] \in Endpoint /\ wanted[name] \in URLs
        BY <2>1, <2>8, <2>10, RowTypes
      <4>3. db'[id] \in Endpoint
        BY <2>5, <2>8, <4>1, <4>2 DEF Endpoint
      <4> QED BY <2>5, <2>8, <4>1, <4>3, NoEndpointAssumption DEF Rows
    <3> QED BY <3>1, <3>2
  <2>9. {<<db'[id].name, db'[id].url>> : id \in after}
          = {<<name, wanted[name]>> : name \in DOMAIN wanted}
    BY <2>7, <2>8
  <2> QED BY <2>1, <2>5, <2>9 DEF wanted, MatchesFile
<1>2. AloneInv(one) /\ [Next]_vars =>
        [\A p \in Procs : Sync(p) => MatchesFile(op[p].wanted)]_vars
  BY <1>1
<1>3. Init => AloneInv(one)
  BY AloneInit
<1>4. AloneInv(one) /\ [Next]_vars => AloneInv(one)'
  BY AloneInvStep
<1> QED BY <1>2, <1>3, <1>4, PTL DEF Spec, SyncMatchesFile

=============================================================================
