---------------------------- MODULE StacksProofs ----------------------------
(***************************************************************************)
(* Proofs about Stacks, for any requests, names, engines, registries and   *)
(* bounds: type correctness; no deployment loses its logins; a stack that  *)
(* is stored has its file and runs; and at rest, without failures, the     *)
(* database, the disk and the engines agree.                               *)
(***************************************************************************)
EXTENDS Stacks, TLAPS

(* What a handler of each kind passes through, and what it knows there.    *)
Critical == {"login", "up", "logout"}
OnItsWay(kind, point) ==
  \/ kind = "" /\ point = "idle"
  \/ kind = "create" /\ point \in Critical \cup {"identify", "store", "lock", "persist", "cleanup"}
  \/ kind = "update" /\ point \in Critical \cup {"store", "lock", "persist"}
  \/ kind = "migrate" /\ point \in Critical \cup {"lock", "down", "persist"}
  \/ kind = "delete" /\ point \in {"down", "remove.row", "remove.folder"}
  \/ kind = "external" /\ point = "down"

WellFormed(o) ==
  /\ o \in Op
  /\ OnItsWay(o.kind, o.pc)
  /\ o.kind = "" => o = Idle
  /\ o.kind # "" => o.row \in Stack
  /\ o.kind \in {"create", "update", "migrate"} => o.to \in Engines /\ o.name \in Names
  /\ o.kind \in {"create", "update"} => o.to = o.row.engine /\ o.name = o.row.name
  /\ o.kind \in {"create", "update"} /\ o.pc \in {"identify", "store"} => o.file \in Contents
  /\ o.kind = "migrate" => o.name = o.row.name \/ o.name \in Renames
  /\ o.kind # "external" /\ o.pc \notin {"idle", "identify"} => o.id \in IDs
  /\ o.kind = "external" => o.row.type = "swarm"

(* What the handlers know, whoever else is at work.                        *)
OpsOK == op \in [Procs -> Op] /\ \A p \in Procs : WellFormed(op[p])

LEMMA IdleOK == WellFormed(Idle)
<1>1. {} \in SUBSET (Registries \cup {Hub}) /\ 0 \in IDs \cup {0}
  OBVIOUS
<1>2. "idle" \in Points
  BY DEF Points
<1>3. Idle \in Op
  BY <1>1, <1>2 DEF Idle, Op
<1>4. Idle.kind = "" /\ Idle.pc = "idle"
  BY DEF Idle
<1> QED BY <1>3, <1>4 DEF WellFormed, OnItsWay

LEMMA IdleFields == Idle.pc = "idle" /\ Idle.kind = ""
BY DEF Idle

(* A move of one handler leaves the others where they are.                 *)
LEMMA Moved ==
  ASSUME op \in [Procs -> Op], NEW p \in Procs, NEW o, Become(p, o)
  PROVE  op' = [q \in Procs |-> IF q = p THEN o ELSE op[q]]
BY DEF Become

LEMMA Advanced ==
  ASSUME op \in [Procs -> Op], NEW p \in Procs, NEW point, Advance(p, point)
  PROVE  Become(p, [op[p] EXCEPT !.pc = point])
BY DEF Become, Advance

(* What each move of a handler leaves of what it knows.                    *)
Others(p) == \A q \in Procs \ {p} : op'[q] = op[q]
SameWork(p) ==
  /\ op'[p].kind = op[p].kind /\ op'[p].id = op[p].id /\ op'[p].row = op[p].row
  /\ op'[p].to = op[p].to /\ op'[p].name = op[p].name

LEMMA AdvanceMove ==
  ASSUME op \in [Procs -> Op], NEW p \in Procs, NEW point, Advance(p, point)
  PROVE  Others(p) /\ SameWork(p) /\ op'[p].pc = point /\ op'[p].logged = op[p].logged
BY DEF Advance, Others, SameWork, Op

LEMMA BecomeMove ==
  ASSUME op \in [Procs -> Op], NEW p \in Procs, NEW o, Become(p, o)
  PROVE  Others(p) /\ op'[p] = o
BY DEF Become, Others

LEMMA LoginMove ==
  ASSUME op \in [Procs -> Op], NEW p \in Procs, Login(p)
  PROVE  /\ Others(p) /\ SameWork(p) /\ op'[p].pc = "up"
         /\ logins' = logins \cup op'[p].logged
<1>1. PICK logged \in SUBSET (Registries \cup {Hub}) :
        /\ logins' = logins \cup logged
        /\ Become(p, [op[p] EXCEPT !.pc = "up", !.logged = logged])
  BY DEF Login
<1>2. Others(p) /\ op'[p] = [op[p] EXCEPT !.pc = "up", !.logged = logged]
  BY <1>1, BecomeMove
<1> QED BY <1>1, <1>2 DEF SameWork, Op

LEMMA IdentifyMove ==
  ASSUME op \in [Procs -> Op], NEW p \in Procs, Identify(p)
  PROVE  /\ Others(p) /\ op'[p].pc = "store" /\ op'[p].id = seq + 1
         /\ op'[p].kind = op[p].kind /\ op'[p].row = op[p].row
         /\ op'[p].to = op[p].to /\ op'[p].name = op[p].name /\ op'[p].file = op[p].file
<1>1. Others(p) /\ op'[p] = [op[p] EXCEPT !.pc = "store", !.id = seq + 1]
  BY BecomeMove DEF Identify
<1> QED BY <1>1 DEF Op

LEMMA StoreMove ==
  ASSUME op \in [Procs -> Op], NEW p \in Procs, Store(p)
  PROVE  Others(p) /\ SameWork(p) /\ op'[p].pc = "lock"
<1>1. Others(p) /\ op'[p] = [op[p] EXCEPT !.pc = "lock", !.file = None]
  BY BecomeMove DEF Store
<1> QED BY <1>1 DEF SameWork, Op

LEMMA UpMove ==
  ASSUME op \in [Procs -> Op], NEW p \in Procs, Up(p)
  PROVE  Others(p) /\ SameWork(p) /\ op'[p].pc = "logout"
<1>1. Others(p) /\ op'[p] = [op[p] EXCEPT !.pc = "logout", !.logged = {}]
  BY BecomeMove DEF Up
<1> QED BY <1>1 DEF SameWork, Op

LEMMA OpsMove ==
  ASSUME OpsOK, NEW p \in Procs, NEW o, Become(p, o), WellFormed(o)
  PROVE  OpsOK'
<1>1. op' = [q \in Procs |-> IF q = p THEN o ELSE op[q]]
  BY Moved DEF OpsOK
<1>2. o \in Op
  BY DEF WellFormed
<1> QED BY <1>1, <1>2 DEF OpsOK

(* The mutex is with the handler that is in the critical section, if any.  *)
MutexOK == mutex \in Procs \cup {None} /\ \A p \in Procs : mutex = p <=> op[p].pc \in Critical

LEMMA MutexMove ==
  ASSUME OpsOK, MutexOK, NEW p \in Procs, NEW o, Become(p, o),
         \/ op[p].pc \in Critical /\ o.pc \in Critical /\ mutex' = mutex
         \/ op[p].pc \notin Critical /\ o.pc \notin Critical /\ mutex' = mutex
         \/ op[p].pc \notin Critical /\ o.pc \in Critical /\ mutex = None /\ mutex' = p
         \/ o.pc \notin Critical /\ mutex' = IF mutex = p THEN None ELSE mutex
  PROVE  MutexOK'
<1>1. op' = [q \in Procs |-> IF q = p THEN o ELSE op[q]]
  BY Moved DEF OpsOK
<1> QED BY <1>1, NoneAssumption DEF MutexOK

LEMMA AdvancedOK ==
  ASSUME NEW o, NEW point \in Points \ {"idle", "identify", "store"},
         WellFormed(o), o.pc # "idle", o.pc = "identify" => o.id \in IDs,
         OnItsWay(o.kind, point)
  PROVE  /\ WellFormed([o EXCEPT !.pc = point])
         /\ [o EXCEPT !.pc = point].pc = point
<1> DEFINE n == [o EXCEPT !.pc = point]
<1>0. Idle.pc = "idle"
  BY DEF Idle
<1>1. o \in Op /\ o.kind # ""
  BY <1>0 DEF WellFormed
<1>2. n \in Op /\ n.pc = point
  BY <1>1 DEF Op
<1>3. /\ n.kind = o.kind /\ n.id = o.id /\ n.row = o.row /\ n.to = o.to
      /\ n.name = o.name /\ n.file = o.file
  BY <1>1 DEF Op
<1>4. o.kind # "external" => o.id \in IDs
  BY <1>1 DEF WellFormed
<1> HIDE DEF n
<1>5. OnItsWay(n.kind, n.pc)
  BY <1>2, <1>3
<1>6. WellFormed(n)
  BY <1>1, <1>2, <1>3, <1>4, <1>5 DEF WellFormed
<1> QED BY <1>2, <1>6 DEF n

(* The ways out of a handler that fails.                                   *)
LEMMA FailMove ==
  ASSUME OpsOK, MutexOK, NEW p \in Procs, op[p].pc \in FaultPoints, Fail(p)
  PROVE  /\ OpsOK' /\ MutexOK'
         /\ \/ op[p].kind = "create" /\ Become(p, [op[p] EXCEPT !.pc = "cleanup"])
            \/ Become(p, Idle)
<1>1. PICK cloned \in BOOLEAN :
        /\ IF CleansUp(op[p], cloned) THEN Advance(p, "cleanup") ELSE Done(p)
        /\ mutex' = IF mutex = p THEN None ELSE mutex
  BY DEF Fail
<1>2. WellFormed(op[p]) /\ op \in [Procs -> Op] /\ op[p] \in Op
  BY DEF OpsOK
<1>3. op[p].pc \notin {"idle", "identify"}
  BY DEF FaultPoints
<1>4. CASE CleansUp(op[p], cloned)
  <2> DEFINE n == [op[p] EXCEPT !.pc = "cleanup"]
  <2>1. op[p].kind = "create"
    BY <1>4 DEF CleansUp
  <2>2. n.kind = "create" /\ n.pc = "cleanup"
    BY <2>1, <1>2 DEF Op
  <2>3. WellFormed(n)
    <3>1. "cleanup" \in Points \ {"idle", "identify", "store"}
      BY DEF Points
    <3> QED BY <3>1, <2>1, <1>2, <1>3, AdvancedOK DEF OnItsWay
  <2>4. Become(p, n)
    BY <1>1, <1>2, <1>4, Advanced
  <2> HIDE DEF n
  <2>5. OpsOK' /\ MutexOK'
    BY <1>1, <2>2, <2>3, <2>4, OpsMove, MutexMove DEF Critical
  <2> QED BY <2>1, <2>4, <2>5 DEF n
<1>5. CASE ~CleansUp(op[p], cloned)
  BY <1>1, <1>5, IdleOK, OpsMove, MutexMove DEF Done, Idle, Critical
<1> QED BY <1>4, <1>5

-----------------------------------------------------------------------------
(* The steps of a handler, as moves from one point to the next.            *)
LEMMA StepMove ==
  ASSUME OpsOK, MutexOK, NEW p \in Procs, NEW point \in Points \ {"idle", "identify", "store"},
         op[p].pc \notin {"idle", "identify"}, Advance(p, point),
         OnItsWay(op[p].kind, point),
         \/ op[p].pc \in Critical /\ point \in Critical /\ mutex' = mutex
         \/ op[p].pc \notin Critical /\ point \notin Critical /\ mutex' = mutex
         \/ op[p].pc \notin Critical /\ point \in Critical /\ mutex = None /\ mutex' = p
         \/ point \notin Critical /\ mutex' = IF mutex = p THEN None ELSE mutex
  PROVE  OpsOK' /\ MutexOK'
<1> DEFINE n == [op[p] EXCEPT !.pc = point]
<1>1. WellFormed(op[p]) /\ op \in [Procs -> Op] /\ op[p] \in Op
  BY DEF OpsOK
<1>2. WellFormed(n) /\ n.pc = point
  BY <1>1, AdvancedOK
<1>3. Become(p, n)
  BY <1>1, Advanced
<1> HIDE DEF n
<1> QED BY <1>2, <1>3, OpsMove, MutexMove

LEMMA DoneMove ==
  ASSUME OpsOK, MutexOK, NEW p \in Procs, Done(p), op[p].pc \notin Critical, mutex' = mutex
  PROVE  OpsOK' /\ MutexOK'
BY IdleOK, OpsMove, MutexMove DEF Done, Idle, Critical

LEMMA BeginMove ==
  ASSUME OpsOK, MutexOK, NEW p \in Procs, NEW o, Begin(p, o), WellFormed(o),
         o.pc \notin Critical
  PROVE  OpsOK' /\ MutexOK'
BY OpsMove, MutexMove DEF Begin, At, Critical

-----------------------------------------------------------------------------
(* What remains of the types.                                              *)
DataOK ==
  /\ stacks \in [IDs -> Stack \cup {None}] /\ seq \in 0..MaxID
  /\ folders \in [IDs -> Contents \cup {None}]
  /\ deployed \in [Projects -> Contents \cup {None}]
  /\ logins \subseteq Registries \cup {Hub} /\ doomed \subseteq IDs /\ astray \subseteq Names
CountsOK ==
  /\ overlaps \in 0..MaxOverlaps /\ ops \in 0..MaxOps
  /\ restarts \in Nat /\ faults \in Nat /\ restarts + faults <= MaxFailures
Inv == OpsOK /\ MutexOK /\ DataOK /\ CountsOK

LEMMA CreateBeginType ==
  ASSUME OpsOK, MutexOK, NEW p \in Procs, CreateBegin(p)
  PROVE  OpsOK' /\ MutexOK'
<1>1. PICK row \in Stack, file \in Contents :
        Begin(p, [Idle EXCEPT !.pc = "identify", !.kind = "create", !.row = row,
                    !.to = row.engine, !.name = row.name, !.file = file])
  BY DEF CreateBegin
<1> DEFINE n == [Idle EXCEPT !.pc = "identify", !.kind = "create", !.row = row,
                    !.to = row.engine, !.name = row.name, !.file = file]
<1>2. /\ n.pc = "identify" /\ n.kind = "create" /\ n.row = row /\ n.to = row.engine
      /\ n.name = row.name /\ n.file = file
  BY DEF Idle
<1>3. n \in Op
  <2>1. "identify" \in Points /\ Idle \in Op
    BY IdleOK DEF Points, WellFormed
  <2>2. row.engine \in Engines /\ row.name \in Names
    BY DEF Stack
  <2> QED BY <2>1, <2>2 DEF Op
<1> HIDE DEF n
<1>4. WellFormed(n)
  BY <1>2, <1>3 DEF WellFormed, OnItsWay, Stack
<1> QED BY <1>1, <1>2, <1>4, BeginMove DEF Critical, n

LEMMA AddressedType ==
  ASSUME DataOK, NEW id \in Rows, NEW engine \in Engines
  PROVE  /\ id \in IDs /\ stacks[id] \in Stack /\ Addressed(id, engine) \in Stack
         /\ Addressed(id, engine).name = stacks[id].name
         /\ Addressed(id, engine).type = stacks[id].type
         /\ Addressed(id, engine).engine = engine
<1>1. id \in IDs /\ stacks[id] \in Stack
  BY DEF Rows, DataOK
<1> QED BY <1>1 DEF Addressed, Stack

LEMMA UpdateBeginType ==
  ASSUME OpsOK, MutexOK, DataOK, NEW p \in Procs, UpdateBegin(p)
  PROVE  OpsOK' /\ MutexOK'
<1>1. PICK id \in Rows, engine \in Engines, file \in Contents :
        Begin(p, [Idle EXCEPT !.pc = "store", !.kind = "update", !.id = id,
                !.row = Addressed(id, engine), !.to = engine,
                !.name = stacks[id].name, !.file = file])
  BY DEF UpdateBegin
<1> DEFINE n == [Idle EXCEPT !.pc = "store", !.kind = "update", !.id = id,
                !.row = Addressed(id, engine), !.to = engine,
                !.name = stacks[id].name, !.file = file]
<1>2. /\ n.pc = "store" /\ n.kind = "update" /\ n.id = id /\ n.row = Addressed(id, engine)
      /\ n.to = engine /\ n.name = stacks[id].name /\ n.file = file
  BY DEF Idle
<1>3. /\ id \in IDs /\ Addressed(id, engine) \in Stack
      /\ Addressed(id, engine).name = stacks[id].name
      /\ Addressed(id, engine).engine = engine
  BY AddressedType
<1>4. n \in Op
  <2>1. "store" \in Points /\ Idle \in Op
    BY IdleOK DEF Points, FaultPoints, WellFormed
  <2>2. stacks[id].name \in Names
    BY <1>3 DEF Stack
  <2> QED BY <2>1, <2>2, <1>3 DEF Op
<1> HIDE DEF n
<1>5. WellFormed(n)
  BY <1>2, <1>3, <1>4 DEF WellFormed, OnItsWay, Stack
<1> QED BY <1>1, <1>2, <1>5, BeginMove DEF Critical, n

LEMMA MigrateBeginType ==
  ASSUME OpsOK, MutexOK, DataOK, NEW p \in Procs, MigrateBegin(p)
  PROVE  OpsOK' /\ MutexOK'
<1>1. PICK id \in Rows, engine \in Engines, target \in Engines, name \in Names :
        /\ name = stacks[id].name \/ name \in Renames
        /\ Begin(p, [Idle EXCEPT !.pc = "lock", !.kind = "migrate", !.id = id,
                       !.row = Addressed(id, engine), !.to = target, !.name = name])
  BY DEF MigrateBegin
<1> DEFINE n == [Idle EXCEPT !.pc = "lock", !.kind = "migrate", !.id = id,
                       !.row = Addressed(id, engine), !.to = target, !.name = name]
<1>2. /\ n.pc = "lock" /\ n.kind = "migrate" /\ n.id = id /\ n.row = Addressed(id, engine)
      /\ n.to = target /\ n.name = name
  BY DEF Idle
<1>3. /\ id \in IDs /\ Addressed(id, engine) \in Stack
      /\ Addressed(id, engine).name = stacks[id].name
  BY AddressedType
<1>4. n \in Op
  <2>1. "lock" \in Points /\ Idle \in Op
    BY IdleOK DEF Points, FaultPoints, WellFormed
  <2> QED BY <2>1, <1>3 DEF Op
<1> HIDE DEF n
<1>5. WellFormed(n)
  BY <1>1, <1>2, <1>3, <1>4 DEF WellFormed, OnItsWay
<1> QED BY <1>1, <1>2, <1>5, BeginMove DEF Critical, n

LEMMA DownBeginType ==
  ASSUME OpsOK, MutexOK, DataOK, NEW p \in Procs, DeleteBegin(p) \/ ExternalBegin(p)
  PROVE  OpsOK' /\ MutexOK'
<1>0. "down" \in Points /\ Idle \in Op
  BY IdleOK DEF Points, FaultPoints, WellFormed
<1>1. CASE DeleteBegin(p)
  <2>1. PICK id \in Rows, engine \in Engines :
          Begin(p, [Idle EXCEPT !.pc = "down", !.kind = "delete", !.id = id,
                      !.row = Addressed(id, engine)])
    BY <1>1 DEF DeleteBegin
  <2> DEFINE n == [Idle EXCEPT !.pc = "down", !.kind = "delete", !.id = id,
                      !.row = Addressed(id, engine)]
  <2>2. n.pc = "down" /\ n.kind = "delete" /\ n.id = id /\ n.row = Addressed(id, engine)
    BY DEF Idle
  <2>3. id \in IDs /\ Addressed(id, engine) \in Stack
    BY AddressedType
  <2>4. n \in Op
    BY <1>0, <2>3 DEF Op
  <2> HIDE DEF n
  <2>5. WellFormed(n)
    BY <2>2, <2>3, <2>4 DEF WellFormed, OnItsWay
  <2> QED BY <2>1, <2>2, <2>5, BeginMove DEF Critical, n
<1>2. CASE ExternalBegin(p)
  <2>1. PICK engine \in Engines, name \in Names :
          /\ "swarm" \in Types
          /\ Begin(p, [Idle EXCEPT !.pc = "down", !.kind = "external",
                     !.row = [name |-> name, type |-> "swarm", engine |-> engine]])
    BY <1>2 DEF ExternalBegin
  <2> DEFINE row == [name |-> name, type |-> "swarm", engine |-> engine]
             n == [Idle EXCEPT !.pc = "down", !.kind = "external", !.row = row]
  <2>2. n.pc = "down" /\ n.kind = "external" /\ n.row = row
    BY DEF Idle
  <2>6. Begin(p, n)
    BY <2>1
  <2>3. row \in Stack /\ row.type = "swarm"
    BY <2>1 DEF Stack
  <2> HIDE DEF row
  <2>4. n \in Op
    BY <1>0, <2>3 DEF Op
  <2> HIDE DEF n
  <2>5. WellFormed(n)
    BY <2>2, <2>3, <2>4 DEF WellFormed, OnItsWay
  <2> QED BY <2>6, <2>2, <2>5, BeginMove DEF Critical
<1> QED BY <1>1, <1>2

LEMMA RequestType ==
  ASSUME Inv, NEW p \in Procs, Request(p)
  PROVE  OpsOK' /\ MutexOK'
BY CreateBeginType, UpdateBeginType, MigrateBeginType, DownBeginType DEF Request, Inv

LEMMA ContinueType ==
  ASSUME Inv, NEW p \in Procs, Continue(p)
  PROVE  OpsOK' /\ MutexOK'
<1>0. OpsOK /\ MutexOK /\ DataOK /\ WellFormed(op[p]) /\ op[p] \in Op /\ op \in [Procs -> Op]
  BY DEF Inv, OpsOK
<1>p. ({"lock", "login", "up", "logout", "down", "persist", "remove.row", "remove.folder"}
        \subseteq Points \ {"idle", "identify", "store"}) /\ "store" \in Points
  BY DEF Points, FaultPoints
<1>1. CASE Identify(p)
  <2> DEFINE n == [op[p] EXCEPT !.pc = "store", !.id = seq + 1]
  <2>1. Become(p, n) /\ mutex' = mutex /\ op[p].pc = "identify" /\ seq + 1 \in IDs
    BY <1>1 DEF Identify, At
  <2>2. n \in Op /\ n.pc = "store" /\ n.id = seq + 1 /\ n.kind = op[p].kind /\ n.row = op[p].row
        /\ n.to = op[p].to /\ n.name = op[p].name /\ n.file = op[p].file
    BY <2>1, <1>0, <1>p DEF Op
  <2> HIDE DEF n
  <2>3. WellFormed(n)
    BY <2>1, <2>2, <1>0 DEF WellFormed, OnItsWay, Critical
  <2> QED BY <2>1, <2>2, <2>3, <1>0, OpsMove, MutexMove DEF Critical
<1>2. CASE Store(p)
  <2> DEFINE n == [op[p] EXCEPT !.pc = "lock", !.file = None]
  <2>1. Become(p, n) /\ mutex' = mutex /\ op[p].pc = "store"
    BY <1>2 DEF Store, At
  <2>2. n \in Op /\ n.pc = "lock" /\ n.id = op[p].id /\ n.kind = op[p].kind /\ n.row = op[p].row
        /\ n.to = op[p].to /\ n.name = op[p].name
    BY <2>1, <1>0, <1>p DEF Op
  <2> HIDE DEF n
  <2>3. WellFormed(n)
    BY <2>1, <2>2, <1>0 DEF WellFormed, OnItsWay, Critical
  <2> QED BY <2>1, <2>2, <2>3, <1>0, OpsMove, MutexMove DEF Critical
<1>3. CASE Lock(p)
  <2>1. op[p].pc = "lock" /\ Advance(p, "login") /\ mutex = None /\ mutex' = p
    BY <1>3 DEF Lock, At
  <2>2. OnItsWay(op[p].kind, "login")
    BY <2>1, <1>0 DEF WellFormed, OnItsWay, Critical
  <2> QED BY <2>1, <2>2, <1>0, <1>p, StepMove DEF Critical
<1>4. CASE Login(p)
  <2>1. PICK logged \in SUBSET (Registries \cup {Hub}) :
          Become(p, [op[p] EXCEPT !.pc = "up", !.logged = logged])
    BY <1>4 DEF Login
  <2> DEFINE n == [op[p] EXCEPT !.pc = "up", !.logged = logged]
  <2>2. Become(p, n) /\ mutex' = mutex /\ op[p].pc = "login"
    BY <2>1, <1>4 DEF Login, At
  <2>3. n \in Op /\ n.pc = "up" /\ n.id = op[p].id /\ n.kind = op[p].kind /\ n.row = op[p].row
        /\ n.to = op[p].to /\ n.name = op[p].name /\ n.file = op[p].file
    BY <2>1, <1>0, <1>p DEF Op
  <2> HIDE DEF n
  <2>4. WellFormed(n)
    BY <2>2, <2>3, <1>0 DEF WellFormed, OnItsWay, Critical
  <2> QED BY <2>2, <2>3, <2>4, <1>0, OpsMove, MutexMove DEF Critical
<1>5. CASE Up(p)
  <2> DEFINE n == [op[p] EXCEPT !.pc = "logout", !.logged = {}]
  <2>1. Become(p, n) /\ mutex' = mutex /\ op[p].pc = "up"
    BY <1>5 DEF Up, At
  <2>2. n \in Op /\ n.pc = "logout" /\ n.id = op[p].id /\ n.kind = op[p].kind /\ n.row = op[p].row
        /\ n.to = op[p].to /\ n.name = op[p].name
    BY <2>1, <1>0, <1>p DEF Op
  <2> HIDE DEF n
  <2>3. WellFormed(n)
    BY <2>1, <2>2, <1>0 DEF WellFormed, OnItsWay, Critical
  <2> QED BY <2>1, <2>2, <2>3, <1>0, OpsMove, MutexMove DEF Critical
<1>6. CASE Logout(p)
  <2> DEFINE point == IF op[p].kind = "migrate" THEN "down" ELSE "persist"
  <2>1. op[p].pc = "logout" /\ Advance(p, point) /\ mutex = p /\ mutex' = None
    BY <1>0, <1>6 DEF Logout, At, MutexOK, Critical
  <2>2. OnItsWay(op[p].kind, point)
    BY <2>1, <1>0 DEF WellFormed, OnItsWay, Critical
  <2> QED BY <2>1, <2>2, <1>0, <1>p, StepMove DEF Critical
<1>7. CASE Down(p)
  <2>1. op[p].pc = "down" /\ mutex' = mutex
    BY <1>7 DEF Down, At
  <2>2. \/ op[p].kind = "migrate" /\ Advance(p, "persist")
        \/ op[p].kind = "delete" /\ Advance(p, "remove.row")
        \/ Done(p)
    BY <2>1, <1>0, <1>7 DEF Down, AfterDown, WellFormed, OnItsWay, Critical
  <2>3. CASE op[p].kind = "migrate" /\ Advance(p, "persist")
    <3>1. OnItsWay(op[p].kind, "persist")
      BY <2>3 DEF OnItsWay
    <3> QED BY <2>1, <2>3, <3>1, <1>0, <1>p, StepMove DEF Critical
  <2>4. CASE op[p].kind = "delete" /\ Advance(p, "remove.row")
    <3>1. OnItsWay(op[p].kind, "remove.row")
      BY <2>4 DEF OnItsWay
    <3> QED BY <2>1, <2>4, <3>1, <1>0, <1>p, StepMove DEF Critical
  <2>5. CASE Done(p)
    BY <2>1, <2>5, <1>0, DoneMove DEF Critical
  <2> QED BY <2>2, <2>3, <2>4, <2>5
<1>8. CASE RemoveRow(p)
  <2>1. op[p].pc = "remove.row" /\ Advance(p, "remove.folder") /\ mutex' = mutex
    BY <1>8 DEF RemoveRow, At
  <2>2. OnItsWay(op[p].kind, "remove.folder")
    BY <2>1, <1>0 DEF WellFormed, OnItsWay, Critical
  <2> QED BY <2>1, <2>2, <1>0, <1>p, StepMove DEF Critical
<1>9. CASE RemoveFolder(p) \/ Persist(p) \/ Cleanup(p)
  BY <1>0, <1>9, DoneMove DEF RemoveFolder, Persist, Cleanup, At, Critical
<1>10. CASE FileMissing(p)
  BY <1>0, <1>10, FailMove DEF FileMissing, At, FaultPoints
<1> QED BY <1>1, <1>2, <1>3, <1>4, <1>5, <1>6, <1>7, <1>8, <1>9, <1>10 DEF Continue

LEMMA RestartType ==
  ASSUME Inv, Restart
  PROVE  OpsOK' /\ MutexOK'
<1>1. \A p \in Procs : op'[p] = Idle
  BY DEF Restart
<1>2. Idle \in Op /\ Idle.pc = "idle"
  BY IdleOK DEF WellFormed, Idle
<1>3. OpsOK'
  BY <1>1, <1>2, IdleOK DEF Restart, OpsOK
<1>4. MutexOK'
  BY <1>1, <1>2, NoneAssumption DEF Restart, MutexOK, Critical
<1> QED BY <1>3, <1>4

-----------------------------------------------------------------------------
(* The database, the disk, the engines and the logins.                     *)
LEMMA DeployType ==
  ASSUME OpsOK, DataOK, NEW p \in Procs, At(p, "up"), folders[op[p].id] # None, Deploy(p)
  PROVE  deployed' \in [Projects -> Contents \cup {None}]
<1>1. WellFormed(op[p]) /\ op[p].pc = "up" /\ op[p].kind \in {"create", "update", "migrate"}
  BY DEF OpsOK, At, WellFormed, OnItsWay
<1>2. op[p].id \in IDs
  BY <1>1 DEF WellFormed
<1> QED BY <1>2 DEF Deploy, DataOK

LEMMA DataStep ==
  ASSUME Inv, [Next]_vars
  PROVE  DataOK' /\ CountsOK'
<1> USE DEF Inv
<1>1. CASE Restart
  BY <1>1, StackBounds DEF Restart, disk, history, DataOK, CountsOK
<1>2. ASSUME NEW p \in Procs, NEW o, Begin(p, o) PROVE DataOK' /\ CountsOK'
  <2>1. astray' \subseteq Names
    <3>1. CASE Misleads(o)
      <4>1. o.id \in IDs /\ stacks[o.id] \in Stack
        BY <3>1 DEF Misleads, Rows, DataOK
      <4>2. stacks[o.id].name \in Names
        BY <4>1 DEF Stack
      <4> QED BY <1>2, <3>1, <4>2 DEF Begin, DataOK
    <3>2. CASE ~Misleads(o)
      BY <1>2, <3>2 DEF Begin, DataOK
    <3> QED BY <3>1, <3>2
  <2> QED BY <1>2, <2>1, StackBounds DEF Begin, disk, bounds, DataOK, CountsOK
<1>3. ASSUME NEW p \in Procs, Request(p) PROVE DataOK' /\ CountsOK'
  BY <1>2, <1>3 DEF Request, CreateBegin, UpdateBegin, MigrateBegin, DeleteBegin, ExternalBegin
<1>4. ASSUME NEW p \in Procs PROVE WellFormed(op[p]) /\ op[p] \in Op
  BY DEF OpsOK
<1>5. ASSUME NEW p \in Procs, Identify(p) \/ Lock(p) \/ FileMissing(p) \/ CleanupError(p)
      PROVE  DataOK' /\ CountsOK'
  BY <1>5 DEF Identify, Lock, FileMissing, CleanupError, disk, history, bounds, DataOK, CountsOK
<1>6. ASSUME NEW p \in Procs, Store(p) PROVE DataOK' /\ CountsOK'
  <2>1. op[p].pc = "store" /\ op[p].file \in Contents
    BY <1>6, <1>4 DEF Store, At, WellFormed, OnItsWay, Critical
  <2> QED BY <2>1, <1>6 DEF Store, history, bounds, DataOK, CountsOK
<1>7. ASSUME NEW p \in Procs, Login(p) \/ Logout(p) PROVE DataOK' /\ CountsOK'
  BY <1>7 DEF Login, Logout, disk, history, bounds, DataOK, CountsOK
<1>8. ASSUME NEW p \in Procs, Up(p) PROVE DataOK' /\ CountsOK'
  <2>1. deployed' \in [Projects -> Contents \cup {None}]
    BY <1>8, DeployType DEF Up
  <2> QED BY <2>1, <1>8 DEF Up, disk, bounds, DataOK, CountsOK
<1>9. ASSUME NEW p \in Procs, Down(p) PROVE DataOK' /\ CountsOK'
  <2>1. op[p].pc = "down" /\ (TakesDown(op[p]) => op[p].id \in IDs)
    BY <1>9, <1>4 DEF Down, At, WellFormed, TakesDown, MigratesHome
  <2>2. doomed' \subseteq IDs
    BY <2>1, <1>9 DEF Down, DataOK
  <2> QED BY <2>2, <1>9 DEF Down, disk, bounds, DataOK, CountsOK
<1>10. ASSUME NEW p \in Procs, RemoveRow(p) \/ RemoveFolder(p) \/ Cleanup(p)
       PROVE DataOK' /\ CountsOK'
  BY <1>10 DEF RemoveRow, RemoveFolder, Cleanup, history, bounds, DataOK, CountsOK
<1>11. ASSUME NEW p \in Procs, Persist(p) PROVE DataOK' /\ CountsOK'
  <2>1. op[p].pc = "persist" /\ op[p].row \in Stack /\ op[p].to \in Engines /\ op[p].id \in IDs
    BY <1>11, <1>4 DEF Persist, At, WellFormed, OnItsWay, Critical
  <2>2. [op[p].row EXCEPT !.engine = op[p].to] \in Stack
    BY <2>1 DEF Stack
  <2>3. seq' \in 0..MaxID
    BY <2>1, <1>11, StackBounds DEF Persist, DataOK, IDs
  <2> QED BY <2>2, <2>3, <1>11 DEF Persist, history, bounds, DataOK, CountsOK
<1>12. ASSUME NEW p \in Procs, IOError(p) PROVE DataOK' /\ CountsOK'
  <2>1. deployed' \in [Projects -> Contents \cup {None}]
    BY <1>12, DeployType DEF IOError, DataOK
  <2>2. CountsOK'
    BY <1>12, StackBounds DEF IOError, history, CountsOK
  <2> QED BY <2>1, <2>2, <1>12 DEF IOError, disk, history, DataOK
<1>13. CASE UNCHANGED vars
  BY <1>13 DEF vars, disk, history, bounds, DataOK, CountsOK
<1> QED BY <1>1, <1>3, <1>5, <1>6, <1>7, <1>8, <1>9, <1>10, <1>11, <1>12, <1>13 DEF Next, Continue

LEMMA TypeStep == Inv /\ [Next]_vars => Inv'
<1> SUFFICES ASSUME Inv, [Next]_vars PROVE OpsOK' /\ MutexOK'
  BY DataStep DEF Inv
<1>1. CASE Restart
  BY <1>1, RestartType
<1>2. ASSUME NEW p \in Procs, Request(p) PROVE OpsOK' /\ MutexOK'
  BY <1>2, RequestType
<1>3. ASSUME NEW p \in Procs, Continue(p) PROVE OpsOK' /\ MutexOK'
  BY <1>3, ContinueType
<1>4. ASSUME NEW p \in Procs, IOError(p) PROVE OpsOK' /\ MutexOK'
  BY <1>4, FailMove DEF IOError, Inv
<1>5. ASSUME NEW p \in Procs, CleanupError(p) PROVE OpsOK' /\ MutexOK'
  BY <1>5, DoneMove DEF CleanupError, Inv, At, Critical
<1>6. CASE UNCHANGED vars
  BY <1>6 DEF vars, Inv, OpsOK, MutexOK
<1> QED BY <1>1, <1>2, <1>3, <1>4, <1>5, <1>6 DEF Next

LEMMA TypeInit == Init => Inv
<1> SUFFICES ASSUME Init PROVE Inv
  OBVIOUS
<1>1. Idle \in Op /\ Idle.pc = "idle" /\ \A p \in Procs : op[p] = Idle
  BY IdleOK DEF WellFormed, Idle, Init
<1>2. OpsOK
  BY <1>1, IdleOK DEF Init, OpsOK
<1>3. MutexOK
  BY <1>1, NoneAssumption DEF Init, MutexOK, Critical
<1>4. DataOK /\ CountsOK
  BY StackBounds DEF Init, DataOK, CountsOK, IDs
<1> QED BY <1>2, <1>3, <1>4 DEF Inv

LEMMA InvIsTypeOK == Inv => TypeOK
BY DEF Inv, OpsOK, MutexOK, DataOK, CountsOK, TypeOK, Critical

(* Every variable keeps its type, and the mutex is held exactly by the     *)
(* handler, if any, that logs in, deploys or logs out.                     *)
THEOREM TypeCorrect == Spec => []TypeOK
BY TypeInit, TypeStep, InvIsTypeOK, PTL DEF Spec

-----------------------------------------------------------------------------
(* Only Login comes to the point that pulls images, and only Logout, under *)
(* the mutex, ends a login.                                                *)
LEMMA LoginStep ==
  ASSUME Inv, Inv', [Next]_vars
  PROVE  \/ \E q \in Procs : Logout(q) /\ \A p \in Procs : op'[p].pc = "up" => p # q /\ op'[p] = op[p]
         \/ /\ logins \subseteq logins'
            /\ \A p \in Procs : op'[p].pc = "up" =>
                 op'[p] = op[p] \/ op'[p].logged \subseteq logins'
<1>0. op \in [Procs -> Op]
  BY DEF Inv, OpsOK
<1>i. Idle.pc = "idle"
  BY DEF Idle
<1>1. CASE Restart
  BY <1>1, <1>i DEF Restart
<1>2. ASSUME NEW q \in Procs, NEW point, Advance(q, point), point # "up"
      PROVE  \A p \in Procs : op'[p].pc = "up" => p # q /\ op'[p] = op[p]
  BY <1>0, <1>2, AdvanceMove DEF Others
<1>3. ASSUME NEW q \in Procs, Done(q)
      PROVE  \A p \in Procs : op'[p].pc = "up" => op'[p] = op[p]
  BY <1>0, <1>i, <1>3, BecomeMove DEF Done, Others
<1>4. ASSUME NEW q \in Procs, Request(q)
      PROVE  logins' = logins /\ \A p \in Procs : op'[p].pc = "up" => op'[p] = op[p]
  <2>1. \E o : Begin(q, o)
    BY <1>4 DEF Request, CreateBegin, UpdateBegin, MigrateBegin, DeleteBegin, ExternalBegin
  <2>2. Others(q) /\ logins' = logins /\ mutex' = mutex /\ op[q].pc = "idle"
    BY <1>0, <2>1, BecomeMove DEF Begin, At
  <2>3. op'[q].pc # "up"
    BY <2>2 DEF Inv, MutexOK, Critical
  <2> QED BY <2>2, <2>3 DEF Others
<1>5. ASSUME NEW q \in Procs, Fail(q)
      PROVE  \A p \in Procs : op'[p].pc = "up" => op'[p] = op[p]
  BY <1>2, <1>3, <1>5 DEF Fail
<1>6. ASSUME NEW q \in Procs, Login(q)
      PROVE  /\ logins \subseteq logins'
             /\ \A p \in Procs : op'[p].pc = "up" => op'[p] = op[p] \/ op'[p].logged \subseteq logins'
  BY <1>0, <1>6, LoginMove DEF Others
<1>7. ASSUME NEW q \in Procs, Identify(q)
      PROVE  logins' = logins /\ \A p \in Procs : op'[p].pc = "up" => op'[p] = op[p]
  BY <1>0, <1>7, IdentifyMove DEF Identify, Others
<1>8. ASSUME NEW q \in Procs, Logout(q)
      PROVE  \A p \in Procs : op'[p].pc = "up" => p # q /\ op'[p] = op[p]
  BY <1>2, <1>8 DEF Logout
<1>9. ASSUME NEW q \in Procs,
             Store(q) \/ Lock(q) \/ Up(q) \/ Down(q) \/ RemoveRow(q) \/ RemoveFolder(q)
             \/ Persist(q) \/ Cleanup(q) \/ FileMissing(q) \/ IOError(q) \/ CleanupError(q)
      PROVE  logins' = logins /\ \A p \in Procs : op'[p].pc = "up" => op'[p] = op[p]
  <2>1. logins' = logins
    BY <1>9 DEF Store, Lock, Up, Down, RemoveRow, RemoveFolder, Persist, Cleanup, FileMissing,
                IOError, CleanupError
  <2>2. CASE Down(q)
    <3>1. op[q].kind \in {"migrate", "delete", "external"}
      BY <2>2 DEF Inv, OpsOK, WellFormed, OnItsWay, Critical, Down, At
    <3> QED BY <2>1, <2>2, <3>1, <1>2, <1>3 DEF Down, AfterDown
  <2>3. CASE Store(q) \/ Up(q)
    <3>1. Others(q) /\ op'[q].pc # "up"
      BY <1>0, <2>3, StoreMove, UpMove
    <3> QED BY <2>1, <3>1 DEF Others
  <2>4. CASE Lock(q) \/ RemoveRow(q) \/ RemoveFolder(q) \/ Persist(q) \/ Cleanup(q)
             \/ FileMissing(q) \/ IOError(q) \/ CleanupError(q)
    BY <2>1, <2>4, <1>2, <1>3, <1>5
       DEF Lock, RemoveRow, RemoveFolder, Persist, Cleanup, FileMissing, IOError, CleanupError
  <2> QED BY <1>9, <2>2, <2>3, <2>4
<1>10. CASE UNCHANGED vars
  BY <1>10 DEF vars
<1> QED BY <1>1, <1>4, <1>6, <1>7, <1>8, <1>9, <1>10 DEF Next, Continue

LEMMA KeepsLoginStep == Inv /\ Inv' /\ DeployKeepsLogin /\ [Next]_vars => DeployKeepsLogin'
<1> SUFFICES ASSUME Inv, Inv', DeployKeepsLogin, [Next]_vars, NEW p \in Procs, op'[p].pc = "up"
             PROVE  op'[p].logged \subseteq logins'
  BY DEF DeployKeepsLogin, At
<1>1. CASE \E q \in Procs : Logout(q) /\ p # q /\ op'[p] = op[p]
  BY <1>1 DEF Logout, At, Inv, MutexOK, Critical
<1>2. CASE logins \subseteq logins' /\ (op'[p] = op[p] \/ op'[p].logged \subseteq logins')
  BY <1>2 DEF DeployKeepsLogin, At
<1> QED BY <1>1, <1>2, LoginStep

(* However requests overlap, fail and are cut off: while a deployment      *)
(* pulls its images, the registries it logged in to are in config.json.    *)
THEOREM LoginsHold == Spec => []DeployKeepsLogin
<1>1. Init => DeployKeepsLogin
  <2>1. Idle.pc = "idle"
    BY DEF Idle
  <2> QED BY <2>1 DEF Init, DeployKeepsLogin, At
<1> QED BY <1>1, TypeInit, TypeStep, KeepsLoginStep, PTL DEF Spec

-----------------------------------------------------------------------------
(* What is known as long as no two requests overlap.                       *)
Free(name) == \A id \in Rows : stacks[id].name # name
Where(id) == Project(stacks[id].type, stacks[id].engine, stacks[id].name)
Target(o) == Project(o.row.type, o.to, o.name)

Alone == \A p, q \in Procs : ~At(p, "idle") /\ ~At(q, "idle") => p = q
Numbered ==
  /\ \A id \in Rows : id <= seq
  /\ \A i, j \in Rows : stacks[i].name = stacks[j].name => i = j

(* The row, file and deployment that the handler at work relies on.        *)
RowKnown(o) ==
  /\ o.kind = "create" => Free(o.name) /\ (o.pc # "identify" => o.id = seq + 1)
  /\ o.kind \in {"update", "migrate"} \/ (o.kind = "delete" /\ o.pc # "remove.folder") =>
       o.id \in Rows /\ stacks[o.id].name = o.row.name /\ stacks[o.id].type = o.row.type
  /\ o.pc = "remove.folder" => o.id \notin Rows
  /\ o.kind = "external" => Free(o.row.name)
FileKnown(o) == o.kind = "create" /\ o.pc \in Critical \cup {"lock", "persist"} => folders[o.id] # None
Gone(o) == o.pc = "persist" /\ MigratesHome(o)
RunKnown(o) ==
  /\ o.kind \in {"create", "update", "migrate"} /\ o.pc \in {"logout", "down", "persist"} /\ ~Gone(o) =>
       deployed[Target(o)] = folders[o.id]
  /\ Gone(o) => o.id \in doomed
  /\ o.pc = "remove.row" => o.id \in doomed

FilesKept == \A id \in Rows : folders[id] # None
SoloState ==
  Alone /\ Numbered /\ FilesKept /\ \A p \in Procs : RowKnown(op[p]) /\ FileKnown(op[p])
SoloInv == overlaps = 0 => SoloState

RunsState ==
  /\ \A id \in Rows \ doomed : \E engine \in Engines :
       deployed[Project(stacks[id].type, engine, stacks[id].name)] # None
  /\ \A p \in Procs : RunKnown(op[p])
RunsInv == overlaps = 0 => RunsState

(* What is known as long, besides, as nothing fails.                       *)
Keeps(o, id) == o.id = id /\ (o.kind = "delete" \/ (o.kind = "create" /\ o.pc # "identify"))
TakenDown(o) == o.pc = "remove.row" \/ (o.kind = "migrate" /\ o.pc = "persist")
Behind(o, id) ==
  o.id = id /\ (TakenDown(o) \/ (o.kind = "update" /\ o.pc \in {"lock", "login", "up"}))
Brings(o, x) ==
  /\ o.kind \in {"create", "migrate"} /\ o.pc \in {"logout", "down", "persist"}
  /\ x = Target(o)

NoStrayFolder(id) == folders[id] # None => \E p \in Procs : Keeps(op[p], id)
NoStaleStack(id) ==
  stacks[id].name \in astray \/ deployed[Where(id)] = folders[id] \/ \E p \in Procs : Behind(op[p], id)
NoStrayProject(x) ==
  deployed[x] # None =>
    NameOf(x) \in astray \/ (\E id \in Rows : x = Where(id)) \/ \E p \in Procs : Brings(op[p], x)
Straight(o) ==
  /\ o.kind \in {"update", "migrate"} \/ (o.kind = "delete" /\ o.pc # "remove.folder") =>
       stacks[o.id] = o.row
  /\ ~MigratesHome(o) /\ (TakenDown(o) => deployed[Where(o.id)] = None)
OnCourse(o) == o.pc # "cleanup" /\ (o.kind # "" => o.row.name \in astray \/ Straight(o))
MatchState ==
  /\ \A id \in IDs \ Rows : NoStrayFolder(id)
  /\ \A id \in Rows : NoStaleStack(id)
  /\ \A x \in Projects : NoStrayProject(x)
  /\ \A p \in Procs : OnCourse(op[p])
MatchInv == Undisturbed => MatchState

-----------------------------------------------------------------------------
(* As long as requests do not overlap, every other handler is idle.        *)
LEMMA OthersIdle ==
  ASSUME Inv, Alone, NEW p \in Procs, ~At(p, "idle")
  PROVE  \A q \in Procs \ {p} : op[q] = Idle
<1> SUFFICES ASSUME NEW q \in Procs \ {p} PROVE op[q] = Idle
  OBVIOUS
<1>1. op[q].pc = "idle" /\ WellFormed(op[q])
  BY DEF Alone, At, Inv, OpsOK
<1> QED BY <1>1 DEF WellFormed, OnItsWay, Critical

LEMMA IdleKnown == RowKnown(Idle) /\ FileKnown(Idle)
<1>1. Idle.kind = "" /\ Idle.pc = "idle"
  BY DEF Idle
<1> QED BY <1>1 DEF RowKnown, FileKnown

LEMMA SoloMove ==
  ASSUME NEW p \in Procs, \A q \in Procs \ {p} : op[q] = Idle, Others(p),
         Numbered', FilesKept', RowKnown(op[p])', FileKnown(op[p])'
  PROVE  SoloState'
<1>1. \A q \in Procs \ {p} : op'[q] = Idle
  BY DEF Others
<1>2. (RowKnown(Idle) /\ FileKnown(Idle))'
  BY IdleKnown, PTL
<1>3. \A q \in Procs : (RowKnown(op[q]) /\ FileKnown(op[q]))'
  <2> SUFFICES ASSUME NEW q \in Procs PROVE (RowKnown(op[q]) /\ FileKnown(op[q]))'
    OBVIOUS
  <2>1. CASE q = p
    BY <2>1
  <2>2. CASE q # p
    BY <1>1, <1>2, <2>2
  <2> QED BY <2>1, <2>2
<1>4. Alone'
  <2>1. Idle.pc = "idle"
    BY DEF Idle
  <2> QED BY <1>1, <2>1 DEF Alone, At
<1> QED BY <1>3, <1>4 DEF SoloState

(* A request that begins without overlapping finds every handler idle.     *)
LEMMA SoloBegin ==
  ASSUME Inv, NEW p \in Procs, NEW o, Begin(p, o), overlaps' = 0
  PROVE  /\ overlaps = 0 /\ \A q \in Procs : op[q] = Idle
         /\ Others(p) /\ op'[p] = o /\ Rows' = Rows
         /\ astray' = IF Misleads(o) THEN astray \cup {stacks[o.id].name} ELSE astray
         /\ UNCHANGED <<stacks, seq, folders, deployed, doomed, restarts, faults>>
<1>1. overlaps = 0 /\ Quiet
  BY DEF Begin, Inv, CountsOK
<1>2. Others(p) /\ op'[p] = o
  BY BecomeMove DEF Begin, Inv, OpsOK
<1> QED BY <1>1, <1>2 DEF Begin, disk, bounds, Quiet, Rows

LEMMA SoloRequest ==
  ASSUME Inv, SoloInv, NEW p \in Procs, Request(p), overlaps' = 0
  PROVE  SoloState'
<1>1. ASSUME NEW o, Begin(p, o), overlaps = 0 => SoloState, o.kind = "create" => o.pc = "identify",
             RowKnown(o)
      PROVE  SoloState'
  <2>1. /\ overlaps = 0 /\ \A q \in Procs : op[q] = Idle
        /\ Others(p) /\ op'[p] = o /\ Rows' = Rows /\ UNCHANGED <<stacks, seq, folders>>
    BY <1>1, SoloBegin
  <2>2. Numbered' /\ FilesKept'
    BY <1>1, <2>1 DEF SoloState, Numbered, FilesKept
  <2>3. RowKnown(op[p])' /\ FileKnown(op[p])'
    BY <1>1, <2>1 DEF RowKnown, FileKnown, Free, Critical
  <2> QED BY <2>1, <2>2, <2>3, SoloMove
<1>2. CASE CreateBegin(p)
  <2>1. PICK row \in Stack, file \in Contents :
          /\ \A id \in Rows : stacks[id].name # row.name
          /\ Begin(p, [Idle EXCEPT !.pc = "identify", !.kind = "create", !.row = row,
                    !.to = row.engine, !.name = row.name, !.file = file])
    BY <1>2 DEF CreateBegin
  <2> DEFINE o == [Idle EXCEPT !.pc = "identify", !.kind = "create", !.row = row,
                    !.to = row.engine, !.name = row.name, !.file = file]
  <2>2. o.pc = "identify" /\ o.kind = "create" /\ o.name = row.name
    BY DEF Idle
  <2>3. Begin(p, o)
    BY <2>1
  <2> HIDE DEF o
  <2> QED BY <1>1, <2>1, <2>2, <2>3 DEF SoloInv, RowKnown, Free
<1>3. CASE UpdateBegin(p)
  <2>1. PICK id \in Rows, engine \in Engines, file \in Contents :
          Begin(p, [Idle EXCEPT !.pc = "store", !.kind = "update", !.id = id,
                !.row = Addressed(id, engine), !.to = engine,
                !.name = stacks[id].name, !.file = file])
    BY <1>3 DEF UpdateBegin
  <2> DEFINE o == [Idle EXCEPT !.pc = "store", !.kind = "update", !.id = id,
                !.row = Addressed(id, engine), !.to = engine,
                !.name = stacks[id].name, !.file = file]
  <2>2. o.pc = "store" /\ o.kind = "update" /\ o.id = id /\ o.row = Addressed(id, engine)
    BY DEF Idle
  <2>3. Begin(p, o)
    BY <2>1
  <2>4. o.row.name = stacks[id].name /\ o.row.type = stacks[id].type
    BY <2>2, AddressedType DEF Inv
  <2> HIDE DEF o
  <2> QED BY <1>1, <2>2, <2>3, <2>4 DEF SoloInv, RowKnown
<1>4. CASE MigrateBegin(p)
  <2>1. PICK id \in Rows, engine \in Engines, target \in Engines, name \in Names :
          Begin(p, [Idle EXCEPT !.pc = "lock", !.kind = "migrate", !.id = id,
                       !.row = Addressed(id, engine), !.to = target, !.name = name])
    BY <1>4 DEF MigrateBegin
  <2> DEFINE o == [Idle EXCEPT !.pc = "lock", !.kind = "migrate", !.id = id,
                       !.row = Addressed(id, engine), !.to = target, !.name = name]
  <2>2. o.pc = "lock" /\ o.kind = "migrate" /\ o.id = id /\ o.row = Addressed(id, engine)
    BY DEF Idle
  <2>3. Begin(p, o)
    BY <2>1
  <2>4. o.row.name = stacks[id].name /\ o.row.type = stacks[id].type
    BY <2>2, AddressedType DEF Inv
  <2> HIDE DEF o
  <2> QED BY <1>1, <2>2, <2>3, <2>4 DEF SoloInv, RowKnown
<1>5. CASE DeleteBegin(p)
  <2>1. PICK id \in Rows, engine \in Engines :
          Begin(p, [Idle EXCEPT !.pc = "down", !.kind = "delete", !.id = id,
                      !.row = Addressed(id, engine)])
    BY <1>5 DEF DeleteBegin
  <2> DEFINE o == [Idle EXCEPT !.pc = "down", !.kind = "delete", !.id = id,
                      !.row = Addressed(id, engine)]
  <2>2. o.pc = "down" /\ o.kind = "delete" /\ o.id = id /\ o.row = Addressed(id, engine)
    BY DEF Idle
  <2>3. Begin(p, o)
    BY <2>1
  <2>4. o.row.name = stacks[id].name /\ o.row.type = stacks[id].type
    BY <2>2, AddressedType DEF Inv
  <2> HIDE DEF o
  <2> QED BY <1>1, <2>2, <2>3, <2>4 DEF SoloInv, RowKnown
<1>6. CASE ExternalBegin(p)
  <2>1. PICK engine \in Engines, name \in Names :
          /\ \A id \in Rows : stacks[id].name # name
          /\ Begin(p, [Idle EXCEPT !.pc = "down", !.kind = "external",
                     !.row = [name |-> name, type |-> "swarm", engine |-> engine]])
    BY <1>6 DEF ExternalBegin
  <2> DEFINE row == [name |-> name, type |-> "swarm", engine |-> engine]
             o == [Idle EXCEPT !.pc = "down", !.kind = "external", !.row = row]
  <2>2. o.pc = "down" /\ o.kind = "external" /\ o.row = row
    BY DEF Idle
  <2>3. Begin(p, o) /\ row.name = name
    BY <2>1
  <2> HIDE DEF o, row
  <2> QED BY <1>1, <2>1, <2>2, <2>3 DEF SoloInv, RowKnown, Free
<1> QED BY <1>2, <1>3, <1>4, <1>5, <1>6 DEF Request

(* A handler that ends, or that goes on without touching row and file.     *)
LEMMA SoloDone ==
  ASSUME Inv, NEW p \in Procs, ~At(p, "idle"), Alone, Done(p), Numbered', FilesKept'
  PROVE  SoloState'
<1>1. \A q \in Procs \ {p} : op[q] = Idle
  BY OthersIdle
<1>2. Others(p) /\ op'[p] = Idle
  BY BecomeMove DEF Done, Inv, OpsOK
<1>3. (RowKnown(Idle) /\ FileKnown(Idle))'
  BY IdleKnown, PTL
<1> QED BY <1>1, <1>2, <1>3, SoloMove

LEMMA SoloAdvance ==
  ASSUME Inv, SoloState, NEW p \in Procs, ~At(p, "idle"), Others(p), SameWork(p),
         op'[p].pc \notin {"identify", "remove.folder"}, op[p].pc \notin {"identify", "remove.folder"},
         op[p].pc \in Critical \cup {"lock", "persist"} \/ op'[p].pc \notin Critical \cup {"lock", "persist"},
         UNCHANGED <<stacks, seq, folders>>
  PROVE  SoloState'
<1>1. \A q \in Procs \ {p} : op[q] = Idle
  BY OthersIdle DEF SoloState
<1>2. Rows' = Rows
  BY DEF Rows
<1>3. Numbered' /\ FilesKept'
  BY <1>2 DEF SoloState, Numbered, FilesKept
<1>4. RowKnown(op[p])'
  BY <1>2 DEF SoloState, RowKnown, Free, SameWork
<1>5. FileKnown(op[p])'
  BY DEF SoloState, FileKnown, SameWork
<1> QED BY <1>1, <1>3, <1>4, <1>5, SoloMove

LEMMA SoloFail ==
  ASSUME Inv, SoloState, NEW p \in Procs, op[p].pc \in FaultPoints, Fail(p),
         UNCHANGED <<stacks, seq, folders>>
  PROVE  SoloState'
<1>0. Rows' = Rows /\ op \in [Procs -> Op]
  BY DEF Rows, Inv, OpsOK
<1>1. Numbered' /\ FilesKept'
  BY <1>0 DEF SoloState, Numbered, FilesKept
<1>2. op[p].pc # "idle" /\ op[p].pc # "identify"
  BY DEF FaultPoints
<1>3. PICK cloned \in BOOLEAN : IF CleansUp(op[p], cloned) THEN Advance(p, "cleanup") ELSE Done(p)
  BY DEF Fail
<1>4. CASE CleansUp(op[p], cloned)
  <2>1. Others(p) /\ SameWork(p) /\ op'[p].pc = "cleanup"
    BY <1>0, <1>3, <1>4, AdvanceMove
  <2>2. op[p].pc # "remove.folder"
    BY <1>4 DEF CleansUp, Inv, OpsOK, WellFormed, OnItsWay, Critical
  <2> QED BY <1>2, <2>1, <2>2, SoloAdvance DEF At, Critical
<1>5. CASE ~CleansUp(op[p], cloned)
  BY <1>1, <1>2, <1>3, <1>5, SoloDone DEF SoloState, At
<1> QED BY <1>4, <1>5

LEMMA SoloContinue ==
  ASSUME Inv, SoloState, NEW p \in Procs, Continue(p)
  PROVE  SoloState'
<1>0. /\ op \in [Procs -> Op] /\ WellFormed(op[p]) /\ Alone /\ Numbered /\ FilesKept
      /\ RowKnown(op[p]) /\ FileKnown(op[p]) /\ DataOK
  BY DEF Inv, OpsOK, SoloState
<1>1. ~At(p, "idle")
  BY DEF Continue, Identify, Store, Lock, Login, Up, Logout, Down, RemoveRow, RemoveFolder,
         Persist, Cleanup, FileMissing, At
<1>2. \A q \in Procs \ {p} : op[q] = Idle
  BY <1>0, <1>1, OthersIdle
<1>3. CASE Identify(p)
  <2>1. /\ Others(p) /\ op'[p].pc = "store" /\ op'[p].id = seq + 1
        /\ op'[p].kind = op[p].kind /\ op'[p].name = op[p].name /\ op[p].pc = "identify"
    BY <1>0, <1>3, IdentifyMove DEF Identify, At
  <2>2. op[p].kind = "create"
    BY <2>1, <1>0 DEF WellFormed, OnItsWay, Critical
  <2>3. Rows' = Rows /\ UNCHANGED <<stacks, seq, folders>>
    BY <1>3 DEF Identify, Rows, disk
  <2>4. Numbered' /\ FilesKept'
    BY <1>0, <2>3 DEF Numbered, FilesKept
  <2>5. RowKnown(op[p])' /\ FileKnown(op[p])'
    BY <1>0, <2>1, <2>2, <2>3 DEF RowKnown, FileKnown, Free, Critical
  <2> QED BY <1>2, <2>1, <2>4, <2>5, SoloMove
<1>4. CASE Store(p)
  <2>1. Others(p) /\ SameWork(p) /\ op'[p].pc = "lock" /\ op[p].pc = "store"
    BY <1>0, <1>4, StoreMove DEF Store, At
  <2>2. op[p].file # None /\ op[p].id \in IDs /\ op[p].kind \in {"create", "update"}
    BY <1>0, <2>1, NoneAssumption DEF WellFormed, OnItsWay, Critical
  <2>3. /\ UNCHANGED <<stacks, seq>> /\ Rows' = Rows /\ folders'[op[p].id] # None
        /\ \A id \in IDs : id # op[p].id => folders'[id] = folders[id]
    BY <1>0, <1>4, <2>2 DEF Store, Rows, DataOK
  <2>4. Numbered' /\ FilesKept'
    BY <1>0, <2>3 DEF Numbered, FilesKept, Rows
  <2>5. RowKnown(op[p])' /\ FileKnown(op[p])'
    BY <1>0, <2>1, <2>2, <2>3 DEF RowKnown, FileKnown, Free, SameWork
  <2> QED BY <1>2, <2>1, <2>4, <2>5, SoloMove
<1>5. CASE Lock(p) \/ Login(p) \/ Up(p) \/ Logout(p)
  <2>1. /\ Others(p) /\ SameWork(p) /\ op[p].pc \in Critical \cup {"lock"}
        /\ op'[p].pc \in Critical \cup {"down", "persist"}
    BY <1>0, <1>5, AdvanceMove, LoginMove, UpMove DEF Lock, Login, Up, Logout, At, Critical
  <2>2. UNCHANGED <<stacks, seq, folders>>
    BY <1>5 DEF Lock, Login, Up, Logout, disk
  <2> QED BY <1>1, <2>1, <2>2, SoloAdvance DEF Critical
<1>6. CASE Down(p)
  <2>1. op[p].pc = "down" /\ UNCHANGED <<stacks, seq, folders>> /\ Rows' = Rows
    BY <1>6 DEF Down, At, disk, Rows
  <2>2. Numbered' /\ FilesKept'
    BY <1>0, <2>1 DEF Numbered, FilesKept
  <2>3. CASE op[p].kind = "migrate"
    <3>1. Others(p) /\ SameWork(p) /\ op'[p].pc = "persist"
      BY <1>0, <1>6, <2>3, AdvanceMove DEF Down, AfterDown
    <3>2. RowKnown(op[p])' /\ FileKnown(op[p])'
      BY <1>0, <2>1, <2>3, <3>1 DEF RowKnown, FileKnown, Free, SameWork
    <3> QED BY <1>2, <2>2, <3>1, <3>2, SoloMove
  <2>4. CASE op[p].kind = "delete"
    <3>1. Others(p) /\ SameWork(p) /\ op'[p].pc = "remove.row"
      BY <1>0, <1>6, <2>4, AdvanceMove DEF Down, AfterDown
    <3> QED BY <1>1, <2>1, <3>1, SoloAdvance DEF Critical
  <2>5. CASE op[p].kind = "external"
    <3>1. Done(p)
      BY <1>6, <2>5 DEF Down, AfterDown
    <3> QED BY <1>0, <1>1, <2>2, <3>1, SoloDone
  <2> QED BY <2>1, <2>3, <2>4, <2>5, <1>0 DEF WellFormed, OnItsWay, Critical
<1>7. CASE RemoveRow(p)
  <2>1. Others(p) /\ SameWork(p) /\ op[p].pc = "remove.row" /\ op'[p].pc = "remove.folder"
    BY <1>0, <1>7, AdvanceMove DEF RemoveRow, At
  <2>2. op[p].kind = "delete" /\ op[p].id \in IDs
    BY <1>0, <2>1 DEF WellFormed, OnItsWay, Critical
  <2>3. /\ Rows' = Rows \ {op[p].id} /\ UNCHANGED <<seq, folders>>
        /\ \A id \in Rows' : stacks'[id] = stacks[id]
    BY <1>0, <1>7, <2>2 DEF RemoveRow, Rows, DataOK
  <2>4. Numbered' /\ FilesKept'
    BY <1>0, <2>3 DEF Numbered, FilesKept
  <2>5. RowKnown(op[p])' /\ FileKnown(op[p])'
    BY <2>1, <2>2, <2>3 DEF RowKnown, FileKnown, SameWork
  <2> QED BY <1>2, <2>1, <2>4, <2>5, SoloMove
<1>8. CASE RemoveFolder(p) \/ Cleanup(p)
  <2>1. op[p].pc \in {"remove.folder", "cleanup"} /\ Done(p) /\ UNCHANGED <<stacks, seq>> /\ Rows' = Rows
    BY <1>8 DEF RemoveFolder, Cleanup, At, Rows
  <2>2. op[p].id \notin Rows
    <3>1. CASE op[p].pc = "remove.folder"
      BY <3>1, <1>0 DEF RowKnown
    <3>2. CASE op[p].pc = "cleanup"
      <4>1. op[p].kind = "create" /\ seq \in Nat
        <5>1. op[p].kind = "create"
          BY <3>2, <1>0 DEF WellFormed, OnItsWay, Critical
        <5> QED BY <5>1, <1>0, StackBounds DEF DataOK
      <4>2. op[p].id = seq + 1
        BY <3>2, <4>1, <1>0 DEF RowKnown
      <4> QED BY <4>1, <4>2, <1>0 DEF Numbered, Rows, IDs
    <3> QED BY <2>1, <3>1, <3>2
  <2>3. \A id \in Rows : folders'[id] = folders[id]
    BY <1>0, <1>8, <2>2 DEF RemoveFolder, Cleanup, DataOK, Rows
  <2>4. Numbered' /\ FilesKept'
    BY <1>0, <2>1, <2>3 DEF Numbered, FilesKept
  <2> QED BY <1>0, <1>1, <2>1, <2>4, SoloDone
<1>9. CASE Persist(p)
  <2>1. op[p].pc = "persist" /\ Done(p) /\ UNCHANGED folders
    BY <1>9 DEF Persist, At
  <2>2. op[p].kind \in {"create", "update", "migrate"} /\ op[p].id \in IDs /\ op[p].row \in Stack
        /\ op[p].to \in Engines /\ (op[p].kind = "create" => op[p].name = op[p].row.name)
    BY <1>0, <2>1 DEF WellFormed, OnItsWay, Critical
  <2> DEFINE row == [op[p].row EXCEPT !.engine = op[p].to]
  <2>3. row \in Stack /\ row # None /\ row.name = op[p].row.name
    <3>1. row \in Stack /\ row.name = op[p].row.name
      BY <2>2 DEF Stack
    <3> QED BY <3>1, NoStackAssumption
  <2> HIDE DEF row
  <2>4. stacks' = [stacks EXCEPT ![op[p].id] = row]
    BY <1>9 DEF Persist, row
  <2>5. /\ Rows' = Rows \cup {op[p].id} /\ stacks'[op[p].id] = row
        /\ \A id \in Rows : id # op[p].id => stacks'[id] = stacks[id]
    BY <1>0, <2>2, <2>3, <2>4 DEF Rows, DataOK
  <2>6. CASE op[p].kind = "create"
    <3>1. op[p].id = seq + 1 /\ Free(row.name) /\ folders[op[p].id] # None /\ seq' = op[p].id /\ seq \in Nat
      BY <1>0, <1>9, <2>1, <2>2, <2>3, <2>6, StackBounds DEF RowKnown, FileKnown, Persist, DataOK
    <3>2. FilesKept'
      BY <1>0, <2>1, <2>5, <3>1 DEF FilesKept
    <3>3. Numbered'
      BY <1>0, <2>5, <3>1 DEF Numbered, Free, Rows, IDs
    <3> QED BY <1>0, <1>1, <2>1, <3>2, <3>3, SoloDone
  <2>7. CASE op[p].kind # "create"
    <3>1. op[p].id \in Rows /\ stacks[op[p].id].name = op[p].row.name /\ seq' = seq
      BY <1>0, <1>9, <2>2, <2>7 DEF RowKnown, Persist
    <3>2. FilesKept'
      BY <1>0, <2>1, <2>5, <3>1 DEF FilesKept
    <3>3. Numbered'
      BY <1>0, <2>3, <2>5, <3>1 DEF Numbered
    <3> QED BY <1>0, <1>1, <2>1, <3>2, <3>3, SoloDone
  <2> QED BY <2>6, <2>7
<1>10. CASE FileMissing(p)
  BY <1>10, SoloFail DEF FileMissing, FaultPoints, At, disk
<1> QED BY <1>3, <1>4, <1>5, <1>6, <1>7, <1>8, <1>9, <1>10 DEF Continue

LEMMA SameOverlaps ==
  ASSUME \/ Restart \/ UNCHANGED vars
         \/ \E p \in Procs : Continue(p) \/ IOError(p) \/ CleanupError(p)
  PROVE  overlaps' = overlaps
<1>1. CASE Restart \/ UNCHANGED vars
  BY <1>1 DEF Restart, vars, history
<1>2. ASSUME NEW p \in Procs, Continue(p) PROVE overlaps' = overlaps
  <2>1. CASE Identify(p) \/ Store(p) \/ Lock(p) \/ Login(p) \/ Logout(p) \/ RemoveRow(p)
             \/ RemoveFolder(p) \/ Persist(p) \/ Cleanup(p) \/ FileMissing(p)
    <3>1. UNCHANGED history
      BY <2>1 DEF Identify, Store, Lock, Login, Logout, RemoveRow, RemoveFolder, Persist,
                  Cleanup, FileMissing
    <3> QED BY <3>1 DEF history
  <2>2. CASE Up(p) \/ Down(p)
    BY <2>2 DEF Up, Down
  <2> QED BY <1>2, <2>1, <2>2 DEF Continue
<1>3. ASSUME NEW p \in Procs, IOError(p) \/ CleanupError(p) PROVE overlaps' = overlaps
  BY <1>3 DEF history, IOError, CleanupError
<1> QED BY <1>1, <1>2, <1>3

LEMMA SoloStep == Inv /\ SoloInv /\ [Next]_vars => SoloInv'
<1> SUFFICES ASSUME Inv, SoloInv, [Next]_vars, overlaps' = 0 PROVE SoloState'
  BY DEF SoloInv
<1>1. ASSUME NEW p \in Procs, Request(p) PROVE SoloState'
  BY <1>1, SoloRequest
<1>2. CASE \/ Restart \/ UNCHANGED vars
           \/ \E p \in Procs : Continue(p) \/ IOError(p) \/ CleanupError(p)
  <2>1. overlaps' = overlaps
    BY <1>2, SameOverlaps
  <2>2. SoloState
    BY <2>1 DEF SoloInv
  <2>3. CASE Restart
    <3>1. (\A q \in Procs : op'[q] = Idle) /\ UNCHANGED <<stacks, seq, folders>> /\ Rows' = Rows
      BY <2>3 DEF Restart, disk, Rows
    <3>2. (RowKnown(Idle) /\ FileKnown(Idle))'
      BY IdleKnown, PTL
    <3>5. Idle.pc = "idle"
      BY DEF Idle
    <3>3. Numbered' /\ FilesKept'
      BY <2>2, <3>1 DEF SoloState, Numbered, FilesKept
    <3>4. \A q \in Procs : RowKnown(op[q])' /\ FileKnown(op[q])'
      BY <3>1, <3>2
    <3> QED BY <3>1, <3>3, <3>4, <3>5 DEF SoloState, Alone, At
  <2>4. CASE UNCHANGED vars
    BY <2>2, <2>4 DEF vars, disk, SoloState, Alone, At, Numbered, FilesKept, Rows, RowKnown, FileKnown, Free
  <2>5. ASSUME NEW p \in Procs, Continue(p) PROVE SoloState'
    BY <2>2, <2>5, SoloContinue
  <2>6. ASSUME NEW p \in Procs, IOError(p) PROVE SoloState'
    BY <2>2, <2>6, SoloFail DEF IOError, disk
  <2>7. ASSUME NEW p \in Procs, CleanupError(p) PROVE SoloState'
    <3>1. Done(p) /\ ~At(p, "idle") /\ UNCHANGED <<stacks, seq, folders>> /\ Rows' = Rows
      BY <2>7 DEF CleanupError, At, disk, Rows
    <3>2. Numbered' /\ FilesKept'
      BY <2>2, <3>1 DEF SoloState, Numbered, FilesKept
    <3> QED BY <2>2, <3>1, <3>2, SoloDone DEF SoloState
  <2> QED BY <1>2, <2>3, <2>4, <2>5, <2>6, <2>7
<1> QED BY <1>1, <1>2 DEF Next

LEMMA SoloInit == Init => SoloInv
<1> SUFFICES ASSUME Init PROVE SoloState
  BY DEF SoloInv
<1>1. Rows = {} /\ (\A p \in Procs : op[p] = Idle) /\ Idle.pc = "idle"
  BY DEF Init, Rows, Idle
<1> QED BY <1>1, IdleKnown DEF SoloState, Alone, At, Numbered, FilesKept

(* As long as requests do not overlap, whatever fails and whenever the     *)
(* server is cut off, a stack that is stored has its file.                 *)
THEOREM FilesStay == Spec => []StackHasFile
<1>1. SoloInv => StackHasFile
  BY DEF SoloInv, SoloState, FilesKept, StackHasFile
<1> QED BY <1>1, TypeInit, TypeStep, SoloInit, SoloStep, PTL DEF Spec

-----------------------------------------------------------------------------
(* As long as migrations keep the name, each stack runs.                   *)
Runs(id) == \E engine \in Engines : deployed[Project(stacks[id].type, engine, stacks[id].name)] # None

LEMMA RunsMove ==
  ASSUME NEW p \in Procs, \A q \in Procs \ {p} : op[q] = Idle, Others(p),
         \A id \in Rows' \ doomed' : Runs(id)', RunKnown(op[p])'
  PROVE  RunsState'
<1>1. \A q \in Procs \ {p} : op'[q] = Idle
  BY DEF Others
<1>2. RunKnown(Idle)'
  BY IdleFields DEF RunKnown, Gone
<1>3. ASSUME NEW q \in Procs PROVE RunKnown(op[q])'
  <2>1. CASE q = p
    BY <2>1
  <2>2. CASE q # p
    BY <1>1, <1>2, <2>2
  <2> QED BY <2>1, <2>2
<1> QED BY <1>3 DEF RunsState, Runs

(* Steps that leave what is stored and what runs alone.                    *)
LEMMA RunsStay ==
  ASSUME Inv, SoloState, RunsState, NEW p \in Procs, ~At(p, "idle"), Others(p), Rows' \subseteq Rows,
         \A id \in Rows' : stacks'[id] = stacks[id],
         doomed' = doomed, \A x \in Projects : deployed[x] # None => deployed'[x] # None,
         RunKnown(op[p])'
  PROVE  RunsState'
<1>1. \A q \in Procs \ {p} : op[q] = Idle
  BY OthersIdle DEF SoloState
<1>2. ASSUME NEW id \in Rows' \ doomed' PROVE Runs(id)'
  <2>1. id \in Rows \ doomed /\ stacks'[id] = stacks[id] /\ stacks[id] \in Stack
    BY DEF Rows, Inv, DataOK
  <2>2. PICK engine \in Engines : deployed[Project(stacks[id].type, engine, stacks[id].name)] # None
    BY <2>1 DEF RunsState
  <2>3. Project(stacks[id].type, engine, stacks[id].name) \in Projects
    BY <2>1 DEF Projects, Project, Stack
  <2>4. deployed'[Project(stacks[id].type, engine, stacks[id].name)] # None
    BY <2>2, <2>3
  <2> QED BY <2>1, <2>4 DEF Runs
<1> QED BY <1>1, <1>2, RunsMove

LEMMA RunsRequest ==
  ASSUME Inv, RunsInv, NEW p \in Procs, Request(p), overlaps' = 0
  PROVE  RunsState'
<1>1. ASSUME NEW o, Begin(p, o), o.pc \in {"identify", "store", "lock"} \/ o.kind \in {"delete", "external"},
             o.pc # "remove.row"
      PROVE  RunsState'
  <2>1. /\ overlaps = 0 /\ \A q \in Procs : op[q] = Idle
        /\ Others(p) /\ op'[p] = o /\ Rows' = Rows /\ UNCHANGED <<stacks, deployed, doomed>>
    BY <1>1, SoloBegin
  <2>2. RunKnown(op[p])'
    <3>1. ~Gone(o)
      BY <1>1 DEF Gone, MigratesHome
    <3> QED BY <1>1, <2>1, <3>1 DEF RunKnown, Gone, MigratesHome
  <2>3. \A id \in Rows' \ doomed' : Runs(id)'
    BY <2>1 DEF RunsInv, RunsState, Runs
  <2> QED BY <2>1, <2>2, <2>3, RunsMove
<1>2. CASE CreateBegin(p)
  BY <1>1, <1>2 DEF CreateBegin, Idle
<1>3. CASE UpdateBegin(p)
  BY <1>1, <1>3 DEF UpdateBegin, Idle
<1>4. CASE MigrateBegin(p)
  BY <1>1, <1>4 DEF MigrateBegin, Idle
<1>5. CASE DeleteBegin(p)
  BY <1>1, <1>5 DEF DeleteBegin, Idle
<1>6. CASE ExternalBegin(p)
  BY <1>1, <1>6 DEF ExternalBegin, Idle
<1> QED BY <1>2, <1>3, <1>4, <1>5, <1>6 DEF Request

(* A deployment that fails may have deployed; it takes nothing down.       *)
LEMMA DeployAdds ==
  ASSUME Inv, NEW p \in Procs, At(p, "up"), folders[op[p].id] # None, Deploy(p)
  PROVE  /\ Target(op[p]) \in Projects /\ deployed'[Target(op[p])] = folders[op[p].id]
         /\ \A x \in Projects : x # Target(op[p]) => deployed'[x] = deployed[x]
         /\ \A x \in Projects : deployed[x] # None => deployed'[x] # None
<1>1. /\ op[p].row \in Stack /\ op[p].to \in Engines /\ op[p].name \in Names
      /\ deployed \in [Projects -> Contents \cup {None}]
  BY DEF Inv, DataOK, OpsOK, At, WellFormed, OnItsWay, Critical
<1>2. Target(op[p]) \in Projects
  BY <1>1 DEF Target, Project, Projects, Stack
<1>3. deployed' = [deployed EXCEPT ![Target(op[p])] = folders[op[p].id]]
  BY DEF Deploy, Target
<1> QED BY <1>1, <1>2, <1>3

LEMMA RunsFail ==
  ASSUME Inv, SoloState, RunsState, NEW p \in Procs, op[p].pc \in FaultPoints, Fail(p),
         \/ At(p, "up") /\ folders[op[p].id] # None /\ Deploy(p)
         \/ UNCHANGED deployed,
         UNCHANGED <<stacks, doomed>>
  PROVE  RunsState'
<1>1. ~At(p, "idle") /\ Rows' = Rows /\ op \in [Procs -> Op] /\ OpsOK /\ MutexOK
  BY DEF At, FaultPoints, Rows, Inv, OpsOK
<1>2. \A x \in Projects : deployed[x] # None => deployed'[x] # None
  BY DeployAdds
<1>3. \/ op[p].kind = "create" /\ Become(p, [op[p] EXCEPT !.pc = "cleanup"])
      \/ Become(p, Idle)
  BY <1>1, FailMove
<1>4. Others(p) /\ op'[p].pc \in {"idle", "cleanup"}
  <2>1. CASE Become(p, [op[p] EXCEPT !.pc = "cleanup"])
    <3>1. op[p] \in Op
      BY <1>1
    <3>2. [op[p] EXCEPT !.pc = "cleanup"].pc = "cleanup"
      BY <3>1 DEF Op
    <3> QED BY <1>1, <2>1, <3>2, BecomeMove
  <2>2. CASE Become(p, Idle)
    <3>1. Idle.pc = "idle"
      BY DEF Idle
    <3> QED BY <1>1, <2>2, <3>1, BecomeMove
  <2> QED BY <1>3, <2>1, <2>2
<1>5. RunKnown(op[p])'
  BY <1>4 DEF RunKnown, Gone
<1> QED BY <1>1, <1>2, <1>4, <1>5, RunsStay

LEMMA RunsContinue ==
  ASSUME Renames = {}, Inv, Inv', SoloState, RunsState, NEW p \in Procs, Continue(p)
  PROVE  RunsState'
<1>0. /\ op \in [Procs -> Op] /\ WellFormed(op[p]) /\ op[p] \in Op /\ Alone /\ Numbered /\ FilesKept
      /\ RowKnown(op[p]) /\ FileKnown(op[p]) /\ RunKnown(op[p]) /\ DataOK
      /\ \A id \in Rows \ doomed : Runs(id)
  BY DEF Inv, OpsOK, SoloState, RunsState, Runs
<1>1. ~At(p, "idle")
  BY DEF Continue, Identify, Store, Lock, Login, Up, Logout, Down, RemoveRow, RemoveFolder,
         Persist, Cleanup, FileMissing, At
<1>2. \A q \in Procs \ {p} : op[q] = Idle
  BY <1>0, <1>1, OthersIdle
<1>3. ASSUME NEW id \in Rows PROVE stacks[id] \in Stack
  BY <1>0 DEF DataOK, Rows
<1>4. CASE Identify(p) \/ Store(p) \/ Lock(p) \/ Login(p)
  <2>1. Others(p) /\ op'[p].pc \in {"store", "lock", "login", "up"}
    BY <1>0, <1>4, IdentifyMove, StoreMove, AdvanceMove, LoginMove DEF Lock
  <2>2. UNCHANGED <<stacks, deployed, doomed>>
    BY <1>4 DEF Identify, Store, Lock, Login, disk, history
  <2>3. Rows' = Rows /\ RunKnown(op[p])'
    BY <2>1, <2>2 DEF Rows, RunKnown, Gone
  <2> QED BY <1>1, <2>1, <2>2, <2>3, RunsStay
<1>5. CASE Up(p)
  <2>1. Others(p) /\ SameWork(p) /\ op[p].pc = "up" /\ op'[p].pc = "logout" /\ folders[op[p].id] # None
    BY <1>0, <1>5, UpMove DEF Up, At
  <2>2. Rows' = Rows /\ UNCHANGED <<stacks, folders>> /\ doomed' = doomed \ {op[p].id}
    BY <1>5 DEF Up, Rows, disk
  <2>3. /\ Target(op[p]) \in Projects /\ deployed'[Target(op[p])] = folders[op[p].id]
        /\ \A x \in Projects : deployed[x] # None => deployed'[x] # None
    BY <1>5, DeployAdds DEF Up
  <2>4. RunKnown(op[p])'
    BY <2>1, <2>2, <2>3 DEF RunKnown, Gone, SameWork, Target
  <2>5. ASSUME NEW id \in Rows \ doomed' PROVE Runs(id)'
    <3>1. CASE id = op[p].id
      <4>1. op[p].kind # "create"
        BY <3>1, <2>1, <1>0 DEF RowKnown, Numbered, DataOK, Rows, IDs
      <4>2. op[p].kind \in {"update", "migrate"}
        BY <4>1, <2>1, <1>0 DEF WellFormed, OnItsWay, Critical
      <4>3. /\ stacks[id].name = op[p].row.name /\ stacks[id].type = op[p].row.type
            /\ op[p].name = op[p].row.name /\ op[p].to \in Engines
        BY <3>1, <4>2, <1>0 DEF WellFormed, RowKnown
      <4>4. deployed'[Project(stacks'[id].type, op[p].to, stacks'[id].name)] # None
        BY <2>1, <2>2, <2>3, <4>3 DEF Target
      <4> QED BY <4>3, <4>4 DEF Runs
    <3>2. CASE id # op[p].id
      <4>1. Runs(id)
        BY <3>2, <2>2, <1>0
      <4>2. PICK engine \in Engines : deployed[Project(stacks[id].type, engine, stacks[id].name)] # None
        BY <4>1 DEF Runs
      <4>3. Project(stacks[id].type, engine, stacks[id].name) \in Projects
        BY <1>3 DEF Projects, Project, Stack
      <4> QED BY <2>2, <2>3, <4>2, <4>3 DEF Runs
    <3> QED BY <3>1, <3>2
  <2> QED BY <1>2, <2>1, <2>2, <2>4, <2>5, RunsMove
<1>6. CASE Logout(p)
  <2>1. /\ Others(p) /\ SameWork(p) /\ op[p].pc = "logout" /\ op'[p].pc \in {"down", "persist"}
        /\ op[p].kind = "migrate" => op'[p].pc = "down"
    BY <1>0, <1>6, AdvanceMove DEF Logout, At
  <2>2. Rows' = Rows /\ UNCHANGED <<stacks, folders, deployed, doomed>>
    BY <1>6 DEF Logout, Rows, disk, history
  <2>3. RunKnown(op[p])'
    BY <1>0, <2>1, <2>2 DEF RunKnown, Gone, MigratesHome, SameWork, Target
  <2> QED BY <1>1, <2>1, <2>2, <2>3, RunsStay
<1>7. CASE Down(p)
  <2> DEFINE old == Project(op[p].row.type, op[p].row.engine, op[p].row.name)
  <2>1. /\ op[p].pc = "down" /\ Rows' = Rows /\ UNCHANGED <<stacks, folders>>
        /\ deployed' = [deployed EXCEPT ![old] = None]
        /\ doomed' = IF TakesDown(op[p]) THEN doomed \cup {op[p].id} ELSE doomed
    BY <1>7 DEF Down, At, Rows, disk
  <2>2. /\ op[p].kind \in {"migrate", "delete", "external"} /\ op[p].row \in Stack
    BY <1>0, <2>1 DEF WellFormed, OnItsWay, Critical
  <2>3. \A x \in Projects : x # old => deployed'[x] = deployed[x]
    BY <2>1, <1>0 DEF DataOK
  <2>4. ASSUME NEW id \in Rows, stacks[id].name = op[p].row.name
        PROVE  op[p].kind # "external" /\ id = op[p].id
    <3>1. op[p].kind # "external"
      BY <2>4, <1>0 DEF RowKnown, Free
    <3>2. op[p].id \in Rows /\ stacks[op[p].id].name = op[p].row.name
      BY <2>1, <2>2, <3>1, <1>0 DEF RowKnown
    <3> QED BY <2>4, <3>1, <3>2, <1>0 DEF Numbered
  <2>5. ASSUME NEW id \in Rows, id # op[p].id \/ op[p].kind = "external", Runs(id) PROVE Runs(id)'
    <3>1. PICK engine \in Engines : deployed[Project(stacks[id].type, engine, stacks[id].name)] # None
      BY <2>5 DEF Runs
    <3>2. Project(stacks[id].type, engine, stacks[id].name) \in Projects
      BY <1>3 DEF Projects, Project, Stack
    <3>3. Project(stacks[id].type, engine, stacks[id].name) # old
      BY <2>4, <2>5 DEF Project
    <3> QED BY <2>1, <2>3, <3>1, <3>2, <3>3 DEF Runs
  <2>6. CASE op[p].kind = "migrate" /\ op[p].to # op[p].row.engine
    <3>1. Others(p) /\ SameWork(p) /\ op'[p].pc = "persist" /\ doomed' = doomed
      BY <1>0, <1>7, <2>1, <2>6, AdvanceMove DEF Down, AfterDown, TakesDown, MigratesHome
    <3>2. /\ op[p].id \in Rows /\ stacks[op[p].id].name = op[p].row.name
          /\ stacks[op[p].id].type = op[p].row.type
          /\ op[p].to \in Engines /\ op[p].name = op[p].row.name
      BY <2>6, <1>0 DEF RowKnown, WellFormed
    <3>3. Target(op[p]) \in Projects /\ Target(op[p]) # old
      BY <2>2, <2>6, <3>2 DEF Target, Project, Projects, Stack
    <3>4. deployed'[Target(op[p])] = folders[op[p].id] /\ folders[op[p].id] # None
      BY <2>1, <2>3, <2>6, <3>2, <3>3, <1>0 DEF RunKnown, Gone, FilesKept
    <3>5. RunKnown(op[p])'
      BY <2>1, <2>6, <3>1, <3>4 DEF RunKnown, Gone, MigratesHome, SameWork, Target
    <3>6. ASSUME NEW id, id = op[p].id PROVE Runs(id)'
      <4>1. deployed'[Project(stacks'[id].type, op[p].to, stacks'[id].name)] # None
        BY <2>1, <3>2, <3>4, <3>6 DEF Target
      <4> QED BY <3>2, <4>1 DEF Runs
    <3>7. ASSUME NEW id \in Rows' \ doomed' PROVE Runs(id)'
      BY <1>0, <2>1, <2>5, <3>1, <3>6
    <3> QED BY <1>2, <3>1, <3>5, <3>7, RunsMove
  <2>9. CASE op[p].kind = "migrate" /\ op[p].to = op[p].row.engine
    <3>1. Others(p) /\ SameWork(p) /\ op'[p].pc = "persist" /\ doomed' = doomed \cup {op[p].id}
      BY <1>0, <1>7, <2>1, <2>9, AdvanceMove DEF Down, AfterDown, TakesDown, MigratesHome
    <3>2. RunKnown(op[p])'
      BY <2>9, <3>1 DEF RunKnown, Gone, MigratesHome, SameWork
    <3>3. \A id \in Rows' \ doomed' : Runs(id)'
      BY <1>0, <2>1, <2>5, <3>1
    <3> QED BY <1>2, <3>1, <3>2, <3>3, RunsMove
  <2>7. CASE op[p].kind = "delete"
    <3>1. Others(p) /\ SameWork(p) /\ op'[p].pc = "remove.row" /\ doomed' = doomed \cup {op[p].id}
      BY <1>0, <1>7, <2>1, <2>7, AdvanceMove DEF Down, AfterDown, TakesDown
    <3>2. RunKnown(op[p])'
      BY <2>7, <3>1 DEF RunKnown, Gone, SameWork
    <3>3. \A id \in Rows' \ doomed' : Runs(id)'
      BY <1>0, <2>1, <2>5, <3>1
    <3> QED BY <1>2, <3>1, <3>2, <3>3, RunsMove
  <2>8. CASE op[p].kind = "external"
    <3>1. Others(p) /\ op'[p] = Idle /\ doomed' = doomed
      BY <1>0, <1>7, <2>1, <2>8, BecomeMove DEF Down, AfterDown, Done, TakesDown, MigratesHome
    <3>2. RunKnown(op[p])'
      BY <3>1, IdleFields DEF RunKnown, Gone
    <3>3. \A id \in Rows' \ doomed' : Runs(id)'
      BY <1>0, <2>1, <2>5, <2>8, <3>1
    <3> QED BY <1>2, <3>1, <3>2, <3>3, RunsMove
  <2> QED BY <2>2, <2>6, <2>7, <2>8, <2>9
<1>8. CASE RemoveRow(p)
  <2>1. Others(p) /\ SameWork(p) /\ op[p].pc = "remove.row" /\ op'[p].pc = "remove.folder"
    BY <1>0, <1>8, AdvanceMove DEF RemoveRow, At
  <2>2. op[p].id \in IDs
    BY <1>0, <2>1 DEF WellFormed, OnItsWay, Critical
  <2>3. /\ Rows' \subseteq Rows /\ (\A id \in Rows' : stacks'[id] = stacks[id])
        /\ UNCHANGED <<deployed, doomed>>
    BY <1>0, <1>8, <2>2 DEF RemoveRow, Rows, DataOK, history
  <2>4. RunKnown(op[p])'
    BY <2>1, IdleFields DEF RunKnown, Gone
  <2> QED BY <1>1, <2>1, <2>3, <2>4, RunsStay
<1>9. CASE RemoveFolder(p) \/ Cleanup(p)
  <2>1. Others(p) /\ op'[p] = Idle
    BY <1>0, <1>9, BecomeMove DEF RemoveFolder, Cleanup, Done
  <2>2. Rows' = Rows /\ UNCHANGED <<stacks, deployed, doomed>>
    BY <1>9 DEF RemoveFolder, Cleanup, Rows, history
  <2>3. RunKnown(op[p])'
    BY <2>1, IdleFields DEF RunKnown, Gone
  <2> QED BY <1>1, <2>1, <2>2, <2>3, RunsStay
<1>10. CASE Persist(p)
  <2>1. op[p].pc = "persist" /\ Others(p) /\ op'[p] = Idle /\ UNCHANGED <<deployed, doomed>>
    BY <1>0, <1>10, BecomeMove DEF Persist, At, Done, history
  <2>2. /\ op[p].kind \in {"create", "update", "migrate"} /\ op[p].id \in IDs /\ op[p].row \in Stack
        /\ op[p].to \in Engines /\ op[p].name = op[p].row.name
    BY <1>0, <2>1 DEF WellFormed, OnItsWay, Critical
  <2> DEFINE row == [op[p].row EXCEPT !.engine = op[p].to]
  <2>3. row.name = op[p].row.name /\ row.type = op[p].row.type /\ stacks' = [stacks EXCEPT ![op[p].id] = row]
    BY <2>2, <1>10 DEF Stack, Persist
  <2> HIDE DEF row
  <2>4. /\ Rows' \subseteq Rows \cup {op[p].id} /\ stacks'[op[p].id] = row
        /\ \A id \in Rows : id # op[p].id => stacks'[id] = stacks[id]
    BY <1>0, <2>2, <2>3 DEF Rows, DataOK
  <2>5. folders[op[p].id] # None
    BY <1>0, <2>1, <2>2 DEF FileKnown, FilesKept, RowKnown
  <2>6. Gone(op[p]) \/ deployed[Target(op[p])] # None
    BY <1>0, <2>1, <2>2, <2>5 DEF RunKnown
  <2>7. ASSUME NEW id \in Rows' \ doomed', id = op[p].id PROVE Runs(id)'
    <3>2. ~Gone(op[p])
      BY <1>0, <2>1, <2>7 DEF RunKnown
    <3>1. deployed'[Project(stacks'[id].type, op[p].to, stacks'[id].name)] # None
      BY <2>1, <2>2, <2>3, <2>4, <2>6, <2>7, <3>2 DEF Target
    <3> QED BY <2>2, <3>1 DEF Runs
  <2>8. ASSUME NEW id \in Rows' \ doomed', id # op[p].id PROVE Runs(id)'
    <3>1. id \in Rows \ doomed /\ stacks'[id] = stacks[id] /\ UNCHANGED deployed
      BY <2>1, <2>4, <2>8
    <3> QED BY <3>1, <1>0 DEF Runs
  <2>9. RunKnown(op[p])'
    BY <2>1, IdleFields DEF RunKnown, Gone
  <2> QED BY <1>2, <2>1, <2>7, <2>8, <2>9, RunsMove
<1>11. CASE FileMissing(p)
  BY <1>11, RunsFail DEF FileMissing, FaultPoints, At, disk, history
<1> QED BY <1>4, <1>5, <1>6, <1>7, <1>8, <1>9, <1>10, <1>11 DEF Continue

LEMMA RunsStep == Renames = {} /\ Inv /\ Inv' /\ SoloInv /\ RunsInv /\ [Next]_vars => RunsInv'
<1> SUFFICES ASSUME Renames = {}, Inv, Inv', SoloInv, RunsInv, [Next]_vars, overlaps' = 0
             PROVE  RunsState'
  BY DEF RunsInv
<1>1. ASSUME NEW p \in Procs, Request(p) PROVE RunsState'
  BY <1>1, RunsRequest
<1>2. CASE \/ Restart \/ UNCHANGED vars
           \/ \E p \in Procs : Continue(p) \/ IOError(p) \/ CleanupError(p)
  <2>1. SoloState /\ RunsState
    BY <1>2, SameOverlaps DEF SoloInv, RunsInv
  <2>2. CASE Restart
    <3>1. (\A q \in Procs : op'[q] = Idle) /\ UNCHANGED <<stacks, deployed, doomed>> /\ Rows' = Rows
      BY <2>2 DEF Restart, disk, history, Rows
    <3>2. \A q \in Procs : RunKnown(op[q])'
      BY <3>1, IdleFields DEF RunKnown, Gone
    <3> QED BY <2>1, <3>1, <3>2 DEF RunsState
  <2>3. CASE UNCHANGED vars
    BY <2>1, <2>3 DEF vars, disk, history, RunsState, Rows, RunKnown, Gone, MigratesHome, Target
  <2>4. ASSUME NEW p \in Procs, Continue(p) PROVE RunsState'
    BY <2>1, <2>4, RunsContinue
  <2>5. ASSUME NEW p \in Procs, IOError(p) PROVE RunsState'
    <3>1. UNCHANGED <<stacks, doomed>>
      BY <2>5 DEF IOError, disk, history
    <3> QED BY <2>1, <2>5, <3>1, RunsFail DEF IOError
  <2>6. ASSUME NEW p \in Procs, CleanupError(p) PROVE RunsState'
    <3>1. Done(p) /\ ~At(p, "idle") /\ UNCHANGED <<stacks, deployed, doomed>> /\ Rows' = Rows
      BY <2>6 DEF CleanupError, At, disk, history, Rows
    <3>2. Others(p) /\ op'[p] = Idle
      BY <3>1, BecomeMove DEF Done, Inv, OpsOK
    <3>3. RunKnown(op[p])'
      BY <3>2, IdleFields DEF RunKnown, Gone
    <3> QED BY <2>1, <3>1, <3>2, <3>3, RunsStay
  <2> QED BY <1>2, <2>2, <2>3, <2>4, <2>5, <2>6
<1> QED BY <1>1, <1>2 DEF Next

LEMMA RunsInit == Init => RunsInv
<1> SUFFICES ASSUME Init PROVE RunsState
  BY DEF RunsInv
<1>1. Rows = {} /\ (\A p \in Procs : op[p] = Idle)
  BY DEF Init, Rows
<1> QED BY <1>1, IdleFields DEF RunsState, RunKnown, Gone

(* If no migration asks for another name, and as long as requests do not   *)
(* overlap, a stack that is stored is whole whatever fails and whenever    *)
(* the server is cut off: its file is on disk, and it runs somewhere       *)
(* unless its deletion, or a migration to where it was said to be, has     *)
(* taken it down.                                                          *)
THEOREM StacksWhole == ASSUME Renames = {} PROVE Spec => []StacksSound
<1>1. Inv /\ SoloInv /\ RunsInv => StacksSound
  BY InvIsTypeOK DEF SoloInv, SoloState, FilesKept, StackHasFile, RunsInv, RunsState, RunsSomewhere,
                     StacksSound
<1>2. Inv /\ Inv' /\ SoloInv /\ RunsInv /\ [Next]_vars => RunsInv'
  BY RunsStep
<1> QED BY <1>1, <1>2, TypeInit, TypeStep, SoloInit, SoloStep, RunsInit, PTL DEF Spec

-----------------------------------------------------------------------------
(* As long as, besides, nothing fails: the three agree but for the stack   *)
(* the handler at work is about to change.                                 *)
LEMMA IdleMatch ==
  /\ \A id : ~Keeps(Idle, id) /\ ~Behind(Idle, id)
  /\ \A x : ~Brings(Idle, x)
  /\ ~TakenDown(Idle) /\ Idle.pc # "cleanup"
BY IdleFields DEF Keeps, Behind, TakenDown, Brings

LEMMA MatchSolo ==
  ASSUME MatchState, NEW p \in Procs, \A q \in Procs \ {p} : op[q] = Idle
  PROVE  /\ \A id \in IDs \ Rows : folders[id] # None => Keeps(op[p], id)
         /\ \A id \in Rows :
              stacks[id].name \in astray \/ deployed[Where(id)] = folders[id] \/ Behind(op[p], id)
         /\ \A x \in Projects : deployed[x] # None =>
              NameOf(x) \in astray \/ (\E id \in Rows : x = Where(id)) \/ Brings(op[p], x)
         /\ OnCourse(op[p])
BY IdleMatch DEF MatchState, NoStrayFolder, NoStaleStack, NoStrayProject

LEMMA MatchMove ==
  ASSUME NEW p \in Procs, \A q \in Procs \ {p} : op[q] = Idle, Others(p),
         \A id \in IDs \ Rows' : folders'[id] # None => Keeps(op'[p], id),
         \A id \in Rows' : \/ stacks'[id].name \in astray'
                          \/ deployed'[Where(id)'] = folders'[id]
                          \/ Behind(op'[p], id),
         \A x \in Projects : deployed'[x] # None =>
           NameOf(x) \in astray' \/ (\E id \in Rows' : x = Where(id)') \/ Brings(op'[p], x),
         OnCourse(op[p])'
  PROVE  MatchState'
<1>1. \A id \in IDs \ Rows' : NoStrayFolder(id)'
  BY DEF NoStrayFolder, Keeps
<1>2. \A id \in Rows' : NoStaleStack(id)'
  BY DEF NoStaleStack, Behind, TakenDown, Where, Project
<1>3. \A x \in Projects : NoStrayProject(x)'
  BY DEF NoStrayProject, Brings, Target, Where
<1>4. OnCourse(Idle)'
  BY IdleMatch, IdleFields DEF OnCourse
<1>5. ASSUME NEW q \in Procs PROVE OnCourse(op[q])'
  <2>1. CASE q = p
    BY <2>1
  <2>2. CASE q # p
    BY <1>4, <2>2 DEF Others
  <2> QED BY <2>1, <2>2
<1> QED BY <1>1, <1>2, <1>3, <1>5 DEF MatchState

LEMMA MatchRequest ==
  ASSUME Inv, MatchState, NEW p \in Procs, Request(p), overlaps' = 0, SoloState'
  PROVE  MatchState'
<1>1. ASSUME NEW o, Begin(p, o), o.pc \in {"identify", "store", "lock", "down"},
             o.kind = "migrate" => o.pc = "lock",
             o.kind \in {"create", "external", "update", "migrate", "delete"}
      PROVE  MatchState'
  <2>1. /\ \A q \in Procs : op[q] = Idle
        /\ Others(p) /\ op'[p] = o /\ Rows' = Rows /\ UNCHANGED <<stacks, folders, deployed>>
        /\ astray' = IF Misleads(o) THEN astray \cup {stacks[o.id].name} ELSE astray
    BY <1>1, SoloBegin
  <2>2. /\ \A id \in IDs \ Rows : folders[id] = None
        /\ \A id \in Rows : stacks[id].name \in astray \/ deployed[Where(id)] = folders[id]
        /\ \A x \in Projects : deployed[x] # None =>
             NameOf(x) \in astray \/ \E id \in Rows : x = Where(id)
    BY <2>1, MatchSolo, IdleMatch
  <2>3. (\A id : Where(id)' = Where(id)) /\ astray \subseteq astray'
    BY <2>1 DEF Where
  <2>4. OnCourse(op[p])'
    <3>1. o.kind \in {"update", "migrate", "delete"} =>
            o.id \in Rows /\ stacks[o.id].name = o.row.name
      <4>1. RowKnown(op[p])' /\ o.pc # "remove.folder"
        BY <1>1 DEF SoloState
      <4> QED BY <2>1, <4>1 DEF RowKnown
    <3>2. ~TakenDown(o) /\ o.pc # "cleanup"
      BY <1>1 DEF TakenDown
    <3>3. CASE Misleads(o)
      <4>1. o.kind \in {"update", "migrate", "delete"} => o.row.name \in astray'
        BY <2>1, <3>1, <3>3
      <4>2. o.kind \in {"create", "external"} => Straight(op[p])'
        BY <2>1, <3>2 DEF Straight, MigratesHome, TakenDown
      <4> QED BY <1>1, <2>1, <3>2, <4>1, <4>2 DEF OnCourse
    <3>4. CASE ~Misleads(o)
      <4>1. ~MigratesHome(o)
        BY <3>1, <3>4 DEF Misleads, MigratesHome
      <4>2. o.kind \in {"update", "migrate", "delete"} => stacks[o.id] = o.row
        BY <3>1, <3>4 DEF Misleads
      <4>3. Straight(op[p])'
        BY <2>1, <3>2, <4>1, <4>2 DEF Straight, MigratesHome, TakenDown
      <4> QED BY <2>1, <3>2, <4>3 DEF OnCourse
    <3> QED BY <3>3, <3>4
  <2> QED BY <2>1, <2>2, <2>3, <2>4, MatchMove
<1>2. CASE CreateBegin(p)
  BY <1>1, <1>2 DEF CreateBegin, Idle
<1>3. CASE UpdateBegin(p)
  BY <1>1, <1>3 DEF UpdateBegin, Idle
<1>4. CASE MigrateBegin(p)
  BY <1>1, <1>4 DEF MigrateBegin, Idle
<1>5. CASE DeleteBegin(p)
  BY <1>1, <1>5 DEF DeleteBegin, Idle
<1>6. CASE ExternalBegin(p)
  BY <1>1, <1>6 DEF ExternalBegin, Idle
<1> QED BY <1>2, <1>3, <1>4, <1>5, <1>6 DEF Request

(* Stacks of different rows are different projects.                        *)
LEMMA WhereDiffers ==
  ASSUME Inv, Numbered
  PROVE  /\ \A id \in Rows : stacks[id] \in Stack /\ Where(id) \in Projects
         /\ \A i, j \in Rows : Where(i) = Where(j) => i = j
         /\ \A id \in Rows, row \in Stack : \A engine :
              Where(id) = Project(row.type, engine, row.name) => stacks[id].name = row.name
         /\ \A id : NameOf(Where(id)) = stacks[id].name
         /\ \A o : NameOf(Target(o)) = o.name
<1>1. \A id \in Rows : stacks[id] \in Stack
  BY DEF Inv, DataOK, Rows
<1> QED BY <1>1 DEF Where, Target, NameOf, Project, Projects, Stack, Numbered

LEMMA MatchContinue ==
  ASSUME Renames = {}, Inv, SoloState, RunsState, MatchState, NEW p \in Procs, Continue(p)
  PROVE  MatchState'
<1>0. /\ op \in [Procs -> Op] /\ WellFormed(op[p]) /\ op[p] \in Op /\ Alone /\ Numbered /\ FilesKept
      /\ RowKnown(op[p]) /\ FileKnown(op[p]) /\ RunKnown(op[p]) /\ DataOK
  BY DEF Inv, OpsOK, SoloState, RunsState
<1>1. ~At(p, "idle")
  BY DEF Continue, Identify, Store, Lock, Login, Up, Logout, Down, RemoveRow, RemoveFolder,
         Persist, Cleanup, FileMissing, At
<1>2. \A q \in Procs \ {p} : op[q] = Idle
  BY <1>0, <1>1, OthersIdle
<1>3. /\ \A id \in IDs \ Rows : folders[id] # None => Keeps(op[p], id)
      /\ \A id \in Rows :
           stacks[id].name \in astray \/ deployed[Where(id)] = folders[id] \/ Behind(op[p], id)
      /\ \A x \in Projects : deployed[x] # None =>
           NameOf(x) \in astray \/ (\E id \in Rows : x = Where(id)) \/ Brings(op[p], x)
      /\ OnCourse(op[p])
  BY <1>2, MatchSolo
<1>4. /\ \A id \in Rows : stacks[id] \in Stack /\ Where(id) \in Projects
      /\ \A i, j \in Rows : Where(i) = Where(j) => i = j
      /\ \A id \in Rows, row \in Stack : \A engine :
           Where(id) = Project(row.type, engine, row.name) => stacks[id].name = row.name
      /\ \A id : NameOf(Where(id)) = stacks[id].name
      /\ \A o : NameOf(Target(o)) = o.name
  BY <1>0, WhereDiffers
<1>a. astray' = astray
  BY DEF Continue, Identify, Store, Lock, Login, Up, Logout, Down, RemoveRow, RemoveFolder,
         Persist, Cleanup, FileMissing, history
<1>b. op[p].kind # "" /\ (op[p].row.name \in astray \/ Straight(op[p]))
  <2>1. op[p].kind # ""
    BY <1>0, <1>1, IdleFields DEF WellFormed, At
  <2> QED BY <1>3, <2>1 DEF OnCourse
<1>c. ASSUME SameWork(p), op'[p].pc # "cleanup", Straight(op[p]) => Straight(op[p])'
      PROVE  OnCourse(op[p])'
  BY <1>a, <1>b, <1>c DEF OnCourse, SameWork
<1>d. (op'[p] = Idle) => OnCourse(op[p])'
  BY IdleFields DEF OnCourse
<1>5. CASE Identify(p)
  <2>1. /\ Others(p) /\ op'[p].pc = "store" /\ op'[p].kind = "create" /\ op[p].pc = "identify"
        /\ op[p].kind = "create"
    BY <1>0, <1>5, IdentifyMove DEF Identify, At, WellFormed, OnItsWay, Critical
  <2>2. UNCHANGED <<stacks, folders, deployed>> /\ Rows' = Rows /\ \A id : Where(id)' = Where(id)
    BY <1>5 DEF Identify, disk, Rows, Where
  <2>3. /\ \A id : ~Keeps(op[p], id) /\ ~Behind(op[p], id)
        /\ \A x : ~Brings(op[p], x)
    BY <2>1 DEF Keeps, Behind, Brings, TakenDown
  <2>4. OnCourse(op[p])'
    BY <2>1 DEF OnCourse, Straight, MigratesHome, TakenDown
  <2> QED BY <1>a, <1>2, <1>3, <2>1, <2>2, <2>3, <2>4, MatchMove
<1>6. CASE Store(p)
  <2>1. Others(p) /\ SameWork(p) /\ op'[p].pc = "lock" /\ op[p].pc = "store"
    BY <1>0, <1>6, StoreMove DEF Store, At
  <2>2. op[p].id \in IDs /\ op[p].kind \in {"create", "update"}
    BY <1>0, <2>1 DEF WellFormed, OnItsWay, Critical
  <2>3. /\ UNCHANGED <<stacks, deployed>> /\ Rows' = Rows /\ \A id : Where(id)' = Where(id)
        /\ \A id \in IDs : id # op[p].id => folders'[id] = folders[id]
    BY <1>0, <1>6, <2>2 DEF Store, Rows, DataOK, Where
  <2>4. /\ \A id : ~Behind(op[p], id) /\ (Keeps(op[p], id) => Keeps(op'[p], id))
        /\ \A x : ~Brings(op[p], x)
    BY <2>1, <2>2 DEF Keeps, Behind, Brings, TakenDown, SameWork
  <2>5. OnCourse(op[p])'
    BY <1>c, <2>1, <2>2, <2>3 DEF Straight, MigratesHome, TakenDown, SameWork
  <2>6. ASSUME NEW id, id = op[p].id
        PROVE  (id \notin Rows => Keeps(op'[p], id)) /\ (id \in Rows => Behind(op'[p], id))
    <3>1. CASE op[p].kind = "create"
      <4>1. id \notin Rows
        BY <2>1, <2>6, <3>1, <1>0, StackBounds DEF RowKnown, Numbered, DataOK, Rows, IDs
      <4> QED BY <2>1, <2>6, <3>1, <4>1 DEF Keeps, SameWork
    <3>2. CASE op[p].kind = "update"
      <4>1. id \in Rows
        BY <2>6, <3>2, <1>0 DEF RowKnown
      <4> QED BY <2>1, <2>6, <3>2, <4>1 DEF Behind, SameWork
    <3> QED BY <2>2, <3>1, <3>2
  <2>7. \A id \in IDs \ Rows' : folders'[id] # None => Keeps(op'[p], id)
    BY <1>3, <2>3, <2>4, <2>6
  <2>8. \A id \in Rows' : \/ stacks'[id].name \in astray'
                          \/ deployed'[Where(id)'] = folders'[id]
                          \/ Behind(op'[p], id)
    BY <1>a, <1>3, <2>3, <2>4, <2>6 DEF Rows
  <2>9. \A x \in Projects : deployed'[x] # None =>
          NameOf(x) \in astray' \/ \E id \in Rows' : x = Where(id)'
    BY <1>a, <1>3, <2>3, <2>4
  <2> QED BY <1>2, <2>1, <2>5, <2>7, <2>8, <2>9, MatchMove
<1>7. CASE Lock(p) \/ Login(p) \/ Logout(p)
  <2>1. /\ Others(p) /\ SameWork(p)
        /\ \/ op[p].pc \in {"lock", "login"} /\ op'[p].pc \in {"login", "up"}
           \/ op[p].pc = "logout" /\ op[p].kind = "migrate" /\ op'[p].pc = "down"
           \/ op[p].pc = "logout" /\ op[p].kind # "migrate" /\ op'[p].pc = "persist"
    BY <1>0, <1>7, AdvanceMove, LoginMove DEF Lock, Login, Logout, At
  <2>2. UNCHANGED <<stacks, folders, deployed>> /\ Rows' = Rows /\ \A id : Where(id)' = Where(id)
    BY <1>7 DEF Lock, Login, Logout, disk, Rows, Where
  <2>3. /\ \A id : (Keeps(op[p], id) => Keeps(op'[p], id)) /\ (Behind(op[p], id) => Behind(op'[p], id))
        /\ \A x : Brings(op[p], x) => Brings(op'[p], x)
    BY <2>1 DEF Keeps, Behind, Brings, TakenDown, SameWork, Target
  <2>4. OnCourse(op[p])'
    BY <1>c, <2>1, <2>2 DEF Straight, MigratesHome, TakenDown, SameWork
  <2> QED BY <1>a, <1>2, <1>3, <2>1, <2>2, <2>3, <2>4, MatchMove
<1>8. CASE Up(p)
  <2>1. Others(p) /\ SameWork(p) /\ op[p].pc = "up" /\ op'[p].pc = "logout"
    BY <1>0, <1>8, UpMove DEF Up, At
  <2>2. UNCHANGED <<stacks, folders>> /\ Rows' = Rows /\ \A id : Where(id)' = Where(id)
    BY <1>8 DEF Up, disk, Rows, Where
  <2>3. /\ Target(op[p]) \in Projects /\ deployed'[Target(op[p])] = folders[op[p].id]
        /\ \A x \in Projects : x # Target(op[p]) => deployed'[x] = deployed[x]
    BY <1>8, DeployAdds DEF Up
  <2>4. /\ op[p].row \in Stack /\ op[p].kind \in {"create", "update", "migrate"}
        /\ op[p].name = op[p].row.name
    BY <2>1, <1>0 DEF WellFormed, OnItsWay, Critical
  <2>5. OnCourse(op[p])'
    BY <1>c, <2>1, <2>2, <2>4 DEF Straight, MigratesHome, TakenDown, SameWork
  <2>6. \A id \in IDs \ Rows' : folders'[id] # None => Keeps(op'[p], id)
    BY <1>3, <2>1, <2>2 DEF Keeps, SameWork
  <2>k. op[p].kind # "create" => op[p].id \in Rows /\ stacks[op[p].id].name = op[p].row.name
    BY <2>4, <1>0 DEF RowKnown
  <2>7. ASSUME NEW id \in Rows, Where(id) = Target(op[p])
        PROVE  id = op[p].id
    <3>1. stacks[id].name = op[p].row.name
      BY <1>4, <2>4, <2>7
    <3>2. op[p].kind # "create"
      BY <2>4, <3>1, <1>0 DEF RowKnown, Free
    <3> QED BY <2>k, <3>1, <3>2, <1>0 DEF Numbered
  <2>8. ASSUME NEW id \in Rows
        PROVE  stacks[id].name \in astray \/ deployed'[Where(id)] = folders[id]
    <3>1. CASE Where(id) = Target(op[p])
      BY <2>3, <2>7, <3>1
    <3>2. CASE Where(id) # Target(op[p])
      <4>1. deployed'[Where(id)] = deployed[Where(id)]
        BY <2>3, <3>2, <1>4
      <4>2. stacks[id].name \in astray \/ ~Behind(op[p], id)
        <5>1. ASSUME op[p].kind = "update", id = op[p].id, stacks[id].name \notin astray PROVE FALSE
          <6>1. Straight(op[p])
            BY <1>b, <2>k, <5>1
          <6>2. stacks[id] = op[p].row /\ op[p].to = op[p].row.engine
            BY <5>1, <6>1, <1>0 DEF Straight, WellFormed
          <6> QED BY <2>4, <3>2, <6>2 DEF Where, Target
        <5> QED BY <2>1, <5>1 DEF Behind, TakenDown
      <4> QED BY <1>3, <4>1, <4>2
    <3> QED BY <3>1, <3>2
  <2>9. ASSUME NEW x \in Projects, deployed'[x] # None
        PROVE  NameOf(x) \in astray \/ (\E id \in Rows : x = Where(id)) \/ Brings(op'[p], x)
    <3>1. CASE x = Target(op[p]) /\ op[p].kind = "update"
      <4>1. CASE op[p].row.name \in astray
        BY <1>4, <2>4, <3>1, <4>1
      <4>2. CASE Straight(op[p])
        <5>1. op[p].id \in Rows /\ stacks[op[p].id] = op[p].row /\ op[p].to = op[p].row.engine
          BY <2>k, <3>1, <4>2, <1>0 DEF Straight, WellFormed
        <5>2. x = Where(op[p].id)
          BY <2>4, <3>1, <5>1 DEF Where, Target
        <5> QED BY <5>1, <5>2
      <4> QED BY <1>b, <4>1, <4>2
    <3>2. CASE x = Target(op[p]) /\ op[p].kind # "update"
      BY <2>1, <2>4, <3>2 DEF Brings, SameWork, Target
    <3>3. CASE x # Target(op[p])
      BY <1>3, <2>1, <2>3, <2>9, <3>3 DEF Brings
    <3> QED BY <3>1, <3>2, <3>3
  <2> QED BY <1>a, <1>2, <2>1, <2>2, <2>5, <2>6, <2>8, <2>9, MatchMove
<1>9. CASE Down(p)
  <2> DEFINE old == Project(op[p].row.type, op[p].row.engine, op[p].row.name)
  <2>1. /\ op[p].pc = "down" /\ Rows' = Rows /\ UNCHANGED <<stacks, folders>>
        /\ deployed' = [deployed EXCEPT ![old] = None] /\ \A id : Where(id)' = Where(id)
    BY <1>9 DEF Down, At, Rows, disk, Where
  <2>2. /\ op[p].kind \in {"migrate", "delete", "external"} /\ op[p].row \in Stack /\ old \in Projects
    BY <1>0, <2>1 DEF WellFormed, OnItsWay, Critical, Project, Projects, Stack
  <2>3. deployed'[old] = None /\ \A x \in Projects : x # old => deployed'[x] = deployed[x]
    BY <2>1, <2>2, <1>0 DEF DataOK
  <2>4. ASSUME NEW id \in Rows, Where(id) = old
        PROVE  op[p].kind # "external" /\ id = op[p].id
    <3>1. stacks[id].name = op[p].row.name
      BY <2>2, <2>4, <1>4
    <3>2. op[p].kind # "external"
      BY <3>1, <1>0 DEF RowKnown, Free
    <3>3. op[p].id \in Rows /\ stacks[op[p].id].name = op[p].row.name
      BY <2>1, <2>2, <3>2, <1>0 DEF RowKnown
    <3> QED BY <3>1, <3>2, <3>3, <1>0 DEF Numbered
  <2>5. ASSUME NEW id \in Rows, id # op[p].id \/ op[p].kind = "external"
        PROVE  stacks[id].name \in astray \/ deployed'[Where(id)] = folders[id]
    <3>1. Where(id) # old /\ Where(id) \in Projects
      BY <2>4, <2>5, <1>4
    <3>2. ~Behind(op[p], id)
      BY <2>1, <2>5, <2>2 DEF Behind, TakenDown
    <3> QED BY <2>3, <3>1, <3>2, <1>3
  <2>6. CASE op[p].kind \in {"migrate", "delete"}
    <3>1. /\ Others(p) /\ SameWork(p)
          /\ op'[p].pc = IF op[p].kind = "migrate" THEN "persist" ELSE "remove.row"
      BY <1>0, <1>9, <2>6, AdvanceMove DEF Down, AfterDown
    <3>4. TakenDown(op'[p])
      BY <2>6, <3>1 DEF TakenDown, SameWork
    <3>5. OnCourse(op[p])'
      <4>1. ASSUME Straight(op[p]) PROVE Straight(op[p])'
        <5>1. stacks[op[p].id] = op[p].row /\ ~MigratesHome(op[p])
          BY <2>1, <2>6, <4>1 DEF Straight
        <5>2. Where(op[p].id) = old
          BY <5>1 DEF Where
        <5>3. op'[p].id = op[p].id /\ op'[p].row = op[p].row /\ ~MigratesHome(op'[p])
          BY <3>1, <5>1 DEF SameWork, MigratesHome
        <5>5. stacks'[op'[p].id] = op'[p].row
          BY <2>1, <5>1, <5>3
        <5>4. Project(stacks'[op'[p].id].type, stacks'[op'[p].id].engine, stacks'[op'[p].id].name) = old
          BY <5>3, <5>5
        <5>6. (deployed[Where(op[p].id)] = None)'
          BY <2>3, <5>4 DEF Where
        <5>7. (~MigratesHome(op[p]))'
          BY <5>3 DEF MigratesHome
        <5> QED BY <5>5, <5>6, <5>7 DEF Straight
      <4>2. op'[p].pc # "cleanup"
        BY <3>1
      <4> QED BY <1>c, <3>1, <4>1, <4>2
    <3>6. \A id \in Rows :
            stacks[id].name \in astray \/ deployed'[Where(id)] = folders[id] \/ Behind(op'[p], id)
      BY <2>5, <3>1, <3>4 DEF Behind, SameWork
    <3>7. \A id \in IDs \ Rows : folders[id] # None => Keeps(op'[p], id)
      BY <1>3, <2>6, <3>1 DEF Keeps, SameWork
    <3>8. ASSUME NEW x \in Projects, deployed'[x] # None
          PROVE  NameOf(x) \in astray \/ (\E id \in Rows : x = Where(id)) \/ Brings(op'[p], x)
      <4>1. deployed[x] # None
        BY <2>3, <3>8
      <4>2. Brings(op[p], x) => Brings(op'[p], x)
        BY <2>1, <2>6, <3>1 DEF Brings, SameWork, Target
      <4> QED BY <1>3, <4>1, <4>2
    <3> QED BY <1>a, <1>2, <2>1, <3>1, <3>5, <3>6, <3>7, <3>8, MatchMove
  <2>7. CASE op[p].kind = "external"
    <3>1. Others(p) /\ op'[p] = Idle
      BY <1>0, <1>9, <2>7, BecomeMove DEF Down, AfterDown, Done
    <3>2. OnCourse(op[p])'
      BY <1>d, <3>1
    <3>3. \A id \in IDs \ Rows : folders[id] # None => Keeps(op'[p], id)
      BY <1>3, <2>7 DEF Keeps
    <3>4. \A x \in Projects : deployed'[x] # None =>
            NameOf(x) \in astray \/ \E id \in Rows : x = Where(id)
      BY <1>3, <2>3, <2>7 DEF Brings
    <3> QED BY <1>a, <1>2, <2>1, <2>5, <2>7, <3>1, <3>2, <3>3, <3>4, MatchMove
  <2> QED BY <2>2, <2>6, <2>7
<1>10. CASE RemoveRow(p)
  <2>1. Others(p) /\ SameWork(p) /\ op[p].pc = "remove.row" /\ op'[p].pc = "remove.folder"
    BY <1>0, <1>10, AdvanceMove DEF RemoveRow, At
  <2>2. op[p].kind = "delete" /\ op[p].id \in Rows /\ stacks[op[p].id].name = op[p].row.name
    BY <1>0, <2>1 DEF WellFormed, OnItsWay, Critical, RowKnown
  <2>3. /\ Rows' = Rows \ {op[p].id} /\ UNCHANGED <<folders, deployed>>
        /\ \A id \in Rows' : Where(id)' = Where(id) /\ stacks'[id] = stacks[id]
    BY <1>0, <1>10, <2>2 DEF RemoveRow, Rows, DataOK, Where
  <2>4. op[p].row.name \in astray \/ deployed[Where(op[p].id)] = None
    BY <1>b, <2>1 DEF Straight, TakenDown
  <2>5. OnCourse(op[p])'
    BY <1>c, <2>1, <2>2 DEF Straight, MigratesHome, TakenDown, SameWork
  <2>6. \A id \in IDs \ Rows' : folders'[id] # None => Keeps(op'[p], id)
    BY <1>3, <2>1, <2>2, <2>3 DEF Keeps, SameWork
  <2>7. \A id \in Rows' : stacks'[id].name \in astray' \/ deployed'[Where(id)'] = folders'[id]
    BY <1>a, <1>3, <2>3 DEF Behind
  <2>8. ASSUME NEW x \in Projects, deployed'[x] # None
        PROVE  NameOf(x) \in astray' \/ \E id \in Rows' : x = Where(id)'
    <3>1. NameOf(x) \in astray \/ \E id \in Rows : x = Where(id)
      BY <1>3, <2>2, <2>3, <2>8 DEF Brings
    <3>2. CASE x = Where(op[p].id)
      BY <1>a, <1>4, <2>2, <2>3, <2>4, <2>8, <3>2
    <3> QED BY <1>a, <2>3, <3>1, <3>2
  <2> QED BY <1>2, <2>1, <2>5, <2>6, <2>7, <2>8, MatchMove
<1>11. CASE RemoveFolder(p)
  <2>1. Others(p) /\ op'[p] = Idle /\ op[p].pc = "remove.folder"
    BY <1>0, <1>11, BecomeMove DEF RemoveFolder, Done, At
  <2>2. op[p].kind = "delete" /\ op[p].id \in IDs \ Rows
    BY <1>0, <2>1 DEF WellFormed, OnItsWay, Critical, RowKnown
  <2>3. /\ Rows' = Rows /\ UNCHANGED <<stacks, deployed>> /\ (\A id : Where(id)' = Where(id))
        /\ folders'[op[p].id] = None /\ \A id \in IDs : id # op[p].id => folders'[id] = folders[id]
    BY <1>0, <1>11, <2>2 DEF RemoveFolder, Rows, DataOK, Where
  <2>4. OnCourse(op[p])'
    BY <1>d, <2>1
  <2>5. \A id \in IDs \ Rows' : folders'[id] = None
    BY <1>3, <2>3 DEF Keeps
  <2>6. \A id \in Rows' : stacks'[id].name \in astray' \/ deployed'[Where(id)'] = folders'[id]
    BY <1>a, <1>3, <2>1, <2>2, <2>3 DEF Behind, TakenDown, Rows
  <2>7. \A x \in Projects : deployed'[x] # None =>
          NameOf(x) \in astray' \/ \E id \in Rows' : x = Where(id)'
    BY <1>a, <1>3, <2>2, <2>3 DEF Brings
  <2> QED BY <1>2, <2>1, <2>4, <2>5, <2>6, <2>7, MatchMove
<1>12. CASE Persist(p)
  <2>1. op[p].pc = "persist" /\ Others(p) /\ op'[p] = Idle /\ UNCHANGED <<deployed, folders>>
    BY <1>0, <1>12, BecomeMove DEF Persist, At, Done
  <2>2. /\ op[p].kind \in {"create", "update", "migrate"} /\ op[p].id \in IDs /\ op[p].row \in Stack
        /\ op[p].to \in Engines /\ op[p].name = op[p].row.name
    BY <1>0, <2>1 DEF WellFormed, OnItsWay, Critical
  <2> DEFINE row == [op[p].row EXCEPT !.engine = op[p].to]
  <2>3. /\ row \in Stack /\ row.name = op[p].row.name /\ row.type = op[p].row.type
        /\ row.engine = op[p].to
        /\ stacks' = [stacks EXCEPT ![op[p].id] = row]
    BY <2>2, <1>12 DEF Stack, Persist
  <2> HIDE DEF row
  <2>4. /\ Rows' = Rows \cup {op[p].id} /\ stacks'[op[p].id] = row
        /\ \A id \in Rows : id # op[p].id => Where(id)' = Where(id) /\ stacks'[id] = stacks[id]
    BY <1>0, <2>2, <2>3, NoStackAssumption DEF Rows, DataOK, Where
  <2>5. op[p].row.name \in astray \/ deployed[Target(op[p])] = folders[op[p].id]
    BY <1>0, <1>b, <2>1, <2>2 DEF RunKnown, Gone, Straight
  <2>6. ASSUME NEW id, id = op[p].id PROVE Where(id)' = Target(op[p])
    BY <2>2, <2>3, <2>4, <2>6 DEF Where, Target
  <2>7. OnCourse(op[p])'
    BY <1>d, <2>1
  <2>8. \A id \in IDs \ Rows' : folders'[id] = None
    BY <1>3, <2>1, <2>4 DEF Keeps
  <2>9. ASSUME NEW id \in Rows'
        PROVE  stacks'[id].name \in astray' \/ deployed'[Where(id)'] = folders'[id]
    <3>1. CASE id = op[p].id
      <4>1. stacks'[id].name = op[p].row.name
        BY <2>3, <2>4, <3>1
      <4> QED BY <1>a, <2>1, <2>5, <2>6, <3>1, <4>1
    <3>2. CASE id # op[p].id
      BY <1>a, <1>3, <2>1, <2>4, <3>2 DEF Behind
    <3> QED BY <3>1, <3>2
  <2>10. ASSUME NEW x \in Projects, deployed'[x] # None
         PROVE  NameOf(x) \in astray' \/ \E id \in Rows' : x = Where(id)'
    <3>1. CASE Brings(op[p], x)
      <4>1. x = Target(op[p])
        BY <3>1 DEF Brings
      <4> QED BY <2>4, <2>6, <4>1
    <3>2. CASE \E id \in Rows : id # op[p].id /\ x = Where(id)
      BY <2>4, <3>2
    <3>3. CASE op[p].id \in Rows /\ x = Where(op[p].id)
      <4>1. op[p].kind # "create"
        BY <3>3, <2>1, <1>0, StackBounds DEF RowKnown, Numbered, DataOK, Rows, IDs
      <4>2. stacks[op[p].id].name = op[p].row.name
        BY <2>2, <4>1, <1>0 DEF RowKnown
      <4>3. CASE op[p].row.name \in astray
        BY <1>a, <1>4, <3>3, <4>2, <4>3
      <4>4. CASE Straight(op[p])
        <5>1. op[p].kind # "migrate"
          BY <2>1, <2>10, <3>3, <4>4 DEF Straight, TakenDown
        <5>2. op[p].kind = "update" /\ stacks[op[p].id] = op[p].row /\ op[p].to = op[p].row.engine
          BY <2>2, <4>1, <4>4, <5>1, <1>0 DEF Straight, WellFormed
        <5>3. x = Target(op[p])
          BY <2>2, <3>3, <5>2 DEF Where, Target
        <5> QED BY <2>4, <2>6, <5>3
      <4> QED BY <1>b, <4>3, <4>4
    <3> QED BY <1>a, <1>3, <2>1, <2>10, <3>1, <3>2, <3>3
  <2> QED BY <1>2, <2>1, <2>7, <2>8, <2>9, <2>10, MatchMove
<1>13. CASE Cleanup(p)
  BY <1>3, <1>13 DEF Cleanup, At, OnCourse
<1>14. CASE FileMissing(p)
  <2>1. \/ op[p].pc = "up"
        \/ op[p].pc = "down" /\ op[p].kind # "external"
    BY <1>0, <1>14 DEF FileMissing, At, NeedsFile, WellFormed
  <2>2. op[p].kind # "create" => op[p].id \in Rows
    BY <1>0, <2>1 DEF WellFormed, OnItsWay, Critical, RowKnown
  <2>3. folders[op[p].id] # None
    BY <1>0, <2>1, <2>2 DEF FileKnown, FilesKept, Critical, WellFormed, OnItsWay
  <2> QED BY <1>14, <2>3 DEF FileMissing
<1> QED BY <1>5, <1>6, <1>7, <1>8, <1>9, <1>10, <1>11, <1>12, <1>13, <1>14 DEF Continue

LEMMA MatchStep ==
  Renames = {} /\ Inv /\ Inv' /\ SoloInv /\ RunsInv /\ MatchInv /\ [Next]_vars => MatchInv'
<1> SUFFICES ASSUME Renames = {}, Inv, Inv', SoloInv, RunsInv, MatchInv, [Next]_vars, Undisturbed'
             PROVE  MatchState'
  BY DEF MatchInv
<1>0. overlaps' = 0 /\ restarts' = 0 /\ faults' = 0 /\ restarts \in Nat /\ faults \in Nat
  BY DEF Undisturbed, Inv, CountsOK
<1>1. ASSUME NEW p \in Procs, Request(p) PROVE MatchState'
  <2>1. \E o : Begin(p, o)
    BY <1>1 DEF Request, CreateBegin, UpdateBegin, MigrateBegin, DeleteBegin, ExternalBegin
  <2>2. Undisturbed
    BY <1>0, <2>1, SoloBegin DEF Undisturbed
  <2>3. SoloState'
    BY <1>0, <1>1, SoloRequest
  <2> QED BY <1>0, <1>1, <2>2, <2>3, MatchRequest DEF MatchInv
<1>2. ASSUME NEW p \in Procs, Continue(p) PROVE MatchState'
  <2>1. overlaps = 0
    BY <1>0, <1>2, SameOverlaps
  <2>2. restarts' = restarts /\ faults' = faults
    BY <1>2 DEF bounds, Continue, Identify, Store, Lock, Login, Up, Logout, Down,
                RemoveRow, RemoveFolder, Persist, Cleanup, FileMissing
  <2>3. SoloState /\ RunsState /\ MatchState
    BY <1>0, <2>1, <2>2 DEF SoloInv, RunsInv, MatchInv, Undisturbed
  <2> QED BY <1>2, <2>3, MatchContinue
<1>3. CASE Restart
  BY <1>0, <1>3 DEF Restart
<1>4. ASSUME NEW p \in Procs, IOError(p) PROVE MatchState'
  BY <1>0, <1>4 DEF IOError
<1>5. ASSUME NEW p \in Procs, CleanupError(p) PROVE MatchState'
  <2>1. UNCHANGED <<overlaps, restarts, faults>> /\ op[p].pc = "cleanup"
    BY <1>5 DEF CleanupError, history, bounds, At
  <2> QED BY <1>0, <2>1 DEF MatchInv, MatchState, Undisturbed, OnCourse
<1>6. CASE UNCHANGED vars
  <2>1. UNCHANGED <<stacks, folders, deployed, op, overlaps, astray, restarts, faults>> /\ Rows' = Rows
    BY <1>6 DEF vars, disk, history, bounds, Rows
  <2>2. MatchState
    BY <1>0, <2>1 DEF MatchInv, Undisturbed
  <2>3. \A id \in IDs \ Rows : NoStrayFolder(id)'
    BY <2>1, <2>2 DEF MatchState, NoStrayFolder, Keeps
  <2>4. \A id \in Rows : NoStaleStack(id)'
    BY <2>1, <2>2 DEF MatchState, NoStaleStack, Behind, TakenDown, Where
  <2>5. \A x \in Projects : NoStrayProject(x)'
    BY <2>1, <2>2 DEF MatchState, NoStrayProject, Brings, Where, Target
  <2>6. \A p \in Procs : OnCourse(op[p])'
    BY <2>1, <2>2 DEF MatchState, OnCourse, Straight, MigratesHome, TakenDown, Where
  <2> QED BY <2>1, <2>3, <2>4, <2>5, <2>6 DEF MatchState
<1> QED BY <1>1, <1>2, <1>3, <1>4, <1>5, <1>6 DEF Next

LEMMA MatchInit == Init => MatchInv
<1> SUFFICES ASSUME Init PROVE MatchState
  BY DEF MatchInv
<1>1. Rows = {} /\ (\A p \in Procs : op[p] = Idle) /\ (\A id \in IDs : folders[id] = None)
      /\ \A x \in Projects : deployed[x] = None
  BY DEF Init, Rows
<1> QED BY <1>1, IdleMatch, IdleFields
        DEF MatchState, NoStrayFolder, NoStaleStack, NoStrayProject, OnCourse

(* At rest the exceptions made for the handler at work disappear.          *)
LEMMA AtRest == Inv /\ SoloInv /\ MatchInv => DeploymentsMatch
<1> SUFFICES ASSUME Inv, SoloInv, MatchInv, Quiet, Undisturbed
             PROVE  /\ \A id \in IDs : folders[id] # None => id \in Rows
                    /\ {<<x, deployed[x]>> :
                          x \in {y \in Projects : deployed[y] # None /\ NameOf(y) \notin astray}}
                         = {<<Where(id), folders[id]>> : id \in {i \in Rows : stacks[i].name \notin astray}}
  BY DEF DeploymentsMatch, Where
<1>1. MatchState /\ Numbered /\ FilesKept /\ \A p \in Procs : op[p] = Idle
  BY DEF MatchInv, SoloInv, SoloState, Undisturbed, Quiet
<1>2. /\ \A id \in IDs \ Rows : folders[id] = None
      /\ \A id \in Rows : stacks[id].name \in astray \/ deployed[Where(id)] = folders[id]
      /\ \A x \in Projects : deployed[x] # None =>
           NameOf(x) \in astray \/ \E id \in Rows : x = Where(id)
  BY <1>1, IdleMatch DEF MatchState, NoStrayFolder, NoStaleStack, NoStrayProject
<1>3. \A id \in Rows :
        Where(id) \in Projects /\ folders[id] # None /\ NameOf(Where(id)) = stacks[id].name
  BY <1>1, WhereDiffers DEF FilesKept
<1> DEFINE running == {y \in Projects : deployed[y] # None /\ NameOf(y) \notin astray}
           tidy == {i \in Rows : stacks[i].name \notin astray}
<1>4. running = {Where(id) : id \in tidy}
  BY <1>2, <1>3
<1>5. \A id \in tidy : deployed[Where(id)] = folders[id]
  BY <1>2
<1>6. \A id \in IDs : folders[id] # None => id \in Rows
  BY <1>2
<1> HIDE DEF running, tidy
<1>7. {<<x, deployed[x]>> : x \in running} = {<<Where(id), folders[id]>> : id \in tidy}
  BY <1>4, <1>5
<1> QED BY <1>6, <1>7 DEF running, tidy

(* If no migration asks for another name: when no request is under way and *)
(* nothing overlapped, failed or was cut off, the folders on disk are those*)
(* of the stacks stored, and what the engines run is exactly each stack    *)
(* stored, where it is stored, from its latest file; save for the names of *)
(* stacks that a request led astray, by naming another endpoint than the   *)
(* stack's own or by migrating it to the endpoint it named.                *)
THEOREM AllAgree == ASSUME Renames = {} PROVE Spec => []DeploymentsMatch
<1>1. Inv /\ Inv' /\ SoloInv /\ RunsInv /\ [Next]_vars => RunsInv'
  BY RunsStep
<1>2. Inv /\ Inv' /\ SoloInv /\ RunsInv /\ MatchInv /\ [Next]_vars => MatchInv'
  BY MatchStep
<1> QED BY <1>1, <1>2, TypeInit, TypeStep, SoloInit, SoloStep, RunsInit, MatchInit, AtRest, PTL DEF Spec
=============================================================================
