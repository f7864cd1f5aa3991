--------------------------- MODULE IdentityProofs ---------------------------
(***************************************************************************)
(* Proofs about Identity, for any requests, names, resources and bounds.   *)
(* With any overlap: types, that newcomers are named by nothing stored,    *)
(* and that whoever writes a resource control keeps access.  As long as    *)
(* requests do not overlap: the tables refer to each other as if they had  *)
(* keys, an administrator remains, and the two look-ups of a control agree, *)
(* each up to what requests may ask for that no handler checks.            *)
(***************************************************************************)
EXTENDS Identity, TLAPS, FiniteSetTheorems

-----------------------------------------------------------------------------
(* What is stored or about to be stored, with any overlap: identifiers of  *)
(* users and teams that rows name are ones the buckets have given out.     *)
MembershipNamed(m, s) == m.user <= s.users /\ m.team <= s.teams
ControlNamed(k, s) ==
  (\A u \in k.users : u <= s.users) /\ (\A t \in k.teams : t <= s.teams)
RowNamed(table, row, s) ==
  /\ table = "memberships" => MembershipNamed(row, s)
  /\ table = "controls" => ControlNamed(row, s)

DbOK == db \in [users : [IDs("users") -> User \cup {None}],
                teams : [IDs("teams") -> Team \cup {None}],
                memberships : [IDs("memberships") -> Membership \cup {None}],
                controls : [IDs("controls") -> Control \cup {None}]]
SeqOK == seq \in [users : 0..MaxUsers, teams : 0..MaxTeams,
                  memberships : 0..MaxMemberships, controls : 0..MaxControls]
Numbered == \A table \in Tables : \A id \in Rows(table) : id <= seq[table]
RowsNamed ==
  /\ \A m \in Rows("memberships") : MembershipNamed(db.memberships[m], seq)
  /\ \A k \in Rows("controls") : ControlNamed(db.controls[k], seq)
Past == [ops : Nat, overlaps : Nat, failures : Nat,
         demoted : BOOLEAN, moved : BOOLEAN, absent : BOOLEAN, shared : BOOLEAN]
RestOK ==
  /\ held \in [IDs("users") -> SUBSET BOOLEAN] /\ ldap \in BOOLEAN
  /\ past \in Past

Who == [id : IDs("users") \cup {0}, admin : BOOLEAN, teams : SUBSET IDs("teams")]
Op == [pc : Points, table : Tables \cup {""}, id : Nat,
       row : User \cup Team \cup Membership \cup Control \cup {None},
       who : Who, teams : SUBSET IDs("teams")]
Written(o, s) ==
  /\ o.table \in Tables /\ o.row \in Row(o.table) /\ RowNamed(o.table, o.row, s)
  /\ o.table = "controls" => AuthorizedAccess(o.row, o.who)
Given(table, id, s) == id \in IDs(table) /\ id <= s[table]
Fits(o, s) ==
  /\ o \in Op
  /\ o.pc = "idle" => o = Idle
  /\ o.pc \in {"insert", "put"} => Written(o, s)
  /\ o.pc \in {"put", "remove"} => o.table \in Tables /\ Given(o.table, o.id, s)
  /\ o.pc = "enroll" => o.table = "users" /\ o.row \in User
  /\ o.pc \in {"groups", "join"} => o.table # "controls" /\ Given("users", o.id, s)
  /\ o.pc = "join" => \A t \in o.teams : t <= s.teams
  /\ o.pc = "cascade" => o.table \in {"users", "teams"}
OpsOK == op \in [Procs -> Op] /\ \A p \in Procs : Fits(op[p], seq)
TypeInv == DbOK /\ SeqOK /\ Numbered /\ RowsNamed /\ RestOK /\ OpsOK

-----------------------------------------------------------------------------
(* As long as requests do not overlap: what a request has found out still  *)
(* holds when it writes.                                                   *)
Alone == \A p, q \in Procs : op[p] # Idle /\ op[q] # Idle => p = q
UserReady(o) ==
  /\ o.pc \in {"insert", "enroll"} => ~NameTaken(o.row.name)
  /\ o.pc = "put" =>
       o.row.name = db.users[o.id].name /\ (db.users[o.id].local => o.row.local)
  /\ o.pc = "remove" => \E u \in LocalAdmins : u # o.id
MemberReady(o) == o.pc = "insert" => ~Joined(o.row.user, o.row.team)
ControlReady(o) ==
  /\ o.pc = "insert" /\ ~past.shared => Covering(o.row.resource) = {}
  /\ o.pc = "put" => /\ o.row.resource = db.controls[o.id].resource
                     /\ o.row.subs = db.controls[o.id].subs
Ready(o) ==
  /\ o.pc = "put" => o.id \in Rows(o.table)
  /\ o.table = "users" /\ ~past.demoted => UserReady(o)
  /\ o.table = "memberships" => MemberReady(o)
  /\ o.table = "controls" => ControlReady(o)
  /\ o.pc \in {"groups", "join"} => o.id \in Rows("users")
  /\ o.pc = "join" => \A t \in o.teams : t \in Rows("teams") /\ ~Joined(o.id, t)

NamesDiffer == \A u, v \in Rows("users") : db.users[u].name = db.users[v].name => u = v
UsersInv == ~past.demoted => NamesDiffer /\ LocalAdmins # {}
MembersInv ==
  ~past.moved => \A m, n \in Rows("memberships") :
    db.memberships[m].user = db.memberships[n].user
    /\ db.memberships[m].team = db.memberships[n].team => m = n
ControlsInv == ~past.shared => \A r \in Resources : \A j, k \in Covering(r) : j = k
Cascades(table, id) == \E p \in Procs : At(p, "cascade") /\ op[p].table = table /\ op[p].id = id
Sure == past.failures = 0 /\ ~past.absent
OrphansInv ==
  Sure => \A m \in Rows("memberships") :
    /\ db.memberships[m].user \in Rows("users") \/ Cascades("users", db.memberships[m].user)
    /\ db.memberships[m].team \in Rows("teams") \/ Cascades("teams", db.memberships[m].team)
CalmInv ==
  Calm => /\ Alone /\ \A p \in Procs : Ready(op[p])
          /\ UsersInv /\ MembersInv /\ ControlsInv /\ OrphansInv
Inv == TypeInv /\ CalmInv

-----------------------------------------------------------------------------
(* What was written unchecked, failed or overlapped is not forgotten.      *)
Remembers ==
  /\ past'.overlaps = 0 => past.overlaps = 0
  /\ past'.failures = 0 => past.failures = 0
  /\ past.demoted => past'.demoted
  /\ past.moved => past'.moved
  /\ past.absent => past'.absent
  /\ past.shared => past'.shared

LEMMA SurePast == ASSUME Remembers, Sure' PROVE Sure
  BY DEF Remembers, Sure

LEMMA SamePast == ASSUME UNCHANGED past PROVE Remembers
  BY DEF Remembers

(* Shapes.                                                                 *)
LEMMA Kinds ==
  /\ Row("users") = User /\ Row("teams") = Team
  /\ Row("memberships") = Membership /\ Row("controls") = Control
  /\ IDs("users") = 1..MaxUsers /\ IDs("teams") = 1..MaxTeams
  /\ IDs("memberships") = 1..MaxMemberships /\ IDs("controls") = 1..MaxControls
  BY DEF Row, IDs, Limit

LEMMA IDsAreNat == \A table \in Tables : \A id \in IDs(table) : id \in Nat /\ id > 0
  BY Kinds, IdentityBounds DEF Tables
LEMMA KeysAreNat ==
  /\ IDs("users") \subseteq Nat /\ IDs("teams") \subseteq Nat
  /\ IDs("memberships") \subseteq Nat /\ IDs("controls") \subseteq Nat
  BY Kinds, IdentityBounds

LEMMA NobodyIsWho == Nobody \in Who
  <1>1. {} \in SUBSET IDs("teams") OBVIOUS
  <1> QED BY <1>1 DEF Nobody, Who

LEMMA IdleIsOp == Idle \in Op /\ Idle.pc = "idle" /\ Idle.table = ""
  <1>1. {} \in SUBSET IDs("teams") OBVIOUS
  <1> QED BY <1>1, NobodyIsWho DEF Idle, Op, Points

LEMMA IdleFits == ASSUME NEW s PROVE Fits(Idle, s)
  BY IdleIsOp DEF Fits

(* A stored row has the shape of its table and is not None.                *)
LEMMA RowIs ==
  ASSUME DbOK
  PROVE  /\ \A u \in Rows("users") : u \in IDs("users") /\ db.users[u] \in User
         /\ \A t \in Rows("teams") : t \in IDs("teams") /\ db.teams[t] \in Team
         /\ \A m \in Rows("memberships") :
              m \in IDs("memberships") /\ db.memberships[m] \in Membership
         /\ \A k \in Rows("controls") : k \in IDs("controls") /\ db.controls[k] \in Control
  BY DEF DbOK, Rows

LEMMA NotNone ==
  ASSUME NEW table \in Tables, NEW row \in Row(table)
  PROVE  row # None
  BY NoRowAssumption, Kinds DEF Tables

-----------------------------------------------------------------------------
(* The sequences only grow, and what was named stays named.                *)
Grows == SeqOK' /\ \A table \in Tables : seq[table] <= seq'[table]

LEMMA Still == ASSUME SeqOK, seq' = seq PROVE Grows
  BY DEF SeqOK, Grows, Tables

LEMMA NamedStays ==
  ASSUME SeqOK, Grows
  PROVE  /\ \A m \in Membership : MembershipNamed(m, seq) => MembershipNamed(m, seq')
         /\ \A k \in Control : ControlNamed(k, seq) => ControlNamed(k, seq')
  <1>1. seq.users <= seq'.users /\ seq.teams <= seq'.teams
    BY DEF Grows, Tables
  <1>2. /\ seq.users \in Nat /\ seq.teams \in Nat
        /\ seq'.users \in Nat /\ seq'.teams \in Nat
    BY IdentityBounds DEF SeqOK, Grows
  <1>3. ASSUME NEW m \in Membership, MembershipNamed(m, seq) PROVE MembershipNamed(m, seq')
    BY <1>1, <1>2, <1>3, Kinds, KeysAreNat DEF Membership, MembershipNamed
  <1>4. ASSUME NEW k \in Control, ControlNamed(k, seq) PROVE ControlNamed(k, seq')
    <2>1. \A u \in k.users : u \in Nat
      BY KeysAreNat, Kinds DEF Control
    <2>2. \A t \in k.teams : t \in Nat
      BY KeysAreNat, Kinds DEF Control
    <2> QED BY <1>1, <1>2, <1>4, <2>1, <2>2 DEF ControlNamed
  <1> QED BY <1>3, <1>4

LEMMA RowNamedStays ==
  ASSUME SeqOK, Grows, NEW table \in Tables, NEW row \in Row(table), RowNamed(table, row, seq)
  PROVE  RowNamed(table, row, seq')
  BY NamedStays, Kinds DEF RowNamed, Tables

LEMMA FitsStays ==
  ASSUME SeqOK, Grows, NEW o, Fits(o, seq)
  PROVE  Fits(o, seq')
  <1>1. o \in Op /\ (o.pc = "idle" => o = Idle)
    BY DEF Fits
  <1>2. ASSUME Written(o, seq) PROVE Written(o, seq')
    <2>1. o.table \in Tables /\ o.row \in Row(o.table) /\ RowNamed(o.table, o.row, seq)
      BY <1>2 DEF Written
    <2>2. RowNamed(o.table, o.row, seq')
      BY <2>1, RowNamedStays
    <2> QED BY <1>2, <2>1, <2>2 DEF Written, AuthorizedAccess, canUserAccessResource
  <1>3. ASSUME NEW table \in Tables, NEW id, Given(table, id, seq) PROVE Given(table, id, seq')
    <2>1. id \in Nat
      BY <1>3, IDsAreNat DEF Given
    <2>2. seq[table] \in Nat /\ seq'[table] \in Nat /\ seq[table] <= seq'[table]
      BY IdentityBounds DEF SeqOK, Grows, Tables
    <2> QED BY <1>3, <2>1, <2>2 DEF Given
  <1>4. o.pc = "join" => \A t \in o.teams : t <= seq'.teams
    <2>1. \A t \in o.teams : t \in Nat
      BY <1>1, KeysAreNat DEF Op
    <2>2. seq.teams \in Nat /\ seq'.teams \in Nat /\ seq.teams <= seq'.teams
      BY IdentityBounds DEF SeqOK, Grows, Tables
    <2> QED BY <2>1, <2>2 DEF Fits
  <1>5. o.pc \in {"insert", "put"} => Written(o, seq')
    BY <1>2 DEF Fits
  <1>6. o.pc \in {"put", "remove"} => o.table \in Tables /\ Given(o.table, o.id, seq')
    BY <1>3 DEF Fits
  <1>7. o.pc \in {"groups", "join"} => o.table # "controls" /\ Given("users", o.id, seq')
    BY <1>3 DEF Fits, Tables
  <1> QED BY <1>1, <1>4, <1>5, <1>6, <1>7 DEF Fits

(* A process that takes on a request that fits leaves the others as they are. *)
LEMMA Become ==
  ASSUME SeqOK, OpsOK, Grows, NEW p \in Procs, NEW o, Fits(o, seq'), op' = [op EXCEPT ![p] = o]
  PROVE  /\ OpsOK' /\ op'[p] = o
         /\ \A q \in Procs : q # p => op'[q] = op[q]
  <1>1. o \in Op
    BY DEF Fits
  <1>2. op \in [Procs -> Op]
    BY DEF OpsOK
  <1>3. op'[p] = o /\ (\A q \in Procs : q # p => op'[q] = op[q])
    BY <1>2
  <1>4. op' \in [Procs -> Op]
    BY <1>1, <1>2
  <1>5. ASSUME NEW q \in Procs PROVE Fits(op'[q], seq')
    <2>1. CASE q = p
      BY <1>3, <2>1
    <2>2. CASE q # p
      <3>1. Fits(op[q], seq)
        BY DEF OpsOK
      <3>2. Fits(op[q], seq')
        BY <3>1, FitsStays
      <3> QED BY <1>3, <2>2, <3>2
    <2> QED BY <2>1, <2>2
  <1> QED BY <1>3, <1>4, <1>5 DEF OpsOK

-----------------------------------------------------------------------------
(* Writing and removing one row.                                           *)
Writes(table, id, row) == db' = [db EXCEPT ![table][id] = row]
Rowing(table, id, row) ==
  /\ db'[table] = [db[table] EXCEPT ![id] = row]
  /\ \A other \in Tables : other # table => db'[other] = db[other]

LEMMA Wrote ==
  ASSUME DbOK, NEW table \in Tables, NEW id \in IDs(table), NEW row \in Row(table) \cup {None},
         Writes(table, id, row)
  PROVE  /\ DbOK' /\ Rowing(table, id, row)
         /\ Rows(table)' = IF row = None THEN Rows(table) \ {id} ELSE Rows(table) \cup {id}
         /\ \A other \in Tables : other # table => Rows(other)' = Rows(other)
  <1>1. Rowing(table, id, row)
    BY DEF DbOK, Writes, Rowing, Tables
  <1>2. DbOK'
    <2>1. CASE table = "users"
      BY <2>1, Kinds DEF DbOK, Writes
    <2>2. CASE table = "teams"
      BY <2>2, Kinds DEF DbOK, Writes
    <2>3. CASE table = "memberships"
      BY <2>3, Kinds DEF DbOK, Writes
    <2>4. CASE table = "controls"
      BY <2>4, Kinds DEF DbOK, Writes
    <2> QED BY <2>1, <2>2, <2>3, <2>4 DEF Tables
  <1>3. \A i \in IDs(table) : db'[table][i] = IF i = id THEN row ELSE db[table][i]
    BY <1>1 DEF Rowing, DbOK, Tables
  <1> QED BY <1>1, <1>2, <1>3 DEF Rows, Rowing

LEMMA WriteKeeps ==
  ASSUME DbOK, SeqOK, Numbered, RowsNamed, Grows,
         NEW table \in Tables, NEW id \in IDs(table), id <= seq'[table],
         NEW row \in Row(table) \cup {None}, row # None => RowNamed(table, row, seq'),
         Writes(table, id, row)
  PROVE  DbOK' /\ Numbered' /\ RowsNamed'
  <1>1. DbOK' /\ Rowing(table, id, row)
    BY Wrote
  <1>2. \A other \in Tables : \A i \in Rows(other)' : i \in Rows(other) \/ (other = table /\ i = id)
    BY Wrote
  <1>3. Numbered'
    <2>1. SUFFICES ASSUME NEW other \in Tables, NEW i \in Rows(other)'
                   PROVE  i <= seq'[other]
      BY DEF Numbered
    <2>2. CASE i \in Rows(other)
      <3>1. i \in Nat /\ i <= seq[other]
        BY <2>2, IDsAreNat DEF Numbered, Rows
      <3>2. seq[other] \in Nat /\ seq'[other] \in Nat /\ seq[other] <= seq'[other]
        BY IdentityBounds DEF SeqOK, Grows, Tables
      <3> QED BY <3>1, <3>2
    <2> QED BY <1>2, <2>1, <2>2
  <1>4. ASSUME NEW m \in Rows("memberships")'
        PROVE  MembershipNamed(db'.memberships[m], seq')
    <2>1. CASE table = "memberships" /\ m = id
      <3>1. db'.memberships[m] = row
        BY <1>1, <2>1 DEF Rowing, DbOK, Tables
      <3>2. row # None
        BY <1>4, <3>1 DEF Rows
      <3> QED BY <2>1, <3>1, <3>2 DEF RowNamed
    <2>2. CASE ~(table = "memberships" /\ m = id)
      <3>1. m \in Rows("memberships")
        BY <1>2, <1>4, <2>2 DEF Tables
      <3>2. db'.memberships[m] = db.memberships[m]
        BY <1>1, <2>2, <3>1 DEF Rowing, DbOK, Tables, Rows
      <3> QED BY <3>1, <3>2, RowIs, NamedStays DEF RowsNamed
    <2> QED BY <2>1, <2>2
  <1>5. ASSUME NEW k \in Rows("controls")'
        PROVE  ControlNamed(db'.controls[k], seq')
    <2>1. CASE table = "controls" /\ k = id
      <3>1. db'.controls[k] = row
        BY <1>1, <2>1 DEF Rowing, DbOK, Tables
      <3>2. row # None
        BY <1>5, <3>1 DEF Rows
      <3> QED BY <2>1, <3>1, <3>2 DEF RowNamed
    <2>2. CASE ~(table = "controls" /\ k = id)
      <3>1. k \in Rows("controls")
        BY <1>2, <1>5, <2>2 DEF Tables
      <3>2. db'.controls[k] = db.controls[k]
        BY <1>1, <2>2, <3>1 DEF Rowing, DbOK, Tables, Rows
      <3> QED BY <3>1, <3>2, RowIs, NamedStays DEF RowsNamed
    <2> QED BY <2>1, <2>2
  <1> QED BY <1>1, <1>3, <1>4, <1>5 DEF RowsNamed

-----------------------------------------------------------------------------
(* The steps of a request in progress keep types, under any overlap; each  *)
(* lemma also says what the process goes on with.                          *)
Others(p) == \A q \in Procs : q # p => op'[q] = op[q]

LEMMA RolesType ==
  ASSUME RestOK, NEW table \in Tables, NEW id \in IDs(table), NEW row \in Row(table)
  PROVE  Roles(table, id, row) \in [IDs("users") -> SUBSET BOOLEAN]
  <1>1. CASE table = "users"
    <2>1. id \in IDs("users") /\ row \in User
      BY <1>1, Kinds
    <2>2. row.admin \in BOOLEAN
      BY <2>1 DEF User
    <2>3. held[id] \cup {row.admin} \in SUBSET BOOLEAN
      BY <2>1, <2>2 DEF RestOK
    <2> QED BY <1>1, <2>1, <2>3 DEF Roles, RestOK
  <1>2. CASE table # "users"
    BY <1>2 DEF Roles, RestOK
  <1> QED BY <1>1, <1>2

Settled(id) == [Idle EXCEPT !.pc = "groups", !.id = id]
LEMMA SettledFits ==
  ASSUME NEW s, NEW id, Given("users", id, s)
  PROVE  Fits(Settled(id), s) /\ Settled(id).pc = "groups" /\ Settled(id).id = id
  <1> DEFINE o == Settled(id)
  <1>1. id \in Nat
    BY KeysAreNat DEF Given
  <1>2. o \in Op /\ o.pc = "groups" /\ o.id = id /\ o.table = ""
    BY <1>1, IdleIsOp DEF Settled, Op, Points, Idle
  <1> HIDE DEF o
  <1>3. Fits(o, s)
    BY <1>2 DEF Fits
  <1> QED BY <1>2, <1>3 DEF o

LEMMA InsertMove ==
  ASSUME TypeInv, NEW p \in Procs, Insert(p)
  PROVE  /\ TypeInv' /\ Others(p)
         /\ op[p].table \in Tables /\ op[p].row \in Row(op[p].table)
         /\ RowNamed(op[p].table, op[p].row, seq)
         /\ NextID(op[p].table) \in IDs(op[p].table)
         /\ Writes(op[p].table, NextID(op[p].table), op[p].row)
         /\ Grows /\ seq'[op[p].table] = NextID(op[p].table)
         /\ op'[p] = IF At(p, "enroll") THEN Settled(NextID(op[p].table)) ELSE Idle
         /\ Remembers
         /\ Dangles(op[p].table, op[p].row) => past'.absent
         /\ Shares(op[p].table, op[p].row) => past'.shared
  <1> DEFINE table == op[p].table
             row == op[p].row
             id == NextID(table)
             o == IF At(p, "enroll") THEN Settled(id) ELSE Idle
  <1>1. Fits(op[p], seq)
    BY DEF TypeInv, OpsOK
  <1>2. table \in Tables /\ row \in Row(table) /\ RowNamed(table, row, seq)
    <2>1. CASE At(p, "insert")
      BY <1>1, <2>1 DEF At, Fits, Written
    <2>2. CASE At(p, "enroll")
      BY <1>1, <2>2, Kinds DEF At, Fits, Tables, RowNamed
    <2> QED BY <2>1, <2>2 DEF Insert
  <1>3. /\ id \in IDs(table) /\ Writes(table, id, row) /\ held' = Roles(table, id, row)
        /\ seq' = [seq EXCEPT ![table] = id] /\ op' = [op EXCEPT ![p] = o]
        /\ ldap' = ldap
        /\ past' = [past EXCEPT !.absent = @ \/ Dangles(table, row),
                                !.shared = @ \/ Shares(table, row)]
    BY DEF Insert, Writes, Settled
  <1>4. seq'[table] = id /\ seq[table] < id /\ id \in Nat
    BY <1>2, <1>3, IDsAreNat, IdentityBounds DEF TypeInv, SeqOK, Tables, NextID
  <1>5. \A other \in Tables : other # table => seq'[other] = seq[other]
    BY <1>2, <1>3 DEF TypeInv, SeqOK, Tables
  <1>6. SeqOK'
    <2>1. id \in 0..Limit[table]
      BY <1>2, <1>3, <1>4, IdentityBounds DEF IDs, Limit, Tables
    <2>2. /\ Limit["users"] = MaxUsers /\ Limit["teams"] = MaxTeams
          /\ Limit["memberships"] = MaxMemberships /\ Limit["controls"] = MaxControls
      BY DEF Limit
    <2> QED BY <1>2, <1>3, <2>1, <2>2 DEF TypeInv, SeqOK, Tables
  <1>7. Grows
    <2>1. \A other \in Tables : seq[other] \in Nat
      BY IdentityBounds DEF TypeInv, SeqOK, Tables
    <2> QED BY <1>4, <1>5, <1>6, <2>1 DEF Grows
  <1>8. RowNamed(table, row, seq')
    BY <1>2, <1>7, RowNamedStays DEF TypeInv
  <1> HIDE DEF table, row, id
  <1>9. DbOK' /\ Numbered' /\ RowsNamed'
    <2>1. id <= seq'[table]
      BY <1>4
    <2>2. row \in Row(table) \cup {None}
      BY <1>2
    <2>3. DbOK /\ SeqOK /\ Numbered /\ RowsNamed
      BY DEF TypeInv
    <2> QED BY <1>2, <1>3, <1>7, <1>8, <2>1, <2>2, <2>3, WriteKeeps
  <1>10. /\ RestOK' /\ Remembers
         /\ Dangles(table, row) => past'.absent
         /\ Shares(table, row) => past'.shared
    <2>1. past \in Past
      BY DEF TypeInv, RestOK
    <2>2. PICK a \in BOOLEAN, b \in BOOLEAN :
            a = (past.absent \/ Dangles(table, row)) /\ b = (past.shared \/ Shares(table, row))
      BY Zenon
    <2>3. past' = [past EXCEPT !.absent = a, !.shared = b]
      BY <1>3, <2>2
    <2>4. /\ past' \in Past /\ past'.absent = a /\ past'.shared = b
          /\ past'.overlaps = past.overlaps /\ past'.failures = past.failures
          /\ past'.demoted = past.demoted /\ past'.moved = past.moved
      BY <2>1, <2>3 DEF Past
    <2>5. RestOK'
      BY <1>2, <1>3, <2>4, RolesType DEF RestOK, TypeInv
    <2> QED BY <2>2, <2>4, <2>5 DEF Remembers
  <1>11. Fits(o, seq')
    <2>1. CASE At(p, "enroll")
      <3>1. table = "users"
        BY <1>1, <2>1 DEF At, Fits, table
      <3>2. Given("users", id, seq')
        BY <1>3, <1>4, <3>1 DEF Given
      <3> QED BY <2>1, <3>2, SettledFits
    <2>2. CASE ~At(p, "enroll")
      BY <2>2, IdleFits
    <2> QED BY <2>1, <2>2
  <1>12. OpsOK' /\ op'[p] = o /\ Others(p)
    <2> HIDE DEF o
    <2> QED BY <1>3, <1>7, <1>11, Become DEF TypeInv, Others
  <1> QED BY <1>2, <1>3, <1>4, <1>6, <1>7, <1>9, <1>10, <1>12 DEF TypeInv, table, row, id

LEMMA PutMove ==
  ASSUME TypeInv, NEW p \in Procs, Put(p)
  PROVE  /\ TypeInv' /\ Others(p)
         /\ op[p].table \in Tables /\ op[p].row \in Row(op[p].table)
         /\ op[p].id \in IDs(op[p].table)
         /\ Writes(op[p].table, op[p].id, op[p].row)
         /\ seq' = seq /\ op'[p] = Idle
         /\ Remembers
         /\ Demotes(op[p].table, op[p].id, op[p].row) => past'.demoted
         /\ Moves(op[p].table, op[p].id, op[p].row) => past'.moved
         /\ Dangles(op[p].table, op[p].row) => past'.absent
  <1> DEFINE table == op[p].table
             row == op[p].row
             id == op[p].id
  <1>1. Fits(op[p], seq)
    BY DEF TypeInv, OpsOK
  <1>2. /\ table \in Tables /\ row \in Row(table) /\ RowNamed(table, row, seq)
        /\ id \in IDs(table) /\ id <= seq[table]
    BY <1>1 DEF Put, At, Fits, Written, Given
  <1>3. /\ Writes(table, id, row) /\ held' = Roles(table, id, row)
        /\ op' = [op EXCEPT ![p] = Idle] /\ seq' = seq /\ ldap' = ldap
        /\ past' = [past EXCEPT !.demoted = @ \/ Demotes(table, id, row),
                                !.moved = @ \/ Moves(table, id, row),
                                !.absent = @ \/ Dangles(table, row)]
    BY DEF Put, Writes, Done
  <1>4. Grows
    BY <1>3, Still DEF TypeInv
  <1> HIDE DEF table, row, id
  <1>5. DbOK' /\ Numbered' /\ RowsNamed'
    <2>1. id <= seq'[table] /\ RowNamed(table, row, seq')
      BY <1>2, <1>3
    <2>2. row \in Row(table) \cup {None}
      BY <1>2
    <2>3. DbOK /\ SeqOK /\ Numbered /\ RowsNamed
      BY DEF TypeInv
    <2> QED BY <1>2, <1>3, <1>4, <2>1, <2>2, <2>3, WriteKeeps
  <1>6. /\ past' \in Past /\ Remembers
        /\ Demotes(table, id, row) => past'.demoted
        /\ Moves(table, id, row) => past'.moved
        /\ Dangles(table, row) => past'.absent
    <2>1. past \in Past
      BY DEF TypeInv, RestOK
    <2>2. PICK a \in BOOLEAN, b \in BOOLEAN, c \in BOOLEAN :
            /\ a = (past.demoted \/ Demotes(table, id, row))
            /\ b = (past.moved \/ Moves(table, id, row))
            /\ c = (past.absent \/ Dangles(table, row))
      BY Zenon
    <2>3. past' = [past EXCEPT !.demoted = a, !.moved = b, !.absent = c]
      BY <1>3, <2>2
    <2>4. /\ past' \in Past /\ past'.demoted = a /\ past'.moved = b /\ past'.absent = c
          /\ past'.overlaps = past.overlaps /\ past'.failures = past.failures
          /\ past'.shared = past.shared
      BY <2>1, <2>3 DEF Past
    <2> QED BY <2>2, <2>4 DEF Remembers
  <1>7. RestOK'
    BY <1>2, <1>3, <1>6, RolesType DEF RestOK, TypeInv
  <1>8. Fits(Idle, seq')
    BY <1>3, IdleFits
  <1>9. OpsOK' /\ op'[p] = Idle /\ Others(p)
    BY <1>3, <1>4, <1>8, Become DEF TypeInv, Others
  <1> QED BY <1>2, <1>3, <1>4, <1>5, <1>6, <1>7, <1>9 DEF TypeInv, Grows, table, row, id

LEMMA RemoveMove ==
  ASSUME TypeInv, NEW p \in Procs, Remove(p)
  PROVE  /\ TypeInv' /\ Others(p)
         /\ op[p].table \in Tables /\ op[p].id \in IDs(op[p].table)
         /\ Writes(op[p].table, op[p].id, None)
         /\ seq' = seq /\ past' = past
         /\ IF op[p].table \in {"users", "teams"}
            THEN /\ op'[p].pc = "cascade" /\ op'[p].table = op[p].table
                 /\ op'[p].id = op[p].id /\ op'[p].row = op[p].row
            ELSE op'[p] = Idle
  <1> DEFINE table == op[p].table
             id == op[p].id
             o == IF table \in {"users", "teams"} THEN [op[p] EXCEPT !.pc = "cascade"] ELSE Idle
  <1>1. Fits(op[p], seq) /\ op[p] \in Op
    BY DEF TypeInv, OpsOK
  <1>2. table \in Tables /\ id \in IDs(table) /\ id <= seq[table]
    BY <1>1 DEF Remove, At, Fits, Given
  <1>3. /\ Writes(table, id, None) /\ op' = [op EXCEPT ![p] = o]
        /\ seq' = seq /\ held' = held /\ ldap' = ldap /\ past' = past
    BY DEF Remove, Writes
  <1>4. Grows
    BY <1>3, Still DEF TypeInv
  <1>5. table \in {"users", "teams"} =>
          /\ o \in Op /\ o.pc = "cascade" /\ o.table = table /\ o.id = id /\ o.row = op[p].row
    BY <1>1 DEF Op, Points
  <1>6. table \notin {"users", "teams"} => o = Idle
    OBVIOUS
  <1> HIDE DEF o
  <1>7. Fits(o, seq')
    <2>1. CASE table \in {"users", "teams"}
      BY <1>5, <2>1 DEF Fits
    <2>2. CASE table \notin {"users", "teams"}
      BY <1>6, <2>2, IdleFits
    <2> QED BY <2>1, <2>2
  <1>8. OpsOK' /\ op'[p] = o /\ Others(p)
    BY <1>3, <1>4, <1>7, Become DEF TypeInv, Others
  <1> HIDE DEF table, id
  <1>9. DbOK' /\ Numbered' /\ RowsNamed'
    <2>1. id <= seq'[table]
      BY <1>2, <1>3
    <2>2. None \in Row(table) \cup {None}
      OBVIOUS
    <2>3. DbOK /\ SeqOK /\ Numbered /\ RowsNamed
      BY DEF TypeInv
    <2> QED BY <1>2, <1>3, <1>4, <2>1, <2>2, <2>3, WriteKeeps
  <1>10. RestOK'
    BY <1>3 DEF RestOK, TypeInv
  <1>11. TypeInv'
    BY <1>4, <1>8, <1>9, <1>10 DEF TypeInv, Grows
  <1>12. IF table \in {"users", "teams"}
         THEN /\ op'[p].pc = "cascade" /\ op'[p].table = table
              /\ op'[p].id = id /\ op'[p].row = op[p].row
         ELSE op'[p] = Idle
    BY <1>5, <1>6, <1>8
  <1> QED BY <1>2, <1>3, <1>8, <1>11, <1>12 DEF table, id

LEMMA CascadeMove ==
  ASSUME TypeInv, NEW p \in Procs, Cascade(p)
  PROVE  /\ TypeInv' /\ Others(p) /\ op'[p] = Idle /\ seq' = seq /\ past' = past
         /\ \A other \in Tables : other # "memberships" => db'[other] = db[other]
         /\ Rows("memberships")' =
              {m \in Rows("memberships") :
                 ~Named(db.memberships[m], op[p].table, op[p].id)}
         /\ \A m \in Rows("memberships")' : db'.memberships[m] = db.memberships[m]
  <1>1. /\ op' = [op EXCEPT ![p] = Idle]
        /\ seq' = seq /\ held' = held /\ ldap' = ldap /\ past' = past
    BY DEF Cascade, Done
  <1> DEFINE left == [m \in IDs("memberships") |->
                IF db.memberships[m] # None
                   /\ Named(db.memberships[m], op[p].table, op[p].id)
                THEN None ELSE db.memberships[m]]
  <1>2. db' = [db EXCEPT !.memberships = left]
    BY DEF Cascade, TypeInv, DbOK
  <1>3. left \in [IDs("memberships") -> Membership \cup {None}]
    BY DEF TypeInv, DbOK
  <1>4. \A m \in IDs("memberships") :
          left[m] # None => /\ left[m] = db.memberships[m]
                            /\ ~Named(db.memberships[m], op[p].table, op[p].id)
    OBVIOUS
  <1>5. \A m \in Rows("memberships") :
          ~Named(db.memberships[m], op[p].table, op[p].id) => left[m] = db.memberships[m]
    BY DEF Rows
  <1> HIDE DEF left
  <1>6. /\ DbOK' /\ db'.memberships = left
        /\ \A other \in Tables : other # "memberships" => db'[other] = db[other]
    BY <1>2, <1>3 DEF TypeInv, DbOK, Tables
  <1>7. /\ Rows("memberships")' =
             {m \in Rows("memberships") :
                ~Named(db.memberships[m], op[p].table, op[p].id)}
        /\ \A m \in Rows("memberships")' : db'.memberships[m] = db.memberships[m]
    BY <1>4, <1>5, <1>6 DEF Rows
  <1>8. \A other \in Tables : Rows(other)' \subseteq Rows(other)
    BY <1>6, <1>7 DEF Rows, Tables
  <1>9. Grows
    BY <1>1, Still DEF TypeInv
  <1>10. Numbered'
    BY <1>1, <1>8 DEF TypeInv, Numbered
  <1>11. RowsNamed'
    <2>1. Rows("controls")' = Rows("controls") /\ db'.controls = db.controls
      BY <1>6 DEF Rows, Tables
    <2> QED BY <1>1, <1>7, <2>1 DEF TypeInv, RowsNamed
  <1>12. RestOK'
    BY <1>1 DEF RestOK, TypeInv
  <1>13. OpsOK' /\ op'[p] = Idle /\ Others(p)
    BY <1>1, <1>9, IdleFits, Become DEF TypeInv, Others
  <1> QED BY <1>1, <1>6, <1>7, <1>9, <1>10, <1>11, <1>12, <1>13 DEF TypeInv, Grows

(* A step that changes nothing but what a process is doing.                *)
LEMMA TypeStays ==
  ASSUME TypeInv, OpsOK', RestOK', UNCHANGED <<db, seq>>
  PROVE  TypeInv'
  BY DEF TypeInv, DbOK, SeqOK, Numbered, RowsNamed, Rows, MembershipNamed, ControlNamed

LEMMA GroupsMove ==
  ASSUME TypeInv, NEW p \in Procs, Groups(p)
  PROVE  /\ TypeInv' /\ Others(p)
         /\ UNCHANGED <<db, seq, past>>
         /\ op'[p].pc = "join" /\ op'[p].id = op[p].id /\ op'[p].table = op[p].table
         /\ \A t \in op'[p].teams : t \in Rows("teams") /\ ~Joined(op[p].id, t)
  <1>1. PICK groups \in SUBSET TeamNames :
          op' = [op EXCEPT ![p].pc = "join", ![p].teams =
                   {t \in Rows("teams") : db.teams[t].name \in groups /\ ~Joined(op[p].id, t)}]
    BY DEF Groups
  <1>2. UNCHANGED <<db, seq, held, ldap, past>>
    BY DEF Groups
  <1> DEFINE teams == {t \in Rows("teams") :
                         db.teams[t].name \in groups /\ ~Joined(op[p].id, t)}
             o == [op[p] EXCEPT !.pc = "join", !.teams = teams]
  <1>3. Fits(op[p], seq) /\ op[p] \in Op
    BY DEF TypeInv, OpsOK
  <1>4. op[p].table # "controls" /\ Given("users", op[p].id, seq)
    BY <1>3 DEF Groups, At, Fits
  <1>5. /\ teams \in SUBSET IDs("teams")
        /\ \A t \in teams : t \in Rows("teams") /\ ~Joined(op[p].id, t)
    BY DEF Rows
  <1>6. op' = [op EXCEPT ![p] = o]
    BY <1>1, <1>3 DEF TypeInv, OpsOK
  <1>7. \A t \in teams : t <= seq.teams
    BY <1>5 DEF TypeInv, Numbered, Tables
  <1> HIDE DEF teams
  <1>8. /\ o \in Op /\ o.pc = "join" /\ o.id = op[p].id /\ o.table = op[p].table
        /\ o.teams = teams
    BY <1>3, <1>5 DEF Op, Points
  <1> HIDE DEF o
  <1>9. Fits(o, seq')
    BY <1>2, <1>4, <1>7, <1>8 DEF Fits
  <1>10. Grows
    BY <1>2, Still DEF TypeInv
  <1>11. OpsOK' /\ op'[p] = o /\ Others(p)
    BY <1>6, <1>9, <1>10, Become DEF TypeInv, Others
  <1>12. TypeInv'
    BY <1>2, <1>11, TypeStays DEF TypeInv, RestOK
  <1> QED BY <1>2, <1>5, <1>8, <1>11, <1>12

LEMMA InterruptMove ==
  ASSUME TypeInv, NEW p \in Procs, Interrupt(p)
  PROVE  /\ TypeInv' /\ Others(p) /\ op'[p] = Idle
         /\ UNCHANGED <<db, seq>>
         /\ Remembers /\ past'.failures # 0
  <1>1. /\ op' = [op EXCEPT ![p] = Idle]
        /\ UNCHANGED <<db, seq, held, ldap>>
        /\ past' = [past EXCEPT !.failures = @ + 1]
    BY DEF Interrupt, Done
  <1>2. Grows
    BY <1>1, Still DEF TypeInv
  <1>3. OpsOK' /\ op'[p] = Idle /\ Others(p)
    BY <1>1, <1>2, IdleFits, Become DEF TypeInv, Others
  <1>4. RestOK' /\ Remembers /\ past'.failures # 0
    BY <1>1 DEF TypeInv, RestOK, Past, Remembers
  <1> QED BY <1>1, <1>3, <1>4, TypeStays

(* A login that joins the next team.                                       *)
Joining(p, t) ==
  /\ t \in op[p].teams
  /\ NextID("memberships") \in IDs("memberships")
  /\ Writes("memberships", NextID("memberships"),
            [user |-> op[p].id, team |-> t, leader |-> FALSE])
  /\ seq' = [seq EXCEPT !.memberships = NextID("memberships")]
  /\ op' = [op EXCEPT ![p].teams = @ \ {t}]
  /\ UNCHANGED <<held, ldap, past>>

LEMMA JoinCases ==
  ASSUME NEW p \in Procs, Join(p)
  PROVE  /\ At(p, "join")
         /\ \/ Done(p) /\ UNCHANGED <<db, seq, held, ldap, past>>
            \/ \E t \in op[p].teams : Joining(p, t)
  <1>1. CASE op[p].teams = {} /\ Done(p) /\ UNCHANGED <<db, seq>>
    BY <1>1 DEF Join
  <1>2. CASE ~(op[p].teams = {} /\ Done(p) /\ UNCHANGED <<db, seq>>)
    <2>1. PICK t \in Lowest(op[p].teams) :
            LET m == NextID("memberships")
            IN  /\ m \in IDs("memberships")
                /\ db' = [db EXCEPT !.memberships[m] =
                     [user |-> op[p].id, team |-> t, leader |-> FALSE]]
                /\ seq' = [seq EXCEPT !.memberships = m]
                /\ op' = [op EXCEPT ![p].teams = @ \ {t}]
      BY <1>2 DEF Join
    <2>2. t \in op[p].teams
      BY DEF Lowest
    <2>3. Joining(p, t)
      BY <2>1, <2>2 DEF Joining, Writes, Join
    <2> QED BY <2>2, <2>3 DEF Join
  <1> QED BY <1>1, <1>2

LEMMA JoiningMove ==
  ASSUME TypeInv, NEW p \in Procs, At(p, "join"), NEW t \in op[p].teams, Joining(p, t)
  PROVE  /\ TypeInv' /\ Others(p) /\ past' = past
         /\ t \in IDs("teams") /\ op[p].id \in IDs("users")
         /\ op'[p].pc = "join" /\ op'[p].id = op[p].id /\ op'[p].table = op[p].table
         /\ op'[p].teams = op[p].teams \ {t}
  <1> DEFINE id == NextID("memberships")
             row == [user |-> op[p].id, team |-> t, leader |-> FALSE]
             o == [op[p] EXCEPT !.teams = @ \ {t}]
  <1>1. Fits(op[p], seq) /\ op[p] \in Op
    BY DEF TypeInv, OpsOK
  <1>2. /\ op[p].table # "controls" /\ Given("users", op[p].id, seq)
        /\ \A u \in op[p].teams : u <= seq.teams
    BY <1>1 DEF At, Fits
  <1>3. /\ op[p].id \in IDs("users") /\ op[p].id <= seq.users
        /\ t \in IDs("teams") /\ t <= seq.teams
    BY <1>1, <1>2 DEF Given, Op
  <1>4. row \in Membership /\ MembershipNamed(row, seq)
    BY <1>3 DEF Membership, MembershipNamed
  <1>5. /\ id \in IDs("memberships") /\ Writes("memberships", id, row)
        /\ seq' = [seq EXCEPT !.memberships = id] /\ op' = [op EXCEPT ![p] = o]
        /\ UNCHANGED <<held, ldap, past>>
    BY DEF Joining
  <1>6. id = seq.memberships + 1
    BY DEF NextID
  <1>7. id \in 0..MaxMemberships /\ seq.memberships \in Nat
    BY <1>5, <1>6, Kinds, IdentityBounds DEF TypeInv, SeqOK
  <1>8. Grows /\ seq'["memberships"] = id
    BY <1>5, <1>6, <1>7, IdentityBounds DEF TypeInv, SeqOK, Grows, Tables
  <1>9. MembershipNamed(row, seq')
    BY <1>4, <1>8, NamedStays DEF TypeInv
  <1>10. /\ o \in Op /\ o.pc = "join" /\ o.id = op[p].id /\ o.table = op[p].table
         /\ o.teams = op[p].teams \ {t}
    BY <1>1 DEF Op, At
  <1> HIDE DEF id, row, o
  <1>11. DbOK' /\ Numbered' /\ RowsNamed'
    <2>1. id <= seq'["memberships"]
      BY <1>7, <1>8
    <2>2. row \in Row("memberships") \cup {None} /\ "memberships" \in Tables
      BY <1>4, Kinds DEF Tables
    <2>3. RowNamed("memberships", row, seq')
      BY <1>9 DEF RowNamed
    <2>4. DbOK /\ SeqOK /\ Numbered /\ RowsNamed
      BY DEF TypeInv
    <2> QED BY <1>5, <1>8, <2>1, <2>2, <2>3, <2>4, WriteKeeps
  <1>12. RestOK'
    BY <1>5 DEF RestOK, TypeInv
  <1>13. Given("users", o.id, seq')
    <2>1. seq'.users = seq.users
      BY <1>5 DEF TypeInv, SeqOK
    <2> QED BY <1>2, <1>10, <2>1 DEF Given
  <1>14. \A u \in o.teams : u <= seq'.teams
    <2>1. seq'.teams = seq.teams
      BY <1>5 DEF TypeInv, SeqOK
    <2> QED BY <1>2, <1>10, <2>1
  <1>15. Fits(o, seq')
    BY <1>2, <1>10, <1>13, <1>14 DEF Fits
  <1>16. OpsOK' /\ op'[p] = o /\ Others(p)
    BY <1>5, <1>8, <1>15, Become DEF TypeInv, Others
  <1> QED BY <1>3, <1>5, <1>8, <1>10, <1>11, <1>12, <1>16 DEF TypeInv, Grows

LEMMA JoinEndMove ==
  ASSUME TypeInv, NEW p \in Procs, Done(p), UNCHANGED <<db, seq, held, ldap, past>>
  PROVE  TypeInv' /\ Others(p) /\ op'[p] = Idle
  <1>1. Grows
    BY Still DEF TypeInv
  <1>2. OpsOK' /\ op'[p] = Idle /\ Others(p)
    BY <1>1, IdleFits, Become DEF TypeInv, Others, Done
  <1>3. RestOK'
    BY DEF TypeInv, RestOK
  <1> QED BY <1>2, <1>3, TypeStays

LEMMA SettingsMove ==
  ASSUME TypeInv, SettingsUpdate
  PROVE  TypeInv' /\ UNCHANGED <<db, seq, op, past>>
  <1>1. UNCHANGED <<db, seq, op, past, held>> /\ ldap' = ~ldap
    BY DEF SettingsUpdate
  <1>2. RestOK' /\ OpsOK'
    BY <1>1, Zenon DEF TypeInv, RestOK, OpsOK
  <1> QED BY <1>1, <1>2, TypeStays

LEMMA StutterMove ==
  ASSUME TypeInv, UNCHANGED vars
  PROVE  TypeInv' /\ UNCHANGED <<db, seq, op, past>>
  <1>1. UNCHANGED <<db, seq, op, past, held, ldap>>
    BY DEF vars
  <1>2. RestOK' /\ OpsOK'
    BY <1>1 DEF TypeInv, RestOK, OpsOK
  <1> QED BY <1>1, <1>2, TypeStays

-----------------------------------------------------------------------------
(* Requests.                                                               *)
LEMMA InsertionIs ==
  ASSUME NEW table \in Tables, NEW row \in Row(table), NEW who \in Who,
         NEW s, RowNamed(table, row, s), table = "controls" => AuthorizedAccess(row, who),
         NEW o, o = Insertion(table, row, who)
  PROVE  o.pc = "insert" /\ o.table = table /\ o.row = row /\ o.who = who /\ Fits(o, s)
  <1>1. row \in User \cup Team \cup Membership \cup Control \cup {None}
    BY Kinds DEF Tables
  <1>2. o \in Op /\ o.pc = "insert" /\ o.table = table /\ o.row = row /\ o.who = who
    BY <1>1, IdleIsOp DEF Insertion, Idle, Op, Points
  <1>3. Written(o, s)
    BY <1>2 DEF Written
  <1> QED BY <1>2, <1>3 DEF Fits

LEMMA ReplacementIs ==
  ASSUME NEW table \in Tables, NEW id \in IDs(table), NEW row \in Row(table), NEW who \in Who,
         NEW s, Given(table, id, s), RowNamed(table, row, s),
         table = "controls" => AuthorizedAccess(row, who),
         NEW o, o = Replacement(table, id, row, who)
  PROVE  /\ o.pc = "put" /\ o.table = table /\ o.id = id
         /\ o.row = row /\ o.who = who /\ Fits(o, s)
  <1>1. row \in User \cup Team \cup Membership \cup Control \cup {None} /\ id \in Nat
    BY Kinds, IDsAreNat DEF Tables
  <1>2. /\ o \in Op /\ o.pc = "put" /\ o.table = table /\ o.id = id
        /\ o.row = row /\ o.who = who
    BY <1>1, IdleIsOp DEF Replacement, Idle, Op, Points
  <1>3. Written(o, s)
    BY <1>2 DEF Written
  <1>4. Given(o.table, o.id, s)
    BY <1>2
  <1> QED BY <1>2, <1>3, <1>4 DEF Fits

LEMMA RemovalIs ==
  ASSUME NEW table \in Tables, NEW id \in IDs(table), NEW s, Given(table, id, s),
         NEW o, o = Removal(table, id)
  PROVE  o.pc = "remove" /\ o.table = table /\ o.id = id /\ Fits(o, s)
  <1>1. id \in Nat
    BY IDsAreNat
  <1>2. o \in Op /\ o.pc = "remove" /\ o.table = table /\ o.id = id
    BY <1>1, IdleIsOp DEF Removal, Idle, Op, Points
  <1> QED BY <1>2 DEF Fits

LEMMA RowsGiven ==
  ASSUME TypeInv, NEW table \in Tables, NEW id \in Rows(table)
  PROVE  Given(table, id, seq)
  BY DEF TypeInv, Numbered, Given, Rows

LEMMA CallerIs ==
  ASSUME TypeInv, NEW c \in Callers
  PROVE  c \in Who /\ c.id \in Rows("users")
  <1> DEFINE Caller(user, role) ==
                [id |-> user, admin |-> role,
                 teams |-> IF role THEN {}
                           ELSE {db.memberships[m].team : m \in MembershipsOf(user)}]
  <1>1. PICK user \in Rows("users") : c \in {Caller(user, role) : role \in held[user]}
    BY Zenon DEF Callers
  <1>2. PICK role \in held[user] : c = Caller(user, role)
    BY <1>1
  <1>3. user \in IDs("users") /\ role \in BOOLEAN
    BY RowIs DEF TypeInv, RestOK
  <1>4. {db.memberships[m].team : m \in MembershipsOf(user)} \in SUBSET IDs("teams")
    BY RowIs DEF TypeInv, MembershipsOf, Membership
  <1>5. {} \in SUBSET IDs("teams")
    OBVIOUS
  <1> QED BY <1>2, <1>3, <1>4, <1>5 DEF Who

(* While a resource has one control at most, both searches find it.        *)
LEMMA LookupIsCovering ==
  ASSUME TypeInv, ControlsInv, ~past.shared, NEW resource \in Resources
  PROVE  /\ ResourceControlByResourceID(resource) = Covering(resource)
         /\ getResourceControlByResourceID(resource) = Covering(resource)
  <1>1. \A k \in Covering(resource) : k \in Nat
    BY KeysAreNat DEF Covering, Rows
  <1>2. ASSUME NEW ids \in SUBSET Covering(resource)
        PROVE  Lowest(ids) = ids /\ Highest(ids) = ids
    BY <1>1 DEF ControlsInv, Lowest, Highest
  <1> DEFINE own == {k \in Covering(resource) : db.controls[k].resource = resource}
  <1>3. own # {} => own = Covering(resource)
    BY DEF ControlsInv
  <1>4. own \in SUBSET Covering(resource) /\ Covering(resource) \in SUBSET Covering(resource)
    OBVIOUS
  <1>5. ResourceControlByResourceID(resource)
          = IF own # {} THEN Lowest(own) ELSE Highest(Covering(resource))
    BY DEF ResourceControlByResourceID
  <1> HIDE DEF own
  <1> QED BY <1>2, <1>3, <1>4, <1>5 DEF getResourceControlByResourceID

(* What a request begins with fits, and holds of the database.             *)
Sound(o) == Fits(o, seq) /\ o # Idle /\ (UsersInv /\ ControlsInv => Ready(o))
Starts(p) == \E o : Start(p, o) /\ Sound(o)

LEMMA UserCreateStarts ==
  ASSUME TypeInv, NEW p \in Procs, NEW c, NEW name \in UserNames, NEW admin \in BOOLEAN,
         UserCreate(p, c, name, admin)
  PROVE  Starts(p)
  <1> DEFINE row == [name |-> name, admin |-> admin, local |-> ~ldap]
  <1>1. PICK o : o = Insertion("users", row, Nobody)
    OBVIOUS
  <1>2. row \in User /\ row.name = name
    BY DEF User, TypeInv, RestOK
  <1>3. Start(p, o) /\ ~NameTaken(name)
    BY <1>1 DEF UserCreate
  <1> HIDE DEF row
  <1>4. /\ o.pc = "insert" /\ o.table = "users" /\ o.row = row /\ Fits(o, seq)
    BY <1>1, <1>2, Kinds, NobodyIsWho, InsertionIs DEF Tables, RowNamed
  <1>5. Ready(o) /\ o # Idle
    BY <1>2, <1>3, <1>4, IdleIsOp DEF Ready, UserReady
  <1> QED BY <1>3, <1>4, <1>5 DEF Starts, Sound

LEMMA AdminInitStarts ==
  ASSUME TypeInv, NEW p \in Procs, NEW name \in UserNames, AdminInit(p, name)
  PROVE  Starts(p)
  <1> DEFINE row == [name |-> name, admin |-> TRUE, local |-> TRUE]
  <1>1. PICK o : o = Insertion("users", row, Nobody)
    OBVIOUS
  <1>2. row \in User
    BY DEF User
  <1>3. Start(p, o) /\ LocalAdmins = {}
    BY <1>1 DEF AdminInit, LocalAdmins
  <1> HIDE DEF row
  <1>4. /\ o.pc = "insert" /\ o.table = "users" /\ Fits(o, seq)
    BY <1>1, <1>2, Kinds, NobodyIsWho, InsertionIs DEF Tables, RowNamed
  <1>5. UsersInv => Ready(o)
    BY <1>3, <1>4 DEF Ready, UsersInv
  <1> QED BY <1>3, <1>4, <1>5, IdleIsOp DEF Starts, Sound

LEMMA UserUpdateStarts ==
  ASSUME TypeInv, NEW p \in Procs, NEW c, NEW user \in Rows("users"),
         NEW password \in BOOLEAN, NEW role \in {{}, {TRUE}, {FALSE}},
         UserUpdate(p, c, user, password, role)
  PROVE  Starts(p)
  <1> DEFINE old == db.users[user]
             admin == IF role = {} THEN old.admin ELSE TRUE \in role
             row == [old EXCEPT !.local = @ \/ password,
                                !.admin = IF role = {} THEN @ ELSE TRUE \in role]
  <1>1. PICK o : o = Replacement("users", user, row, Nobody)
    OBVIOUS
  <1>2. old \in User /\ user \in IDs("users") /\ Given("users", user, seq)
    BY RowIs, RowsGiven DEF TypeInv, Tables
  <1>3. row \in User /\ row.name = old.name /\ (old.local => row.local)
    <2>1. (old.local \/ password) \in BOOLEAN
      BY Zenon
    <2>2. admin \in BOOLEAN
      <3>1. old.admin \in BOOLEAN /\ (TRUE \in role) \in BOOLEAN
        BY <1>2 DEF User
      <3> QED BY <3>1
    <2>3. row = [old EXCEPT !.local = (old.local \/ password), !.admin = admin]
      BY <1>2 DEF User
    <2> HIDE DEF admin, row
    <2> QED BY <1>2, <2>1, <2>2, <2>3 DEF User
  <1>4. Start(p, o)
    BY <1>1 DEF UserUpdate
  <1> HIDE DEF row
  <1>5. /\ o.pc = "put" /\ o.table = "users" /\ o.id = user /\ o.row = row /\ Fits(o, seq)
    BY <1>1, <1>2, <1>3, Kinds, NobodyIsWho, ReplacementIs DEF Tables, RowNamed
  <1>6. Ready(o) /\ o # Idle
    BY <1>3, <1>5, IdleIsOp DEF Ready, UserReady
  <1> QED BY <1>4, <1>5, <1>6 DEF Starts, Sound

LEMMA UserDeleteStarts ==
  ASSUME TypeInv, NEW p \in Procs, NEW c, NEW user \in Rows("users"), UserDelete(p, c, user)
  PROVE  Starts(p)
  <1>1. PICK o : o = Removal("users", user)
    OBVIOUS
  <1>2. user \in IDs("users") /\ Given("users", user, seq)
    BY RowIs, RowsGiven DEF TypeInv, Tables
  <1>3. Start(p, o) /\ MayDelete(user)
    BY <1>1 DEF UserDelete
  <1>4. o.pc = "remove" /\ o.table = "users" /\ o.id = user /\ Fits(o, seq)
    BY <1>1, <1>2, RemovalIs DEF Tables
  <1>5. ASSUME LocalAdmins # {} PROVE \E u \in LocalAdmins : u # user
    <2>1. CASE ~db.users[user].admin
      BY <1>5, <2>1 DEF LocalAdmins
    <2>2. CASE db.users[user].admin
      <3>1. Cardinality(LocalAdmins) >= 2
        BY <1>3, <2>2 DEF MayDelete
      <3>2. SUFFICES ASSUME LocalAdmins \subseteq {user} PROVE FALSE
        OBVIOUS
      <3>3. IsFiniteSet({user}) /\ Cardinality({user}) = 1
        BY FS_Singleton
      <3>4. Cardinality(LocalAdmins) <= 1 /\ Cardinality(LocalAdmins) \in Nat
        BY <3>2, <3>3, FS_Subset, FS_CardinalityType
      <3> QED BY <3>1, <3>4
    <2> QED BY <2>1, <2>2
  <1>6. UsersInv => Ready(o)
    BY <1>4, <1>5 DEF Ready, UserReady, UsersInv
  <1> QED BY <1>3, <1>4, <1>6, IdleIsOp DEF Starts, Sound

LEMMA TeamCreateStarts ==
  ASSUME TypeInv, NEW p \in Procs, NEW name \in TeamNames, TeamCreate(p, name)
  PROVE  Starts(p)
  <1> DEFINE row == [name |-> name]
  <1>1. PICK o : o = Insertion("teams", row, Nobody)
    OBVIOUS
  <1>2. row \in Team /\ Start(p, o)
    BY <1>1 DEF Team, TeamCreate
  <1> HIDE DEF row
  <1>3. o.pc = "insert" /\ o.table = "teams" /\ Fits(o, seq)
    BY <1>1, <1>2, Kinds, NobodyIsWho, InsertionIs DEF Tables, RowNamed
  <1>4. Ready(o) /\ o # Idle
    BY <1>3, IdleIsOp DEF Ready
  <1> QED BY <1>2, <1>3, <1>4 DEF Starts, Sound

LEMMA TeamUpdateStarts ==
  ASSUME TypeInv, NEW p \in Procs, NEW team \in Rows("teams"),
         NEW name \in TeamNames \cup {None}, TeamUpdate(p, team, name)
  PROVE  Starts(p)
  <1> DEFINE row == Renamed(db.teams[team], name)
  <1>1. PICK o : o = Replacement("teams", team, row, Nobody)
    OBVIOUS
  <1>2. db.teams[team] \in Team /\ team \in IDs("teams") /\ Given("teams", team, seq)
    BY RowIs, RowsGiven DEF TypeInv, Tables
  <1>3. row \in Team
    BY <1>2 DEF Team, Renamed
  <1>4. Start(p, o)
    BY <1>1 DEF TeamUpdate
  <1> HIDE DEF row
  <1>5. o.pc = "put" /\ o.table = "teams" /\ o.id = team /\ Fits(o, seq)
    BY <1>1, <1>2, <1>3, Kinds, NobodyIsWho, ReplacementIs DEF Tables, RowNamed
  <1>6. Ready(o) /\ o # Idle
    BY <1>5, IdleIsOp DEF Ready
  <1> QED BY <1>4, <1>5, <1>6 DEF Starts, Sound

LEMMA TeamDeleteStarts ==
  ASSUME TypeInv, NEW p \in Procs, NEW team \in Rows("teams"), TeamDelete(p, team)
  PROVE  Starts(p)
  <1>1. PICK o : o = Removal("teams", team)
    OBVIOUS
  <1>2. team \in IDs("teams") /\ Given("teams", team, seq) /\ Start(p, o)
    BY <1>1, RowIs, RowsGiven DEF TypeInv, Tables, TeamDelete
  <1>3. o.pc = "remove" /\ o.table = "teams" /\ Fits(o, seq)
    BY <1>1, <1>2, RemovalIs DEF Tables
  <1>4. Ready(o) /\ o # Idle
    BY <1>3, IdleIsOp DEF Ready
  <1> QED BY <1>2, <1>3, <1>4 DEF Starts, Sound

(* The identifiers a bucket has given out.                                 *)
LEMMA KnownAreGiven ==
  ASSUME TypeInv
  PROVE  /\ \A u \in Known("users") : Given("users", u, seq)
         /\ \A t \in Known("teams") : Given("teams", t, seq)
  <1>1. seq.users \in 0..MaxUsers /\ seq.teams \in 0..MaxTeams
    BY DEF TypeInv, SeqOK
  <1> QED BY <1>1, Kinds, IdentityBounds DEF Known, Given

LEMMA MembershipCreateStarts ==
  ASSUME TypeInv, NEW p \in Procs, NEW c, NEW user \in Known("users"),
         NEW team \in Known("teams"), NEW leader \in BOOLEAN,
         MembershipCreate(p, c, user, team, leader)
  PROVE  Starts(p)
  <1> DEFINE row == [user |-> user, team |-> team, leader |-> leader]
  <1>1. PICK o : o = Insertion("memberships", row, Nobody)
    OBVIOUS
  <1>2. /\ user \in IDs("users") /\ Given("users", user, seq)
        /\ team \in IDs("teams") /\ Given("teams", team, seq)
    BY KnownAreGiven DEF Given
  <1>3. /\ row \in Membership /\ MembershipNamed(row, seq)
        /\ row.user = user /\ row.team = team
    BY <1>2 DEF Membership, MembershipNamed, Given
  <1>4. Start(p, o) /\ ~Joined(user, team)
    BY <1>1 DEF MembershipCreate
  <1> HIDE DEF row
  <1>5. RowNamed("memberships", row, seq)
    BY <1>3 DEF RowNamed
  <1>6. o.pc = "insert" /\ o.table = "memberships" /\ o.row = row /\ Fits(o, seq)
    BY <1>1, <1>3, <1>5, Kinds, NobodyIsWho, InsertionIs DEF Tables
  <1>7. Ready(o) /\ o # Idle
    BY <1>3, <1>4, <1>6, IdleIsOp DEF Ready, MemberReady
  <1> QED BY <1>4, <1>6, <1>7 DEF Starts, Sound

LEMMA MembershipUpdateStarts ==
  ASSUME TypeInv, NEW p \in Procs, NEW c, NEW m \in Rows("memberships"),
         NEW user \in Known("users"), NEW team \in Known("teams"), NEW leader \in BOOLEAN,
         MembershipUpdate(p, c, m, user, team, leader)
  PROVE  Starts(p)
  <1> DEFINE row == [user |-> user, team |-> team, leader |-> leader]
  <1>1. PICK o : o = Replacement("memberships", m, row, Nobody)
    OBVIOUS
  <1>2. /\ m \in IDs("memberships") /\ Given("memberships", m, seq)
        /\ user \in IDs("users") /\ Given("users", user, seq)
        /\ team \in IDs("teams") /\ Given("teams", team, seq)
    BY RowIs, RowsGiven, KnownAreGiven DEF TypeInv, Tables, Given
  <1>3. row \in Membership /\ MembershipNamed(row, seq)
    BY <1>2 DEF Membership, MembershipNamed, Given
  <1>4. Start(p, o)
    BY <1>1 DEF MembershipUpdate
  <1> HIDE DEF row
  <1>5. RowNamed("memberships", row, seq)
    BY <1>3 DEF RowNamed
  <1>6. o.pc = "put" /\ o.table = "memberships" /\ o.id = m /\ o.row = row /\ Fits(o, seq)
    BY <1>1, <1>2, <1>3, <1>5, Kinds, NobodyIsWho, ReplacementIs DEF Tables
  <1>7. Ready(o) /\ o # Idle
    BY <1>3, <1>6, IdleIsOp DEF Ready, MemberReady
  <1> QED BY <1>4, <1>6, <1>7 DEF Starts, Sound

LEMMA MembershipDeleteStarts ==
  ASSUME TypeInv, NEW p \in Procs, NEW c, NEW m \in Rows("memberships"),
         MembershipDelete(p, c, m)
  PROVE  Starts(p)
  <1>1. PICK o : o = Removal("memberships", m)
    OBVIOUS
  <1>2. m \in IDs("memberships") /\ Given("memberships", m, seq) /\ Start(p, o)
    BY <1>1, RowIs, RowsGiven DEF TypeInv, Tables, MembershipDelete
  <1>3. o.pc = "remove" /\ o.table = "memberships" /\ Fits(o, seq)
    BY <1>1, <1>2, RemovalIs DEF Tables
  <1>4. Ready(o) /\ o # Idle
    BY <1>3, IdleIsOp DEF Ready, MemberReady
  <1> QED BY <1>2, <1>3, <1>4 DEF Starts, Sound

LEMMA CreationIsAccess ==
  ASSUME NEW control, NEW c, AuthorizedCreation(control, c)
  PROVE  AuthorizedAccess(control, c)
  BY Zenon DEF AuthorizedCreation, AuthorizedAccess, canUserAccessResource

LEMMA GrantIs ==
  ASSUME TypeInv, NEW grant \in Grants
  PROVE  /\ grant.public \in BOOLEAN
         /\ grant.users \in SUBSET IDs("users") /\ grant.teams \in SUBSET IDs("teams")
         /\ \A u \in grant.users : u <= seq.users
         /\ \A t \in grant.teams : t <= seq.teams
  <1>1. \A u \in Known("users") : u \in IDs("users") /\ u <= seq.users
    BY KnownAreGiven DEF Given
  <1>2. \A t \in Known("teams") : t \in IDs("teams") /\ t <= seq.teams
    BY KnownAreGiven DEF Given
  <1>3. /\ grant.public \in BOOLEAN /\ grant.users \subseteq Known("users")
        /\ grant.teams \subseteq Known("teams")
    <2>1. CASE grant = [public |-> TRUE, users |-> {}, teams |-> {}]
      BY <2>1
    <2>2. CASE grant \in [public : {FALSE}, users : {{}} \cup {{u} : u \in Known("users")},
                          teams : SUBSET Known("teams")]
      <3>1. grant.public = FALSE /\ grant.teams \in SUBSET Known("teams")
        BY <2>2
      <3>2. grant.users \in {{}} \cup {{u} : u \in Known("users")}
        BY <2>2
      <3>3. \A g \in {{}} \cup {{u} : u \in Known("users")} : g \subseteq Known("users")
        OBVIOUS
      <3> QED BY <3>1, <3>2, <3>3
    <2> QED BY <2>1, <2>2 DEF Grants
  <1> QED BY <1>1, <1>2, <1>3

LEMMA ControlCreateStarts ==
  ASSUME TypeInv, NEW p \in Procs, NEW c \in Callers, NEW resource \in Resources,
         NEW subs \in SUBSET Resources, NEW grant \in Grants,
         ControlCreate(p, c, resource, subs, grant)
  PROVE  Starts(p)
  <1> DEFINE row == [resource |-> resource, subs |-> subs, public |-> grant.public,
                     users |-> grant.users, teams |-> grant.teams]
  <1>1. PICK o : o = Insertion("controls", row, c)
    OBVIOUS
  <1>2. c \in Who
    BY CallerIs
  <1>3. Start(p, o) /\ AuthorizedAccess(row, c)
    BY <1>1, CreationIsAccess DEF ControlCreate
  <1>4. ~Controlled(resource)
    BY DEF ControlCreate
  <1>5. /\ row \in Control /\ ControlNamed(row, seq)
        /\ row.resource = resource /\ row.subs = subs
    BY GrantIs DEF Control, ControlNamed
  <1> HIDE DEF row
  <1>6. RowNamed("controls", row, seq)
    BY <1>5 DEF RowNamed
  <1>7. o.pc = "insert" /\ o.table = "controls" /\ o.row = row /\ Fits(o, seq)
    BY <1>1, <1>2, <1>3, <1>5, <1>6, Kinds, InsertionIs DEF Tables
  <1>8. ControlsInv => ControlReady(o)
    BY <1>4, <1>5, <1>7, LookupIsCovering DEF ControlReady, Controlled
  <1>9. ControlsInv => Ready(o)
    BY <1>7, <1>8 DEF Ready
  <1> QED BY <1>3, <1>7, <1>9, IdleIsOp DEF Starts, Sound

LEMMA ControlUpdateStarts ==
  ASSUME TypeInv, NEW p \in Procs, NEW c \in Callers, NEW k \in Rows("controls"),
         NEW grant \in Grants, ControlUpdate(p, c, k, grant)
  PROVE  Starts(p)
  <1> DEFINE old == db.controls[k]
             row == [old EXCEPT !.public = grant.public,
                                !.users = grant.users, !.teams = grant.teams]
  <1>1. PICK o : o = Replacement("controls", k, row, c)
    OBVIOUS
  <1>2. c \in Who
    BY CallerIs
  <1>3. Start(p, o) /\ AuthorizedAccess(row, c)
    BY <1>1, CreationIsAccess DEF ControlUpdate, AuthorizedUpdate
  <1>4. old \in Control /\ k \in IDs("controls") /\ Given("controls", k, seq)
    BY RowIs, RowsGiven DEF TypeInv, Tables
  <1>5. /\ row \in Control /\ ControlNamed(row, seq)
        /\ row.resource = old.resource /\ row.subs = old.subs
    BY <1>4, GrantIs DEF Control, ControlNamed
  <1> HIDE DEF row
  <1>6. RowNamed("controls", row, seq)
    BY <1>5 DEF RowNamed
  <1>7. o.pc = "put" /\ o.table = "controls" /\ o.id = k /\ o.row = row /\ Fits(o, seq)
    BY <1>1, <1>2, <1>3, <1>4, <1>5, <1>6, Kinds, ReplacementIs DEF Tables
  <1>8. Ready(o) /\ o # Idle
    BY <1>5, <1>7, IdleIsOp DEF Ready, ControlReady
  <1> QED BY <1>3, <1>7, <1>8 DEF Starts, Sound

LEMMA ControlDeleteStarts ==
  ASSUME TypeInv, NEW p \in Procs, NEW c, NEW k \in Rows("controls"), ControlDelete(p, c, k)
  PROVE  Starts(p)
  <1>1. PICK o : o = Removal("controls", k)
    OBVIOUS
  <1>2. k \in IDs("controls") /\ Given("controls", k, seq) /\ Start(p, o)
    BY <1>1, RowIs, RowsGiven DEF TypeInv, Tables, ControlDelete
  <1>3. o.pc = "remove" /\ o.table = "controls" /\ Fits(o, seq)
    BY <1>1, <1>2, RemovalIs DEF Tables
  <1>4. Ready(o) /\ o # Idle
    BY <1>3, IdleIsOp DEF Ready, ControlReady
  <1> QED BY <1>2, <1>3, <1>4 DEF Starts, Sound

LEMMA LoginStarts ==
  ASSUME TypeInv, NEW p \in Procs, NEW name \in UserNames, Login(p, name)
  PROVE  Starts(p)
  <1> DEFINE row == [name |-> name, admin |-> FALSE, local |-> FALSE]
             enroll == [Insertion("users", row, Nobody) EXCEPT !.pc = "enroll"]
  <1>1. CASE ~NameTaken(name) /\ Start(p, enroll)
    <2>1. PICK o : o = enroll
      OBVIOUS
    <2>2. row \in User /\ row.name = name
      BY DEF User
    <2> HIDE DEF row
    <2>3. row \in User \cup Team \cup Membership \cup Control \cup {None}
      BY <2>2
    <2>4. o \in Op /\ o.pc = "enroll" /\ o.table = "users" /\ o.row = row
      BY <2>1, <2>2, <2>3, NobodyIsWho, IdleIsOp DEF Insertion, Idle, Op, Points, Tables
    <2>5. Fits(o, seq)
      BY <2>2, <2>4 DEF Fits
    <2>6. Ready(o) /\ o # Idle
      BY <1>1, <2>2, <2>4, IdleIsOp DEF Ready, UserReady
    <2> QED BY <1>1, <2>1, <2>5, <2>6 DEF Starts, Sound
  <1>2. ASSUME NEW u \in Rows("users"), Start(p, Settled(u)) PROVE Starts(p)
    <2>1. PICK o : o = Settled(u)
      OBVIOUS
    <2>2. Given("users", u, seq)
      BY RowsGiven DEF Tables
    <2>3. Fits(o, seq) /\ o.pc = "groups" /\ o.id = u
      BY <2>1, <2>2, SettledFits
    <2>4. o.table = ""
      BY <2>1, IdleIsOp DEF Settled, Idle
    <2>5. Ready(o) /\ o # Idle
      BY <2>3, <2>4, IdleIsOp DEF Ready
    <2> QED BY <1>2, <2>1, <2>3, <2>5 DEF Starts, Sound
  <1> QED BY <1>1, <1>2 DEF Login, Settled

LEMMA RequestsStart ==
  ASSUME TypeInv, NEW p \in Procs, Requests(p)
  PROVE  Starts(p)
  <1>1. ASSUME NEW c \in Callers, NEW name \in UserNames, NEW admin \in BOOLEAN,
               UserCreate(p, c, name, admin)
        PROVE  Starts(p)
    BY <1>1, UserCreateStarts
  <1>2. ASSUME NEW c \in Callers, NEW u \in Rows("users"), NEW password \in BOOLEAN,
               NEW role \in {{}, {TRUE}, {FALSE}}, UserUpdate(p, c, u, password, role)
        PROVE  Starts(p)
    BY <1>2, UserUpdateStarts
  <1>3. ASSUME NEW c \in Callers, NEW u \in Rows("users"), UserDelete(p, c, u)
        PROVE  Starts(p)
    BY <1>3, UserDeleteStarts
  <1>4. ASSUME NEW c \in Callers, NEW u \in Known("users"), NEW t \in Known("teams"),
               NEW leader \in BOOLEAN, MembershipCreate(p, c, u, t, leader)
        PROVE  Starts(p)
    BY <1>4, MembershipCreateStarts
  <1>5. ASSUME NEW c \in Callers, NEW u \in Known("users"), NEW t \in Known("teams"),
               NEW leader \in BOOLEAN, NEW m \in Rows("memberships"),
               MembershipUpdate(p, c, m, u, t, leader)
        PROVE  Starts(p)
    BY <1>5, MembershipUpdateStarts
  <1>6. ASSUME NEW c \in Callers, NEW m \in Rows("memberships"), MembershipDelete(p, c, m)
        PROVE  Starts(p)
    BY <1>6, MembershipDeleteStarts
  <1>7. ASSUME NEW c \in Callers, NEW resource \in Resources, NEW subs \in SUBSET Resources,
               NEW grant \in Grants, ControlCreate(p, c, resource, subs, grant)
        PROVE  Starts(p)
    BY <1>7, ControlCreateStarts
  <1>8. ASSUME NEW c \in Callers, NEW k \in Rows("controls"), NEW grant \in Grants,
               ControlUpdate(p, c, k, grant)
        PROVE  Starts(p)
    BY <1>8, ControlUpdateStarts
  <1>9. ASSUME NEW c \in Callers, NEW k \in Rows("controls"), ControlDelete(p, c, k)
        PROVE  Starts(p)
    BY <1>9, ControlDeleteStarts
  <1>10. ASSUME NEW name \in UserNames, AdminInit(p, name) \/ Login(p, name)
         PROVE  Starts(p)
    BY <1>10, AdminInitStarts, LoginStarts
  <1>11. ASSUME NEW name \in TeamNames, TeamCreate(p, name) PROVE Starts(p)
    BY <1>11, TeamCreateStarts
  <1>12. ASSUME NEW t \in Rows("teams"), NEW name \in TeamNames \cup {None},
                TeamUpdate(p, t, name)
         PROVE  Starts(p)
    BY <1>12, TeamUpdateStarts
  <1>13. ASSUME NEW t \in Rows("teams"), TeamDelete(p, t) PROVE Starts(p)
    BY <1>13, TeamDeleteStarts
  <1> QED
    BY <1>1, <1>2, <1>3, <1>4, <1>5, <1>6, <1>7, <1>8, <1>9, <1>10, <1>11, <1>12, <1>13
    DEF Requests

Begins(p, o) ==
  /\ Others(p) /\ op[p] = Idle /\ op'[p] = o /\ Sound(o)
  /\ UNCHANGED <<db, seq>>
  /\ Remembers
  /\ past'.overlaps = 0 => Quiet
LEMMA StartMove ==
  ASSUME TypeInv, NEW p \in Procs, MayStart(p), Requests(p)
  PROVE  TypeInv' /\ \E o : Begins(p, o)
  <1>1. PICK o : Start(p, o) /\ Sound(o)
    BY RequestsStart DEF Starts
  <1>2. /\ op' = [op EXCEPT ![p] = o] /\ UNCHANGED <<db, seq, held, ldap>>
        /\ past' = [past EXCEPT !.ops = @ + 1,
                                !.overlaps = @ + (IF Quiet THEN 0 ELSE 1)]
    BY <1>1 DEF Start
  <1>3. Fits(o, seq')
    BY <1>1, <1>2 DEF Sound
  <1>4. Grows
    BY <1>2, Still DEF TypeInv
  <1>5. OpsOK' /\ op'[p] = o /\ Others(p)
    BY <1>2, <1>3, <1>4, Become DEF TypeInv, Others
  <1>6. RestOK' /\ Remembers /\ (past'.overlaps = 0 => Quiet)
    <2> DEFINE more == IF Quiet THEN 0 ELSE 1
    <2>1. more \in Nat /\ (more = 0 => Quiet)
      OBVIOUS
    <2>2. past' = [past EXCEPT !.ops = @ + 1, !.overlaps = @ + more]
      BY <1>2
    <2> HIDE DEF more
    <2>3. past \in Past
      BY DEF TypeInv, RestOK
    <2>4. /\ past' \in Past /\ past'.failures = past.failures
          /\ past'.demoted = past.demoted /\ past'.moved = past.moved
          /\ past'.absent = past.absent /\ past'.shared = past.shared
          /\ past'.overlaps = past.overlaps + more
      <3>1. past.ops + 1 \in Nat /\ past.overlaps + more \in Nat
        BY <2>1, <2>3 DEF Past
      <3>2. PICK n \in Nat, k \in Nat : n = past.ops + 1 /\ k = past.overlaps + more
        BY <3>1
      <3>3. past' = [past EXCEPT !.ops = n, !.overlaps = k]
        BY <2>2, <3>2
      <3> QED BY <2>3, <3>2, <3>3 DEF Past
    <2>5. past'.overlaps = 0 => past.overlaps = 0 /\ more = 0
      BY <2>1, <2>3, <2>4 DEF Past
    <2>6. RestOK'
      BY <1>2, <2>4 DEF TypeInv, RestOK
    <2> QED BY <2>1, <2>4, <2>5, <2>6 DEF Remembers
  <1>7. TypeInv'
    BY <1>2, <1>5, <1>6, TypeStays
  <1>8. op[p] = Idle
    BY DEF TypeInv, OpsOK, Fits, MayStart, At
  <1> QED BY <1>1, <1>2, <1>5, <1>6, <1>7, <1>8 DEF Begins

-----------------------------------------------------------------------------
(* Types, with any overlap.                                                *)
LEMMA InitTyped == ASSUME Init PROVE TypeInv
  <1>1. /\ First \in UserNames /\ Second \in UserNames /\ Founding \in TeamNames
        /\ 1 \in IDs("users") /\ 2 \in IDs("users") /\ 1 \in IDs("teams")
    BY StartAssumption, IdentityBounds, Kinds
  <1>2. /\ db.users \in [IDs("users") -> User \cup {None}]
        /\ db.teams \in [IDs("teams") -> Team \cup {None}]
        /\ db.memberships \in [IDs("memberships") -> Membership \cup {None}]
        /\ db.controls \in [IDs("controls") -> Control \cup {None}]
    BY <1>1 DEF Init, User, Team
  <1>3. DbOK
    BY <1>2 DEF DbOK, Init
  <1>4. SeqOK
    BY IdentityBounds DEF SeqOK, Init
  <1>5. /\ \A u \in Rows("users") : u \in {1, 2}
        /\ \A t \in Rows("teams") : t = 1
        /\ Rows("memberships") = {} /\ Rows("controls") = {}
    BY DEF Init, Rows
  <1>6. Numbered /\ RowsNamed
    BY <1>5 DEF Numbered, RowsNamed, Tables, Init
  <1>7. RestOK
    <2>1. \A id \in IDs("users") : held[id] \in SUBSET BOOLEAN
      BY DEF Init
    <2> QED BY <2>1 DEF RestOK, Past, Init
  <1>8. OpsOK
    <2>1. \A p \in Procs : Fits(Idle, seq)
      BY IdleFits
    <2> QED BY <2>1, IdleIsOp DEF OpsOK, Init
  <1> QED BY <1>3, <1>4, <1>6, <1>7, <1>8 DEF TypeInv

LEMMA StepTyped == ASSUME TypeInv, [Next]_vars PROVE TypeInv'
  <1>1. ASSUME NEW p \in Procs, MayStart(p) /\ Requests(p) PROVE TypeInv'
    BY <1>1, StartMove
  <1>2. ASSUME NEW p \in Procs, Insert(p) PROVE TypeInv'
    BY <1>2, InsertMove
  <1>3. ASSUME NEW p \in Procs, Put(p) PROVE TypeInv'
    BY <1>3, PutMove
  <1>4. ASSUME NEW p \in Procs, Remove(p) PROVE TypeInv'
    BY <1>4, RemoveMove
  <1>5. ASSUME NEW p \in Procs, Cascade(p) PROVE TypeInv'
    BY <1>5, CascadeMove
  <1>6. ASSUME NEW p \in Procs, Groups(p) PROVE TypeInv'
    BY <1>6, GroupsMove
  <1>7. ASSUME NEW p \in Procs, Join(p) PROVE TypeInv'
    BY <1>7, JoinCases, JoinEndMove, JoiningMove
  <1>8. ASSUME NEW p \in Procs, Interrupt(p) PROVE TypeInv'
    BY <1>8, InterruptMove
  <1>9. CASE SettingsUpdate
    BY <1>9, SettingsMove
  <1>10. CASE UNCHANGED vars
    BY <1>10, StutterMove
  <1> QED BY <1>1, <1>2, <1>3, <1>4, <1>5, <1>6, <1>7, <1>8, <1>9, <1>10 DEF Next

LEMMA TypesHold == Spec => []TypeInv
  <1>1. Init => TypeInv
    BY InitTyped
  <1>2. TypeInv /\ [Next]_vars => TypeInv'
    BY StepTyped
  <1> QED BY <1>1, <1>2, PTL DEF Spec

(* Rows have the shape of their table, under identifiers that the sequence *)
(* of the bucket has given out, whatever requests overlap, fail or are     *)
(* interrupted.                                                            *)
THEOREM TypeCorrect == Spec => []TypeOK
  <1>1. ASSUME TypeInv PROVE TypeOK
    <2>1. \A table \in Tables :
            /\ seq[table] \in 0..Limit[table]
            /\ db[table] \in [IDs(table) -> Row(table) \cup {None}]
      <3>1. /\ Limit["users"] = MaxUsers /\ Limit["teams"] = MaxTeams
            /\ Limit["memberships"] = MaxMemberships /\ Limit["controls"] = MaxControls
        BY DEF Limit
      <3> QED BY <1>1, <3>1, Kinds DEF TypeInv, SeqOK, DbOK, Tables
    <2>2. \A p \in Procs : op[p].pc \in Points /\ op[p].teams \subseteq IDs("teams")
      BY <1>1 DEF TypeInv, OpsOK, Op
    <2> QED BY <1>1, <2>1, <2>2 DEF TypeOK, TypeInv, RestOK, Numbered
  <1>2. TypeInv => TypeOK
    BY <1>1
  <1> QED BY <1>2, TypesHold, PTL

-----------------------------------------------------------------------------
(* Only the process that acts changes what it is doing.                    *)
Acts(p) ==
  \/ MayStart(p) /\ Requests(p)
  \/ Insert(p) \/ Put(p) \/ Remove(p)
  \/ Cascade(p) \/ Groups(p) \/ Join(p) \/ Interrupt(p)

LEMMA ActsAlone ==
  ASSUME TypeInv, NEW p \in Procs, Acts(p)
  PROVE  Others(p)
  <1>1. MayStart(p) /\ Requests(p) => Others(p)
    BY StartMove DEF Begins
  <1>2. Insert(p) => Others(p)
    BY InsertMove
  <1>3. Put(p) => Others(p)
    BY PutMove
  <1>4. Remove(p) => Others(p)
    BY RemoveMove
  <1>5. Cascade(p) => Others(p)
    BY CascadeMove
  <1>6. Groups(p) => Others(p)
    BY GroupsMove
  <1>7. Join(p) => Others(p)
    BY JoinCases, JoinEndMove, JoiningMove
  <1>8. Interrupt(p) => Others(p)
    BY InterruptMove
  <1> QED BY <1>1, <1>2, <1>3, <1>4, <1>5, <1>6, <1>7, <1>8 DEF Acts

LEMMA WhoActs ==
  ASSUME TypeInv, [Next]_vars, NEW p \in Procs, op'[p] # op[p]
  PROVE  Acts(p)
  <1>1. ASSUME NEW q \in Procs, Acts(q) PROVE q = p
    BY <1>1, ActsAlone DEF Others
  <1>2. CASE \E q \in Procs : Acts(q)
    BY <1>1, <1>2
  <1>3. CASE SettingsUpdate
    BY <1>3 DEF SettingsUpdate
  <1>4. CASE UNCHANGED vars
    BY <1>4 DEF vars
  <1> QED BY <1>2, <1>3, <1>4 DEF Next, Acts

(* A user or a team that is created is named by nothing stored before it.  *)
Unnamed(p) ==
  (At(p, "insert") \/ At(p, "enroll")) /\ op'[p] # op[p] =>
       /\ \A u \in IDs("users") : db'.users[u] # db.users[u] =>
            /\ MembershipsOf(u) = {}
            /\ \A k \in Rows("controls") : u \notin db.controls[k].users
       /\ \A t \in IDs("teams") : db'.teams[t] # db.teams[t] =>
            /\ \A m \in Rows("memberships") : db.memberships[m].team # t
            /\ \A k \in Rows("controls") : t \notin db.controls[k].teams
LEMMA UnnamedStep ==
  ASSUME TypeInv, [Next]_vars, NEW p \in Procs
  PROVE  Unnamed(p)
  <1>1. SUFFICES ASSUME At(p, "insert") \/ At(p, "enroll"), op'[p] # op[p]
                 PROVE  Unnamed(p)
    BY DEF Unnamed
  <1>2. Insert(p) \/ Interrupt(p)
    <2>1. Acts(p)
      BY <1>1, WhoActs
    <2>2. ~At(p, "idle") /\ ~At(p, "put") /\ ~At(p, "remove") /\ ~At(p, "cascade")
          /\ ~At(p, "groups") /\ ~At(p, "join")
      BY <1>1 DEF At
    <2> QED BY <2>1, <2>2, JoinCases DEF Acts, MayStart, Put, Remove, Cascade, Groups
  <1>3. CASE Interrupt(p)
    BY <1>3 DEF Interrupt, Unnamed
  <1>4. CASE Insert(p)
    <2> DEFINE table == op[p].table
               id == NextID(table)
    <2>1. /\ table \in Tables /\ id \in IDs(table) /\ op[p].row \in Row(table)
          /\ Writes(table, id, op[p].row)
      BY <1>4, InsertMove
    <2>2. Rowing(table, id, op[p].row)
      <3>1. DbOK /\ op[p].row \in Row(table) \cup {None}
        BY <2>1 DEF TypeInv
      <3> HIDE DEF table, id
      <3> QED BY <2>1, <3>1, Wrote
    <2>3. \A u \in IDs("users") : db'.users[u] # db.users[u] => u = seq.users + 1
      BY <2>1, <2>2 DEF Rowing, TypeInv, DbOK, Tables, NextID
    <2>4. \A t \in IDs("teams") : db'.teams[t] # db.teams[t] => t = seq.teams + 1
      BY <2>1, <2>2 DEF Rowing, TypeInv, DbOK, Tables, NextID
    <2>5. seq.users \in Nat /\ seq.teams \in Nat
      BY IdentityBounds DEF TypeInv, SeqOK
    <2>6. ASSUME NEW m \in Rows("memberships")
          PROVE  /\ db.memberships[m].user # seq.users + 1
                 /\ db.memberships[m].team # seq.teams + 1
      <3>1. MembershipNamed(db.memberships[m], seq)
        BY DEF TypeInv, RowsNamed
      <3> QED BY <2>5, <3>1 DEF MembershipNamed
    <2>7. ASSUME NEW k \in Rows("controls")
          PROVE  /\ seq.users + 1 \notin db.controls[k].users
                 /\ seq.teams + 1 \notin db.controls[k].teams
      <3>1. ControlNamed(db.controls[k], seq)
        BY DEF TypeInv, RowsNamed
      <3> QED BY <2>5, <3>1 DEF ControlNamed
    <2> QED BY <2>3, <2>4, <2>6, <2>7 DEF Unnamed, MembershipsOf
  <1> QED BY <1>2, <1>3, <1>4

(* However requests overlap: a user or team that is created gets an        *)
(* identifier that no membership and no control names, so that it inherits *)
(* nothing from rows a deletion left over.                                 *)
THEOREM NewcomersClean == Spec => NewcomersStartClean
  <1>1. ASSUME TypeInv, [Next]_vars PROVE \A p \in Procs : Unnamed(p)
    BY <1>1, UnnamedStep
  <1>2. TypeInv /\ [Next]_vars => [\A p \in Procs : Unnamed(p)]_vars
    BY <1>1
  <1> QED BY <1>2, TypesHold, PTL DEF Spec, NewcomersStartClean, Unnamed

(* Whoever writes a resource control can use the resource under it.        *)
KeepsAccess(p, k) ==
  op[p].table = "controls" /\ op'[p] # op[p] /\ ~At(p, "idle")
  /\ db'.controls[k] # db.controls[k] /\ db'.controls[k] # None
    => AuthorizedAccess(db'.controls[k], op[p].who)
LEMMA KeepsAccessStep ==
  ASSUME TypeInv, [Next]_vars, NEW p \in Procs, NEW k \in IDs("controls")
  PROVE  KeepsAccess(p, k)
  <1>1. SUFFICES ASSUME op[p].table = "controls", op'[p] # op[p], ~At(p, "idle"),
                        db'.controls[k] # db.controls[k], db'.controls[k] # None
                 PROVE  AuthorizedAccess(db'.controls[k], op[p].who)
    BY DEF KeepsAccess
  <1>2. Acts(p) /\ Fits(op[p], seq)
    BY <1>1, WhoActs DEF TypeInv, OpsOK
  <1>3. ASSUME NEW id \in IDs("controls"), NEW row \in Row("controls") \cup {None},
               Writes("controls", id, row)
        PROVE  db'.controls[k] = row
    <2>1. Rowing("controls", id, row)
      BY <1>3, Wrote DEF TypeInv, Tables
    <2> QED BY <1>1, <2>1 DEF Rowing, TypeInv, DbOK
  <1>4. CASE Insert(p) \/ Put(p)
    <2>1. Written(op[p], seq)
      BY <1>1, <1>2, <1>4 DEF Fits, Insert, Put, At
    <2>2. db'.controls[k] = op[p].row
      BY <1>1, <1>3, <1>4, InsertMove, PutMove
    <2> QED BY <1>1, <2>1, <2>2 DEF Written
  <1>5. CASE Remove(p)
    <2>1. db'.controls[k] = None
      BY <1>1, <1>3, <1>5, RemoveMove
    <2> QED BY <1>1, <2>1
  <1>6. ~Cascade(p)
    BY <1>1, <1>2 DEF Fits, Cascade, At
  <1>7. ~Groups(p) /\ ~Join(p)
    BY <1>1, <1>2, JoinCases DEF Fits, Groups, At
  <1>8. ~Interrupt(p)
    BY <1>1 DEF Interrupt
  <1>9. ~MayStart(p)
    BY <1>1 DEF MayStart
  <1> QED BY <1>2, <1>4, <1>5, <1>6, <1>7, <1>8, <1>9 DEF Acts

(* However requests overlap: whoever writes a resource control can use the *)
(* resource under it, by the token and memberships the request came with.  *)
THEOREM WritersKeep == Spec => WritersKeepAccess
  <1>1. ASSUME TypeInv, [Next]_vars
        PROVE  \A p \in Procs, k \in IDs("controls") : KeepsAccess(p, k)
    BY <1>1, KeepsAccessStep
  <1>2. TypeInv /\ [Next]_vars =>
          [\A p \in Procs, k \in IDs("controls") : KeepsAccess(p, k)]_vars
    BY <1>1
  <1> QED BY <1>2, TypesHold, PTL DEF Spec, WritersKeepAccess, KeepsAccess

-----------------------------------------------------------------------------
(* As long as requests do not overlap.                                     *)
Whole == \A m \in Rows("memberships") :
  db.memberships[m].user \in Rows("users") /\ db.memberships[m].team \in Rows("teams")

(* What one write does to its table.                                       *)
Stored(table, id, row) ==
  /\ Rows(table)' = Rows(table) \cup {id}
  /\ db'[table][id] = row
  /\ \A i \in Rows(table) : i # id => db'[table][i] = db[table][i]
Kept(table) == Rows(table)' \subseteq Rows(table)
               /\ \A i \in Rows(table)' : db'[table][i] = db[table][i]
Same(table) == Rows(table)' = Rows(table) /\ \A i \in Rows(table) : db'[table][i] = db[table][i]

LEMMA StoredRow ==
  ASSUME DbOK, NEW table \in Tables, NEW id \in IDs(table), NEW row \in Row(table),
         Writes(table, id, row)
  PROVE  /\ Stored(table, id, row)
         /\ \A other \in Tables : other # table => Same(other)
  <1>1. row # None /\ row \in Row(table) \cup {None}
    BY NotNone
  <1>2. /\ Rowing(table, id, row) /\ Rows(table)' = Rows(table) \cup {id}
        /\ \A other \in Tables : other # table => Rows(other)' = Rows(other)
    BY <1>1, Wrote
  <1> QED BY <1>2 DEF Rowing, Stored, Same, DbOK, Tables, Rows

LEMMA RemovedRow ==
  ASSUME DbOK, NEW table \in Tables, NEW id \in IDs(table), Writes(table, id, None)
  PROVE  /\ Kept(table) /\ Rows(table)' = Rows(table) \ {id}
         /\ \A other \in Tables : other # table => Same(other)
  <1>1. /\ Rowing(table, id, None) /\ Rows(table)' = Rows(table) \ {id}
        /\ \A other \in Tables : other # table => Rows(other)' = Rows(other)
    BY Wrote
  <1> QED BY <1>1 DEF Rowing, Kept, Same, DbOK, Tables, Rows

LEMMA SameAll ==
  ASSUME UNCHANGED db PROVE \A table \in Tables : Same(table)
  BY DEF Same, Rows

LEMMA SameIsKept == ASSUME NEW table, Same(table) PROVE Kept(table)
  BY DEF Same, Kept

(* The users.                                                              *)
LEMMA UsersStay ==
  ASSUME UsersInv, Same("users"), Remembers
  PROVE  UsersInv'
  BY DEF Remembers, UsersInv, NamesDiffer, LocalAdmins, Same

LEMMA UsersInsert ==
  ASSUME UsersInv, NEW id, id \notin Rows("users"), NEW row, Stored("users", id, row),
         ~past.demoted => ~NameTaken(row.name), Remembers
  PROVE  UsersInv'
  <1>1. SUFFICES ASSUME ~past.demoted PROVE NamesDiffer' /\ (LocalAdmins # {})'
    BY DEF UsersInv, Remembers
  <1>2. NamesDiffer /\ LocalAdmins # {} /\ ~NameTaken(row.name)
    BY <1>1 DEF UsersInv
  <1>3. NamesDiffer'
    BY <1>2 DEF NamesDiffer, NameTaken, Stored
  <1>4. (LocalAdmins # {})'
    BY <1>2 DEF LocalAdmins, Stored
  <1> QED BY <1>3, <1>4

LEMMA UsersPut ==
  ASSUME UsersInv, NEW id \in Rows("users"), NEW row, Stored("users", id, row),
         ~past.demoted => row.name = db.users[id].name /\ (db.users[id].local => row.local),
         Remembers, Demotes("users", id, row) => past'.demoted
  PROVE  UsersInv'
  <1>1. SUFFICES ASSUME ~past'.demoted PROVE NamesDiffer' /\ (LocalAdmins # {})'
    BY DEF UsersInv
  <1>2. /\ NamesDiffer /\ LocalAdmins # {}
        /\ row.name = db.users[id].name /\ (db.users[id].local => row.local)
        /\ (id \in LocalAdmins => row.admin)
    BY <1>1 DEF UsersInv, Remembers, Demotes
  <1>3. NamesDiffer'
    BY <1>2 DEF NamesDiffer, Stored
  <1>4. (LocalAdmins # {})'
    <2>1. PICK u \in LocalAdmins : TRUE
      BY <1>2
    <2>2. u \in LocalAdmins'
      BY <1>2, <2>1 DEF LocalAdmins, Stored
    <2> QED BY <2>2
  <1> QED BY <1>3, <1>4

LEMMA UsersRemove ==
  ASSUME UsersInv, NEW id, Kept("users"), Rows("users")' = Rows("users") \ {id},
         ~past.demoted => \E u \in LocalAdmins : u # id, Remembers
  PROVE  UsersInv'
  <1>1. SUFFICES ASSUME ~past.demoted PROVE NamesDiffer' /\ (LocalAdmins # {})'
    BY DEF UsersInv, Remembers
  <1>2. NamesDiffer /\ \E u \in LocalAdmins : u # id
    BY <1>1 DEF UsersInv
  <1>3. NamesDiffer'
    BY <1>2 DEF NamesDiffer, Kept
  <1>4. (LocalAdmins # {})'
    <2>1. PICK u \in LocalAdmins : u # id
      BY <1>2
    <2>2. u \in LocalAdmins'
      BY <2>1 DEF LocalAdmins, Kept
    <2> QED BY <2>2
  <1> QED BY <1>3, <1>4

(* The memberships.                                                        *)
LEMMA MembersStay ==
  ASSUME MembersInv, Kept("memberships"), Remembers PROVE MembersInv'
  BY DEF MembersInv, Kept, Remembers

LEMMA MembersInsert ==
  ASSUME MembersInv, NEW id, id \notin Rows("memberships"), NEW row,
         Stored("memberships", id, row), ~Joined(row.user, row.team), Remembers
  PROVE  MembersInv'
  BY DEF MembersInv, Stored, Joined, Remembers

LEMMA MembersPut ==
  ASSUME MembersInv, NEW id \in Rows("memberships"), NEW row, Stored("memberships", id, row),
         Remembers, Moves("memberships", id, row) => past'.moved
  PROVE  MembersInv'
  <1>1. SUFFICES ASSUME ~past'.moved PROVE MembersInv'
    BY DEF MembersInv
  <1>2. row.user = db.memberships[id].user /\ row.team = db.memberships[id].team /\ ~past.moved
    BY <1>1 DEF Moves, Remembers
  <1> QED BY <1>2 DEF MembersInv, Stored

(* The controls.                                                           *)
LEMMA ControlsStay ==
  ASSUME ControlsInv, Kept("controls"), Remembers PROVE ControlsInv'
  BY DEF ControlsInv, Kept, Covering, Remembers

LEMMA ControlsInsert ==
  ASSUME ControlsInv, NEW id, id \notin Rows("controls"), NEW row, Stored("controls", id, row),
         Remembers, ~past.shared => Covering(row.resource) = {},
         Shares("controls", row) => past'.shared
  PROVE  ControlsInv'
  <1>1. ASSUME ~past'.shared,
               NEW r \in Resources, NEW j \in Covering(r)', NEW k \in Covering(r)'
        PROVE  j = k
    <2>1. ~past.shared /\ (Covers(row, r) => Covering(r) = {})
      BY <1>1 DEF Remembers, Shares, Covers
    <2>2. \A i \in Covering(r)' : i \in Covering(r) \/ (i = id /\ Covers(row, r))
      BY DEF Covering, Stored
    <2> QED BY <2>1, <2>2 DEF ControlsInv
  <1> QED BY <1>1 DEF ControlsInv

LEMMA ControlsPut ==
  ASSUME ControlsInv, NEW id \in Rows("controls"), NEW row, Stored("controls", id, row),
         row.resource = db.controls[id].resource, row.subs = db.controls[id].subs, Remembers
  PROVE  ControlsInv'
  <1>1. \A r \in Resources : Covering(r)' \subseteq Covering(r)
    BY DEF Covering, Covers, Stored
  <1> QED BY <1>1 DEF ControlsInv, Remembers

(* What memberships name.                                                  *)
LEMMA WholeStays ==
  ASSUME Whole, Kept("memberships"),
         Rows("users") \subseteq Rows("users")', Rows("teams") \subseteq Rows("teams")'
  PROVE  Whole'
  BY DEF Whole, Kept

LEMMA WholeInsert ==
  ASSUME Whole, Same("users"), Same("teams"), NEW id, NEW row, Stored("memberships", id, row),
         row.user \in Rows("users"), row.team \in Rows("teams")
  PROVE  Whole'
  BY DEF Whole, Stored, Same

LEMMA WholeIsEnough ==
  ASSUME Sure' => Whole' PROVE OrphansInv'
  BY DEF OrphansInv, Whole

LEMMA NoCascade ==
  ASSUME OrphansInv, \A p \in Procs : ~At(p, "cascade")
  PROVE  Sure => Whole
  BY DEF OrphansInv, Whole, Cascades

(* The processes: one acts, the others are idle.                           *)
OneActs(p) == \A q \in Procs : q # p => op[q] = Idle
LEMMA OthersAreIdle ==
  ASSUME Alone, NEW p \in Procs, op[p] # Idle
  PROVE  OneActs(p)
  BY DEF Alone, OneActs

Sane == UsersInv /\ MembersInv /\ ControlsInv /\ OrphansInv
Carries(p) == op[p] = Idle \/ Ready(op[p])
LEMMA CalmFrom ==
  ASSUME NEW p \in Procs, OneActs(p)', Carries(p)', Sane'
  PROVE  CalmInv'
  <1>1. ASSUME NEW q \in Procs, op'[q] = Idle PROVE Ready(op[q])'
    BY <1>1, IdleIsOp DEF Ready
  <1>2. Alone'
    BY DEF Alone, OneActs
  <1>3. \A q \in Procs : Ready(op[q])'
    BY <1>1 DEF OneActs, Carries
  <1> QED BY <1>2, <1>3 DEF CalmInv, Sane

(* What a step of a request in progress finds.                             *)
LEMMA CalmFinds ==
  ASSUME Inv, Calm, NEW p \in Procs, op[p] # Idle
  PROVE  /\ OneActs(p) /\ Ready(op[p]) /\ Sane
         /\ ~At(p, "cascade") => (Sure => Whole)
  <1>1. Alone /\ Ready(op[p]) /\ Sane
    BY DEF Inv, CalmInv, Sane
  <1>2. OneActs(p)
    BY <1>1, OthersAreIdle
  <1>3. ASSUME ~At(p, "cascade") PROVE \A q \in Procs : ~At(q, "cascade")
    BY <1>2, <1>3, IdleIsOp DEF OneActs, At
  <1> QED BY <1>1, <1>2, <1>3, NoCascade DEF Sane

LEMMA StayOne ==
  ASSUME NEW p \in Procs, OneActs(p), Others(p)
  PROVE  OneActs(p)'
  BY DEF OneActs, Others

LEMMA FreshID ==
  ASSUME TypeInv, NEW table \in Tables
  PROVE  NextID(table) \notin Rows(table)
  <1>1. seq[table] \in Nat
    BY IdentityBounds DEF TypeInv, SeqOK, Tables
  <1>2. \A id \in Rows(table) : id <= seq[table]
    BY DEF TypeInv, Numbered
  <1> QED BY <1>1, <1>2 DEF NextID

LEMMA NotIdle ==
  ASSUME TypeInv, NEW p \in Procs, ~At(p, "idle") PROVE op[p] # Idle
  BY IdleIsOp DEF At

LEMMA InsertCalm ==
  ASSUME Inv, Calm, NEW p \in Procs, Insert(p)
  PROVE  CalmInv'
  <1>1. At(p, "insert") \/ At(p, "enroll")
    BY DEF Insert
  <1>2. /\ OneActs(p) /\ Ready(op[p]) /\ Sane /\ Fits(op[p], seq)
        /\ Sure => Whole
    BY <1>1, NotIdle, CalmFinds DEF At, Inv, TypeInv, OpsOK
  <1>3. PICK table, id, row :
          /\ table \in Tables /\ table = op[p].table /\ row = op[p].row /\ id = NextID(table)
          /\ id \in IDs(table) /\ row \in Row(table) /\ Writes(table, id, row)
          /\ op'[p] = IF At(p, "enroll") THEN Settled(id) ELSE Idle
    BY InsertMove DEF Inv
  <1>4. /\ OneActs(p)' /\ Remembers
        /\ Dangles(table, row) => past'.absent
        /\ Shares(table, row) => past'.shared
    BY <1>2, <1>3, InsertMove, StayOne DEF Inv
  <1>5. Stored(table, id, row) /\ \A other \in Tables : other # table => Same(other)
    BY <1>3, StoredRow DEF Inv, TypeInv
  <1>6. id \notin Rows(table)
    BY <1>3, FreshID DEF Inv
  <1>7. UsersInv'
    <2>1. CASE table = "users"
      <3>1. ~past.demoted => ~NameTaken(row.name)
        BY <1>1, <1>2, <1>3, <2>1 DEF Ready, UserReady, At
      <3> QED BY <1>2, <1>4, <1>5, <1>6, <2>1, <3>1, UsersInsert DEF Sane
    <2>2. CASE table # "users"
      BY <1>2, <1>4, <1>5, <2>2, UsersStay DEF Sane, Tables
    <2> QED BY <2>1, <2>2
  <1>8. MembersInv'
    <2>1. CASE table = "memberships"
      <3>1. ~Joined(row.user, row.team)
        BY <1>1, <1>2, <1>3, <2>1 DEF Ready, MemberReady, Fits, At
      <3> QED BY <1>2, <1>4, <1>5, <1>6, <2>1, <3>1, MembersInsert DEF Sane
    <2>2. CASE table # "memberships"
      BY <1>2, <1>4, <1>5, <2>2, MembersStay, SameIsKept DEF Sane, Tables
    <2> QED BY <2>1, <2>2
  <1>9. ControlsInv'
    <2>1. CASE table = "controls"
      <3>1. ~past.shared => Covering(row.resource) = {}
        BY <1>1, <1>2, <1>3, <2>1 DEF Ready, ControlReady, Fits, At
      <3> QED BY <1>2, <1>4, <1>5, <1>6, <2>1, <3>1, ControlsInsert DEF Sane
    <2>2. CASE table # "controls"
      BY <1>2, <1>4, <1>5, <2>2, ControlsStay, SameIsKept DEF Sane, Tables
    <2> QED BY <2>1, <2>2
  <1>10. ASSUME Sure' PROVE Whole'
    <2>1. Whole
      BY <1>2, <1>4, <1>10, SurePast
    <2>2. CASE table = "memberships"
      <3>1. row.user \in Rows("users") /\ row.team \in Rows("teams")
        BY <1>4, <1>10, <2>2 DEF Sure, Dangles
      <3> QED BY <1>5, <2>2, <2>1, <3>1, WholeInsert DEF Tables
    <2>3. CASE table # "memberships"
      <3>1. Same("memberships")
        BY <1>5, <2>3 DEF Tables
      <3>2. Rows("users") \subseteq Rows("users")' /\ Rows("teams") \subseteq Rows("teams")'
        BY <1>5 DEF Stored, Same, Tables
      <3> QED BY <2>1, <3>1, <3>2, WholeStays, SameIsKept
    <2> QED BY <2>2, <2>3
  <1>11. OrphansInv'
    BY <1>10, WholeIsEnough
  <1>12. Carries(p)'
    <2>1. CASE At(p, "enroll")
      <3>1. table = "users"
        BY <1>2, <1>3, <2>1 DEF Fits, At
      <3>2. id \in Rows("users")'
        BY <1>5, <3>1 DEF Stored
      <3>3. /\ op'[p].pc = "groups" /\ op'[p].id = id /\ op'[p].table = ""
        BY <1>3, <2>1, IdleIsOp DEF Settled, Idle
      <3> QED BY <3>2, <3>3 DEF Carries, Ready
    <2>2. CASE ~At(p, "enroll")
      BY <1>3, <2>2 DEF Carries
    <2> QED BY <2>1, <2>2
  <1> QED BY <1>4, <1>7, <1>8, <1>9, <1>11, <1>12, CalmFrom DEF Sane

LEMMA PutCalm ==
  ASSUME Inv, Calm, NEW p \in Procs, Put(p)
  PROVE  CalmInv'
  <1>1. At(p, "put")
    BY DEF Put
  <1>2. /\ OneActs(p) /\ Ready(op[p]) /\ Sane
        /\ Sure => Whole
    BY <1>1, NotIdle, CalmFinds DEF At, Inv
  <1>3. PICK table, id, row :
          /\ table \in Tables /\ table = op[p].table /\ row = op[p].row /\ id = op[p].id
          /\ id \in IDs(table) /\ row \in Row(table) /\ Writes(table, id, row)
    BY PutMove DEF Inv
  <1>4. /\ OneActs(p)' /\ Carries(p)' /\ Remembers
        /\ Demotes(table, id, row) => past'.demoted
        /\ Moves(table, id, row) => past'.moved
        /\ Dangles(table, row) => past'.absent
    BY <1>2, <1>3, PutMove, StayOne DEF Inv, Carries
  <1>5. Stored(table, id, row) /\ \A other \in Tables : other # table => Same(other)
    BY <1>3, StoredRow DEF Inv, TypeInv
  <1>6. id \in Rows(table)
    BY <1>1, <1>2, <1>3 DEF Ready, At
  <1>7. UsersInv'
    <2>1. CASE table = "users"
      <3>1. ~past.demoted => row.name = db.users[id].name /\ (db.users[id].local => row.local)
        BY <1>1, <1>2, <1>3, <2>1 DEF Ready, UserReady, At
      <3> QED BY <1>2, <1>4, <1>5, <1>6, <2>1, <3>1, UsersPut DEF Sane
    <2>2. CASE table # "users"
      BY <1>2, <1>4, <1>5, <2>2, UsersStay DEF Sane, Tables
    <2> QED BY <2>1, <2>2
  <1>8. MembersInv'
    <2>1. CASE table = "memberships"
      BY <1>2, <1>4, <1>5, <1>6, <2>1, MembersPut DEF Sane
    <2>2. CASE table # "memberships"
      BY <1>2, <1>4, <1>5, <2>2, MembersStay, SameIsKept DEF Sane, Tables
    <2> QED BY <2>1, <2>2
  <1>9. ControlsInv'
    <2>1. CASE table = "controls"
      <3>1. row.resource = db.controls[id].resource /\ row.subs = db.controls[id].subs
        BY <1>1, <1>2, <1>3, <2>1 DEF Ready, ControlReady, At
      <3> QED BY <1>2, <1>4, <1>5, <1>6, <2>1, <3>1, ControlsPut DEF Sane
    <2>2. CASE table # "controls"
      BY <1>2, <1>4, <1>5, <2>2, ControlsStay, SameIsKept DEF Sane, Tables
    <2> QED BY <2>1, <2>2
  <1>10. ASSUME Sure' PROVE Whole'
    <2>1. Whole
      BY <1>2, <1>4, <1>10, SurePast
    <2>2. CASE table = "memberships"
      <3>1. row.user \in Rows("users") /\ row.team \in Rows("teams")
        BY <1>4, <1>10, <2>2 DEF Sure, Dangles
      <3> QED BY <1>5, <2>2, <2>1, <3>1, WholeInsert DEF Tables
    <2>3. CASE table # "memberships"
      <3>1. Same("memberships")
        BY <1>5, <2>3 DEF Tables
      <3>2. Rows("users") \subseteq Rows("users")' /\ Rows("teams") \subseteq Rows("teams")'
        BY <1>5 DEF Stored, Same, Tables
      <3> QED BY <2>1, <3>1, <3>2, WholeStays, SameIsKept
    <2> QED BY <2>2, <2>3
  <1>11. OrphansInv'
    BY <1>10, WholeIsEnough
  <1> QED BY <1>4, <1>7, <1>8, <1>9, <1>11, CalmFrom DEF Sane

LEMMA RemoveCalm ==
  ASSUME Inv, Calm, NEW p \in Procs, Remove(p)
  PROVE  CalmInv'
  <1>1. At(p, "remove")
    BY DEF Remove
  <1>2. /\ OneActs(p) /\ Ready(op[p]) /\ Sane
        /\ Sure => Whole
    BY <1>1, NotIdle, CalmFinds DEF At, Inv
  <1>3. PICK table, id :
          /\ table \in Tables /\ table = op[p].table /\ id = op[p].id
          /\ id \in IDs(table) /\ Writes(table, id, None)
    BY RemoveMove DEF Inv
  <1>4. /\ OneActs(p)' /\ past' = past /\ Remembers
        /\ IF table \in {"users", "teams"}
           THEN At(p, "cascade")' /\ op'[p].table = table /\ op'[p].id = id
           ELSE op'[p] = Idle
    BY <1>2, <1>3, RemoveMove, StayOne, SamePast DEF Inv, At
  <1>5. /\ Kept(table) /\ Rows(table)' = Rows(table) \ {id}
        /\ \A other \in Tables : other # table => Same(other)
    BY <1>3, RemovedRow DEF Inv, TypeInv
  <1>6. UsersInv'
    <2>1. CASE table = "users"
      <3>1. ~past.demoted => \E u \in LocalAdmins : u # id
        BY <1>1, <1>2, <1>3, <2>1 DEF Ready, UserReady, At
      <3> QED BY <1>2, <1>4, <1>5, <2>1, <3>1, UsersRemove DEF Sane
    <2>2. CASE table # "users"
      BY <1>2, <1>4, <1>5, <2>2, UsersStay DEF Sane, Tables
    <2> QED BY <2>1, <2>2
  <1>7. Kept("memberships") /\ Kept("controls")
    BY <1>5, SameIsKept DEF Tables
  <1>8. MembersInv' /\ ControlsInv'
    BY <1>2, <1>4, <1>7, MembersStay, ControlsStay DEF Sane
  <1>9. OrphansInv'
    <2>1. SUFFICES ASSUME Sure', NEW m \in Rows("memberships")'
                   PROVE  /\ \/ db'.memberships[m].user \in Rows("users")'
                             \/ Cascades("users", db.memberships[m].user)'
                          /\ \/ db'.memberships[m].team \in Rows("teams")'
                             \/ Cascades("teams", db.memberships[m].team)'
      BY DEF OrphansInv
    <2>2. /\ m \in Rows("memberships") /\ db'.memberships[m] = db.memberships[m]
          /\ db.memberships[m].user \in Rows("users")
          /\ db.memberships[m].team \in Rows("teams")
      BY <1>2, <1>4, <1>7, <2>1, SurePast DEF Kept, Whole
    <2>3. CASE table = "users"
      <3>1. Rows("teams")' = Rows("teams") /\ Rows("users")' = Rows("users") \ {id}
        BY <1>5, <2>3 DEF Same, Tables
      <3>2. db.memberships[m].user = id => Cascades("users", db.memberships[m].user)'
        BY <1>4, <2>2, <2>3 DEF Cascades
      <3> QED BY <2>2, <3>1, <3>2
    <2>4. CASE table = "teams"
      <3>1. Rows("users")' = Rows("users") /\ Rows("teams")' = Rows("teams") \ {id}
        BY <1>5, <2>4 DEF Same, Tables
      <3>2. db.memberships[m].team = id => Cascades("teams", db.memberships[m].team)'
        BY <1>4, <2>2, <2>4 DEF Cascades
      <3> QED BY <2>2, <3>1, <3>2
    <2>5. CASE table \notin {"users", "teams"}
      <3>1. Rows("users")' = Rows("users") /\ Rows("teams")' = Rows("teams")
        BY <1>5, <2>5 DEF Same, Tables
      <3> QED BY <2>2, <3>1
    <2> QED BY <2>3, <2>4, <2>5
  <1>10. Carries(p)'
    BY <1>4 DEF Carries, Ready, UserReady, At
  <1> QED BY <1>4, <1>6, <1>8, <1>9, <1>10, CalmFrom DEF Sane

LEMMA CascadeCalm ==
  ASSUME Inv, Calm, NEW p \in Procs, Cascade(p)
  PROVE  CalmInv'
  <1>1. At(p, "cascade")
    BY DEF Cascade
  <1>2. OneActs(p) /\ Sane /\ Fits(op[p], seq)
    BY <1>1, NotIdle, CalmFinds DEF At, Inv, TypeInv, OpsOK
  <1>3. /\ op'[p] = Idle /\ past' = past /\ OneActs(p)' /\ Remembers
        /\ \A other \in Tables : other # "memberships" => db'[other] = db[other]
        /\ Rows("memberships")' =
              {m \in Rows("memberships") :
                 ~Named(db.memberships[m], op[p].table, op[p].id)}
        /\ \A m \in Rows("memberships")' : db'.memberships[m] = db.memberships[m]
    BY <1>2, CascadeMove, StayOne, SamePast DEF Inv
  <1>4. Same("users") /\ Same("teams") /\ Same("controls")
    BY <1>3 DEF Same, Rows, Tables
  <1>5. Kept("memberships") /\ Kept("controls")
    BY <1>3, <1>4, SameIsKept DEF Kept
  <1>6. UsersInv' /\ MembersInv' /\ ControlsInv'
    BY <1>2, <1>3, <1>4, <1>5, UsersStay, MembersStay, ControlsStay DEF Sane
  <1>7. ASSUME Sure, NEW m \in Rows("memberships")'
        PROVE  db'.memberships[m].user \in Rows("users")' /\ db'.memberships[m].team \in Rows("teams")'
    <2>1. /\ m \in Rows("memberships") /\ db'.memberships[m] = db.memberships[m]
          /\ ~Named(db.memberships[m], op[p].table, op[p].id)
      BY <1>3, <1>7
    <2>2. /\ op[p].table = "users" => db.memberships[m].user # op[p].id
          /\ op[p].table = "teams" => db.memberships[m].team # op[p].id
      BY <2>1 DEF Named
    <2>3. \A table \in {"users", "teams"} : \A id : Cascades(table, id) =>
            op[p].table = table /\ op[p].id = id
      BY <1>2, IdleIsOp DEF Cascades, OneActs, At
    <2>4. /\ db.memberships[m].user \in Rows("users")
             \/ Cascades("users", db.memberships[m].user)
          /\ db.memberships[m].team \in Rows("teams")
             \/ Cascades("teams", db.memberships[m].team)
      BY <1>2, <1>7, <2>1 DEF Sane, OrphansInv
    <2> QED BY <1>4, <2>1, <2>2, <2>3, <2>4 DEF Same
  <1>8. OrphansInv'
    <2>1. Sure' => Whole'
      BY <1>3, <1>7, SurePast DEF Whole
    <2> QED BY <2>1, WholeIsEnough
  <1>9. Carries(p)'
    BY <1>3 DEF Carries
  <1> QED BY <1>3, <1>6, <1>8, <1>9, CalmFrom DEF Sane

(* A step that leaves every table as it is.                                *)
LEMMA SaneStays ==
  ASSUME Sane, Sure => Whole, UNCHANGED db, Remembers
  PROVE  Sane'
  <1>1. \A table \in Tables : Same(table)
    BY SameAll
  <1>2. Same("users") /\ Same("teams") /\ Kept("memberships") /\ Kept("controls")
    BY <1>1, SameIsKept DEF Tables
  <1>3. UsersInv' /\ MembersInv' /\ ControlsInv'
    BY <1>2, UsersStay, MembersStay, ControlsStay DEF Sane
  <1>4. Sure' => Whole'
    BY <1>2, WholeStays, SurePast DEF Same
  <1> QED BY <1>3, <1>4, WholeIsEnough DEF Sane

LEMMA GroupsCalm ==
  ASSUME Inv, Calm, NEW p \in Procs, Groups(p)
  PROVE  CalmInv'
  <1>1. At(p, "groups")
    BY DEF Groups
  <1>2. /\ OneActs(p) /\ Ready(op[p]) /\ Sane /\ Fits(op[p], seq)
        /\ Sure => Whole
    BY <1>1, NotIdle, CalmFinds DEF At, Inv, TypeInv, OpsOK
  <1>3. /\ OneActs(p)' /\ UNCHANGED <<db, past>>
        /\ op'[p].pc = "join" /\ op'[p].id = op[p].id /\ op'[p].table = op[p].table
        /\ \A t \in op'[p].teams : t \in Rows("teams") /\ ~Joined(op[p].id, t)
    BY <1>2, GroupsMove, StayOne DEF Inv
  <1>4. Sane'
    BY <1>2, <1>3, SaneStays, SamePast
  <1>5. op[p].id \in Rows("users")
    BY <1>1, <1>2 DEF Ready, At
  <1>6. Ready(op[p])'
    <2>1. op'[p].id \in Rows("users")'
      BY <1>3, <1>5 DEF Rows
    <2>2. \A t \in op'[p].teams : t \in Rows("teams")' /\ ~Joined(op[p].id, t)'
      BY <1>3 DEF Rows, Joined
    <2>3. op'[p].table # "controls"
      BY <1>1, <1>2, <1>3 DEF Fits, At
    <2> QED BY <1>3, <2>1, <2>2, <2>3 DEF Ready, UserReady, MemberReady
  <1> QED BY <1>3, <1>4, <1>6, CalmFrom DEF Carries

LEMMA JoiningCalm ==
  ASSUME Inv, Calm, NEW p \in Procs, At(p, "join"), NEW t \in op[p].teams, Joining(p, t)
  PROVE  CalmInv'
  <1>1. /\ OneActs(p) /\ Ready(op[p]) /\ Sane /\ Fits(op[p], seq)
        /\ Sure => Whole
    BY NotIdle, CalmFinds DEF At, Inv, TypeInv, OpsOK
  <1>2. /\ OneActs(p)' /\ Remembers
        /\ op[p].id \in IDs("users") /\ t \in IDs("teams")
        /\ op'[p].pc = "join" /\ op'[p].id = op[p].id /\ op'[p].table = op[p].table
        /\ op'[p].teams = op[p].teams \ {t}
    BY <1>1, JoiningMove, StayOne, SamePast DEF Inv
  <1>3. PICK id, user, row :
          /\ id = NextID("memberships") /\ id \in IDs("memberships")
          /\ user = op[p].id /\ row = [user |-> user, team |-> t, leader |-> FALSE]
          /\ Writes("memberships", id, row)
    BY DEF Joining
  <1>4. /\ user \in Rows("users") /\ t \in Rows("teams") /\ ~Joined(user, t)
        /\ \A u \in op[p].teams : u \in Rows("teams") /\ ~Joined(user, u)
    BY <1>1, <1>3 DEF Ready, At
  <1>5. row \in Membership /\ row.user = user /\ row.team = t
    BY <1>2, <1>3 DEF Membership
  <1>6. /\ Stored("memberships", id, row)
        /\ \A other \in Tables : other # "memberships" => Same(other)
    BY <1>3, <1>5, Kinds, StoredRow DEF Inv, TypeInv, Tables
  <1>7. id \notin Rows("memberships")
    BY <1>3, FreshID DEF Inv, Tables
  <1>8. Same("users") /\ Same("teams") /\ Same("controls")
    BY <1>6 DEF Tables
  <1>9. UsersInv' /\ ControlsInv'
    BY <1>1, <1>2, <1>8, UsersStay, ControlsStay, SameIsKept DEF Sane
  <1>10. MembersInv'
    BY <1>1, <1>2, <1>4, <1>5, <1>6, <1>7, MembersInsert DEF Sane
  <1>11. OrphansInv'
    <2>1. Sure' => Whole'
      BY <1>1, <1>2, <1>4, <1>5, <1>6, <1>8, WholeInsert, SurePast
    <2> QED BY <2>1, WholeIsEnough
  <1>12. Ready(op[p])'
    <2>1. op'[p].id \in Rows("users")'
      BY <1>2, <1>3, <1>4, <1>8 DEF Same
    <2>2. ASSUME NEW u \in op'[p].teams PROVE u \in Rows("teams")' /\ ~Joined(op[p].id, u)'
      <3>1. u \in op[p].teams /\ u # t
        BY <1>2, <2>2
      <3>2. u \in Rows("teams")
        BY <1>4, <3>1
      <3>3. ~Joined(user, u)'
        BY <1>4, <1>5, <1>6, <1>7, <3>1 DEF Joined, Stored
      <3>4. op'[p].id = user
        BY <1>2, <1>3
      <3> QED BY <1>8, <3>2, <3>3, <3>4 DEF Same, Joined
    <2>3. op'[p].table # "controls"
      BY <1>1, <1>2 DEF Fits, At
    <2> QED BY <1>2, <2>1, <2>2, <2>3 DEF Ready, UserReady, MemberReady
  <1> QED BY <1>2, <1>9, <1>10, <1>11, <1>12, CalmFrom DEF Carries, Sane

LEMMA JoinCalm ==
  ASSUME Inv, Calm, NEW p \in Procs, Join(p)
  PROVE  CalmInv'
  <1>1. At(p, "join")
    BY JoinCases
  <1>2. CASE Done(p) /\ UNCHANGED <<db, seq, held, ldap, past>>
    <2>1. /\ OneActs(p) /\ Sane /\ (Sure => Whole)
      BY <1>1, NotIdle, CalmFinds DEF At, Inv
    <2>2. Others(p) /\ op'[p] = Idle
      BY <1>2, JoinEndMove DEF Inv
    <2>3. OneActs(p)' /\ Carries(p)'
      BY <2>1, <2>2, StayOne DEF Carries
    <2>4. Sane'
      BY <1>2, <2>1, SaneStays, SamePast
    <2> QED BY <2>3, <2>4, CalmFrom
  <1>3. CASE \E t \in op[p].teams : Joining(p, t)
    BY <1>1, <1>3, JoiningCalm
  <1> QED BY <1>2, <1>3, JoinCases

LEMMA InterruptCalm ==
  ASSUME Inv, Calm, NEW p \in Procs, Interrupt(p)
  PROVE  CalmInv'
  <1>1. OneActs(p) /\ Sane
    BY NotIdle, CalmFinds DEF Interrupt, Inv
  <1>2. /\ Others(p) /\ op'[p] = Idle /\ UNCHANGED db
        /\ Remembers /\ past'.failures # 0
    BY InterruptMove DEF Inv
  <1>3. OneActs(p)' /\ Carries(p)'
    BY <1>1, <1>2, StayOne DEF Carries
  <1>4. UsersInv' /\ MembersInv' /\ ControlsInv'
    <2>1. Same("users") /\ Kept("memberships") /\ Kept("controls")
      BY <1>2, SameAll, SameIsKept DEF Tables
    <2> QED BY <1>1, <1>2, <2>1, UsersStay, MembersStay, ControlsStay DEF Sane
  <1>5. OrphansInv'
    BY <1>2 DEF OrphansInv, Sure
  <1> QED BY <1>3, <1>4, <1>5, CalmFrom DEF Sane

LEMMA StartCalm ==
  ASSUME Inv, NEW p \in Procs, MayStart(p), Requests(p), Calm'
  PROVE  CalmInv'
  <1>1. PICK o : Begins(p, o)
    BY StartMove DEF Inv
  <1>2. Calm /\ Quiet
    BY <1>1 DEF Begins, Calm, Remembers
  <1>3. Sane /\ \A q \in Procs : ~At(q, "cascade")
    BY <1>2, IdleIsOp DEF Inv, CalmInv, Sane, Quiet, At
  <1>4. Sure => Whole
    BY <1>3, NoCascade DEF Sane
  <1>5. Sane'
    BY <1>1, <1>3, <1>4, SaneStays DEF Begins
  <1>6. OneActs(p)'
    BY <1>1, <1>2 DEF Begins, OneActs, Others, Quiet
  <1>7. Ready(o) /\ op'[p] = o /\ UNCHANGED db /\ Remembers
    BY <1>1, <1>3 DEF Begins, Sound, Sane
  <1>8. Carries(p)'
    BY <1>7 DEF Remembers, Carries, Ready, UserReady, MemberReady, ControlReady, NameTaken, LocalAdmins,
                Joined, Covers, Covering, Rows
  <1> QED BY <1>5, <1>6, <1>8, CalmFrom

(* Steps that are no request's.                                            *)
LEMMA IdleCalm ==
  ASSUME CalmInv, UNCHANGED <<db, seq, op, past>>
  PROVE  CalmInv'
  <1>1. Alone => Alone'
    BY DEF Alone
  <1>2. ASSUME NEW q \in Procs, Ready(op[q]) PROVE Ready(op[q])'
    BY <1>2 DEF Ready, UserReady, MemberReady, ControlReady, NameTaken, LocalAdmins,
                Joined, Covers, Covering, Rows
  <1>3. UsersInv /\ MembersInv /\ ControlsInv => UsersInv' /\ MembersInv' /\ ControlsInv'
    BY DEF UsersInv, NamesDiffer, LocalAdmins, MembersInv, ControlsInv, Covering, Rows
  <1>4. OrphansInv => OrphansInv'
    BY DEF OrphansInv, Sure, Cascades, At, Rows
  <1> QED BY <1>1, <1>2, <1>3, <1>4 DEF CalmInv, Calm

LEMMA InitCalm == ASSUME Init PROVE CalmInv
  <1>1. 1 \in IDs("users") /\ 2 \in IDs("users") /\ First # Second
    BY StartAssumption, IdentityBounds, Kinds
  <1>2. /\ \A p \in Procs : op[p] = Idle
        /\ \A u \in Rows("users") : u = 1 \/ u = 2
        /\ Rows("memberships") = {} /\ Rows("controls") = {}
    BY DEF Init, Rows
  <1>3. 1 # 2 /\ db.users[1].name = First /\ db.users[2].name = Second
    BY <1>1 DEF Init
  <1>4. NamesDiffer
    BY <1>1, <1>2, <1>3 DEF NamesDiffer
  <1>5. 1 \in LocalAdmins
    <2>1. db.users[1] = [name |-> First, admin |-> TRUE, local |-> TRUE]
      BY <1>1 DEF Init
    <2>2. db.users[1] # None
      <3>1. db.users[1] \in User
        BY <2>1, StartAssumption DEF User
      <3> QED BY <3>1, NoRowAssumption
    <2> QED BY <1>1, <2>1, <2>2 DEF LocalAdmins, Rows
  <1>6. UsersInv
    BY <1>4, <1>5 DEF UsersInv
  <1>7. MembersInv /\ ControlsInv /\ OrphansInv
    BY <1>2 DEF MembersInv, ControlsInv, OrphansInv, Covering
  <1>8. Alone /\ \A p \in Procs : Ready(op[p])
    BY <1>2, IdleIsOp DEF Alone, Ready
  <1> QED BY <1>6, <1>7, <1>8 DEF CalmInv

LEMMA StepCalm == ASSUME Inv, [Next]_vars PROVE CalmInv'
  <1>1. SUFFICES ASSUME Calm' PROVE CalmInv'
    BY DEF CalmInv
  <1>2. ASSUME NEW p \in Procs, MayStart(p) /\ Requests(p) PROVE CalmInv'
    BY <1>1, <1>2, StartCalm
  <1>3. ASSUME NEW p \in Procs, Insert(p) PROVE CalmInv'
    <2>1. Calm
      BY <1>1, <1>3, InsertMove DEF Inv, Calm, Remembers
    <2> QED BY <1>3, <2>1, InsertCalm
  <1>4. ASSUME NEW p \in Procs, Put(p) PROVE CalmInv'
    <2>1. Calm
      BY <1>1, <1>4, PutMove DEF Inv, Calm, Remembers
    <2> QED BY <1>4, <2>1, PutCalm
  <1>5. ASSUME NEW p \in Procs, Remove(p) PROVE CalmInv'
    <2>1. Calm
      BY <1>1, <1>5, RemoveMove DEF Inv, Calm
    <2> QED BY <1>5, <2>1, RemoveCalm
  <1>6. ASSUME NEW p \in Procs, Cascade(p) PROVE CalmInv'
    <2>1. Calm
      BY <1>1, <1>6, CascadeMove DEF Inv, Calm
    <2> QED BY <1>6, <2>1, CascadeCalm
  <1>7. ASSUME NEW p \in Procs, Groups(p) PROVE CalmInv'
    <2>1. Calm
      BY <1>1, <1>7, GroupsMove DEF Inv, Calm
    <2> QED BY <1>7, <2>1, GroupsCalm
  <1>8. ASSUME NEW p \in Procs, Join(p) PROVE CalmInv'
    <2>1. Calm
      BY <1>1, <1>8 DEF Join, Calm
    <2> QED BY <1>8, <2>1, JoinCalm
  <1>9. ASSUME NEW p \in Procs, Interrupt(p) PROVE CalmInv'
    <2>1. Calm
      BY <1>1, <1>9, InterruptMove DEF Inv, Calm, Remembers
    <2> QED BY <1>9, <2>1, InterruptCalm
  <1>10. CASE SettingsUpdate
    BY <1>10, IdleCalm DEF SettingsUpdate, Inv
  <1>11. CASE UNCHANGED vars
    BY <1>11, IdleCalm DEF vars, Inv
  <1> QED BY <1>2, <1>3, <1>4, <1>5, <1>6, <1>7, <1>8, <1>9, <1>10, <1>11 DEF Next

LEMMA InvHolds == Spec => []Inv
  <1>1. Init => Inv
    BY InitTyped, InitCalm DEF Inv
  <1>2. Inv /\ [Next]_vars => Inv'
    BY StepTyped, StepCalm DEF Inv
  <1> QED BY <1>1, <1>2, PTL DEF Spec

(* As long as requests do not overlap, the tables of users, teams and      *)
(* memberships refer to each other as if they had keys, though each        *)
(* handler checks in one transaction and writes in others, up to what a    *)
(* request may ask for unchecked: to move a membership, or one that names  *)
(* a user or a team which is not there.                                    *)
THEOREM TablesSound == Spec => []IdentitySound
  <1>1. ASSUME Inv PROVE UniqueNames
    BY <1>1 DEF Inv, CalmInv, UniqueNames, UsersInv, NamesDiffer
  <1>2. ASSUME Inv PROVE OneMembership
    BY <1>2 DEF Inv, CalmInv, OneMembership, MembersInv
  <1>3. ASSUME Inv PROVE NoOrphans
    <2>1. SUFFICES ASSUME Calm, Sure, Quiet PROVE Whole
      BY DEF NoOrphans, Whole, Sure
    <2>2. OrphansInv /\ \A p \in Procs : ~At(p, "cascade")
      BY <1>3, <2>1, IdleIsOp DEF Inv, CalmInv, Quiet, At
    <2> QED BY <2>1, <2>2, NoCascade
  <1>4. Inv => UniqueNames /\ OneMembership /\ NoOrphans
    BY <1>1, <1>2, <1>3
  <1> QED BY <1>4, InvHolds, TypeCorrect, PTL DEF IdentitySound

(* An administrator with a password remains, whoever is deleted in         *)
(* whatever order, unless one is demoted or requests overlap.              *)
THEOREM AdminRemains == Spec => []LocalAdminKept
  <1>1. Inv => LocalAdminKept
    BY DEF Inv, CalmInv, LocalAdminKept, UsersInv
  <1> QED BY <1>1, InvHolds, PTL

(* As long as requests do not overlap, the search for the control of a     *)
(* resource that stack handlers use and the one lists and the Docker proxy *)
(* use find the same one, unless a control was created with a part that    *)
(* has one already.                                                        *)
THEOREM SearchesAgree == Spec => []LookupsAgree
  <1>1. Inv => LookupsAgree
    BY LookupIsCovering DEF Inv, CalmInv, LookupsAgree
  <1> QED BY <1>1, InvHolds, PTL
=============================================================================
