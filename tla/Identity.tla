------------------------------ MODULE Identity ------------------------------
(* Users, teams, the memberships that join them, and the resource controls *)
(* that name them: four buckets of one database that refer to each other   *)
(* by identifier, and handlers that read in one transaction, decide, and   *)
(* write in others.  Between the transactions of a handler another request *)
(* may run, and a deletion takes two of them.                              *)
EXTENDS Naturals, FiniteSets

CONSTANTS
  Procs,           \* the requests the server handles at once
  UserNames,       \* user names
  TeamNames,       \* team names, which are also the names of LDAP groups
  Resources,       \* Docker resources and stacks that can be controlled
  First, Second,   \* the users the database has at first, distinct names
  Founding,        \* the team it has at first
  None,            \* no row, no name
  MaxUsers, MaxTeams, MaxMemberships, MaxControls,  \* bounds: identifiers
  MaxOps,          \* bound: requests
  MaxOverlaps,     \* bound: requests that begin while another is in progress
  MaxFailures      \* bound: requests cut short by an error or a restart

ASSUME StartAssumption ==
  /\ First \in UserNames /\ Second \in UserNames /\ First # Second
  /\ Founding \in TeamNames
ASSUME NoneAssumption == None \notin UserNames /\ None \notin TeamNames
ASSUME IdentityBounds ==
  /\ MaxUsers \in Nat \ {0, 1} /\ MaxTeams \in Nat \ {0}
  /\ MaxMemberships \in Nat /\ MaxControls \in Nat
  /\ MaxOps \in Nat /\ MaxOverlaps \in Nat /\ MaxFailures \in Nat

Tables == {"users", "teams", "memberships", "controls"}
Limit == [users |-> MaxUsers, teams |-> MaxTeams,
          memberships |-> MaxMemberships, controls |-> MaxControls]
IDs(table) == 1..Limit[table]

\* A user is local when it has a password of its own.
User == [name : UserNames, admin : BOOLEAN, local : BOOLEAN]
Team == [name : TeamNames]
Membership == [user : IDs("users"), team : IDs("teams"), leader : BOOLEAN]
Control == [resource : Resources, subs : SUBSET Resources, public : BOOLEAN,
            users : SUBSET IDs("users"), teams : SUBSET IDs("teams")]

ASSUME NoRowAssumption == None \notin User \cup Team \cup Membership \cup Control

VARIABLES
  db,      \* the rows of each table
  seq,     \* the sequence of each bucket
  held,    \* for each user, the roles that tokens in circulation may carry
  ldap,    \* the authentication method: LDAP, or internal
  op,      \* what each process is doing
  past     \* (history) how many requests, overlaps and failures there were,
           \* and what was written that no handler checks: an administrator
           \* demoted, a membership moved to another user or team, one that
           \* names a user or team which is not there, a control with a part
           \* that has one already

vars == <<db, seq, held, ldap, op, past>>

Rows(table) == {id \in IDs(table) : db[table][id] # None}
Lowest(ids) == {i \in ids : \A j \in ids : i <= j}
Highest(ids) == {i \in ids : \A j \in ids : j <= i}

(* A request: the program point, the table and identifier it writes, the   *)
(* row, who asked for it (kept for resource controls only), and the teams  *)
(* a login has still to join.                                              *)
Nobody == [id |-> 0, admin |-> FALSE, teams |-> {}]
Idle == [pc |-> "idle", table |-> "", id |-> 0, row |-> None,
         who |-> Nobody, teams |-> {}]
At(p, point) == op[p].pc = point
Quiet == \A p \in Procs : op[p] = Idle
Done(p) == op' = [op EXCEPT ![p] = Idle]

MayStart(p) ==
  /\ At(p, "idle") /\ past.ops < MaxOps
  /\ Quiet \/ past.overlaps < MaxOverlaps
Start(p, request) ==
  /\ op' = [op EXCEPT ![p] = request]
  /\ past' = [past EXCEPT !.ops = @ + 1,
                          !.overlaps = @ + (IF Quiet THEN 0 ELSE 1)]
  /\ UNCHANGED <<db, seq, held, ldap>>

Insertion(table, row, who) ==
  [Idle EXCEPT !.pc = "insert", !.table = table, !.row = row, !.who = who]
Replacement(table, id, row, who) ==
  [Idle EXCEPT !.pc = "put", !.table = table, !.id = id, !.row = row, !.who = who]
Removal(table, id) ==
  [Idle EXCEPT !.pc = "remove", !.table = table, !.id = id]
Room(table) == seq[table] < Limit[table]

-----------------------------------------------------------------------------
Init ==
  /\ db = [users |-> [id \in IDs("users") |->
                        CASE id = 1 -> [name |-> First, admin |-> TRUE, local |-> TRUE]
                          [] id = 2 -> [name |-> Second, admin |-> FALSE, local |-> TRUE]
                          [] OTHER -> None],
           teams |-> [id \in IDs("teams") |->
                        IF id = 1 THEN [name |-> Founding] ELSE None],
           memberships |-> [id \in IDs("memberships") |-> None],
           controls |-> [id \in IDs("controls") |-> None]]
  /\ seq = [users |-> 2, teams |-> 1, memberships |-> 0, controls |-> 0]
  /\ held = [id \in IDs("users") |->
               CASE id = 1 -> {TRUE} [] id = 2 -> {FALSE} [] OTHER -> {}]
  /\ ldap \in BOOLEAN
  /\ op = [p \in Procs |-> Idle]
  /\ past = [ops |-> 0, overlaps |-> 0, failures |-> 0,
             demoted |-> FALSE, moved |-> FALSE, absent |-> FALSE, shared |-> FALSE]

(* Who asks: a user that still exists, in the role his token carries, which *)
(* he has or once had; an administrator's memberships are not looked up.   *)
MembershipsOf(user) == {m \in Rows("memberships") : db.memberships[m].user = user}
Callers ==
  UNION {{[id |-> user, admin |-> role,
           teams |-> IF role THEN {}
                     ELSE {db.memberships[m].team : m \in MembershipsOf(user)}] :
            role \in held[user]} : user \in Rows("users")}
Admins == {c \in Callers : c.admin}
IsTeamLeader(c) ==
  ~c.admin /\ \E m \in MembershipsOf(c.id) : db.memberships[m].leader
AuthorizedTeamManagement(team, c) ==
  c.admin \/ \E m \in MembershipsOf(c.id) :
               db.memberships[m].team = team /\ db.memberships[m].leader

-----------------------------------------------------------------------------
(* Users *)
NameTakenFirst(name) == \E u \in Lowest(Rows("users")) : db.users[u].name = name
NameTaken(name) == \E u \in Rows("users") : db.users[u].name = name

UserCreate(p, c, name, admin) ==
  /\ c.admin \/ IsTeamLeader(c)
  /\ ~(IsTeamLeader(c) /\ admin)
  /\ ~NameTaken(name) /\ Room("users")
  /\ Start(p, Insertion("users", [name |-> name, admin |-> admin, local |-> ~ldap], Nobody))

\* The first administrator; the name is not checked.
AdminInit(p, name) ==
  /\ ~\E u \in Rows("users") : db.users[u].admin
  /\ Room("users")
  /\ Start(p, Insertion("users", [name |-> name, admin |-> TRUE, local |-> TRUE], Nobody))

\* role is a set: empty when the request leaves the role as it is.
UserUpdate(p, c, user, password, role) ==
  /\ c.admin \/ (c.id = user /\ role = {})
  /\ Start(p, Replacement("users", user,
                [db.users[user] EXCEPT
                   !.local = @ \/ password,
                   !.admin = IF role = {} THEN @ ELSE TRUE \in role], Nobody))

LocalAdmins == {u \in Rows("users") : db.users[u].admin /\ db.users[u].local}
MayDeleteLast(user) == db.users[user].admin => Cardinality(LocalAdmins) >= 1
MayDelete(user) == db.users[user].admin => Cardinality(LocalAdmins) >= 2
UserDelete(p, c, user) ==
  /\ c.admin /\ c.id # user
  /\ MayDelete(user)
  /\ Start(p, Removal("users", user))

(* Teams *)
TeamCreate(p, name) ==
  /\ Admins # {}
  /\ ~\E t \in Rows("teams") : db.teams[t].name = name
  /\ Room("teams")
  /\ Start(p, Insertion("teams", [name |-> name], Nobody))

\* An empty name leaves the name as it is.
RenamedAlways(team, name) == [name |-> name]
Renamed(team, name) == IF name = None THEN team ELSE [name |-> name]
TeamUpdate(p, team, name) ==
  /\ Admins # {}
  /\ Start(p, Replacement("teams", team, Renamed(db.teams[team], name), Nobody))

TeamDelete(p, team) ==
  /\ Admins # {}
  /\ Start(p, Removal("teams", team))

(* Memberships: nobody looks up the users and teams that a request names.  *)
(* It knows their identifiers from the server, which may have deleted them. *)
Known(table) == 1..seq[table]
JoinedPlain(user, team) ==
  \E m \in Rows("memberships") :
    db.memberships[m].user = user /\ db.memberships[m].team = team /\ ~db.memberships[m].leader
Joined(user, team) ==
  \E m \in Rows("memberships") : db.memberships[m].user = user /\ db.memberships[m].team = team
MembershipCreate(p, c, user, team, leader) ==
  /\ AuthorizedTeamManagement(team, c)
  /\ ~Joined(user, team) /\ Room("memberships")
  /\ Start(p, Insertion("memberships", [user |-> user, team |-> team, leader |-> leader], Nobody))

\* The user and the team are those of the request, which the page sends back as
\* they were.
MembershipUpdate(p, c, m, user, team, leader) ==
  /\ AuthorizedTeamManagement(team, c)
  /\ IsTeamLeader(c) => leader = db.memberships[m].leader
  /\ Start(p, Replacement("memberships", m, [user |-> user, team |-> team, leader |-> leader], Nobody))

MembershipDelete(p, c, m) ==
  /\ AuthorizedTeamManagement(db.memberships[m].team, c)
  /\ Start(p, Removal("memberships", m))

-----------------------------------------------------------------------------
(* Resource controls *)
Covers(control, resource) == resource = control.resource \/ resource \in control.subs
Covering(resource) == {k \in Rows("controls") : Covers(db.controls[k], resource)}

\* The store stops at a control of the resource itself; a control that covers
\* the resource as a part does not stop it, so the last such control wins.
ResourceControlByResourceID(resource) ==
  LET own == {k \in Covering(resource) : db.controls[k].resource = resource}
  IN  IF own # {} THEN Lowest(own) ELSE Highest(Covering(resource))

\* The list stops at the first control that covers it either way.
getResourceControlByResourceID(resource) == Lowest(Covering(resource))

canUserAccessResource(c, control) ==
  c.id \in control.users \/ c.teams \cap control.teams # {} \/ control.public

AuthorizedAccess(control, c) == c.admin \/ canUserAccessResource(c, control)

AuthorizedCreation(control, c) ==
  \/ c.admin \/ control.public
  \/ LET users == Cardinality(control.users)
         teams == Cardinality(control.teams)
     IN  /\ users <= 1 /\ ~(users = 1 /\ teams = 1)
         /\ c.id \in control.users \/ c.teams \cap control.teams # {}

AuthorizedUpdateUsers(control, c) == c.admin \/ control.users = {}
AuthorizedUpdate(control, c) ==
  /\ c.admin \/ control.users = {}
  /\ AuthorizedCreation(control, c)

(* Whom a request grants access to: everybody, or the users and teams it   *)
(* lists; at most one user, and any teams.                                 *)
Grants ==
  {[public |-> TRUE, users |-> {}, teams |-> {}]} \cup
  {g \in [public : {FALSE}, users : {{}} \cup {{u} : u \in Known("users")},
          teams : SUBSET Known("teams")] : g.users # {} \/ g.teams # {}}

ControlledItself(resource) ==
  \E k \in Rows("controls") : db.controls[k].resource = resource
Controlled(resource) == ResourceControlByResourceID(resource) # {}

\* Only the resource is looked up.  Its parts, the volumes made together with a
\* container, are taken as the request lists them.
ControlCreate(p, c, resource, subs, grant) ==
  /\ ~Controlled(resource) /\ Room("controls")
  /\ LET control == [resource |-> resource, subs |-> subs, public |-> grant.public,
                     users |-> grant.users, teams |-> grant.teams]
     IN  /\ AuthorizedCreation(control, c)
         /\ Start(p, Insertion("controls", control, c))

ControlUpdate(p, c, k, grant) ==
  /\ AuthorizedAccess(db.controls[k], c)
  /\ LET control == [db.controls[k] EXCEPT !.public = grant.public,
                                           !.users = grant.users, !.teams = grant.teams]
     IN  /\ AuthorizedUpdate(control, c)
         /\ Start(p, Replacement("controls", k, control, c))

ControlDelete(p, c, k) ==
  /\ AuthorizedAccess(db.controls[k], c)
  /\ Start(p, Removal("controls", k))

-----------------------------------------------------------------------------
(* A login through LDAP: a user the database does not know is created, then *)
(* joins the teams that have the name of one of the user's groups.         *)
Login(p, name) ==
  /\ ldap
  /\ \/ /\ ~NameTaken(name) /\ Room("users")
        /\ Start(p, [Insertion("users", [name |-> name, admin |-> FALSE, local |-> FALSE], Nobody)
                       EXCEPT !.pc = "enroll"])
     \/ \E u \in Rows("users") :
          /\ db.users[u].name = name
          /\ \A v \in Rows("users") : db.users[v].name = name => u <= v
          /\ Start(p, [Idle EXCEPT !.pc = "groups", !.id = u])

Requests(p) ==
  \/ \E c \in Callers :
       \/ \E name \in UserNames, admin \in BOOLEAN : UserCreate(p, c, name, admin)
       \/ \E u \in Rows("users"), password \in BOOLEAN, role \in {{}, {TRUE}, {FALSE}} :
            UserUpdate(p, c, u, password, role)
       \/ \E u \in Rows("users") : UserDelete(p, c, u)
       \/ \E u \in Known("users"), t \in Known("teams"), leader \in BOOLEAN :
            \/ MembershipCreate(p, c, u, t, leader)
            \/ \E m \in Rows("memberships") : MembershipUpdate(p, c, m, u, t, leader)
       \/ \E m \in Rows("memberships") : MembershipDelete(p, c, m)
       \/ \E resource \in Resources, subs \in SUBSET Resources, grant \in Grants :
            ControlCreate(p, c, resource, subs, grant)
       \/ \E k \in Rows("controls") :
            \/ \E grant \in Grants : ControlUpdate(p, c, k, grant)
            \/ ControlDelete(p, c, k)
  \/ \E name \in UserNames : AdminInit(p, name) \/ Login(p, name)
  \/ \E name \in TeamNames : TeamCreate(p, name)
  \/ \E t \in Rows("teams") :
       \/ \E name \in TeamNames \cup {None} : TeamUpdate(p, t, name)
       \/ TeamDelete(p, t)

-----------------------------------------------------------------------------
(* Transactions *)
Roles(table, id, row) ==
  IF table = "users" THEN [held EXCEPT ![id] = @ \cup {row.admin}] ELSE held
NextIDCount(table) == Cardinality(Rows(table)) + 1
NextID(table) == seq[table] + 1

\* What is written though nobody checks it.
Demotes(table, id, row) == table = "users" /\ id \in LocalAdmins /\ ~row.admin
Moves(table, id, row) ==
  /\ table = "memberships" /\ id \in Rows("memberships")
  /\ row.user # db.memberships[id].user \/ row.team # db.memberships[id].team
Dangles(table, row) ==
  table = "memberships" /\ (row.user \notin Rows("users") \/ row.team \notin Rows("teams"))
Shares(table, row) ==
  table = "controls" /\ \E part \in row.subs : part = row.resource \/ Covering(part) # {}

Insert(p) ==
  /\ At(p, "insert") \/ At(p, "enroll")
  /\ LET o == op[p]
         id == NextID(o.table)
     IN  /\ id \in IDs(o.table)
         /\ db' = [db EXCEPT ![o.table][id] = o.row]
         /\ seq' = [seq EXCEPT ![o.table] = id]
         /\ held' = Roles(o.table, id, o.row)
         /\ op' = [op EXCEPT ![p] = IF At(p, "enroll")
                                    THEN [Idle EXCEPT !.pc = "groups", !.id = id] ELSE Idle]
         /\ past' = [past EXCEPT !.absent = @ \/ Dangles(o.table, o.row),
                                 !.shared = @ \/ Shares(o.table, o.row)]
  /\ UNCHANGED ldap

Put(p) ==
  /\ At(p, "put")
  /\ LET o == op[p]
     IN  /\ db' = [db EXCEPT ![o.table][o.id] = o.row]
         /\ held' = Roles(o.table, o.id, o.row)
         /\ past' = [past EXCEPT !.demoted = @ \/ Demotes(o.table, o.id, o.row),
                                 !.moved = @ \/ Moves(o.table, o.id, o.row),
                                 !.absent = @ \/ Dangles(o.table, o.row)]
  /\ Done(p)
  /\ UNCHANGED <<seq, ldap>>

\* Users and teams have memberships, which are removed next.
Remove(p) ==
  /\ At(p, "remove")
  /\ LET o == op[p]
     IN  /\ db' = [db EXCEPT ![o.table][o.id] = None]
         /\ op' = [op EXCEPT ![p] = IF o.table \in {"users", "teams"}
                                    THEN [o EXCEPT !.pc = "cascade"] ELSE Idle]
  /\ UNCHANGED <<seq, held, ldap, past>>

NamedTeam(m, table, id) == id = m.team
Named(m, table, id) == id = IF table = "users" THEN m.user ELSE m.team
Cascade(p) ==
  /\ At(p, "cascade")
  /\ db' = [db EXCEPT !.memberships = [m \in DOMAIN @ |->
       IF @[m] # None /\ Named(@[m], op[p].table, op[p].id) THEN None ELSE @[m]]]
  /\ Done(p)
  /\ UNCHANGED <<seq, held, ldap, past>>

\* The teams the user's groups name, less those it has joined, from one look.
Groups(p) ==
  /\ At(p, "groups")
  /\ \E groups \in SUBSET TeamNames :
       op' = [op EXCEPT ![p].pc = "join", ![p].teams =
         {t \in Rows("teams") : db.teams[t].name \in groups /\ ~Joined(op[p].id, t)}]
  /\ UNCHANGED <<db, seq, held, ldap, past>>

Join(p) ==
  /\ At(p, "join")
  /\ \/ op[p].teams = {} /\ Done(p) /\ UNCHANGED <<db, seq>>
     \/ \E t \in Lowest(op[p].teams) :
          LET m == NextID("memberships")
          IN  /\ m \in IDs("memberships")
              /\ db' = [db EXCEPT !.memberships[m] =
                   [user |-> op[p].id, team |-> t, leader |-> FALSE]]
              /\ seq' = [seq EXCEPT !.memberships = m]
              /\ op' = [op EXCEPT ![p].teams = @ \ {t}]
  /\ UNCHANGED <<held, ldap, past>>

\* A transaction or LDAP fails, or the server stops: the request ends here.
Interrupt(p) ==
  /\ ~At(p, "idle")
  /\ past.failures < MaxFailures /\ past' = [past EXCEPT !.failures = @ + 1]
  /\ Done(p)
  /\ UNCHANGED <<db, seq, held, ldap>>

SettingsUpdate ==
  /\ Admins # {} /\ ldap' = ~ldap
  /\ UNCHANGED <<db, seq, held, op, past>>

Next ==
  \/ \E p \in Procs :
       \/ MayStart(p) /\ Requests(p)
       \/ Insert(p) \/ Put(p) \/ Remove(p)
       \/ Cascade(p) \/ Groups(p) \/ Join(p) \/ Interrupt(p)
  \/ SettingsUpdate

Spec == Init /\ [][Next]_vars

-----------------------------------------------------------------------------
Points == {"idle", "insert", "enroll", "put", "remove", "cascade", "groups", "join"}
Row(table) == CASE table = "users" -> User [] table = "teams" -> Team
                [] table = "memberships" -> Membership [] table = "controls" -> Control

(* Rows have the shape of their table, under identifiers that the sequence *)
(* of the bucket has given out.                                            *)
TypeOK ==
  /\ \A table \in Tables :
       /\ seq[table] \in 0..Limit[table]
       /\ db[table] \in [IDs(table) -> Row(table) \cup {None}]
       /\ \A id \in Rows(table) : id <= seq[table]
  /\ held \in [IDs("users") -> SUBSET BOOLEAN]
  /\ ldap \in BOOLEAN
  /\ \A p \in Procs : op[p].pc \in Points /\ op[p].teams \subseteq IDs("teams")

Calm == past.overlaps = 0

(* Two users never have the same name, which the login and the creation of *)
(* users rely on, as long as requests do not overlap and no administrator  *)
(* was demoted (only then can an administrator be created under any name). *)
UniqueNames ==
  Calm /\ ~past.demoted =>
    \A u, v \in Rows("users") : db.users[u].name = db.users[v].name => u = v

(* An administrator with a password remains, whoever is deleted in         *)
(* whatever order, unless one is demoted or requests overlap.              *)
LocalAdminKept == Calm /\ ~past.demoted => LocalAdmins # {}

(* A user is a member of a team once, though logins and the team page both *)
(* add memberships, as long as requests do not overlap and none moves a    *)
(* membership: the update writes whatever user and team it is sent.        *)
OneMembership ==
  Calm /\ ~past.moved => \A m, n \in Rows("memberships") :
    db.memberships[m].user = db.memberships[n].user
    /\ db.memberships[m].team = db.memberships[n].team => m = n

(* Between requests that neither overlapped nor failed, every membership   *)
(* joins a user and a team that exist, whatever was deleted, unless one    *)
(* was asked for with a user or a team that did not.                       *)
NoOrphans ==
  Calm /\ past.failures = 0 /\ ~past.absent /\ Quiet =>
    \A m \in Rows("memberships") :
      db.memberships[m].user \in Rows("users") /\ db.memberships[m].team \in Rows("teams")

(* As long as requests do not overlap, the tables are well-formed and      *)
(* refer to each other as if they had keys.                                *)
IdentitySound == TypeOK /\ UniqueNames /\ OneMembership /\ NoOrphans

(* The two searches for the control of a resource, the one the stack       *)
(* handlers use and the one lists and the Docker proxy use, find the same  *)
(* one, as long as requests do not overlap and none lists as a part what   *)
(* has a control already.                                                  *)
LookupsAgree ==
  Calm /\ ~past.shared => \A resource \in Resources :
    ResourceControlByResourceID(resource) = getResourceControlByResourceID(resource)

(* A user or a team that is created is named by nothing stored before it:  *)
(* memberships and controls that a deletion left behind, because it was    *)
(* interrupted or because it never looks at controls, are never inherited. *)
NewcomersStartClean ==
  [][\A p \in Procs : (At(p, "insert") \/ At(p, "enroll")) /\ op'[p] # op[p] =>
       /\ \A u \in IDs("users") : db'.users[u] # db.users[u] =>
            /\ MembershipsOf(u) = {}
            /\ \A k \in Rows("controls") : u \notin db.controls[k].users
       /\ \A t \in IDs("teams") : db'.teams[t] # db.teams[t] =>
            /\ \A m \in Rows("memberships") : db.memberships[m].team # t
            /\ \A k \in Rows("controls") : t \notin db.controls[k].teams]_vars

(* Whoever creates or changes a resource control can use the resource      *)
(* under the control stored, given the memberships the request saw.        *)
WritersKeepAccess ==
  [][\A p \in Procs, k \in IDs("controls") :
       op[p].table = "controls" /\ op'[p] # op[p] /\ ~At(p, "idle")
       /\ db'.controls[k] # db.controls[k] /\ db'.controls[k] # None
         => AuthorizedAccess(db'.controls[k], op[p].who)]_vars
=============================================================================
