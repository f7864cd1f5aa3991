# Portainer in TLA+

A formal model of Portainer (version 1.20-dev). On the server (`src/api`): the
schedules, endpoints and their proxies, stacks, users and access rights, and the
start with its migrations. In the browser (`src/app`): what every page asks of the
server, and the parts with a state of their own, which are the page that edits a
service, the replacement of a container, and the session. The modules are
translated from the Go and the JavaScript code; TLC checks them on small
instances, and TLAPS proves the theorems listed below for every value of the
constants.

1. [The server](#the-server)
2. [The browser](#the-browser)
3. [Conventions](#conventions)
4. [Modules, and how they correspond to the code](#modules)
5. [Runs: what each checks, bounds, fairness](#runs)
6. [What the code does against its documentation](#findings)
7. [Proofs](#proofs)
8. [What is not modelled](#not-modelled)
9. [Plan](#plan)

## The server

One process. `main()` opens a BoltDB file, migrates it, loads the schedules into
an in-memory cron table, fills in defaults, and serves HTTP. Every HTTP request
is a goroutine; so is every firing of a cron entry. They share:

| state | kept in | used by |
|---|---|---|
| one bucket per kind of object, each with a sequence | BoltDB | every handler and job |
| script folders, stack folders | disk | schedules, stacks |
| the cron table: entries that point at a schedule in memory | `cron.JobScheduler` | schedules, settings, start |
| two maps of proxies by endpoint (Docker, extensions) | `proxy.Manager` | endpoints, proxied requests |
| logins of the Docker client, one file | disk | swarm deployments |
| a mutex around deployments | `stacks.Handler` | stack creation, update, migration |
| tokens, which carry the user's role | the clients | every request |

No two buckets are written in one transaction, with one exception (the endpoint
synchronisation writes all its rows at once, but in one bucket). A handler reads
in one transaction, decides, works on files or on an engine, and writes in
another. There is no lock around a handler. That is where the hard behaviour
comes from, and what the modules keep:

- the order of the steps of a handler, and another request between any two;
- rows read before a slow operation (a snapshot, a deployment) and written
  after it: `UpdateObject` is a `Put`, which creates the row if it is gone;
- identifiers read as *sequence + 1* in one transaction and used in another
  (schedules, endpoints, stacks), against `NextSequence` in the same one (users,
  teams, memberships, resource controls, groups);
- several stores that must agree (row, folder, cron entry; row, proxy; row,
  folder, deployment; user, membership), each written on its own, any of the
  writes failing;
- the server stopping between two writes, and what the next start makes of it.

### Components

| component | state | operations | correct when | module |
|---|---|---|---|---|
| Job scheduler | cron table | schedule, update (job, system), unschedule, start | one entry per schedule; nothing lost in a rebuild | `Schedules` |
| Schedules | bucket, script folders | create, update, delete; snapshot interval in settings | rows, scripts and entries agree; system schedules stay | `Schedules`, `Registry` |
| Endpoints | bucket | create, update, access, extension, snapshot, delete | no write takes back another's | `Endpoints` |
| Endpoint groups | bucket | create, update, delete | endpoints are in a group that exists | `Endpoints` |
| Snapshot job, synchronisation job | – | list, snapshot, re-read, write; read file, compare, write | status becomes current; bucket equals file | `Endpoints` |
| Proxy manager | two maps | create, register, drop | a proxy leads to the address the endpoint has | `Endpoints` |
| Stacks | bucket, folders, engines, logins, mutex | create (file, repository), update, migrate, delete, delete external | stored = deployed = on disk; nothing lost by a failure | `Stacks` |
| Users, teams, memberships | three buckets | create, update, delete, administrator's initialisation | names unique; a local administrator stays; no leftovers inherited | `Identity` |
| Login | tokens | internal, LDAP with joining of teams | joins once | `Identity` |
| Authorization | – | who asks; decisions on controls, teams, users | decisions agree with each other | `Identity` |
| Resource controls | bucket | create, update, delete; two searches | one control per resource | `Identity` |
| Database and migrations | every bucket, version | open, default group, 16 migrations, version | never claims what was not done; nothing lost or doubled | `Startup` |
| Start | templates, settings, first endpoint, first administrator | import, defaults | complete; the server comes up | `Startup`, `Schedules` |

The components that no module models are listed [below](#not-modelled) and, with
all their files, in `PROJECT.json`.

How they interact: the start calls migrations, then the scheduler, then the
defaults. Handlers call services (one transaction each), the scheduler
(schedules and settings handlers), the proxy manager (endpoint handlers), the
file system and the engines. Cron entries call the jobs, which write endpoints.
The bouncer runs before every handler and reads users and memberships. The
Docker proxy reads resource controls and memberships for every request it
forwards.

## The browser

One AngularJS application, with one thread: a handler runs from an event to its
last statement, then the next event. What interleaves are the answers. Every page
(a state of the router, with its controller) calls services; a service calls the
REST layer, which is one `$resource` per kind of object, and returns a promise; the
controller chains promises (`then`), joins them (`$q.all`), and at the end tells the
user what happened. The server serves Portainer's own objects and forwards the rest
to an engine, to Azure or to Storidge. They share:

| state | kept in | used by |
|---|---|---|
| the queue of the names of nodes | `HttpRequestHelper` | every request for an agent, through an interceptor |
| the endpoint that requests go to, the offline mode | `EndpointProvider`, local storage | every request for an engine |
| the endpoint that is shown, its version and kind | `StateManager`, local storage | menus, headers, guards of the router |
| the token | local storage | every request |
| the flag that disables a button | the page | its handlers |
| what a page has read | the page | its forms |

A promise cannot be taken back: a user who leaves a page stops none of its
requests, and a failure in `$q.all` stops none of the others. That is where the
hard behaviour comes from:

- chains of requests to two servers that keep no transaction between them (an
  object and its resource control, a container and its replacement), any of which
  fails, or succeeds with the answer lost;
- answers that come when the state they are about has changed: another endpoint,
  no session, another version of the service;
- a queue that names are put into when a handler runs and taken from when requests
  are sent, so that one request more or less shifts all the rest;
- objects that are passed by reference between what is shown, what is kept for a
  reset, and what is sent;
- buttons that must be disabled while a thing is created and must work again
  however that ends.

| component | state | operations | correct when | module |
|---|---|---|---|---|
| REST layer, services | – | every call; what each service chains | – (vocabulary of the pages) | `Plans`, `Rest`, `Calls` |
| Router | – | states, those that name a node | pages lead to pages | `Routes` |
| Pages | button, page | every handler of every controller | what is announced was done; no page left while a change is under way; no dead button | `ContainerPages`, `ClusterPages`, `PortainerPages`, `ExtensionPages` |
| Request headers, promises | queue of nodes | send, answer, name a node, leave | the request reaches the node it means | `Flows` |
| Page of a service | page, copy for resets, model | edit, reset, update, force, read | undoes nothing of others; does not lock itself | `EditService` |
| Replacement of a container | engine's containers, controls, buttons | create over a name, create again | the first container, or one started in its stead, is always there | `ReplaceContainer` |
| Session | token, endpoint, state, offline mode | login, logout, expiry, reload, switch, link from a schedule, migration of a stack, intercept | shown = used; a session over leaves nothing | `Session` |

## Conventions

- On the server, a process (`Procs`, `Requests`) is a goroutine. Its record in `op`
  (`req` in `Schedules`) holds the program point and the local variables it still
  needs.
  `Begin` actions do the first transaction with the checks that need no state of
  others; each later action is one transaction, file operation or call.
- `None` (`NoSchedule`) is an absent row. `Rows` are the keys present.
- An identifier is a number up to a bound (`MaxID`...); an operation that would
  need one above it does not start. Bounds are constants and named in every module.
- `past`, `restarts`, `faults`, `overlaps`, `overtaken`, `strays`, `doomed`, `astray`,
  `cut` and `origin` (on the server), `touched`, `misled`, `started`, `connected`, `apart` and
  `spared` (in the browser) are history variables: no guard of the code reads
  them, except that the bounds do. A property reads them to say *when* it is promised.
- Actions take every input that the handler takes, what its pages would send or not.
- A premise such as `Calm`, `Undisturbed` or `overlaps = 0` in a property is
  there because the code does not keep the promise without it. So is an exception
  by one of these histories: it names the one input that the code accepts and
  should not, where it is accepted. The hazards in
  `PROJECT.json` list each case with its line.
- Data the properties do not tell apart is left out: contents of rows that are
  only stored and shown, texts, formats of addresses, passwords.

## Modules

### `Schedules`, `Registry`, `SchedulesProofs`

| TLA+ | code |
|---|---|
| `db`, `seq` | bucket `schedules` (`bolt/schedule/schedule.go`) |
| `files` | script folders (`filesystem.go`) |
| `cron`, `running` | `scheduler.cron`: a *bag*, as the library's list allows equal entries |
| `phase`, `LoadSchedules` ... `Start` | the scheduler's part of `main()` |
| `Create*`, `Update*`, `Delete*` | the handlers of `http/handler/schedules`, a step per call |
| `Settings*` | `settings_update.go`, which moves the snapshot interval |
| `*Read`, `*Swap` | `UpdateJobSchedule`, `UnscheduleJob`: copy `cron.Entries()`, build a new cron, swap it in |

`Registry` is the abstract specification of the bucket: objects appear under an
unused identifier, change, and disappear, atomically, and an identifier is not
used twice. `RefinesRegistry` states that `Schedules` implements it under
`objects <- db, used <- 1..seq`.

### `Endpoints`

`db`, `groups` are the two buckets; `proxies` the two maps; `file` the content of
the file that `--external-endpoints` names (`external`). `Foreground` processes
are HTTP requests, `Background` ones are cron jobs. Each handler reads its row
once; updates replace the proxy *before* they store the row; deletion stores
first. A creation or an update may name any group, as nobody looks it up: `strays`
remembers those that were not there. The snapshot job lists, then for each endpoint takes the snapshot, reads
the row again and writes it. The synchronisation compares a listing with the
file and applies the difference in one transaction.

### `Stacks`

`stacks`, `folders` (with the file's content), `deployed` (what the engines run,
by project), `logins`, `mutex`. Creation takes an identifier, stores the file,
takes the mutex, logs in, deploys, logs out, and stores the row; a failure in it
runs the deferred clean-up. Update writes the file, deploys, writes the row.
Migration deploys at the target, removes at the source (both under the old or new
name as the code sets it back and forth) and writes the row; the target may be the
source. An update, a migration or a deletion may name an endpoint in its query, which
goes before the stack's own (`Addressed`). `astray` has the names of the stacks that
such a request was about when the endpoint was another, or the target the same
(`Misleads`); `doomed` the stacks that a deletion, or a migration to where the stack
was said to be, has taken down. Deletion removes the
deployment, the row, the folder. Compose and swarm stacks differ in whether the
removal needs the file (`NeedsFile`) and in where logins live.

### `Identity`

`db` maps four tables to rows. `Callers` are the users a request can come from:
stored, with a role that a token in circulation carries (`held`), which need not
be the stored one. A request checks and then performs one of four kinds of
transaction (`Insert`, `Put`, `Remove`, `Cascade`), because all services share the
helpers of `bolt/internal`. `Login` models LDAP; the directory answers any set of
groups. The two searches for a resource's control are modelled as the two loops
are: `ResourceControlByResourceID` breaks only its inner loop at a control that
covers the resource as a part, so a later one wins; `getResourceControlByResourceID`
returns the first.

A new membership, an update of one and a grant name users and teams that the
sequences have given out (`Known`), whether they are still there or not; an update
stores the user and the team of its payload, and authorises by that team; a new
control takes any resources for its parts, covered or not. What is written so, though
no handler checks it, is in `past`: `moved` (a membership went to another user or
team), `absent` (one names a user or team that is not there), `shared` (a part of a
control is the resource itself, or covered by another control), like `demoted`. `AuthorizedAccess` stands for
`AuthorizedResourceControlAccess` and `...Deletion`, which decide alike.

### `Startup`

`Left(v)` is what a server of database version `v` left, `Nothing` a missing file.
`boot` is the start; each migration reads its rows at once (`ReadRows`) and writes
them one by one. `Crash` ends the start anywhere. `ReadFails` and the second branch
of `RenameFolder` are the errors that end it by themselves. `cut` records the four
places where a stop leaves something the next start does not repair. Legacy
controls' owners, and settings in every database older than the present one, are
taken to exist; a first endpoint that the command line names and that does not
answer makes the server exit, which is a `Crash`.

### `Plans`, `Rest`, `Calls`, `Routes` and the four modules of pages

What a handler sends is a *plan*: a sequence of requests, each with the requests
that must have been answered before it goes. `P ** Q` is `p.then(q)`, `P || Q` is
`$q.all`, `Opt` an `if`, `Each` a loop that collects promises. A handler that
decides by what the user chose has a set of plans. Markers keep what
promises hide: `Ignored` (the service turns a failure into a success), `Lost` (a
failure rejects a promise that nobody looks at), `NotAwaited` (a call whose result
is not returned), `Unheeded` (a service that rejects its promise when the answer
has a message, and goes on to the next request all the same), `SaidOfStacks` (the
failure is one that the handler itself trips over, so nobody is told), and `Late` (a
handler that sets its flag after a first answer).

| TLA+ | code |
|---|---|
| `Rest`: `Container`, `Stack`... | one `$resource` each: which calls read, create, change and remove, and whether the URL is under `/docker/`, which decides whether the interceptor adds the name of a node |
| `Calls`: `Service_function` | the function of that service |
| `Routes`, `NodeRoutes` | the states of the router; those whose URL has `?nodeName` |
| `Controller_handler` in `...Pages` | the handler (`Load`, `Button`, `Form`, `Selection`), with the page it is on, where it goes, which outcome frees its button, whether it names nodes |

`CreateStack_deployStack`, say, is a `Form`: it disables its button, creates a
swarm or a compose stack and then the control, frees the button on either outcome,
and goes to the list on success. A reader checks a few lines per handler against
its controller.

### `Flows` (proofs in `BrowserProofs`)

Runs any handler of a table (`MCFlows` takes all of them). `items` has a record per
row of a selection: node, plan, how far each request is, and the name of a node it
carried. A request is unsent, sent, answered well (`ok`), failed, or answered with a
refusal that its service rejects and goes on from (`refused`). `Start` is the call of the handler, `Answered` the callbacks of an answer
with what they send next, `Settle` what they do to button and page, `Wander` the
user going elsewhere, with or without the reset of the queue by `onBefore`
(`app.js`). `Taken`, `Left` and `Remembered` are `portainerAgentTargetHeader`: the
next name of the queue, or the last one taken when it is empty. AngularJS runs the
request interceptors after the callback that made the requests, so all of one
callback's names are in the queue before its first request takes one.

What the promises of a run need of the handlers is stated as assumptions on the table,
and TLC evaluates them on all the handlers of the application in the run `flows`:
`TableIsTyped`; `ChangesAreReturned` (who announces success returns the promises of
the changes and swallows no failure of theirs); `ControlsAreChained` (an access
control is asked for in the callback of its resource); `LeaversWait` (who goes to
another page waits for the changes and, if it goes though something failed, makes
none beside a request that may fail); `CreatorsDisable`; `NodesAreNamed` (how a
selection and a page of a node name their nodes). A handler that drops a `return`,
swallows an error or forgets its flag makes one of them false. So the mutants of
these properties are in the run of a handler (`Outcome`, `Ready`, `Leaves`, `Settle`,
the queue) and the theorems say what follows for any table.

Properties name what the code lets go: a pull that fails when the image is there,
the further networks of a container created again, the Storidge cluster (`LetGo`);
a refused membership of a new user (`HasLost`); the control that is removed though
the removal of its container or volume was refused; the creation of a container,
whose flag is late (`Late`); the user who wandered.

### `EditService`, `EditServiceProofs`

`page` has the four copies of a service a page holds: what is `shown`, the
`original` kept for resets, `model` (the specification the answer carried) and
`originalModel`. `joined`, `mounted`, `modelJoined` say which of them are one
JavaScript object: `cancelChanges` assigns the original's array to what is shown,
`updateService` puts a section of the page into the model that `serviceToConfig`
took by reference. `marks` is the multiset `previousServiceValues`. Swarm keeps
`spec` and `version` and accepts an update that names the version it is at.
`OnlyIfMarked`, `Shared`, `Silent`... sort the sections by how the code treats them.
What the page shows is a translation. `Back` says which value of a section comes back
from it, `Rest` which parts of the service no update carries, so that Swarm falls back
on its `Default`, and `Published` which sections are shown as the endpoint has them
rather than the specification. A forced update may pull the image again, which takes
the digest from it (`Images`).

### `ReplaceContainer`, `ReplaceContainerProofs`

`alive`, `running`, `name` and `controls` are the engine's containers and
Portainer's controls; `calls` the chains, `todo` what a chain has left in the order
of `Rank`, `aside` what was made beside it: `createContainerController.js` calls
`stopAndRenameContainer` instead of passing it to `then`, and `recreateContainer`
does not wait for the connections. A step is answered, is refused or fails
(`NotifyOnError`), or is served and its answer lost. `Faults = FALSE` leaves only
what the engine refuses by itself.

### `Session` (proofs in `BrowserProofs`)

`id`/`offline` and `shown`/`stored` are the two services, in memory and local
storage; `click` a switch under way, with the stage its chain is at and what the
row said when it was clicked, which decides whatever the ping says; `move` the
migration or duplication of a stack, which sets the endpoint for the time of its
requests; `net` the endpoints that requests of pages are under way to. A page asks
when it is entered (`Enter`), and at no other time. `Intercept` is
`endpointStatusInterceptor`: it changes the mode of whatever endpoint is current when
an answer comes. `RequestRefused` is the answer 401. A login that fails leads to the
home page, without a list, where the form may still succeed. `apart` and `spared` are
history: a switch ended half way or met another, or a page set the endpoint without
its state (`GoToContainerLogs`, `MoveStack`, `PutBack`); a 401 came, or was lost, when
the page that says so was there already, or nothing was asked after the end of a
migration.

### MC modules

`MCSchedules`, `MCEndpoints`, `MCStacks`, `MCIdentity`, `MCStartup`, `MCFlows`,
`MCEditService`, `MCReplaceContainer` and `MCSession` extend the component for TLC:
symmetry sets and constants a `.cfg` cannot write (for `MCFlows`, the union of all
the handlers). Symmetry is used only where no liveness property is checked, over
interchangeable requests (`Schedules`, `Identity`, `EditService`), values
(`EditService`) or names (`Endpoints`).

## Runs

Several invariants that speak about one scenario are parts of one: `SchedulesSound`,
`EndpointsSound`, `StacksSound`, `IdentitySound` and `StartSound` are conjunctions,
and each part has a mutant of its own that refutes the whole.

| run | bounds that matter | shows |
|---|---|---|
| `sched_sequential` | one request at a time, two restarts, one fault, 3 ids | `SchedulesSound`: until a restart or fault, every schedule is in the cron table with its latest settings, the table runs (where a flag asks for a system schedule), and every script is stored (`ScheduleIsArmed`, `ScriptIsStored`); no job outlives its schedule (`NoOrphanEntry`); creation overwrites nothing (`PendingIdIsFree`). `BootCanSucceed`: the next start can load every schedule. `RefinesRegistry`: the bucket is a registry |
| `sched_concurrent` | two overlapping requests | `SnapshotJobSurvives`, `SystemRowsKept`: whatever rebuilds overlap, the snapshot job stays and system schedules are neither deleted nor replaced |
| `sched_duplicate_entry` | one request | violation of `OneEntryPerSchedule` |
| `endpoints_sequential` | one operation at a time, both modes, one restart, one fault, two names | `EndpointsSound` (`GroupsExist`, but for groups that a request made up; `PendingIdIsFree`), `ProxyIsCurrent`, `SyncMatchesFile` |
| `endpoints_concurrent` | a request and a job in every overlap | `SnapshotKeepsEarlierChanges`, and `SnapshotsConverge` (liveness) |
| `stacks` | three requests, one overlap, one crash or fault, two engines, both types | `StacksSound` (`StackHasFile`, `RunsSomewhere`), `DeploymentsMatch` (but for stacks led astray), `DeployKeepsLogin`, and `RequestsEnd` (liveness) |
| `identity` | three requests, one overlap, one interruption; 3 users, 2 teams, 2 memberships, 2 controls, 2 resources | `IdentitySound` (`UniqueNames`, `OneMembership`, `NoOrphans`), `LocalAdminKept`, `LookupsAgree`, each up to the unchecked input it names; `NewcomersStartClean`, `WritersKeepAccess` |
| `startup` | all 16 origins, two stops, two stacks, controls, endpoints, templates | `StartSound` (`EndpointsHaveGroup`, `NothingTwice`, `StacksSurvive`, `TemplatesImported`), `VersionTells`, and `ComesUp` (liveness) |
| `flows` | every handler, one at a time; two rows, two nodes; any request may fail, any order | `SuccessIsTrue`: what is announced was done. `LeavesQuietly`: no page is left while a change is under way. `RightNode`: requests reach the node they mean. `ControlFollows`: a control comes after its resource and goes after it, or after a refusal that the service does not heed. `CreatesOnce`: no second creation by a second click, but where the flag is late. `ButtonsFreed` (liveness) |
| `edit_service` | two sections, two values each, one of which is rounded; two requests under way, three versions | `OthersKept`: an update undoes nothing of others that comes back from the page as it was. `NeverLocked`: the page does not disable itself |
| `replace_container` | a creation over a name in use and a recreation, every overlap and every failure | `Survives`: the container that was there, or one created and started in its stead, is never gone. (Whether it still runs is the engine's affair.) `ReadyFirst`: none goes before its replacement is ready. `Settles` (liveness) |
| `session` | two endpoints, one behind an agent, one with a snapshot, up and down at any time; one switch, one migration, and a request to each under way | `ShownIsUsed`, `OfflineSettles` and `LogoutForgets` (liveness) |

Why the bounds are enough for the cases that matter:

- *Requests.* Every hazard listed needs at most one request to set up, one to
  read, and one that comes between. Three requests with one overlap (`MaxOps`,
  `MaxOverlaps`) include them. Where a property is about any overlap
  (`sched_concurrent`, `endpoints_concurrent`) the number of overlaps is unbounded.
- *Identifiers.* Two or three, so that a deletion followed by a creation, and the
  reuse or not of an identifier, happen.
- *Restarts and faults.* One is enough to lose half of an operation, two to hit
  the recovery of the first (`sched_sequential`, `startup`).
- *Names, engines, files.* Two of each, so that "the same" and "another" differ.
  In `identity` the third user is created by a request, and one team name lets
  two teams bear one name after a renaming.
- *Pages.* Handlers do not share state but the queue, which `Finish` and the
  bounds of `flows` reset: one at a time shows all that one handler does. Two rows
  are the first number at which a queue can be out of order. Reads that a row waits
  for are answered together, at most one of them badly: a page reacts to the first
  failure, and reads change nothing.
- *Page of a service.* A version is replaced twice: an update against one that
  came between, and one after that. `ServiceMounts` (handed on by reference) and
  `LimitMemoryBytes` (sent only if marked, and shown rounded) are the sections with
  the most sharing and the least, `RollbackConfig` what no update carries; the
  theorems cover any sections, ports and forced pulls among them.
- *Session.* Late answers are about the one endpoint while the other is current, and
  come before or after those of a new page; a switch meets a migration, a link from
  a schedule, a logout, an expiry and a reload. Two switches at once set `apart`
  and promise nothing but what the 401 repairs.

Deadlock is checked in every passing run of `Schedules`, `Endpoints`,
`EditService`, `Flows` and `Session`: a server that serves, or a page that is open,
can always do something. `stacks` and `identity` stop when their requests are used
up, `startup` when the server serves, `replace_container` when its chains have
ended, so these say `CHECK_DEADLOCK FALSE`.

### Fairness

- `Endpoints`: weak fairness on each process's steps that continue what it has
  begun (the Go scheduler runs a runnable goroutine; bolt hands its writer lock
  on), and on the tick that starts a snapshot (the cron goroutine). The latter
  holds only until a restart, after which the tick is not there at all (see
  [below](#findings)): the run has none. Nothing is assumed of requests.
- `Stacks`: weak fairness on each handler's continuing steps, the acquisition of
  the mutex included. Only two processes contend, and a Go mutex is handed on.
  Engine calls are taken to return, with or without an error.
- `Startup`: weak fairness on the start as a whole: it goes on, and whoever
  supervises the server starts it again. Stops are bounded, as a server stopped
  for ever never comes up.
- `Flows`: some answer comes as long as one is owed, if only an error: the browser
  itself gives up a request at last. Nothing is assumed of the user.
- `ReplaceContainer`: the same for each chain. Clicks and confirmations are not fair.
- `Session`: weak fairness on the answers: to each request of a switch, of a
  migration, of a page, and to one that is refused. Nothing is assumed of the user:
  not that a page is opened again, nor a login, a switch or a reload.
  `OfflineSettles` has the opening of pages as a premise (`[]<>(e \in net)`), because a
  page asks only when it is entered: a late answer of another endpoint that comes after
  the page's own leaves the mode wrong for as long as the user stays.

Every property of a passing run has a mutant in `PROJECT.json`: a plausible bug in
one operation that makes TLC refute the property in that run.

## Findings

One run ends in a counterexample, of what the repository says of itself:
`sched_duplicate_entry`. A comment of `cron/scheduler.go` describes an update as
re-scheduling the existing jobs with the new one replaced; the old entry is
scheduled as well, because the loop does not go on to the next entry after the
replacement. The schedule runs twice each time.

Met while modelling, without a run of their own. On the server:

- *Schedules.* The snapshot system schedule is put in the cron table only when no
  such row exists yet (`main.go:129`). After the first restart the row exists, so
  snapshots are never taken again until the interval is changed (`cli.go:51`
  describes a periodic snapshot). A cron table that is empty at `Start`, as without
  snapshots and stored schedules, is never started (`scheduler.go:110`):
  schedules created later do not run until a restart.
- *Start.* A stop between creating a new database and storing its version makes
  every later start migrate it from version 0 and fail on a bucket it never had. A
  stop within the conversion of a stack loses it, or makes every later start fail.
  An import of templates cut short counts as done. Migrations from version 0 or 1
  that are repeated create administrators and resource controls again.
- *Endpoints.* The snapshot job reads the row again "to avoid any concurrency
  issue" (`job_snapshot.go:45`), but in another transaction than it writes (line
  77): an update in between is taken back, and a deletion undone. Synchronisation
  with the external file changes addresses and never touches the registered proxies
  (`job_endpoint_sync.go:88`). A creation or an update stores any group it names
  (`endpoint_create.go:222`, `endpoint_update.go:69`). Endpoints created by synchronisation are in group 0,
  which does not exist. Adding an extension to an endpoint that has it changes the
  loop's copy. Deleting a group and regrouping its endpoints are separate
  transactions. Endpoint update registers the new proxy before it stores the row; a
  proxied request can register a proxy from a row read before an update. Group
  handlers write back rows they listed earlier. Storing a TLS file checks another
  error than the one it got (`endpoint_create.go:280`).
- *Stacks.* A migration with a new name deploys under it and stores the old one
  (`stack_migrate.go:103`; `swagger.yaml:4368` says the stack is renamed). Update
  and migration without `endpointId` set it to 0 and answer 404, though the API
  definition calls it optional for newer stacks. A migration to the endpoint the
  stack is on deploys it and then takes it down (`stack_migrate.go:98-103`; the page
  refuses it, the handler does not). An `endpointId` that is not the stack's is
  believed (`stack_update.go:78`, `stack_migrate.go:70`, `stack_delete.go:66`): an
  update deploys the stack a second time, a deletion leaves it running. A
  deployment that fails skips the logout, and a logout leaves only DockerHub.
  Overlapping creations share an identifier and a folder. One of the two mutexes of
  the handler is never used.
- *Identity.* Names, memberships and controls are checked and created in separate
  transactions. A demotion by `userUpdate` has no check for the last
  administrator. `adminInit` does not check the name. A membership update may
  change user and team to those of another membership, or to ones that are gone
  (`teammembership_update.go:65`), and authorises a leader by the new team (line 50),
  not the old one. The parts of a new control may be covered by others
  (`resourcecontrol_create.go:66-98` looks at the resource alone), and then the two
  searches disagree. An administrator without a
  password cannot be deleted while there is one local administrator. An update
  brings back a row deleted meanwhile. A token keeps its role for eight hours.

In the browser:

- *Page of a service.* An update of any section undoes what the page cannot give
  back: the configuration of rollbacks (`serviceHelper.js:22`, which drops it), a
  variable without `=` (line 72), a host with aliases (line 226), sizes that are not
  whole, and ports, which are taken from the endpoint (`models/service.js:84`). A reset shows the array that was kept for resets, so that
  the next reset restores nothing (`serviceController.js:265`). An edit between the
  success of an update and the read that follows is lost. An engine that answers
  200 with an error in the body leaves every input disabled until a reload. After a
  failed update the model keeps what was to be sent. `renameService`,
  `changeServiceImage` and `scaleService` call a function that is not declared
  where they are.
- *Replacement of a container.* The creation does not wait for the old container's
  stop and renaming (`createContainerController.js:710`), so it mostly meets the
  old name and is refused, though the dialogue (line 730) announces a replacement.
  Any failure of either chain leaves the old container stopped and named `-old`,
  where the next attempt meets the name. A container that had stopped by itself
  answers 304 to the stop, which ends the chain. The removal of a replaced
  container never removes its control, and a new one is without control, for
  everybody, until the chain gets there.
- *Session.* The endpoint is set before its state is known, so a switch that fails
  leaves the name and menus of one endpoint over the containers of another. A late
  answer marks, and stores the status of, whatever endpoint is current. Statuses are
  sent without an order and never retried. The status of the row that was clicked
  is used whatever the ping says. Users who are no administrators cannot enter an
  endpoint whose status has changed, as the update of it is refused. A ping that is
  refused with 401 is taken for an endpoint that is down, and the switch goes on. A
  login that fails goes to the home page without a token (`authController.js:26`). A
  compose stack's migration puts the endpoint back only when it fails, a duplication
  only when it succeeds (`stackService.js:67-76`, `stackController.js:20-47`), and the
  link from a schedule's tasks to the logs of a container sets the endpoint without
  its state (`scheduleController.js:42`). The second 401
  finds the page it leads to already there and clears nothing. The switch to an
  Azure endpoint passes its arguments in another order (`homeController.js:75`).
- *Pages.* The promise of a new user or team whose membership is refused never
  settles, and its button stays dead. `moveAccesses` of access management skips
  every other entry. A container or volume whose removal is answered with a message
  stays and loses its control all the same (`containerService.js:109`,
  `volumeService.js:45`). The button that creates a container is disabled only after a
  search and a dialogue (`createContainerController.js:701`): a second click meanwhile
  starts a second creation, and the first one's end frees the button of both. The
  failure of a swarm stack's control is told to nobody, as the `catch` throws
  (`createStackController.js:132`). Creating a volume again after a failure sends its NFS options twice. The Storidge cluster is said to be down,
  or restarting, whatever it answers. A chain whose user has gone elsewhere sends
  its later requests to another node. The controllers of the volume browser and of
  the selector of nodes are declared with a dependency more than they take and
  throw; that of the image registry is registered under another name; that of a new
  Azure container takes two dependencies in the wrong order.

## Proofs

Thirty-seven theorems in eight modules, each for any values of the constants. They rest
on the named assumptions of the components: the bounds are natural numbers, the
sets of kinds, expressions and origins are among those the code knows, the stacks of
an old database are finitely many (`StacksAssumption`), and `None`
is not itself a name or a row (`NoScheduleAssumption`, `NoStackAssumption`,
`NoEndpointAssumption`, `NoRowAssumption`, `NoNodeIsNone`), which is what a nil pointer or a missing
key means in the code. A hypothesis that only some theorems need is in their
statement:

- `Requests = {r}` (`Schedules`) and `Procs = {p}` (`Endpoints`): one operation at
  a time. With two, the properties are false, as the list of
  [what the code does](#findings) says. Crashes, restarts and failing operations are
  still there. `Stacks` and `Identity` need no such hypothesis, as their properties
  themselves end with the first overlap (`overlaps`, `Calm`).
- `Renames = {}` (`StacksWhole`, `AllAgree`): no migration asks for a new name. One
  that does deploys under it and stores the old one, and neither property holds.
  Migrations to the same endpoint, and requests that name another, are in both.
  `FilesStay`, `LoginsHold` and `TypeCorrect` do without.

The invariants that the runs check are mostly not inductive. What each lacks is
what a handler *knows*: a row, a free name, an identifier it read some steps ago.
The strengthenings below say so for every program point; TLC checked each of them
on the run's instance before it was proved.

`SchedulesProofs`:

| theorem | property | argument |
|---|---|---|
| `TypeCorrect` | `TypeOK` | inductive as it stands: it has, besides types, the facts that a row is stored under its own identifier and that whatever a request holds to swap in, only parseable expressions are in it |
| `SystemSchedulesKept` | `SystemRowsKept` | the step property follows from `SystemInv`: a request that is about to write or delete a row names an identifier whose row, if there is one, is no system schedule, and an identifier given to a creation is above every system row |
| `SnapshotSurvives` | `SnapshotJobSurvives` | `SnapshotInv` strengthens it: until a restart, once loaded, the snapshot entry is in the cron table *and in every copy of it a request holds*, and no request that deletes names its schedule (from `SystemInv`) |
| `SchedulesAreSound`, `BootSucceeds` | `SchedulesSound`, `BootCanSucceed` | `SequentialInv`: the sequence is above every row; a request holds a row that exists and the table that is still the scheduler's (`Tracks`); a job belongs to a row or to the one that a creation is about to write (`OwnsEntries`); a row that is about to be written is armed before it is, and its script stored before that (`AllArmed`) |
| `BucketIsRegistry` | `RefinesRegistry` | under the refinement mapping every step is a step of `Registry` or a stutter; `Tracks` is what makes the late write of a row the operation that the request announced |

`SnapshotJobSurvives` alone is not inductive: a request that copied the table
without the entry could swap it out. `MoveEffect`, `DoneEffect` and the
`...Frame` lemmas say once what a move of one request does to everything else, so
that the step of an action that touches neither the bucket nor the table is one
line. The largest identifier that `LastRow` chooses exists by well-foundedness of
`<` on the naturals (`LargestExists`). The proof of `SchedulesAreSound` failed at
first for a good reason: with no snapshots, no external endpoints and an empty
bucket, `Start` (`scheduler.go:110`) starts nothing, and a schedule created later is
in a table that does not run. `ScheduleIsArmed` now promises a running table where a
flag asks for a system schedule, as the defaults do.

`EndpointsProofs`, any number of requests and jobs for the first two, one operation
at a time for the others:

| theorem | property | argument |
|---|---|---|
| `TypeCorrect` | `TypeOK` | inductive; it says of every program point what its copy of a row or of the bucket is |
| `SnapshotsKeep` | `SnapshotKeepsEarlierChanges` | `AllFresh`: a snapshot about to be written, which no other write overtook since its second read, holds the stored row but for status and snapshot |
| `EndpointsAreSound` | `EndpointsSound` | `SoloInv`: identifiers are below the sequence, and the rows and listings an operation holds are the stored ones. `GroupsInv`: an endpoint whose group has gone is among those that the deletion has yet to move, or its group is one that a request made up (`strays`) |
| `ProxiesAreCurrent` | `ProxyIsCurrent` | `ProxiesInv`: a proxy leads to the address of the row, or to the one that an update is about to store |
| `SyncsMatch` | `SyncMatchesFile` | a step property: the listing that a synchronisation compares is the bucket (`SoloInv`), and the file, being finite, is created above the sequence, one identifier each |

`StacksProofs`:

| theorem | property | argument |
|---|---|---|
| `TypeCorrect` | `TypeOK` | with `MutexOK`: the mutex is held exactly by the handler, if any, between login and logout |
| `LoginsHold` | `DeployKeepsLogin` | from it: whoever logs out is the one that logged in last |
| `FilesStay` | `StackHasFile` (part of `StacksSound`) | `SoloInv`: until requests overlap, one handler works, its row is the stored one and its name free, and a creation that failed removes a folder that is nobody's |
| `StacksWhole` | `StacksSound` | `RunsInv` besides: what a handler brought up runs at its target when it writes the row, and what it takes down is a stack whose deletion has begun, or one migrated to where it was said to be |
| `AllAgree` | `DeploymentsMatch` | `MatchInv`: every folder, deployment and row that has no counterpart is one that the handler at work has yet to make, to take down or to clean up, or bears the name of a stack led astray |

`IdentityProofs`:

| theorem | property | argument |
|---|---|---|
| `TypeCorrect` | `TypeOK` | with `Numbered` and `RowsNamed`: rows, and what memberships and controls name, are identifiers that the sequences have given out, and so are those that a request under way carries |
| `NewcomersClean` | `NewcomersStartClean` | a step property from `RowsNamed`: a new identifier is above all that any row names, including rows that a deletion left |
| `WritersKeep` | `WritersKeepAccess` | a step property: the row that a request carries was decided on for the caller it carries (`Written`) |
| `TablesSound`, `AdminRemains`, `SearchesAgree` | `IdentitySound`, `LocalAdminKept`, `LookupsAgree` | `CalmInv`: until requests overlap, what the one at work has found out still holds when it writes (`Ready`): the name is free, the pair not joined, another administrator left, the resource not covered. `OrphansInv` excepts what a cascade has yet to delete. What was stored unchecked is remembered in `past` (`Remembers`), and each invariant is up to the history it names |

`StartupProofs`:

| theorem | property | argument |
|---|---|---|
| `VersionHolds` | `VersionTells` | `VersionInv`: a database has what the migrations up to its version write (`VersionKept`), the migrations before the one that runs have been applied (`RunsInOrder`), and what that one has not written is in its rows (`RowsRemain`). `MigratedKeeps` says that no migration of the endpoints takes back what an earlier one wrote; that a stop anywhere keeps all this is why repeating them is safe |
| `StartIsSound` | `StartSound` | `StartInv` besides, one part for each part of the property, with what each lacks: `OriginKept` (the version found is the first one, so which migrations are due is known), `TemplatesKept`, `GroupsKept` (there is a group before the first migration), `NewIsEmpty` (a new database that was cut short gets no further than the second migration), `Counted` (a row is created at most once in each start that a stop cut short, and at most once more) and `StacksKept`: stacks are not begun on, under way or converted, as the point of the start says, and while they are under way the rows written, in the order of their identifiers, and those still to write partition the old ones (`Converting`), so that the next identifier is free and the rename cannot fail |

`BrowserProofs`, of `Session`:

| theorem | property | argument |
|---|---|---|
| `ShownMatches` | `ShownIsUsed` | `Agree`: unless a switch is past the setting of the endpoint, one ended half way or met another, or a page set the endpoint alone, the endpoint provider (or the migration that will put its endpoint back), the state manager and local storage name the same endpoint, whatever the page |

`BrowserProofs`, of `Flows`, for any table of handlers that satisfies its assumptions,
any nodes and any number of rows; all six from the inductive invariant `FlowInv`
(`FlowHolds`), which was an invariant of the run `flows` before it was proved:

| theorem | property | argument |
|---|---|---|
| `FlowTypes` | `TypeOK` | rows keep node and plan of their handler (`AreRows`); what is taken from a queue of nodes is one of them or what was remembered (`TakenIs`, `LeftIs`) |
| `PraiseIsTrue` | `SuccessIsTrue` | success means that everything the row awaits has passed; `ChangesAreReturned` says that the changes are among it, and that a failed one does not pass |
| `ControlIsLast` | `ControlFollows` | `InOrder`: whatever was sent came after what it waits for has passed, and what has passed stays so (`AnsweredRow`, `SentRow`); with `ControlsAreChained`. What has passed is answered well or, for a removal that is not heeded, refused |
| `SecondClickIsLost` | `CreatesOnce` | a button that a handler disabled at its call is free only if some row has `Ended`, and rows stay ended (`EndsStay`); with `CreatorsDisable`; nothing is said of the handler whose flag is late |
| `NothingUnderWay` | `LeavesQuietly` | who has left still has the outcome it left for (`Gone`). If the row failed, the request that failed and a change still under way would be in order by `LeaversWait`, and `InOrder` excludes that, unless the change waited for a removal that was refused and not heeded |
| `NodesReached` | `RightNode` | `Reached`: for a selection, the requests for agents have all been sent at once, the i-th with the i-th name (`EachStarts`, with the place of a request by a bijection, `PlaceIs`), and what was sent keeps its name; for a single row there is only one name, in the queue or remembered from it, and a name is there for every request that needs one (`OneNameSent`) |

None of the last five is inductive: each speaks about a moment (success shown, page
left, request sent) for which something had to be kept since the start. The
assumptions are about plans, which do not change, and `FlowInv` carries them through
every order of answers, which is what a test of a page would hardly reach. Outside
them the promises fail: the macvlan loop, say, leaves at its first success, and
`LeavesQuietly` excepts it by `leaves`.

`EditServiceProofs`, for any sections, values, forms and number of requests:

| theorem | property | argument |
|---|---|---|
| `Typing` | `TypeOK` | inductive; `EditedTyped` does the nested updates once |
| `Unlocked` | `NeverLocked` | with `OneAtATime`: unless an engine lied, at most one success is being read back, and while it is, the service is ahead of the page, so what is read is newer |
| `OthersAreKept` | `OthersKept` | with `Faithful`: as long as the page shows the version the service is at, whatever its copies say of a section that was not touched, and whose value comes back from the page, is what the service has, and so is what an update under way will send |

`OthersKept` is about one step, and what makes it true happened long before: the
page read the version it names. `Faithful` carries that through every edit, reset
and merge of references, which is where a copy of the wrong object would break it.

`ReplaceContainerProofs`, for any number of creations and recreations from any
pages:

| theorem | property | argument |
|---|---|---|
| `Typing` | `TypeOK` | from `Inv` |
| `AlwaysOne` | `Survives` | `Inv` has `NewestLives`: the newest of the first container and those started in its stead is there. A call removes a container older than the one it made and started, so never the newest |
| `RemovedWhenReplaced` | `ReadyFirst` | `Inv` has `AllSound`: what a call has behind it, of what it was to do, is done; and `Rank` puts the removal behind all of it (`Order`) |

`Survives` alone is not inductive: two chains could each remove what the other made.
The order on identifiers is what excludes it.

Only model-checked:

- every liveness property and everything under fairness, which is out of this
  prover's reach: `SnapshotsConverge`, `RequestsEnd`, `ComesUp`, `ButtonsFreed`,
  `Settles`, `OfflineSettles`, `LogoutForgets`.

That the tables of the pages satisfy the assumptions of `Flows` is evaluated, not
proved: it is a finite fact about the handlers.

## Not modelled

| part | why |
|---|---|
| Docker proxy: classification of paths, rewriting of responses | no state; its access decision and search are in `Identity` |
| Webhooks, registries, DockerHub (server) | one bucket each, the same check-then-create as in `Identity` |
| Templates, tags (server) | single transactions; the import is in `Startup` |
| WebSocket exec, upload, status, motd, static files | input and output only |
| HTTP server, rate limiter, filters | wiring; a library; pure functions |
| Tokens, signatures, hashes, TLS | cryptography |
| Engine client, script jobs | external; their outcomes are choices in the modules |
| Archives, command line, build | no behaviour over time |
| Models, helpers and filters of the browser | pure functions from answers to what is shown and from forms to what is sent |
| Tables, widgets, dialogues, charts, notifications | show what a page has loaded; their settings are read by nobody else |
| Browser of volumes, selector of nodes | cannot run (see above) |

Within modelled components: Azure endpoints, TLS files, tags, access lists of groups
(`Endpoints`); environment variables, stacks older than their endpoints, who may use
a stack (`Stacks`); passwords, the decision on access to endpoints (`Identity`); the
key pair, the DockerHub default, tags of groups (`Startup`); how forms build what is
sent, web sockets, polling (pages); rollback (`EditService`); the interceptors that
serve lists from a snapshot, the state of the user interface, Azure endpoints and
extensions (`Session`). Two handlers of one page at a time are modelled where they
share more than the queue: `EditService`, `ReplaceContainer`, `Session`.

## Plan

Done: `Schedules` with its proofs, then `Endpoints`, `Stacks`, `Identity`,
`Startup`; then the browser: the language of plans and all the pages, `Flows`,
`EditService` and `ReplaceContainer` with their proofs, `Session`; then the proofs of
`Schedules` for one request at a time, of `Endpoints`, `Stacks`, `Identity` and
`Session`, of `Startup`, and of `Flows` for any table of handlers.

Next, in this order:

1. *Composition.* `Flows` over the tables of `Identity`: what a chain that broke off
   leaves for whom, with the abstract promise "a resource someone restricted is
   never usable by others".
2. *Modules.* `Webhooks` (rows against endpoints and services that go away),
   `Registries` (unique addresses, access), and the pure part of the proxy.
3. *Refinement.* `Registry` as the abstract specification of the endpoints and
   stacks buckets as well, with the exact premises under which it holds.
