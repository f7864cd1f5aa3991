------------------------------ MODULE Session -------------------------------
(* The session of one browser: the token, the endpoint requests go to        *)
(* (EndpointProvider), the endpoint whose name, menus and API version are     *)
(* shown (StateManager), what of the two is in local storage, and whether     *)
(* the endpoint is taken to be offline.  The home page switches from one to   *)
(* another by a chain of requests, three other pages by a word of their own;  *)
(* interceptors look at every answer.                                         *)
CONSTANTS
  Endpoints, None,
  Offlineable,  \* those with a snapshot that can be browsed
  Agents,       \* those behind an agent
  Clicks        \* bound: switches under way at a time

ASSUME EndpointsAreKinds ==
  None \notin Endpoints /\ Offlineable \subseteq Endpoints /\ Agents \subseteq Endpoints

VARIABLES
  up,        \* the endpoints that can be reached
  token,     \* the JWT in local storage: none, valid or expired
  page,      \* the state of the router: auth, expired (auth that says so), home, bare
             \* (without a list, after a login that failed), docker
  id,        \* endpoint.ID of EndpointProvider, in memory and in storage
  offline,   \* its OfflineMode, likewise
  shown,     \* state.endpoint of StateManager
  stored,    \* and its copy in storage
  click,     \* the switches under way
  move,      \* the endpoint of a stack whose migration or duplication is under way
  net,       \* the endpoints that requests of a page are under way to
  refused,   \* a request sent without a valid token is under way
  apart,     \* history: a switch ended half way, or met another, or a page set the
             \* endpoint without its state
  spared     \* history: what is left of a session that is over, nothing will end

provider == <<id, offline>>
shownState == <<shown, stored>>
sessionVars == <<up, token, page, provider, shownState, click, move, net, refused, apart, spared>>

\* A switch has at most one request under way; one sent without a valid token will be
\* refused, whatever it was for.
NoClick == [at |-> "none", to |-> None, target |-> None, wasUp |-> FALSE]

SessionInit ==
  /\ up \in SUBSET Endpoints
  /\ token = "none" /\ page = "auth"
  /\ id = None /\ offline = FALSE /\ shown = None /\ stored = None
  /\ click = [s \in Clicks |-> NoClick] /\ move = None
  /\ net = {} /\ refused = FALSE
  /\ apart = FALSE /\ spared = FALSE

-----------------------------------------------------------------------------
Authorised == token = "valid"
UnderWay == move # None \/ \E s \in Clicks : click[s].at # "none"
OthersUnderWay(s) == move # None \/ \E t \in Clicks \ {s} : click[t].at # "none"
PastSwitch(s) == click[s].at \in {"extensions", "state", "agent", "refused"}
SetClick(s, stage, target) ==
  click' = [click EXCEPT ![s] = IF Authorised THEN [@ EXCEPT !.at = stage, !.target = target]
                                ELSE [NoClick EXCEPT !.at = "refused"]]
EndClick(s) == click' = [click EXCEPT ![s] = NoClick]

\* The page of an endpoint that is entered sends its requests, to the endpoint that is
\* set then; with none set they are answered by nobody's engine.
Enter ==
  /\ page' = "docker"
  /\ net' = IF token' = "valid" THEN net \cup ({id'} \ {None}) ELSE net
  /\ refused' = (refused \/ token' # "valid")

\* Authentication.logout: memory and local storage are cleared.  What is under way
\* goes on.
LogoutInMemory(how) ==  \* mutant
  /\ page' = how /\ token' = "none"
  /\ id' = None /\ offline' = FALSE /\ shown' = None /\ UNCHANGED stored
  /\ apart' = UnderWay /\ spared' = FALSE
Logout(how) ==
  /\ page' = how /\ token' = "none"
  /\ id' = None /\ offline' = FALSE /\ shown' = None /\ stored' = None
  /\ apart' = UnderWay /\ spared' = FALSE

\* The answer 401 to any request: the page that says that the session has expired is
\* entered and logs out; when it is there already, the router does nothing.
RequestRefused ==
  \/ page # "expired" /\ Logout("expired")
  \/ /\ page = "expired" /\ spared' = TRUE /\ apart' = TRUE
     /\ UNCHANGED <<token, page, provider, shownState>>

\* endpointStatusInterceptor: an answer that says otherwise changes the offline mode
\* and the stored status of the endpoint that is current when it comes.  Nothing
\* waits for that update, and with no endpoint set there is none to send.
InterceptFailures(works) == offline' = (offline \/ ~works)  \* mutant
Intercept(works) == offline' = ~works
UpdateEndpoint(works) ==
  refused' = (refused \/ (offline = works /\ ~Authorised /\ id # None))

-----------------------------------------------------------------------------
\* Login.  One that fails goes to the home page all the same, whose requests are
\* refused, while another is tried.
Login ==
  /\ page \in {"auth", "expired"} /\ token # "valid"
  /\ token' = "valid" /\ page' = "home" /\ spared' = FALSE
  /\ UNCHANGED <<up, provider, shownState, click, move, net, refused, apart>>
LoginFails ==
  /\ page \in {"auth", "expired"} /\ token # "valid"
  /\ page' = "bare" /\ refused' = TRUE
  /\ UNCHANGED <<up, token, provider, shownState, click, move, net, apart, spared>>
LoginAgain ==
  /\ page = "bare" /\ token # "valid" /\ token' = "valid" /\ spared' = FALSE
  /\ UNCHANGED <<up, page, provider, shownState, click, move, net, refused, apart>>
GoHome ==
  /\ page \in {"home", "bare", "docker"}
  /\ \/ /\ Authorised /\ page' = "home"
        /\ UNCHANGED <<token, provider, shownState, apart, spared>>
     \/ ~Authorised /\ Logout("expired")
  /\ UNCHANGED <<up, click, move, net, refused>>
\* Another page of the endpoint.  Its menu is there when its state is.
GoDocker ==
  /\ page = "docker" \/ (page \in {"home", "bare"} /\ shown # None)
  /\ UNCHANGED <<up, token, provider, shownState, click, move, apart, spared>>
  /\ Enter
UserLogout ==
  /\ page \in {"home", "bare", "docker"} /\ Logout("auth")
  /\ UNCHANGED <<up, click, move, net, refused>>

\* The page is loaded anew: what was under way is lost, the rest comes from storage.
Reload ==
  /\ shown' = stored
  /\ page' = IF page = "expired" THEN "auth" ELSE page
  /\ click' = [s \in Clicks |-> NoClick] /\ move' = None
  /\ net' = IF page = "docker" /\ Authorised THEN {id} \ {None} ELSE {}
  /\ refused' = (page \notin {"auth", "expired"} /\ ~Authorised)
  /\ apart' = (apart \/ move # None \/ \E s \in Clicks : PastSwitch(s))
  /\ spared' = (spared \/ (page \in {"auth", "expired"} /\ (UnderWay \/ refused)))
  /\ UNCHANGED <<up, token, provider, stored>>

Expire ==
  /\ token = "valid" /\ token' = "expired"
  /\ UNCHANGED <<up, page, provider, shownState, click, move, net, refused, apart, spared>>

\* An endpoint goes down or comes up.
Change(e) ==
  /\ up' = IF e \in up THEN up \ {e} ELSE up \cup {e}
  /\ UNCHANGED <<token, page, provider, shownState, click, move, net, refused, apart, spared>>

-----------------------------------------------------------------------------
\* goToDashboard: the row that is clicked keeps the status it was listed with, what
\* snapshots, or any page, had last made of it.
GoToDashboard(s, e, wasUp) ==
  /\ page = "home" /\ click[s].at = "none"
  /\ click' = [click EXCEPT ![s] = [at |-> IF Authorised THEN "ping" ELSE "ping refused",
                                    to |-> e, target |-> e, wasUp |-> wasUp]]
  /\ UNCHANGED <<up, token, page, provider, shownState, move, net, refused, apart, spared>>

\* switchToDockerEndpoint, with the status as listed, whatever the ping has said:
\* the endpoint is set before its state is known; without a state to ask for, the
\* dashboard is shown at once.
EnteredUnstored(s, current) ==  \* mutant
  /\ shown' = click[s].to /\ UNCHANGED stored /\ Enter
  /\ EndClick(s)
  /\ apart' = (OthersUnderWay(s) \/ current # click[s].to)
Entered(s, current) ==
  /\ shown' = click[s].to /\ stored' = click[s].to /\ Enter
  /\ EndClick(s)
  /\ apart' = (OthersUnderWay(s) \/ current # click[s].to)
SwitchToDockerEndpoint(s) ==
  /\ UNCHANGED <<up, token, move, spared>>
  /\ \/ /\ ~click[s].wasUp /\ click[s].to \notin Offlineable
        /\ EndClick(s) /\ UNCHANGED <<page, provider, shownState, net, refused, apart>>
     \/ /\ ~click[s].wasUp /\ click[s].to \in Offlineable
        /\ id' = click[s].to /\ offline' = TRUE
        /\ Entered(s, click[s].to)
     \/ /\ click[s].wasUp
        /\ id' = click[s].to /\ offline' = FALSE
        /\ SetClick(s, "extensions", click[s].to)
        /\ apart' = (apart \/ move # None \/ \E t \in Clicks \ {s} : PastSwitch(t))
        /\ UNCHANGED <<page, shownState, net, refused>>

\* checkEndpointStatus: the ping, and an update of the status if it is not as listed.
Ping(s) ==
  /\ click[s].at = "ping"
  /\ \/ /\ (click[s].to \in up) = click[s].wasUp
        /\ SwitchToDockerEndpoint(s)
     \/ /\ (click[s].to \in up) # click[s].wasUp
        /\ SetClick(s, "mark", click[s].to)
        /\ UNCHANGED <<up, token, page, provider, shownState, move, net, refused, apart, spared>>
\* A ping that is refused is taken for one of an endpoint that is down, and the chain
\* goes on: the end of the session comes before the dashboard, or is dropped for it.
PingRefused(s) ==
  /\ click[s].at = "ping refused"
  /\ \/ /\ click[s].wasUp \/ click[s].to \notin Offlineable
        /\ RequestRefused
        /\ IF click[s].wasUp THEN SetClick(s, "mark", click[s].to) ELSE EndClick(s)
        /\ UNCHANGED <<net, refused>>
     \/ /\ ~click[s].wasUp /\ click[s].to \in Offlineable
        /\ token' \in {token, IF page = "expired" THEN token ELSE "none"}
        /\ id' = click[s].to /\ offline' = TRUE
        /\ Entered(s, click[s].to)
        /\ UNCHANGED spared
  /\ UNCHANGED <<up, move>>
CheckEndpointStatus(s) ==
  /\ click[s].at = "mark"
  /\ SwitchToDockerEndpoint(s)
\* Only an administrator may update an endpoint: others end here.
CheckRefused(s) ==
  /\ click[s].at = "mark" /\ EndClick(s)
  /\ UNCHANGED <<up, token, page, provider, shownState, move, net, refused, apart, spared>>
Unauthorised(s) ==
  /\ click[s].at = "refused" /\ RequestRefused /\ EndClick(s)
  /\ UNCHANGED <<up, move, net, refused>>

\* initEndpointExtensions.
InitEndpointExtensions(s) ==
  /\ click[s].at = "extensions" /\ click[s].target \in up
  /\ Intercept(TRUE) /\ UpdateEndpoint(TRUE)
  /\ SetClick(s, "state", id)
  /\ UNCHANGED <<up, token, page, id, shownState, move, net, apart, spared>>

\* updateEndpointState: the version and the description of the endpoint, or those
\* of its snapshot; the state is stored once an agent has answered too.
UpdateEndpointState(s) ==
  LET works == click[s].target \in up
  IN  /\ click[s].at = "state"
      /\ works \/ id \in Offlineable
      /\ UNCHANGED <<up, token, id, move, spared>>
      /\ Intercept(works)
      /\ IF click[s].to \in Agents
         THEN /\ shown' = click[s].to /\ SetClick(s, "agent", id) /\ UpdateEndpoint(works)
              /\ UNCHANGED <<stored, page, net, apart>>
         ELSE Entered(s, id)
AgentPing(s) ==
  /\ click[s].at = "agent" /\ click[s].target \in up
  /\ UNCHANGED <<up, token, provider, move, spared>>
  /\ Entered(s, id)

\* One of these requests fails: the endpoint stays set, the state as it is.
SwitchFails(s) ==
  /\ click[s].at \in {"extensions", "state", "agent"}
  /\ \/ /\ click[s].at # "agent" /\ click[s].target \notin up
        /\ Intercept(FALSE) /\ UpdateEndpoint(FALSE)
     \/ UNCHANGED <<offline, refused>>
  /\ EndClick(s) /\ apart' = TRUE
  /\ UNCHANGED <<up, token, page, id, shownState, move, net, spared>>

-----------------------------------------------------------------------------
\* goToContainerLogs, from the tasks of a schedule: the endpoint is set, its state is
\* not, and a page of it is entered.
GoToContainerLogs(e) ==
  /\ page \in {"home", "bare"}
  /\ id' = e /\ apart' = (apart \/ e # shown \/ move # None)
  /\ UNCHANGED <<up, token, offline, shownState, click, move, spared>>
  /\ Enter

\* migrateSwarmStack, migrateComposeStack and duplicateStack set the endpoint they
\* deploy on for the time of their requests.  The first puts that of the stack back
\* whatever happens, the second if it fails, the third if it succeeds.
MoveStack(from, to) ==
  /\ page = "docker" /\ move = None
  /\ move' = from /\ id' = to
  /\ refused' = (refused \/ ~Authorised)
  /\ apart' = (apart \/ from # id)
  /\ UNCHANGED <<up, token, page, offline, shownState, click, net, spared>>
PutBack ==
  \/ id' = move /\ UNCHANGED apart
  \/ UNCHANGED id /\ apart' = TRUE
StackMoved ==
  /\ move # None /\ move' = None /\ PutBack
  /\ UNCHANGED <<up, token, offline, shownState, click, spared>>
  /\ Enter
StackNotMoved ==
  /\ move # None /\ move' = None /\ PutBack
  /\ spared' = (spared \/ page \in {"auth", "expired"})
  /\ UNCHANGED <<up, token, page, offline, shownState, click, net, refused>>
MoveEnds == StackMoved \/ StackNotMoved

-----------------------------------------------------------------------------
Answer(e) ==
  /\ e \in net /\ net' = net \ {e}
  /\ Intercept(e \in up) /\ UpdateEndpoint(e \in up)
  /\ UNCHANGED <<up, token, page, id, shownState, click, move, apart, spared>>
AnswerUnauthorised ==
  /\ refused /\ refused' = FALSE /\ RequestRefused
  /\ UNCHANGED <<up, click, move, net>>

Continue(s) ==
  \/ Ping(s) \/ PingRefused(s) \/ CheckEndpointStatus(s) \/ CheckRefused(s)
  \/ InitEndpointExtensions(s) \/ UpdateEndpointState(s) \/ AgentPing(s) \/ SwitchFails(s)
  \/ Unauthorised(s)
SessionNext ==
  \/ Login \/ LoginFails \/ LoginAgain \/ GoHome \/ GoDocker \/ UserLogout \/ Reload \/ Expire
  \/ \E e \in Endpoints :
       \/ Change(e) \/ GoToContainerLogs(e) \/ Answer(e)
       \/ \E s \in Clicks, wasUp \in BOOLEAN : GoToDashboard(s, e, wasUp)
       \/ \E from \in Endpoints : MoveStack(from, e)
  \/ \E s \in Clicks : Continue(s)
  \/ MoveEnds \/ AnswerUnauthorised

\* Requests are answered, if only with an error; a page that is loaded anew asks again.
SessionFairness ==
  /\ \A s \in Clicks : WF_sessionVars(Continue(s))
  /\ \A e \in Endpoints : WF_sessionVars(Answer(e))
  /\ WF_sessionVars(MoveEnds) /\ WF_sessionVars(AnswerUnauthorised)
SessionSpec == SessionInit /\ [][SessionNext]_sessionVars /\ SessionFairness

-----------------------------------------------------------------------------
\* A page of an endpoint shows the endpoint its requests go to: the name and menus
\* of one over the containers of another would have the user remove the wrong ones.
\* The code keeps to it through reloads, failures and ends of the session, but for
\* the time of a switch or of a stack's migration, after a switch that ended half way
\* or met another, and where a page sets the endpoint alone: the link from a schedule
\* to the logs of a container, a migration or duplication that does not put it back.
ShownIsUsed ==
  page = "docker" /\ ~apart /\ ~UnderWay => shown = id

\* The offline mode comes to be right: when an endpoint is no more switched, it stays
\* up or down, and the user goes on opening its pages, what these are answered
\* corrects what late answers of another endpoint, a stale list or a past failure had
\* made of it.  One that stays on a page is not so sure: a page asks when it is
\* entered, and the late answer of another endpoint may come after its own.
OfflineSettles ==
  \A e \in Endpoints, works \in BOOLEAN :
    /\ <>[](page = "docker" /\ id = e /\ Authorised /\ (e \in up) = works)
    /\ []<>(e \in net)
    => <>[](offline = ~works)

\* Whatever was under way when a session ended, nothing of its endpoint is left once
\* it is over: a late answer that sets it again is followed by one that is refused and
\* ends the session again.  Unless that one finds the page that says so already there,
\* or is lost with a page that is loaded anew, or the migration of a stack that failed
\* sets it, which asks for nothing more.
Forgotten == shown = None /\ stored = None /\ id = None
LogoutForgets == (token = "none") ~> (Forgotten \/ token # "none" \/ spared)
=============================================================================
