---------------------------- MODULE BrowserProofs ----------------------------
(***************************************************************************)
(* Proofs about the two state machines that every page of the browser runs *)
(* in.  Session, for any endpoints and however many switches and requests  *)
(* are under way: the endpoint that is shown is the one that is used.      *)
(* Flows, for any handlers that have in common what those of the           *)
(* application have, any nodes and any number of rows: what is announced   *)
(* was done, nothing is left half made, and requests reach their node.     *)
(***************************************************************************)
EXTENDS Flows, Session, FiniteSetTheorems, SequenceTheorems, TLAPS

-----------------------------------------------------------------------------
(* Session.                                                                *)
Pages == {"auth", "expired", "home", "bare", "docker"}
Click == [at : {"none", "ping", "ping refused", "mark", "extensions", "state", "agent", "refused"},
          to : Endpoints \cup {None}, target : Endpoints \cup {None}, wasUp : BOOLEAN]
TypeInv ==
  /\ page \in Pages /\ apart \in BOOLEAN /\ offline \in BOOLEAN
  /\ id \in Endpoints \cup {None} /\ shown \in Endpoints \cup {None}
  /\ stored \in Endpoints \cup {None} /\ move \in Endpoints \cup {None}
  /\ click \in [Clicks -> Click]

(* Besides the page: unless a switch is between the setting of the endpoint*)
(* and its end, or one ended half way or met another, or a page set the    *)
(* endpoint alone, EndpointProvider, StateManager and local storage name   *)
(* the same endpoint.  While a stack is moved the first will have it again *)
(* once the move has ended.                                                *)
Used == IF move = None THEN id ELSE move
Agree == ~apart /\ (\A s \in Clicks : ~PastSwitch(s)) => shown = Used /\ stored = Used

Inv == TypeInv /\ Agree

-----------------------------------------------------------------------------
(* How a switch moves.                                                     *)
LEMMA NoClickType == NoClick \in Click /\ NoClick.at = "none"
BY DEF NoClick, Click

LEMMA ClickSet ==
  ASSUME TypeInv, NEW s \in Clicks, NEW stage \in {"mark", "extensions", "state", "agent"},
         NEW target \in Endpoints \cup {None}, SetClick(s, stage, target)
  PROVE  /\ click' \in [Clicks -> Click]
         /\ click'[s].at \in {stage, "refused"} /\ \A t \in Clicks \ {s} : click'[t] = click[t]
<1>1. click \in [Clicks -> Click] /\ click[s] \in Click
  BY DEF TypeInv
<1> DEFINE forward == [click[s] EXCEPT !.at = stage, !.target = target]
           back == [NoClick EXCEPT !.at = "refused"]
           next == IF Authorised THEN forward ELSE back
<1>2. forward \in Click /\ forward.at = stage
  BY <1>1 DEF Click
<1>3. back \in Click /\ back.at = "refused"
  BY NoClickType DEF Click
<1>4. click' = [click EXCEPT ![s] = next]
  BY DEF SetClick
<1>5. next \in Click /\ next.at \in {stage, "refused"}
  BY <1>2, <1>3
<1> HIDE DEF next
<1> QED BY <1>1, <1>4, <1>5

LEMMA ClickEnd ==
  ASSUME TypeInv, NEW s \in Clicks, EndClick(s)
  PROVE  /\ click' \in [Clicks -> Click]
         /\ click'[s].at = "none" /\ \A t \in Clicks \ {s} : click'[t] = click[t]
BY NoClickType DEF TypeInv, EndClick

(* The end of a session forgets all, and counts what is under way.         *)
LEMMA LogoutAgrees ==
  ASSUME Inv, NEW how \in Pages, Logout(how), click' \in [Clicks -> Click], UNCHANGED move
  PROVE  /\ page' \in Pages /\ apart' \in BOOLEAN /\ offline' \in BOOLEAN
         /\ id' = None /\ shown' = None /\ stored' = None
         /\ ~apart' => move' = None
BY DEF Logout, UnderWay

LEMMA LogoutStep ==
  ASSUME Inv, NEW how \in Pages, Logout(how), click' \in [Clicks -> Click], UNCHANGED move
  PROVE  Inv'
BY LogoutAgrees DEF Inv, TypeInv, Agree, Used

LEMMA RefusedStep ==
  ASSUME Inv, RequestRefused, click' \in [Clicks -> Click], UNCHANGED move
  PROVE  Inv'
<1>1. CASE page # "expired" /\ Logout("expired")
  BY <1>1, LogoutStep DEF Pages
<1>2. CASE apart' = TRUE /\ UNCHANGED <<page, provider, shownState>>
  BY <1>2 DEF Inv, TypeInv, Agree, provider, shownState
<1> QED BY <1>1, <1>2 DEF RequestRefused

(* A switch ends with its endpoint shown and stored.                       *)
LEMMA EnteredStep ==
  ASSUME Inv, NEW s \in Clicks, Entered(s, id'), offline' \in BOOLEAN,
         id' \in Endpoints \cup {None}, UNCHANGED move
  PROVE  Inv'
<1>1. click' \in [Clicks -> Click] /\ click[s].to \in Endpoints \cup {None}
  BY ClickEnd DEF Entered, Inv, TypeInv, Click
<1>2. /\ shown' = click[s].to /\ stored' = click[s].to /\ page' = "docker"
      /\ apart' = (OthersUnderWay(s) \/ id' # click[s].to)
  BY DEF Entered, Enter
<1>3. TypeInv'
  BY <1>1, <1>2 DEF Inv, TypeInv, Pages, OthersUnderWay
<1> QED BY <1>2, <1>3 DEF Inv, Agree, Used, OthersUnderWay

(* A step that leaves the three alone keeps them equal, unless it ends a   *)
(* switch without counting it.                                             *)
LEMMA KeptStep ==
  ASSUME Inv, TypeInv', UNCHANGED <<id, move, shownState>>, apart => apart',
         \A t \in Clicks : PastSwitch(t) => apart' \/ PastSwitch(t)'
  PROVE  Inv'
BY DEF Inv, Agree, Used, shownState

LEMMA SwitchStep ==
  ASSUME Inv, NEW s \in Clicks, click[s].at \in {"ping", "mark"}, SwitchToDockerEndpoint(s)
  PROVE  Inv'
<1>0. TypeInv /\ click[s].to \in Endpoints \cup {None} /\ UNCHANGED move
  BY DEF Inv, TypeInv, Click, SwitchToDockerEndpoint
<1>1. CASE ~click[s].wasUp /\ click[s].to \notin Offlineable
  <2>1. EndClick(s) /\ UNCHANGED <<page, provider, shownState, apart>>
    BY <1>1 DEF SwitchToDockerEndpoint
  <2>2. /\ click' \in [Clicks -> Click]
        /\ \A t \in Clicks \ {s} : click'[t] = click[t]
    BY <1>0, <2>1, ClickEnd
  <2>3. TypeInv'
    BY <1>0, <2>1, <2>2 DEF TypeInv, provider, shownState
  <2>4. \A t \in Clicks : PastSwitch(t) => PastSwitch(t)'
    BY <2>2 DEF PastSwitch
  <2> QED BY <1>0, <2>1, <2>3, <2>4, KeptStep DEF provider
<1>2. CASE ~click[s].wasUp /\ click[s].to \in Offlineable
  <2>1. id' = click[s].to /\ offline' = TRUE /\ Entered(s, click[s].to)
    BY <1>2 DEF SwitchToDockerEndpoint
  <2> QED BY <1>0, <2>1, EnteredStep
<1>3. CASE click[s].wasUp
  <2>1. /\ id' = click[s].to /\ offline' = FALSE /\ SetClick(s, "extensions", click[s].to)
        /\ apart' = (apart \/ move # None \/ \E t \in Clicks \ {s} : PastSwitch(t))
        /\ UNCHANGED <<page, shownState>>
    BY <1>3 DEF SwitchToDockerEndpoint
  <2>2. click' \in [Clicks -> Click] /\ click'[s].at \in {"extensions", "refused"}
    BY <1>0, <2>1, ClickSet
  <2>3. TypeInv'
    BY <1>0, <2>1, <2>2 DEF TypeInv, shownState
  <2>4. PastSwitch(s)'
    BY <2>2 DEF PastSwitch
  <2> QED BY <2>3, <2>4 DEF Inv, Agree
<1> QED BY <1>1, <1>2, <1>3 DEF SwitchToDockerEndpoint

LEMMA ContinueStep ==
  ASSUME Inv, NEW s \in Clicks, Continue(s)
  PROVE  Inv'
<1>0. TypeInv /\ click[s] \in Click /\ UNCHANGED move
  BY DEF Inv, TypeInv, Continue, Ping, PingRefused, CheckEndpointStatus, CheckRefused,
         SwitchToDockerEndpoint, InitEndpointExtensions, UpdateEndpointState, AgentPing,
         SwitchFails, Unauthorised
<1>1. CASE Ping(s)
  <2>1. CASE SwitchToDockerEndpoint(s)
    BY <1>1, <2>1, SwitchStep DEF Ping
  <2>2. CASE /\ SetClick(s, "mark", click[s].to)
             /\ UNCHANGED <<page, provider, shownState, apart>>
    <3>1. click' \in [Clicks -> Click] /\ \A t \in Clicks \ {s} : click'[t] = click[t]
      BY <1>0, <2>2, ClickSet DEF Click
    <3>2. TypeInv'
      BY <1>0, <2>2, <3>1 DEF TypeInv, provider, shownState
    <3>3. \A t \in Clicks : PastSwitch(t) => PastSwitch(t)'
      BY <1>1, <3>1 DEF PastSwitch, Ping
    <3> QED BY <1>0, <2>2, <3>2, <3>3, KeptStep DEF provider
  <2> QED BY <1>1, <2>1, <2>2 DEF Ping
<1>2. CASE CheckEndpointStatus(s)
  BY <1>2, SwitchStep DEF CheckEndpointStatus
<1>3. CASE CheckRefused(s)
  <2>1. click[s].at = "mark" /\ EndClick(s) /\ UNCHANGED <<page, provider, shownState, apart>>
    BY <1>3 DEF CheckRefused
  <2>2. click' \in [Clicks -> Click] /\ \A t \in Clicks \ {s} : click'[t] = click[t]
    BY <1>0, <2>1, ClickEnd
  <2>3. TypeInv'
    BY <1>0, <2>1, <2>2 DEF TypeInv, provider, shownState
  <2>4. \A t \in Clicks : PastSwitch(t) => PastSwitch(t)'
    BY <2>1, <2>2 DEF PastSwitch
  <2> QED BY <1>0, <2>1, <2>3, <2>4, KeptStep DEF provider
<1>4. ASSUME NEW works \in BOOLEAN, Intercept(works) PROVE offline' \in BOOLEAN
  BY <1>0, <1>4 DEF Intercept, TypeInv
<1>5. CASE InitEndpointExtensions(s)
  <2>1. /\ SetClick(s, "state", id) /\ offline' \in BOOLEAN
        /\ UNCHANGED <<page, id, shownState, apart>>
    <3>1. Intercept(TRUE) /\ SetClick(s, "state", id) /\ UNCHANGED <<page, id, shownState, apart>>
      BY <1>5 DEF InitEndpointExtensions
    <3> QED BY <1>4, <3>1
  <2>2. /\ click' \in [Clicks -> Click] /\ click'[s].at \in {"state", "refused"}
        /\ \A t \in Clicks \ {s} : click'[t] = click[t]
    BY <1>0, <2>1, ClickSet DEF TypeInv
  <2>3. TypeInv'
    BY <1>0, <2>1, <2>2 DEF TypeInv, shownState
  <2>4. \A t \in Clicks : PastSwitch(t) => PastSwitch(t)'
    BY <2>2 DEF PastSwitch
  <2> QED BY <1>0, <2>1, <2>3, <2>4, KeptStep
<1>6. CASE UpdateEndpointState(s)
  <2>1. offline' \in BOOLEAN /\ id' = id
    <3>1. Intercept(click[s].target \in up) /\ id' = id
      BY <1>6 DEF UpdateEndpointState
    <3>2. (click[s].target \in up) \in BOOLEAN
      OBVIOUS
    <3> QED BY <1>4, <3>1, <3>2
  <2>2. CASE click[s].to \in Agents
    <3>1. shown' = click[s].to /\ SetClick(s, "agent", id) /\ UNCHANGED <<stored, page, apart>>
      BY <1>6, <2>2 DEF UpdateEndpointState
    <3>2. click' \in [Clicks -> Click] /\ click'[s].at \in {"agent", "refused"}
      BY <1>0, <3>1, ClickSet DEF TypeInv
    <3>3. TypeInv'
      BY <1>0, <2>1, <3>1, <3>2 DEF TypeInv, Click
    <3>4. PastSwitch(s)'
      BY <3>2 DEF PastSwitch
    <3> QED BY <3>3, <3>4 DEF Inv, Agree
  <2>3. CASE click[s].to \notin Agents
    <3>1. Entered(s, id)
      BY <1>6, <2>3 DEF UpdateEndpointState
    <3> QED BY <1>0, <2>1, <3>1, EnteredStep DEF TypeInv
  <2> QED BY <2>2, <2>3
<1>7. CASE AgentPing(s)
  <2>1. Entered(s, id) /\ UNCHANGED provider
    BY <1>7 DEF AgentPing
  <2> QED BY <1>0, <2>1, EnteredStep DEF TypeInv, provider
<1>8. CASE SwitchFails(s)
  <2>1. /\ EndClick(s) /\ apart' = TRUE /\ offline' \in BOOLEAN
        /\ UNCHANGED <<page, id, shownState>>
    BY <1>0, <1>4, <1>8 DEF SwitchFails, TypeInv
  <2>2. TypeInv'
    BY <1>0, <2>1, ClickEnd DEF TypeInv, shownState
  <2> QED BY <2>1, <2>2 DEF Inv, Agree
<1>9. CASE Unauthorised(s)
  BY <1>0, <1>9, ClickEnd, RefusedStep DEF Unauthorised
<1>10. CASE PingRefused(s)
  <2>1. CASE RequestRefused
    <3>1. SetClick(s, "mark", click[s].to) \/ EndClick(s) \/ Entered(s, id')
      BY <1>10 DEF PingRefused
    <3>2. SetClick(s, "mark", click[s].to) => click' \in [Clicks -> Click]
      BY <1>0, ClickSet DEF Click
    <3>3. EndClick(s) => click' \in [Clicks -> Click]
      BY <1>0, ClickEnd
    <3>4. Entered(s, id') => EndClick(s)
      BY DEF Entered
    <3> QED BY <1>0, <2>1, <3>1, <3>2, <3>3, <3>4, RefusedStep
  <2>2. CASE id' = click[s].to /\ offline' = TRUE /\ Entered(s, click[s].to)
    <3>1. id' \in Endpoints \cup {None}
      BY <1>0, <2>2 DEF Click
    <3> QED BY <1>0, <2>2, <3>1, EnteredStep
  <2> QED BY <1>10, <2>1, <2>2 DEF PingRefused
<1> QED BY <1>1, <1>2, <1>3, <1>5, <1>6, <1>7, <1>8, <1>9, <1>10 DEF Continue

LEMMA Step == Inv /\ [SessionNext]_sessionVars => Inv'
<1> SUFFICES ASSUME Inv, [SessionNext]_sessionVars PROVE Inv'
  OBVIOUS
<1>0. TypeInv
  BY DEF Inv
<1>1. CASE UNCHANGED <<provider, shownState, click, move, apart>> /\ page' \in Pages
  <2>1. TypeInv'
    BY <1>0, <1>1 DEF TypeInv, provider, shownState
  <2>2. \A t \in Clicks : PastSwitch(t)' = PastSwitch(t)
    BY <1>1 DEF PastSwitch
  <2> QED BY <1>1, <2>1, <2>2, KeptStep DEF provider
<1>2. CASE Login \/ LoginFails \/ LoginAgain \/ GoDocker \/ Expire \/ \E e \in Endpoints : Change(e)
  <2>1. page' \in Pages
    BY <1>0, <1>2 DEF Login, LoginFails, LoginAgain, GoDocker, Enter, Expire, Change, Pages, TypeInv
  <2>2. UNCHANGED <<provider, shownState, click, move, apart>>
    BY <1>2 DEF Login, LoginFails, LoginAgain, GoDocker, Expire, Change
  <2> QED BY <1>1, <2>1, <2>2
<1>3. CASE GoHome \/ UserLogout
  <2>1. click' \in [Clicks -> Click] /\ UNCHANGED move
    BY <1>0, <1>3 DEF GoHome, UserLogout, TypeInv
  <2>2. CASE Logout("expired") \/ Logout("auth")
    BY <2>1, <2>2, LogoutStep DEF Pages
  <2>3. CASE page' = "home" /\ UNCHANGED <<provider, shownState, click, apart>>
    BY <1>1, <2>1, <2>3 DEF Pages
  <2> QED BY <1>3, <2>2, <2>3 DEF GoHome, UserLogout
<1>4. CASE Reload
  <2>1. /\ shown' = stored /\ UNCHANGED <<provider, stored>> /\ page' \in Pages
        /\ click' = [s \in Clicks |-> NoClick] /\ move' = None
        /\ apart' = (apart \/ move # None \/ \E s \in Clicks : PastSwitch(s))
    BY <1>0, <1>4 DEF Reload, TypeInv, Pages
  <2>2. TypeInv'
    BY <1>0, <2>1, NoClickType DEF TypeInv, provider
  <2> QED BY <2>1, <2>2 DEF Inv, Agree, Used, provider
<1>5. ASSUME NEW s \in Clicks, NEW e \in Endpoints, NEW wasUp \in BOOLEAN, GoToDashboard(s, e, wasUp)
      PROVE  Inv'
  <2> DEFINE next == [at |-> IF Authorised THEN "ping" ELSE "ping refused",
                      to |-> e, target |-> e, wasUp |-> wasUp]
  <2>1. next \in Click
    BY DEF Click
  <2>2. next.at \notin {"extensions", "state", "agent", "refused"}
    OBVIOUS
  <2>3. click[s].at = "none" /\ click' = [click EXCEPT ![s] = next]
    BY <1>5 DEF GoToDashboard
  <2> HIDE DEF next
  <2>4. UNCHANGED <<page, provider, shownState, move, apart>>
    BY <1>5 DEF GoToDashboard
  <2>5. TypeInv'
    BY <1>0, <2>1, <2>3, <2>4 DEF TypeInv, provider, shownState
  <2>6. \A t \in Clicks : PastSwitch(t) => PastSwitch(t)'
    BY <1>0, <2>3 DEF PastSwitch, TypeInv
  <2> QED BY <2>4, <2>5, <2>6, KeptStep DEF provider
<1>6. ASSUME NEW s \in Clicks, Continue(s) PROVE Inv'
  BY <1>6, ContinueStep
<1>7. ASSUME NEW e \in Endpoints, GoToContainerLogs(e) PROVE Inv'
  <2>1. /\ id' = e /\ apart' = (apart \/ e # shown \/ move # None) /\ page' = "docker"
        /\ UNCHANGED <<offline, shownState, click, move>>
    BY <1>7 DEF GoToContainerLogs, Enter
  <2>2. TypeInv'
    BY <1>0, <2>1 DEF TypeInv, shownState, Pages
  <2>3. \A t \in Clicks : PastSwitch(t)' = PastSwitch(t)
    BY <2>1 DEF PastSwitch
  <2> QED BY <2>1, <2>2, <2>3 DEF Inv, Agree, Used, shownState
<1>8. ASSUME NEW from \in Endpoints, NEW to \in Endpoints, MoveStack(from, to) PROVE Inv'
  <2>1. /\ move = None /\ move' = from /\ id' = to /\ apart' = (apart \/ from # id)
        /\ UNCHANGED <<page, offline, shownState, click>>
    BY <1>8 DEF MoveStack
  <2>2. TypeInv'
    BY <1>0, <2>1 DEF TypeInv, shownState
  <2>3. \A t \in Clicks : PastSwitch(t)' = PastSwitch(t)
    BY <2>1 DEF PastSwitch
  <2>4. move' # None
    BY <2>1, EndpointsAreKinds
  <2> QED BY <2>1, <2>2, <2>3, <2>4 DEF Inv, Agree, Used, shownState
<1>9. CASE MoveEnds
  <2>1. /\ move # None /\ move' = None /\ page' \in Pages /\ UNCHANGED <<offline, shownState, click>>
        /\ (id' = move /\ apart' = apart) \/ (id' = id /\ apart' = TRUE)
    BY <1>0, <1>9 DEF MoveEnds, StackMoved, StackNotMoved, PutBack, Enter, TypeInv, Pages
  <2>2. TypeInv'
    BY <1>0, <2>1 DEF TypeInv, shownState
  <2>3. \A t \in Clicks : PastSwitch(t)' = PastSwitch(t)
    BY <2>1 DEF PastSwitch
  <2> QED BY <2>1, <2>2, <2>3 DEF Inv, Agree, Used, shownState
<1>10. ASSUME NEW e \in Endpoints, Answer(e) PROVE Inv'
  <2>1. offline' \in BOOLEAN /\ UNCHANGED <<page, id, shownState, click, move, apart>>
    BY <1>10 DEF Answer, Intercept
  <2>2. TypeInv'
    BY <1>0, <2>1 DEF TypeInv, shownState
  <2>3. \A t \in Clicks : PastSwitch(t)' = PastSwitch(t)
    BY <2>1 DEF PastSwitch
  <2> QED BY <2>1, <2>2, <2>3, KeptStep
<1>11. CASE AnswerUnauthorised
  <2>1. RequestRefused /\ click' \in [Clicks -> Click] /\ UNCHANGED move
    BY <1>0, <1>11 DEF AnswerUnauthorised, TypeInv
  <2> QED BY <2>1, RefusedStep
<1>12. CASE UNCHANGED sessionVars
  BY <1>0, <1>1, <1>12 DEF sessionVars, TypeInv
<1> QED
  BY <1>2, <1>3, <1>4, <1>5, <1>6, <1>7, <1>8, <1>9, <1>10, <1>11, <1>12 DEF SessionNext

LEMMA InvInit == SessionInit => Inv
BY NoClickType DEF SessionInit, Inv, TypeInv, Agree, Used, Pages

(* However many switches and requests are under way, wherever they stop or *)
(* are refused, and however often the page is loaded anew or the session   *)
(* ends: a page of an endpoint is headed by the endpoint its requests go   *)
(* to, but for the time of a switch or of a stack's migration, after a     *)
(* switch that ended half way or met another, and after a page that set    *)
(* the endpoint alone and did not put it back.                             *)
THEOREM ShownMatches == SessionSpec => []ShownIsUsed
<1>1. Inv => ShownIsUsed
  BY DEF Inv, Agree, Used, ShownIsUsed, UnderWay, PastSwitch
<1> QED BY <1>1, InvInit, Step, PTL DEF SessionSpec
-----------------------------------------------------------------------------
(* Flows.  A row: its node and plan are those of the handler, its requests *)
(* are somewhere on their way, and were sent in the order of the plan.     *)
Fields == {"node", "plan", "state", "carried"}
Progress == {"unsent", "sent", "ok", "failed", "refused"}
IsRow(h, it) ==
  /\ DOMAIN it = Fields
  /\ it.node \in NodesOf(h) /\ it.plan \in h.do
  /\ it.state \in [DOMAIN it.plan -> Progress]
  /\ it.carried \in [DOMAIN it.plan -> Nodes \cup {NoNode}]
InOrder(it) ==
  \A j \in DOMAIN it.plan : it.state[j] # "unsent" => \A k \in it.plan[j].after : Passed(it, k)
AreRows(h, its) ==
  /\ \E n \in Nat \ {0} : DOMAIN its = 1..n /\ (~h.many => n = 1)
  /\ \A i \in DOMAIN its : IsRow(h, its[i]) /\ InOrder(its[i])

(* Which node the requests of a handler have named, or will.  For each row *)
(* of a selection, its own, at once; for a single row, the only name there *)
(* is, in the queue or remembered from it, until the user goes elsewhere.  *)
MeansNode(h, r) == r.agent /\ (h.at \in NodeRoutes \/ h.node \/ r.names)
EachReached(its) ==
  \A i \in DOMAIN its : \A j \in DOMAIN its[i].plan :
    its[i].plan[j].agent => its[i].state[j] # "unsent" /\ its[i].carried[j] = its[i].node
OneName(h, it, q, l) ==
  /\ \A m \in DOMAIN q : q[m] = it.node
  /\ h.node \/ h.at \in NodeRoutes => q # <<>> \/ l = it.node
  /\ \A j \in DOMAIN it.plan :
       it.state[j] # "unsent" /\ MeansNode(h, it.plan[j]) => it.carried[j] = it.node
Reached(h, its, place, q, l) ==
  IF h.many THEN h.node => EachReached(its) ELSE place # "wandered" => OneName(h, its[1], q, l)

(* The inductive invariant.  Besides, a handler has left the page for an   *)
(* outcome that it still has, and frees a button only for one.             *)
Gone(h, its) == Leaves(h, its, "success") \/ Leaves(h, its, "error")
Ended(its) == \E i \in DOMAIN its : Outcome(its[i]) # "pending"
Running(h) ==
  /\ handler = [h EXCEPT !.do = Nothing] /\ AreRows(h, items)
  /\ busy \in BOOLEAN /\ where \in {"here", "left", "wandered"}
  /\ queue \in Seq(Nodes) /\ last \in Nodes \cup {NoNode}
  /\ where = "left" => Gone(h, items)
  /\ h.busy /\ ~busy => Ended(items)
  /\ Reached(h, items, where, queue, last)
Idle ==
  /\ handler = NoHandler /\ items = <<>> /\ busy = FALSE /\ where = "here"
  /\ queue = <<>> /\ last = NoNode
FlowInv == Idle \/ \E h \in Table : Running(h)

(* A row later on: what was answered stays as it is, and so does the       *)
(* outcome.                                                                *)
Later(a, b) ==
  /\ b.plan = a.plan
  /\ \A j \in DOMAIN a.plan : b.state[j] = a.state[j] \/ a.state[j] \in {"unsent", "sent"}
LEMMA OutcomeIs == ASSUME NEW it PROVE Outcome(it) \in {"error", "success", "pending"}
BY DEF Outcome

LEMMA OutcomeStays ==
  ASSUME NEW a, NEW b, Later(a, b), Outcome(a) # "pending"
  PROVE  Outcome(b) = Outcome(a)
<1>1. Awaited(b.plan) = Awaited(a.plan) /\ Awaited(a.plan) \subseteq DOMAIN a.plan
  BY DEF Awaited, Later
<1>2. CASE \E j \in Awaited(a.plan) : Fails(a, j)
  <2>1. \E j \in Awaited(b.plan) : Fails(b, j)
    BY <1>1, <1>2 DEF Later, Fails
  <2> QED BY <1>2, <2>1 DEF Outcome
<1>3. CASE ~\E j \in Awaited(a.plan) : Fails(a, j)
  <2>1. \A j \in Awaited(a.plan) : Passed(a, j)
    BY <1>3 DEF Outcome
  <2>2. \A j \in Awaited(a.plan) : b.state[j] = a.state[j] /\ b.plan[j] = a.plan[j]
    BY <1>1, <2>1 DEF Passed, Later
  <2>3. \A j \in Awaited(b.plan) : Passed(b, j)
    BY <1>1, <2>1, <2>2 DEF Passed
  <2>4. ~\E j \in Awaited(b.plan) : Fails(b, j)
    BY <1>1, <1>3, <2>2 DEF Fails
  <2> QED BY <1>3, <2>1, <2>3, <2>4 DEF Outcome
<1> QED BY <1>2, <1>3

LEMMA EndsStay ==
  ASSUME NEW h, NEW a, NEW b, DOMAIN b = DOMAIN a, \A i \in DOMAIN a : Later(a[i], b[i])
  PROVE  /\ Ended(a) => Ended(b)
         /\ Gone(h, a) => Gone(h, b)
<1>1. \A i \in DOMAIN a : Outcome(a[i]) # "pending" => Outcome(b[i]) = Outcome(a[i])
  BY OutcomeStays
<1>2. Ended(a) => Ended(b)
  BY <1>1 DEF Ended
<1>3. ASSUME NEW outcome \in {"success", "error"}, Leaves(h, a, outcome) PROVE Leaves(h, b, outcome)
  <2>1. outcome \in Outcomes(b)
    BY <1>1, <1>3 DEF Leaves, Outcomes
  <2>2. "pending" \notin Outcomes(a) => "pending" \notin Outcomes(b)
    BY <1>1 DEF Outcomes
  <2> QED BY <1>3, <2>1, <2>2 DEF Leaves
<1> QED BY <1>2, <1>3 DEF Gone

(* The rows once some requests are answered, and once some are sent.       *)
AnsweredBy(it, result) ==
  [j \in DOMAIN it.state |-> IF j \in DOMAIN result THEN result[j] ELSE it.state[j]]
LEMMA AnsweredRow ==
  ASSUME NEW h, NEW it, IsRow(h, it), InOrder(it), NEW result,
         \A p \in h.do : \A j \in DOMAIN p : p[j].after \subseteq DOMAIN p,
         \A j \in DOMAIN result : j \in DOMAIN it.plan /\ it.state[j] = "sent"
                                  /\ result[j] \in {"ok", "failed", "refused"},
         NEW next, DOMAIN next = Fields, next.node = it.node, next.plan = it.plan,
         next.carried = it.carried, next.state = AnsweredBy(it, result)
  PROVE  /\ IsRow(h, next) /\ InOrder(next) /\ Later(it, next)
         /\ next.node = it.node /\ next.plan = it.plan /\ next.carried = it.carried
         /\ \A j \in DOMAIN it.plan : next.state[j] = "unsent" <=> it.state[j] = "unsent"
<1>1. /\ DOMAIN next = Fields /\ next.node = it.node /\ next.plan = it.plan
      /\ next.carried = it.carried
      /\ next.state = [j \in DOMAIN it.state |-> IF j \in DOMAIN result THEN result[j] ELSE it.state[j]]
  BY DEF AnsweredBy
<1>2. DOMAIN it.state = DOMAIN it.plan /\ \A j \in DOMAIN it.plan : it.state[j] \in Progress
  BY DEF IsRow
<1>3. \A j \in DOMAIN it.plan :
        next.state[j] = IF j \in DOMAIN result THEN result[j] ELSE it.state[j]
  BY <1>1, <1>2
<1>4. next.state \in [DOMAIN it.plan -> Progress]
  BY <1>1, <1>2 DEF Progress
<1>5. IsRow(h, next)
  BY <1>1, <1>4 DEF IsRow
<1>6. Later(it, next)
  BY <1>1, <1>3 DEF Later
<1>7. \A j \in DOMAIN it.plan : next.state[j] = "unsent" <=> it.state[j] = "unsent"
  BY <1>3
<1>8. \A k \in DOMAIN it.plan : Passed(it, k) => Passed(next, k)
  BY <1>1, <1>3 DEF Passed
<1>9. InOrder(next)
  BY <1>1, <1>7, <1>8 DEF InOrder, IsRow
<1> QED BY <1>1, <1>5, <1>6, <1>7, <1>9

LEMMA SentRow ==
  ASSUME NEW h, NEW it, IsRow(h, it), InOrder(it), NEW S, S \subseteq Ready(it),
         \A p \in h.do : \A j \in DOMAIN p : p[j].after \subseteq DOMAIN p,
         NEW next, DOMAIN next = Fields, next.node = it.node, next.plan = it.plan,
         next.state = [j \in DOMAIN it.state |-> IF j \in S THEN "sent" ELSE it.state[j]],
         next.carried \in [DOMAIN it.plan -> Nodes \cup {NoNode}]
  PROVE  IsRow(h, next) /\ InOrder(next) /\ Later(it, next)
<1>1. DOMAIN it.state = DOMAIN it.plan /\ \A j \in DOMAIN it.plan : it.state[j] \in Progress
  BY DEF IsRow
<1>2. \A j \in S : j \in DOMAIN it.plan /\ it.state[j] = "unsent" /\ \A k \in it.plan[j].after : Passed(it, k)
  BY DEF Ready
<1>3. \A j \in DOMAIN it.plan : next.state[j] = IF j \in S THEN "sent" ELSE it.state[j]
  BY <1>1
<1>4. IsRow(h, next)
  BY <1>1 DEF IsRow, Progress
<1>5. Later(it, next)
  BY <1>2, <1>3 DEF Later
<1>6. \A k \in DOMAIN it.plan : Passed(it, k) => Passed(next, k)
  BY <1>2, <1>3 DEF Passed
<1>7. \A j \in DOMAIN it.plan : it.plan[j].after \subseteq DOMAIN it.plan
  BY DEF IsRow
<1>8. ASSUME NEW j \in DOMAIN next.plan, next.state[j] # "unsent", NEW k \in next.plan[j].after
      PROVE  Passed(next, k)
  <2>1. Passed(it, k)
    BY <1>2, <1>3, <1>8 DEF InOrder
  <2> QED BY <1>6, <1>7, <1>8, <2>1
<1> QED BY <1>4, <1>5, <1>8 DEF InOrder

(* The queue of nodes: what is taken, what is left and what is remembered. *)
OneOf(x, q) == \E k \in DOMAIN q : x = q[k]
Within(a, q) == \A m \in DOMAIN a : OneOf(a[m], q)
LEMMA TakenIs ==
  ASSUME NEW q \in Seq(Nodes), NEW l \in Nodes \cup {NoNode}, NEW n \in Nat \ {0}
  PROVE  /\ Taken(q, l, n) \in Nodes \cup {NoNode}
         /\ q = <<>> => Taken(q, l, n) = l
         /\ q # <<>> => OneOf(Taken(q, l, n), q)
         /\ n <= Len(q) => Taken(q, l, n) = q[n]
<1>1. CASE q = <<>>
  BY <1>1 DEF Taken
<1>2. CASE q # <<>>
  <2>1. Len(q) \in Nat \ {0} /\ DOMAIN q = 1..Len(q)
    BY <1>2
  <2> DEFINE m == IF n <= Len(q) THEN n ELSE Len(q)
  <2>2. m \in DOMAIN q
    BY <2>1
  <2>3. Taken(q, l, n) = q[m]
    BY <1>2 DEF Taken
  <2>4. q[m] \in Nodes
    BY <2>2
  <2> QED BY <1>2, <2>2, <2>3, <2>4 DEF OneOf
<1> QED BY <1>1, <1>2

LEMMA LeftIs ==
  ASSUME NEW q \in Seq(Nodes), NEW l \in Nodes \cup {NoNode}, NEW n \in Nat
  PROVE  /\ Left(q, n) \in Seq(Nodes) /\ Remembered(q, l, n) \in Nodes \cup {NoNode}
         /\ Within(Left(q, n), q)
         /\ q = <<>> => Left(q, n) = <<>> /\ Remembered(q, l, n) = l
         /\ q # <<>> => Left(q, n) # <<>> \/ OneOf(Remembered(q, l, n), q)
<1>0. Len(q) \in Nat /\ DOMAIN q = 1..Len(q)
  OBVIOUS
<1>1. CASE n < Len(q)
  <2>1. Left(q, n) = SubSeq(q, n + 1, Len(q)) /\ Remembered(q, l, n) = l
    BY <1>0, <1>1 DEF Left, Remembered
  <2>2. /\ Left(q, n) \in Seq(Nodes) /\ Len(Left(q, n)) = Len(q) - n
        /\ \A m \in 1..(Len(q) - n) : Left(q, n)[m] = q[n + m]
    <3> DEFINE rest == SubSeq(q, n + 1, Len(q))
    <3>1. n + 1 \in Int /\ Len(q) \in Int /\ n + 1 <= Len(q)
      BY <1>0, <1>1
    <3>2. \A m \in (n + 1)..Len(q) : q[m] \in Nodes
      BY <1>0
    <3>3. /\ rest \in Seq(Nodes)
          /\ Len(rest) = IF n + 1 <= Len(q) THEN Len(q) - (n + 1) + 1 ELSE 0
          /\ \A m \in 1..(Len(q) - (n + 1) + 1) : rest[m] = q[n + 1 + m - 1]
      BY <3>1, <3>2, SubSeqProperties
    <3> HIDE DEF rest
    <3>4. Len(q) - (n + 1) + 1 = Len(q) - n /\ \A m \in Int : n + 1 + m - 1 = n + m
      BY <1>0
    <3>5. /\ rest \in Seq(Nodes) /\ Len(rest) = Len(q) - n
          /\ \A m \in 1..(Len(q) - n) : rest[m] = q[n + m]
      BY <3>1, <3>3, <3>4
    <3> QED BY <2>1, <3>5 DEF rest
  <2>3. DOMAIN Left(q, n) = 1..(Len(q) - n) /\ Left(q, n) # <<>>
    BY <1>0, <1>1, <2>2
  <2>4. \A m \in DOMAIN Left(q, n) : n + m \in DOMAIN q /\ Left(q, n)[m] = q[n + m]
    BY <1>0, <1>1, <2>2, <2>3
  <2>5. Left(q, n) \in Seq(Nodes) /\ Remembered(q, l, n) \in Nodes \cup {NoNode} /\ q # <<>>
    <3>1. q # <<>>
      BY <1>0, <1>1
    <3> QED BY <2>1, <2>2, <3>1
  <2> QED BY <2>3, <2>4, <2>5 DEF OneOf, Within
<1>2. CASE ~(n < Len(q))
  <2>1. Left(q, n) = <<>>
    BY <1>2 DEF Left
  <2>2. CASE q = <<>>
    BY <1>0, <1>2, <2>1, <2>2 DEF Remembered, Within
  <2>3. CASE q # <<>>
    <3>1. Remembered(q, l, n) = q[Len(q)] /\ Len(q) \in DOMAIN q /\ q[Len(q)] \in Nodes
      BY <1>0, <1>2, <2>3 DEF Remembered
    <3> QED BY <2>1, <2>3, <3>1 DEF OneOf, Within
  <2> QED BY <2>2, <2>3
<1> QED BY <1>1, <1>2

(* What is sent is finite, so each request of it has its place.            *)
AreReady(its, new) == new \subseteq UNION {{i} \X Ready(its[i]) : i \in DOMAIN its}
LEMMA ReadyIs ==
  ASSUME NEW its, NEW new, AreReady(its, new)
  PROVE  \A x \in new : /\ x = <<x[1], x[2]>> /\ x[1] \in DOMAIN its
                        /\ x[2] \in Ready(its[x[1]]) /\ x[2] \in DOMAIN its[x[1]].plan
BY DEF AreReady, Ready

LEMMA PagesAre ==
  ASSUME NEW h \in Table
  PROVE  /\ h \in Page /\ NoHandler \notin Page
         /\ h.do \subseteq Seq(Request)
         /\ \A p \in h.do : \A j \in DOMAIN p : p[j].after \subseteq DOMAIN p
BY TableIsTyped DEF Page

LEMMA PlacesAre ==
  ASSUME NEW h \in Table, NEW its, AreRows(h, its), NEW new, AreReady(its, new)
  PROVE  /\ IsFiniteSet(new) /\ Cardinality(ForAgents(its, new)) \in Nat
         /\ \A x \in new : Place(its, new, x) \in Nat \ {0}
<1>1. PICK n \in Nat : DOMAIN its = 1..n
  BY DEF AreRows
<1> DEFINE Part(i) == {i} \X DOMAIN its[i].plan
           f == [i \in 1..n |-> Part(i)]
           Parts == {Part(i) : i \in 1..n}
<1>2. f \in Surjection(1..n, Parts)
  BY DEF Surjection
<1>3. IsFiniteSet(Parts)
  BY <1>2, FS_Interval, FS_Surjection
<1>4. ASSUME NEW i \in 1..n PROVE IsFiniteSet(Part(i))
  <2>1. its[i].plan \in Seq(Request)
    BY <1>1, PagesAre DEF AreRows, IsRow
  <2>2. DOMAIN its[i].plan = 1..Len(its[i].plan) /\ Len(its[i].plan) \in Nat
    BY <2>1
  <2>3. IsFiniteSet({i}) /\ IsFiniteSet(DOMAIN its[i].plan)
    <3>1. IsFiniteSet(1..Len(its[i].plan))
      BY <2>2, FS_Interval
    <3> QED BY <2>2, <3>1, FS_Singleton
  <2> QED BY <2>3, FS_Product
<1>5. IsFiniteSet(UNION Parts)
  BY <1>3, <1>4, FS_UNION
<1>6. new \subseteq UNION Parts
  BY <1>1, ReadyIs
<1>7. IsFiniteSet(new)
  BY <1>5, <1>6, FS_Subset
<1>8. \A S \in SUBSET new : Cardinality(S) \in Nat
  BY <1>7, FS_Subset, FS_CardinalityType
<1>9. ForAgents(its, new) \in SUBSET new
  BY DEF ForAgents
<1>10. ASSUME NEW x \in new PROVE Place(its, new, x) \in Nat \ {0}
  <2>1. {y \in ForAgents(its, new) : Before(y, x)} \in SUBSET new
    BY <1>9
  <2> QED BY <1>8, <2>1 DEF Place
<1> QED BY <1>7, <1>8, <1>9, <1>10

(* The effect of sending, with the queue that is taken from.               *)
Queued(its, new, named) == named \o NamedOnTheWay(its, new)
CarriedBy(its, new, named, l, i) ==
  [j \in DOMAIN its[i].carried |->
    IF <<i, j>> \in ForAgents(its, new)
      THEN Taken(Queued(its, new, named), l, Place(its, new, <<i, j>>)) ELSE its[i].carried[j]]
SentBy(its, new, i) ==
  [j \in DOMAIN its[i].state |->
    IF j \in {k \in DOMAIN its[i].state : <<i, k>> \in new} THEN "sent" ELSE its[i].state[j]]
LEMMA SendIs ==
  ASSUME NEW its, NEW new, NEW named, NEW l, Send(its, new, named, l),
         \A i \in DOMAIN its : DOMAIN its[i] = Fields
  PROVE  /\ DOMAIN items' = DOMAIN its
         /\ \A i \in DOMAIN its :
              /\ DOMAIN items'[i] = Fields
              /\ items'[i].node = its[i].node /\ items'[i].plan = its[i].plan
              /\ items'[i].state = SentBy(its, new, i)
              /\ items'[i].carried = CarriedBy(its, new, named, l, i)
         /\ queue' = Left(Queued(its, new, named), Cardinality(ForAgents(its, new)))
         /\ last' = Remembered(Queued(its, new, named), l, Cardinality(ForAgents(its, new)))
<1>1. items' = [i \in DOMAIN its |->
           [its[i] EXCEPT
             !.state = [j \in DOMAIN @ |-> IF <<i, j>> \in new THEN "sent" ELSE @[j]],
             !.carried = [j \in DOMAIN @ |->
               IF <<i, j>> \in ForAgents(its, new)
                 THEN Taken(Queued(its, new, named), l, Place(its, new, <<i, j>>)) ELSE @[j]]]]
  BY DEF Send, Queued
<1>2. ASSUME NEW i \in DOMAIN its
      PROVE  /\ DOMAIN items'[i] = Fields
             /\ items'[i].node = its[i].node /\ items'[i].plan = its[i].plan
             /\ items'[i].state = [j \in DOMAIN its[i].state |-> IF <<i, j>> \in new THEN "sent" ELSE its[i].state[j]]
             /\ items'[i].carried = CarriedBy(its, new, named, l, i)
  BY <1>1, <1>2 DEF Fields, CarriedBy
<1>3. /\ queue' = Left(Queued(its, new, named), Cardinality(ForAgents(its, new)))
      /\ last' = Remembered(Queued(its, new, named), l, Cardinality(ForAgents(its, new)))
  BY DEF Send, Queued
<1>4. ASSUME NEW i \in DOMAIN its
      PROVE  items'[i].state = SentBy(its, new, i)
  BY <1>2 DEF SentBy
<1> QED BY <1>1, <1>2, <1>3, <1>4

(* What is named on the way is the node of a row.                          *)
LEMMA NodesAre ==
  ASSUME NEW h \in Table, NEW its, AreRows(h, its)
  PROVE  \A i \in DOMAIN its :
           /\ its[i].node \in Nodes \cup {NoNode}
           /\ h.node \/ h.at \in NodeRoutes \/ (\E j \in DOMAIN its[i].plan : its[i].plan[j].names)
                => its[i].node \in Nodes
<1>1. SUFFICES ASSUME NEW i \in DOMAIN its
               PROVE  /\ its[i].node \in Nodes \cup {NoNode}
                      /\ h.node \/ h.at \in NodeRoutes
                           \/ (\E j \in DOMAIN its[i].plan : its[i].plan[j].names)
                           => its[i].node \in Nodes
  OBVIOUS
<1>2. its[i].node \in NodesOf(h) /\ its[i].plan \in h.do
  BY DEF AreRows, IsRow
<1> QED BY <1>2 DEF NodesOf

LEMMA NamedIs ==
  ASSUME NEW h \in Table, NEW its, AreRows(h, its), NEW new, AreReady(its, new)
  PROVE  /\ NamedOnTheWay(its, new) \in Seq(Nodes)
         /\ \A m \in DOMAIN NamedOnTheWay(its, new) :
              \E i \in DOMAIN its : NamedOnTheWay(its, new)[m] = its[i].node
         /\ (\E x \in new : its[x[1]].plan[x[2]].names) => NamedOnTheWay(its, new) # <<>>
         /\ (\A x \in new : ~its[x[1]].plan[x[2]].names) => NamedOnTheWay(its, new) = <<>>
<1> DEFINE naming == {x \in new : its[x[1]].plan[x[2]].names}
           first == CHOOSE x \in naming : TRUE
<1>1. CASE naming = {}
  <2>1. NamedOnTheWay(its, new) = <<>>
    BY <1>1 DEF NamedOnTheWay
  <2> QED BY <1>1, <2>1
<1>2. CASE naming # {}
  <2>1. first \in naming
    BY <1>2
  <2>2. NamedOnTheWay(its, new) = <<its[first[1]].node>>
    BY <1>2 DEF NamedOnTheWay
  <2> HIDE DEF first
  <2>3. /\ first[1] \in DOMAIN its /\ first[2] \in DOMAIN its[first[1]].plan
        /\ its[first[1]].plan[first[2]].names
    BY <2>1, ReadyIs
  <2>4. first[1] \in DOMAIN its /\ its[first[1]].node \in Nodes
    BY <2>3, NodesAre
  <2>5. NamedOnTheWay(its, new) \in Seq(Nodes)
    BY <2>2, <2>4
  <2>6. DOMAIN NamedOnTheWay(its, new) = {1} /\ NamedOnTheWay(its, new)[1] = its[first[1]].node
    BY <2>2
  <2>7. NamedOnTheWay(its, new) # <<>>
    BY <2>2
  <2>8. \A m \in DOMAIN NamedOnTheWay(its, new) :
          \E i \in DOMAIN its : NamedOnTheWay(its, new)[m] = its[i].node
    BY <2>4, <2>6
  <2> QED BY <1>2, <2>5, <2>7, <2>8
<1> QED BY <1>1, <1>2

LEMMA QueuedIs ==
  ASSUME NEW h \in Table, NEW its, AreRows(h, its), NEW new, AreReady(its, new),
         NEW named \in Seq(Nodes)
  PROVE  /\ Queued(its, new, named) \in Seq(Nodes)
         /\ \A m \in DOMAIN Queued(its, new, named) :
              \/ \E k \in DOMAIN named : Queued(its, new, named)[m] = named[k]
              \/ \E i \in DOMAIN its : Queued(its, new, named)[m] = its[i].node
         /\ named # <<>> \/ (\E x \in new : its[x[1]].plan[x[2]].names)
              => Queued(its, new, named) # <<>>
         /\ (\A x \in new : ~its[x[1]].plan[x[2]].names) => Queued(its, new, named) = named
<1> DEFINE more == NamedOnTheWay(its, new)
           q == named \o more
<1>1. more \in Seq(Nodes)
  BY NamedIs
<1>2. q \in Seq(Nodes) /\ Len(q) = Len(named) + Len(more)
  BY <1>1
<1>3. \A m \in 1..Len(q) : q[m] = IF m <= Len(named) THEN named[m] ELSE more[m - Len(named)]
  BY <1>1
<1>4. ASSUME NEW m \in DOMAIN q
      PROVE  (\E k \in DOMAIN named : q[m] = named[k]) \/ (\E i \in DOMAIN its : q[m] = its[i].node)
  <2>1. m \in 1..Len(q) /\ Len(named) \in Nat /\ Len(more) \in Nat
    BY <1>1, <1>2
  <2>2. CASE m <= Len(named)
    BY <1>3, <2>1, <2>2
  <2>3. CASE ~(m <= Len(named))
    <3>1. m - Len(named) \in 1..Len(more)
      BY <1>2, <2>1, <2>3
    <3>2. m - Len(named) \in DOMAIN more
      BY <1>1, <3>1
    <3>3. \E i \in DOMAIN its : more[m - Len(named)] = its[i].node
      BY <3>2, NamedIs
    <3> QED BY <1>3, <2>1, <2>3, <3>3
  <2> QED BY <2>2, <2>3
<1>5. named # <<>> \/ more # <<>> => q # <<>>
  BY <1>1, <1>2
<1>6. more = <<>> => q = named
  BY <1>1
<1> QED BY <1>2, <1>4, <1>5, <1>6, NamedIs DEF Queued

(* Sending keeps what rows are.                                            *)
LEMMA SendStep ==
  ASSUME NEW h \in Table, NEW its, AreRows(h, its), NEW new, AreReady(its, new),
         NEW named \in Seq(Nodes), NEW l \in Nodes \cup {NoNode}, Send(its, new, named, l)
  PROVE  /\ AreRows(h, items') /\ DOMAIN items' = DOMAIN its
         /\ \A i \in DOMAIN its : Later(its[i], items'[i])
         /\ queue' \in Seq(Nodes) /\ last' \in Nodes \cup {NoNode}
<1>1. \A i \in DOMAIN its : DOMAIN its[i] = Fields
  BY DEF AreRows, IsRow
<1> DEFINE q == Queued(its, new, named)
<1>2. q \in Seq(Nodes)
  BY QueuedIs
<1>3. Cardinality(ForAgents(its, new)) \in Nat /\ \A x \in new : Place(its, new, x) \in Nat \ {0}
  BY PlacesAre
<1> HIDE DEF q
<1>4. queue' = Left(q, Cardinality(ForAgents(its, new)))
      /\ last' = Remembered(q, l, Cardinality(ForAgents(its, new)))
  BY <1>1, SendIs DEF q
<1>5. queue' \in Seq(Nodes) /\ last' \in Nodes \cup {NoNode}
  BY <1>2, <1>3, <1>4, LeftIs
<1>6. ASSUME NEW i \in DOMAIN its
      PROVE  IsRow(h, items'[i]) /\ InOrder(items'[i]) /\ Later(its[i], items'[i])
  <2> DEFINE S == {k \in DOMAIN its[i].state : <<i, k>> \in new}
  <2>1. IsRow(h, its[i]) /\ InOrder(its[i])
    BY DEF AreRows
  <2>2. S \subseteq Ready(its[i])
    BY ReadyIs
  <2>3. \A x \in new : Taken(q, l, Place(its, new, x)) \in Nodes \cup {NoNode}
    BY <1>2, <1>3, TakenIs
  <2>4. ForAgents(its, new) \subseteq new
    BY DEF ForAgents
  <2>5. CarriedBy(its, new, named, l, i) \in [DOMAIN its[i].plan -> Nodes \cup {NoNode}]
    <3>1. DOMAIN its[i].carried = DOMAIN its[i].plan
          /\ \A j \in DOMAIN its[i].plan : its[i].carried[j] \in Nodes \cup {NoNode}
      BY <2>1 DEF IsRow
    <3> QED BY <2>3, <2>4, <3>1 DEF CarriedBy, q
  <2>6. /\ DOMAIN items'[i] = Fields /\ items'[i].node = its[i].node /\ items'[i].plan = its[i].plan
        /\ items'[i].state =
             [j \in DOMAIN its[i].state |-> IF j \in S THEN "sent" ELSE its[i].state[j]]
        /\ items'[i].carried = CarriedBy(its, new, named, l, i)
    BY <1>1, SendIs DEF SentBy
  <2>7. items'[i].carried \in [DOMAIN its[i].plan -> Nodes \cup {NoNode}]
    BY <2>5, <2>6
  <2>8. \A p \in h.do : \A j \in DOMAIN p : p[j].after \subseteq DOMAIN p
    BY PagesAre
  <2> HIDE DEF S
  <2> QED BY <2>1, <2>2, <2>6, <2>7, <2>8, SentRow, ZenonT(60)
<1>7. DOMAIN items' = DOMAIN its
  BY <1>1, SendIs
<1>8. AreRows(h, items')
  BY <1>6, <1>7 DEF AreRows
<1> QED BY <1>5, <1>6, <1>7, <1>8

(* Nor does it break what is known of the nodes that are named: for a      *)
(* selection whose requests for agents have all been sent, ...             *)
LEMMA EachKept ==
  ASSUME NEW h \in Table, NEW its, AreRows(h, its), NEW new, AreReady(its, new), EachReached(its),
         NEW named, NEW l, Send(its, new, named, l)
  PROVE  EachReached(items')
<1>1. \A i \in DOMAIN its : DOMAIN its[i] = Fields
  BY DEF AreRows, IsRow
<1>2. SUFFICES ASSUME NEW i \in DOMAIN its, NEW j \in DOMAIN its[i].plan, its[i].plan[j].agent
               PROVE  items'[i].state[j] # "unsent" /\ items'[i].carried[j] = its[i].node
  <2>1. \A i \in DOMAIN its : items'[i].plan = its[i].plan /\ items'[i].node = its[i].node
    BY <1>1, SendIs
  <2>2. DOMAIN items' = DOMAIN its
    BY <1>1, SendIs
  <2> QED BY <2>1, <2>2 DEF EachReached
<1>3. its[i].state[j] # "unsent" /\ its[i].carried[j] = its[i].node
  BY <1>2 DEF EachReached
<1>4. <<i, j>> \notin new
  <2> SUFFICES ASSUME <<i, j>> \in new PROVE FALSE
    OBVIOUS
  <2>1. j \in Ready(its[i])
    BY ReadyIs
  <2> QED BY <1>3, <2>1 DEF Ready
<1>5. <<i, j>> \notin ForAgents(its, new)
  BY <1>4 DEF ForAgents
<1>6. DOMAIN its[i].carried = DOMAIN its[i].plan /\ DOMAIN its[i].state = DOMAIN its[i].plan
  BY DEF AreRows, IsRow
<1>7. items'[i].carried[j] = its[i].carried[j]
  <2>1. items'[i].carried = CarriedBy(its, new, named, l, i)
    BY <1>1, SendIs
  <2> QED BY <1>5, <1>6, <2>1 DEF CarriedBy
<1>8. items'[i].state[j] = its[i].state[j]
  <2>1. items'[i].state = SentBy(its, new, i)
    BY <1>1, SendIs
  <2> QED BY <1>4, <1>6, <2>1 DEF SentBy
<1> QED BY <1>3, <1>7, <1>8

(* ... and for a single row.                                               *)
LEMMA OneNameSent ==
  ASSUME NEW h \in Table, NEW its, AreRows(h, its), ~h.many, NEW new, AreReady(its, new),
         NEW named \in Seq(Nodes), NEW l \in Nodes \cup {NoNode}, OneName(h, its[1], named, l),
         Send(its, new, named, l)
  PROVE  OneName(h, items'[1], queue', last')
<1>1. \A i \in DOMAIN its : DOMAIN its[i] = Fields
  BY DEF AreRows, IsRow
<1>2. DOMAIN its = {1}
  BY DEF AreRows
<1> DEFINE q == Queued(its, new, named)
           n == Cardinality(ForAgents(its, new))
           node == its[1].node
<1>3. q \in Seq(Nodes) /\ \A m \in DOMAIN q : q[m] = node
  BY <1>2, QueuedIs DEF OneName
<1>4. /\ named # <<>> \/ (\E x \in new : its[x[1]].plan[x[2]].names) => q # <<>>
      /\ h.node \/ h.at \in NodeRoutes => q # <<>> \/ l = node
  BY QueuedIs DEF OneName
<1>5. n \in Nat /\ \A x \in new : Place(its, new, x) \in Nat \ {0}
  BY PlacesAre
<1>6. /\ queue' = Left(q, n) /\ last' = Remembered(q, l, n)
      /\ items'[1].node = node /\ items'[1].plan = its[1].plan
      /\ items'[1].carried = CarriedBy(its, new, named, l, 1)
      /\ items'[1].state = SentBy(its, new, 1)
  BY <1>1, <1>2, SendIs
<1>7. ASSUME NEW j \in DOMAIN its[1].plan, items'[1].state[j] # "unsent", MeansNode(h, its[1].plan[j])
      PROVE  items'[1].carried[j] = node
  <2>1. DOMAIN its[1].carried = DOMAIN its[1].plan /\ DOMAIN its[1].state = DOMAIN its[1].plan
    BY <1>2 DEF AreRows, IsRow
  <2>2. CASE <<1, j>> \in new
    <3>1. <<1, j>>[1] = 1 /\ <<1, j>>[2] = j
      OBVIOUS
    <3>2. <<1, j>> \in ForAgents(its, new)
      BY <1>7, <2>2, <3>1 DEF ForAgents, MeansNode
    <3>3. items'[1].carried[j] = Taken(q, l, Place(its, new, <<1, j>>))
      BY <1>6, <2>1, <3>2 DEF CarriedBy
    <3>4. Place(its, new, <<1, j>>) \in Nat \ {0}
      BY <1>5, <2>2
    <3>5. q # <<>> \/ l = node
      <4> HIDE DEF q, node
      <4>1. CASE its[1].plan[j].names
        BY <1>4, <2>2, <3>1, <4>1
      <4>2. CASE ~its[1].plan[j].names
        BY <1>4, <1>7, <4>2 DEF MeansNode
      <4> QED BY <4>1, <4>2
    <3> DEFINE place == Place(its, new, <<1, j>>)
    <3> HIDE DEF q, node, place
    <3>6. q \in Seq(Nodes) /\ \A m \in DOMAIN q : q[m] = node
      BY <1>3
    <3>7. place \in Nat \ {0} /\ items'[1].carried[j] = Taken(q, l, place)
      BY <3>3, <3>4 DEF place
    <3>8. /\ q = <<>> => Taken(q, l, place) = l
          /\ q # <<>> => OneOf(Taken(q, l, place), q)
      BY <3>6, <3>7, TakenIs
    <3> QED BY <3>5, <3>6, <3>7, <3>8 DEF OneOf
  <2>3. CASE <<1, j>> \notin new
    <3>1. <<1, j>> \notin ForAgents(its, new)
      BY <2>3 DEF ForAgents
    <3>2. items'[1].carried[j] = its[1].carried[j]
      BY <1>6, <2>1, <3>1 DEF CarriedBy
    <3>3. items'[1].state[j] = its[1].state[j]
      BY <1>6, <2>1, <2>3 DEF SentBy
    <3> QED BY <1>7, <3>2, <3>3 DEF OneName
  <2> QED BY <2>2, <2>3
<1> HIDE DEF q, n, node
<1>8. /\ Within(Left(q, n), q)
      /\ q = <<>> => Left(q, n) = <<>> /\ Remembered(q, l, n) = l
      /\ q # <<>> => Left(q, n) # <<>> \/ OneOf(Remembered(q, l, n), q)
  BY <1>3, <1>5, LeftIs
<1>9. \A m \in DOMAIN queue' : queue'[m] = node
  BY <1>3, <1>6, <1>8 DEF OneOf, Within
<1>10. h.node \/ h.at \in NodeRoutes => queue' # <<>> \/ last' = node
  BY <1>3, <1>4, <1>6, <1>8 DEF OneOf
<1> QED BY <1>6, <1>7, <1>9, <1>10 DEF OneName, node

(* The handler that runs is that of the table but for its plans, and what  *)
(* becomes of its button and its page follows from outcomes that stay.     *)
SameEnds(g, h) ==
  g.at = h.at /\ g.next = h.next /\ g.retreat = h.retreat /\ g.leaves = h.leaves /\ g.frees = h.frees
  /\ g.late = h.late
LEMMA HandlerIs ==
  ASSUME NEW h \in Table, NEW g, g = [h EXCEPT !.do = Nothing]
  PROVE  /\ SameEnds(g, h) /\ g.praises = h.praises /\ g.node = h.node
         /\ g \in Page /\ g # NoHandler
<1>1. h \in Page /\ NoHandler \notin Page
  BY PagesAre
<1>2. Nothing \in SUBSET Seq(Request)
  BY DEF Nothing
<1>3. g \in Page
  BY <1>1, <1>2 DEF Page
<1> QED BY <1>1, <1>3 DEF Page, SameEnds

LEMMA SettleIs ==
  ASSUME NEW h \in Table, NEW g, SameEnds(g, h), NEW its, NEW isBusy \in BOOLEAN,
         where \in {"here", "left", "wandered"}, Settle(g, its, isBusy),
         h.busy /\ ~isBusy => Ended(its), where = "left" => Gone(h, its)
  PROVE  /\ busy' \in BOOLEAN /\ where' \in {"here", "left", "wandered"}
         /\ where' # "wandered" => where # "wandered"
         /\ h.busy /\ ~busy' => Ended(its)
         /\ where' = "left" => Gone(h, its)
<1>1. /\ busy' = ((isBusy \/ Rises(g, its)) /\ Outcomes(its) \cap g.frees = {})
      /\ where' = IF where = "here" /\ Gone(g, its) THEN "left" ELSE where
  BY DEF Settle, Gone
<1>2. Gone(g, its) <=> Gone(h, its)
  BY DEF Gone, Leaves, SameEnds
<1>3. g.frees \subseteq {"success", "error"}
  BY PagesAre DEF SameEnds, Page
<1>4. Outcomes(its) \cap g.frees # {} => Ended(its)
  BY <1>3 DEF Outcomes, Ended
<1> QED BY <1>1, <1>2, <1>4

(* An answer.                                                              *)
LEMMA AnswerStep ==
  ASSUME NEW h \in Table, Running(h), NEW i \in DOMAIN items, NEW result,
         \A j \in DOMAIN result : j \in Outstanding(i) /\ result[j] \in {"ok", "failed", "refused"},
         Answered(i, result)
  PROVE  Running(h)'
<1> DEFINE its == [items EXCEPT ![i].state =
                     [j \in DOMAIN @ |-> IF j \in DOMAIN result THEN result[j] ELSE @[j]]]
           new == {i} \X Ready(its[i])
<1>1. AreRows(h, items) /\ SameEnds(handler, h)
  BY HandlerIs DEF Running
<1>2. /\ Send(its, new, queue, last) /\ Settle(handler, its, busy) /\ handler' = handler
  BY DEF Answered
<1>3. /\ DOMAIN its = DOMAIN items /\ \A k \in DOMAIN items \ {i} : its[k] = items[k]
      /\ its[i] = [items[i] EXCEPT !.state =
                    [j \in DOMAIN @ |-> IF j \in DOMAIN result THEN result[j] ELSE @[j]]]
  <2>1. its = [k \in DOMAIN items |-> IF k = i THEN [items[i] EXCEPT !.state =
                    [j \in DOMAIN @ |-> IF j \in DOMAIN result THEN result[j] ELSE @[j]]] ELSE items[k]]
    BY Zenon
  <2> QED BY <2>1
<1> HIDE DEF its
<1>4. /\ IsRow(h, its[i]) /\ InOrder(its[i]) /\ Later(items[i], its[i])
      /\ its[i].node = items[i].node /\ its[i].plan = items[i].plan
      /\ its[i].carried = items[i].carried
      /\ \A j \in DOMAIN items[i].plan : its[i].state[j] = "unsent" <=> items[i].state[j] = "unsent"
  <2>1. IsRow(h, items[i]) /\ InOrder(items[i])
    BY <1>1 DEF AreRows
  <2>2. \A j \in DOMAIN result : j \in DOMAIN items[i].plan /\ items[i].state[j] = "sent"
                                 /\ result[j] \in {"ok", "failed", "refused"}
    BY DEF Outstanding
  <2>3. \A p \in h.do : \A j \in DOMAIN p : p[j].after \subseteq DOMAIN p
    BY PagesAre
  <2>4. /\ DOMAIN its[i] = Fields /\ its[i].node = items[i].node /\ its[i].plan = items[i].plan
        /\ its[i].carried = items[i].carried /\ its[i].state = AnsweredBy(items[i], result)
    BY <1>3, <2>1 DEF IsRow, Fields, AnsweredBy
  <2> QED BY <2>1, <2>2, <2>3, <2>4, AnsweredRow
<1>5. \A k \in DOMAIN items :
        /\ IsRow(h, its[k]) /\ InOrder(its[k]) /\ Later(items[k], its[k])
        /\ its[k].node = items[k].node /\ its[k].plan = items[k].plan
        /\ its[k].carried = items[k].carried
        /\ \A j \in DOMAIN items[k].plan : its[k].state[j] = "unsent" <=> items[k].state[j] = "unsent"
  BY <1>1, <1>3, <1>4 DEF AreRows, Later
<1>6. AreRows(h, its)
  BY <1>1, <1>3, <1>5 DEF AreRows
<1>7. AreReady(its, new)
  BY <1>3 DEF AreReady
<1> HIDE DEF new
<1>8. /\ queue \in Seq(Nodes) /\ last \in Nodes \cup {NoNode}
      /\ busy \in BOOLEAN /\ where \in {"here", "left", "wandered"}
  BY DEF Running
<1>9. /\ AreRows(h, items') /\ DOMAIN items' = DOMAIN its
      /\ \A k \in DOMAIN its : Later(its[k], items'[k])
      /\ queue' \in Seq(Nodes) /\ last' \in Nodes \cup {NoNode}
  BY <1>2, <1>6, <1>7, <1>8, SendStep
<1>10. (h.busy /\ ~busy => Ended(its)) /\ (where = "left" => Gone(h, its))
  BY <1>3, <1>5, EndsStay DEF Running
<1>11. /\ busy' \in BOOLEAN /\ where' \in {"here", "left", "wandered"}
       /\ where' # "wandered" => where # "wandered"
       /\ h.busy /\ ~busy' => Ended(its)
       /\ where' = "left" => Gone(h, its)
  BY <1>1, <1>2, <1>8, <1>10, SettleIs
<1>12. (h.busy /\ ~busy' => Ended(items')) /\ (where' = "left" => Gone(h, items'))
  BY <1>9, <1>11, EndsStay
<1>13. Reached(h, items', where', queue', last')
  <2>1. CASE h.many
    <3>1. SUFFICES ASSUME h.node PROVE EachReached(items')
      BY <2>1 DEF Reached
    <3>2. EachReached(items)
      BY <2>1, <3>1 DEF Running, Reached
    <3>3. EachReached(its)
      BY <1>3, <1>5, <3>2 DEF EachReached
    <3> QED BY <1>2, <1>6, <1>7, <3>3, EachKept
  <2>2. CASE ~h.many
    <3>1. SUFFICES ASSUME where # "wandered" PROVE OneName(h, items'[1], queue', last')
      BY <1>11, <2>2 DEF Reached
    <3>2. OneName(h, items[1], queue, last)
      BY <2>2, <3>1 DEF Running, Reached
    <3>3. 1 \in DOMAIN items
      BY <1>1, <2>2 DEF AreRows
    <3>4. OneName(h, its[1], queue, last)
      BY <1>5, <3>2, <3>3 DEF OneName
    <3> QED BY <1>2, <1>6, <1>7, <1>8, <2>2, <3>4, OneNameSent
  <2> QED BY <2>1, <2>2
<1> QED BY <1>2, <1>9, <1>11, <1>12, <1>13 DEF Running

LEMMA AnswersStep ==
  ASSUME NEW h \in Table, Running(h), NEW i \in DOMAIN items, AnswerChange(i) \/ AnswerReads(i)
  PROVE  Running(h)'
<1>1. CASE AnswerChange(i)
  <2>1. PICK j \in Outstanding(i), answer \in {"ok", "failed", "refused"} : Answered(i, [k \in {j} |-> answer])
    BY <1>1 DEF AnswerChange, Answers
  <2> DEFINE result == [k \in {j} |-> answer]
  <2>2. \A k \in DOMAIN result : k \in Outstanding(i) /\ result[k] \in {"ok", "failed", "refused"}
    OBVIOUS
  <2>3. Answered(i, result)
    BY <2>1
  <2> HIDE DEF result
  <2> QED BY <2>2, <2>3, AnswerStep
<1>2. CASE AnswerReads(i)
  <2>1. PICK bad : Answered(i, [j \in Reads(i) |-> IF j \in bad THEN "failed" ELSE "ok"])
    BY <1>2 DEF AnswerReads
  <2> DEFINE result == [j \in Reads(i) |-> IF j \in bad THEN "failed" ELSE "ok"]
  <2>2. \A j \in DOMAIN result : j \in Outstanding(i) /\ result[j] \in {"ok", "failed", "refused"}
    BY DEF Reads
  <2>3. Answered(i, result)
    BY <2>1
  <2> HIDE DEF result
  <2> QED BY <2>2, <2>3, AnswerStep
<1> QED BY <1>1, <1>2

(* The handler starts.  Its rows are new, and nothing has been carried.    *)
NewRows(h, n, nodes, plans, its) ==
  /\ DOMAIN its = 1..n
  /\ \A i \in 1..n :
       /\ its[i].node = nodes[i] /\ its[i].plan = plans[i]
       /\ \A j \in DOMAIN plans[i] : its[i].state[j] = "unsent" /\ its[i].carried[j] = NoNode
LEMMA RowsAre ==
  ASSUME NEW h \in Table, NEW n \in Nat \ {0}, ~h.many => n = 1,
         NEW nodes \in [1..n -> NodesOf(h)], NEW plans \in [1..n -> h.do],
         NEW its, its = [i \in 1..n |-> Row(nodes[i], plans[i])]
  PROVE  AreRows(h, its) /\ NewRows(h, n, nodes, plans, its)
<1>1. ASSUME NEW i \in 1..n
      PROVE  /\ IsRow(h, its[i]) /\ InOrder(its[i])
             /\ its[i].node = nodes[i] /\ its[i].plan = plans[i]
             /\ \A j \in DOMAIN plans[i] : its[i].state[j] = "unsent" /\ its[i].carried[j] = NoNode
  <2>1. its[i] = Row(nodes[i], plans[i]) /\ nodes[i] \in NodesOf(h) /\ plans[i] \in h.do
    OBVIOUS
  <2>2. /\ DOMAIN its[i] = Fields /\ its[i].node = nodes[i] /\ its[i].plan = plans[i]
        /\ its[i].state = [j \in DOMAIN plans[i] |-> "unsent"]
        /\ its[i].carried = [j \in DOMAIN plans[i] |-> NoNode]
    BY <2>1 DEF Row, Fields
  <2> QED BY <2>1, <2>2 DEF IsRow, InOrder, Progress
<1>2. DOMAIN its = 1..n
  OBVIOUS
<1> QED BY <1>1, <1>2 DEF AreRows, NewRows

(* The n-th row of a selection gets the n-th name, for each of the rows    *)
(* before it takes one, and none takes two.                                *)
LEMMA PlaceIs ==
  ASSUME NEW n \in Nat, NEW a \in [1..n -> Nat], NEW i \in 1..n
  PROVE  Cardinality({y \in {<<k, a[k]>> : k \in 1..n} : Before(y, <<i, a[i]>>)}) = i - 1
<1> DEFINE T == {y \in {<<k, a[k]>> : k \in 1..n} : Before(y, <<i, a[i]>>)}
           f == [k \in 1..(i - 1) |-> <<k, a[k]>>]
<1>1. \A k \in 1..n : Before(<<k, a[k]>>, <<i, a[i]>>) <=> k < i
  BY DEF Before
<1>2. T = {<<k, a[k]>> : k \in 1..(i - 1)}
  <2>1. ASSUME NEW y \in T PROVE y \in {<<k, a[k]>> : k \in 1..(i - 1)}
    <3>1. PICK k \in 1..n : y = <<k, a[k]>>
      OBVIOUS
    <3>2. Before(<<k, a[k]>>, <<i, a[i]>>)
      BY <3>1
    <3>3. k < i
      BY <1>1, <3>2
    <3>4. k \in 1..(i - 1)
      BY <3>3
    <3> QED BY <3>1, <3>4
  <2>2. ASSUME NEW k \in 1..(i - 1) PROVE <<k, a[k]>> \in T
    <3>1. k \in 1..n /\ k < i
      OBVIOUS
    <3> QED BY <1>1, <3>1
  <2> QED BY <2>1, <2>2
<1> HIDE DEF T
<1>3. f \in Surjection(1..(i - 1), T) /\ f \in Injection(1..(i - 1), T)
  <2>1. DOMAIN f = 1..(i - 1) /\ \A k \in 1..(i - 1) : f[k] = <<k, a[k]>>
    OBVIOUS
  <2>2. f \in [1..(i - 1) -> T]
    BY <1>2
  <2> HIDE DEF f
  <2>3. \A t \in T : \E k \in 1..(i - 1) : f[k] = t
    BY <1>2, <2>1
  <2>4. \A k, m \in 1..(i - 1) : f[k] = f[m] => k = m
    BY <2>1
  <2> QED BY <2>1, <2>2, <2>3, <2>4 DEF Surjection, Injection, IsInjective
<1>4. IsFiniteSet(1..(i - 1)) /\ Cardinality(1..(i - 1)) = i - 1
  <2>1. IsFiniteSet(1..(i - 1)) /\ Cardinality(1..(i - 1)) = IF 1 > i - 1 THEN 0 ELSE i - 1 - 1 + 1
    BY FS_Interval
  <2> QED BY <2>1
<1> HIDE DEF f
<1>5. Cardinality(T) = i - 1
  BY <1>3, <1>4, FS_Surjection
<1> QED BY <1>5 DEF T

LEMMA EachStarts ==
  ASSUME NEW h \in Table, h.many, h.node, NEW n \in Nat \ {0},
         NEW nodes \in [1..n -> NodesOf(h)], NEW plans \in [1..n -> h.do],
         NEW its, AreRows(h, its), NewRows(h, n, nodes, plans, its),
         NEW new, new = UNION {{i} \X Ready(its[i]) : i \in 1..n},
         NEW l \in Nodes \cup {NoNode}, Send(its, new, nodes, l)
  PROVE  EachReached(items')
<1>1. /\ DOMAIN its = 1..n /\ \A i \in DOMAIN its : DOMAIN its[i] = Fields
      /\ \A i \in DOMAIN its : its[i].plan \in h.do
  BY DEF NewRows, AreRows, IsRow
<1>2. AreReady(its, new)
  BY <1>1 DEF AreReady
<1>3. nodes \in Seq(Nodes) /\ Len(nodes) = n
  BY DEF NodesOf
<1> DEFINE Only(p, a) == p[a].after = {} /\ \A j \in DOMAIN p : (p[j].agent <=> j = a) /\ ~p[j].names
           a == [i \in 1..n |-> CHOOSE k \in DOMAIN its[i].plan : Only(its[i].plan, k)]
<1>4. ASSUME NEW i \in 1..n
      PROVE  a[i] \in DOMAIN its[i].plan /\ Only(its[i].plan, a[i]) /\ a[i] \in Nat
  <2>1. its[i].plan \in h.do
    BY <1>1
  <2>2. \E k \in DOMAIN its[i].plan : Only(its[i].plan, k)
    BY <2>1, NodesAreNamed, ZenonT(60)
  <2>3. a[i] = CHOOSE k \in DOMAIN its[i].plan : Only(its[i].plan, k)
    OBVIOUS
  <2>4. a[i] \in DOMAIN its[i].plan /\ Only(its[i].plan, a[i])
    <3> HIDE DEF a, Only
    <3> QED BY <2>2, <2>3
  <2>5. its[i].plan \in Seq(Request)
    BY <2>1, PagesAre
  <2>6. DOMAIN its[i].plan \subseteq Nat
    BY <2>5
  <2> HIDE DEF a, Only
  <2> QED BY <2>4, <2>6
<1>5. a \in [1..n -> Nat]
  <2>1. \A i \in 1..n : a[i] \in Nat
    BY <1>4
  <2> QED BY <2>1
<1> HIDE DEF a
<1>6. \A x \in new : ~its[x[1]].plan[x[2]].names
  BY <1>1, <1>2, <1>4, ReadyIs
<1>7. Queued(its, new, nodes) = nodes
  BY <1>2, <1>3, <1>6, QueuedIs
<1>8. ASSUME NEW i \in 1..n PROVE <<i, a[i]>> \in new
  <2>1. its[i].state[a[i]] = "unsent"
    BY <1>4 DEF NewRows
  <2>2. a[i] \in Ready(its[i])
    BY <1>4, <2>1 DEF Ready
  <2> QED BY <2>2
<1>9. ForAgents(its, new) = {<<k, a[k]>> : k \in 1..n}
  <2>1. ASSUME NEW x \in ForAgents(its, new) PROVE x \in {<<k, a[k]>> : k \in 1..n}
    <3>1. x \in new /\ its[x[1]].plan[x[2]].agent
      BY DEF ForAgents
    <3>2. x = <<x[1], x[2]>> /\ x[1] \in 1..n /\ x[2] \in DOMAIN its[x[1]].plan
      BY <1>1, <1>2, <3>1, ReadyIs
    <3>3. x[2] = a[x[1]]
      BY <1>4, <3>1, <3>2
    <3> QED BY <3>2, <3>3
  <2>2. ASSUME NEW k \in 1..n PROVE <<k, a[k]>> \in ForAgents(its, new)
    BY <1>4, <1>8 DEF ForAgents
  <2> QED BY <2>1, <2>2
<1>10. \A i \in 1..n : Place(its, new, <<i, a[i]>>) = i
  <2> TAKE i \in 1..n
  <2>1. Place(its, new, <<i, a[i]>>)
          = 1 + Cardinality({y \in {<<k, a[k]>> : k \in 1..n} : Before(y, <<i, a[i]>>)})
    BY <1>9 DEF Place
  <2>2. Cardinality({y \in {<<k, a[k]>> : k \in 1..n} : Before(y, <<i, a[i]>>)}) = i - 1
    BY <1>5, PlaceIs
  <2> QED BY <2>1, <2>2
<1>11. ASSUME NEW i \in 1..n, NEW j \in DOMAIN its[i].plan, its[i].plan[j].agent
       PROVE  items'[i].state[j] # "unsent" /\ items'[i].carried[j] = its[i].node
  <2>1. j = a[i] /\ <<i, j>> \in new /\ <<i, j>> \in ForAgents(its, new)
    BY <1>4, <1>8, <1>9, <1>11
  <2>2. j \in DOMAIN its[i].state /\ j \in DOMAIN its[i].carried
    BY <1>1 DEF AreRows, IsRow
  <2>3. items'[i].state = SentBy(its, new, i) /\ items'[i].carried = CarriedBy(its, new, nodes, l, i)
    BY <1>1, SendIs
  <2>4. items'[i].state[j] = "sent"
    BY <2>1, <2>2, <2>3 DEF SentBy
  <2>5. items'[i].carried[j] = Taken(nodes, l, i)
    BY <1>7, <1>10, <2>1, <2>2, <2>3 DEF CarriedBy
  <2>6. i \in Nat \ {0} /\ i <= Len(nodes)
    BY <1>3
  <2>7. Taken(nodes, l, i) = nodes[i]
    <3>1. nodes # <<>>
      BY <1>3, <2>6
    <3> QED BY <2>6, <3>1 DEF Taken
  <2> QED BY <2>4, <2>5, <2>7 DEF NewRows
<1>12. \A i \in DOMAIN its : items'[i].plan = its[i].plan /\ items'[i].node = its[i].node
  BY <1>1, SendIs
<1>13. DOMAIN items' = DOMAIN its
  BY <1>1, SendIs
<1> QED BY <1>1, <1>11, <1>12, <1>13 DEF EachReached

LEMMA RemembersIs ==
  ASSUME NEW h \in Table, ~h.many, NEW node \in NodesOf(h)
  PROVE  /\ h.node \/ h.at \in NodeRoutes => node \in Nodes
         /\ Remembers(h, node) \in Nodes \cup {NoNode}
         /\ ~h.node /\ h.at \in NodeRoutes => Remembers(h, node) = node
<1>1. h.node \/ h.at \in NodeRoutes => node \in Nodes
  BY DEF NodesOf
<1>2. node \in Nodes \cup {NoNode}
  BY DEF NodesOf
<1>3. ~h.node /\ h.at \in NodeRoutes => \E g \in Table : g.at = h.at /\ g.node /\ g # h
  BY NodesAreNamed
<1> QED BY <1>1, <1>2, <1>3 DEF Remembers

LEMMA StartStep ==
  ASSUME NEW h \in Table, Idle, Start(h)
  PROVE  Running(h)'
<1>0. PICK n \in 1..(IF h.many THEN MaxRows ELSE 1) :
        \E nodes \in [1..n -> NodesOf(h)], plans \in [1..n -> h.do] :
          LET its == [i \in 1..n |-> Row(nodes[i], plans[i])]
          IN  /\ handler' = [h EXCEPT !.do = Nothing]
              /\ Send(its, UNION {{i} \X Ready(its[i]) : i \in 1..n},
                      IF h.node THEN nodes ELSE <<>>, Remembers(h, nodes[1]))
              /\ Settle(h, its, h.busy)
  BY DEF Start
<1>1. PICK nodes \in [1..n -> NodesOf(h)], plans \in [1..n -> h.do] :
        LET its == [i \in 1..n |-> Row(nodes[i], plans[i])]
        IN  /\ handler' = [h EXCEPT !.do = Nothing]
            /\ Send(its, UNION {{i} \X Ready(its[i]) : i \in 1..n},
                    IF h.node THEN nodes ELSE <<>>, Remembers(h, nodes[1]))
            /\ Settle(h, its, h.busy)
  BY <1>0
<1> DEFINE its == [i \in 1..n |-> Row(nodes[i], plans[i])]
           new == UNION {{i} \X Ready(its[i]) : i \in 1..n}
           named == IF h.node THEN nodes ELSE <<>>
           l == Remembers(h, nodes[1])
<1>2. n \in Nat \ {0} /\ (~h.many => n = 1)
  BY MaxRowsIsPositive
<1>3. /\ handler' = [h EXCEPT !.do = Nothing] /\ Settle(h, its, h.busy)
      /\ Send(its, new, named, l)
  BY <1>1
<1>4. AreRows(h, its) /\ NewRows(h, n, nodes, plans, its)
  BY <1>2, RowsAre
<1> HIDE DEF its
<1>5. AreReady(its, new)
  BY <1>4 DEF AreReady, NewRows
<1>6. \A i \in 1..n : nodes[i] \in NodesOf(h)
  OBVIOUS
<1>7. named \in Seq(Nodes)
  <2>1. h.node => NodesOf(h) = Nodes
    BY DEF NodesOf
  <2>2. h.node => nodes \in Seq(Nodes)
    BY <1>2, <2>1
  <2> QED BY <2>2
<1>8. l \in Nodes \cup {NoNode}
  <2>1. nodes[1] \in Nodes \cup {NoNode}
    BY <1>2, <1>6 DEF NodesOf
  <2> QED BY <2>1 DEF Remembers
<1> HIDE DEF new, named, l
<1>9. /\ AreRows(h, items') /\ DOMAIN items' = DOMAIN its
      /\ \A k \in DOMAIN its : Later(its[k], items'[k])
      /\ queue' \in Seq(Nodes) /\ last' \in Nodes \cup {NoNode}
  BY <1>3, <1>4, <1>5, <1>7, <1>8, SendStep
<1>10. /\ busy' \in BOOLEAN /\ where' \in {"here", "left", "wandered"}
       /\ h.busy /\ ~busy' => Ended(its)
       /\ where' = "left" => Gone(h, its)
  <2>1. where = "here" /\ where \in {"here", "left", "wandered"}
    BY DEF Idle
  <2>2. h.busy \in BOOLEAN
    BY PagesAre DEF Page
  <2>3. SameEnds(h, h)
    BY DEF SameEnds
  <2>4. (h.busy /\ ~h.busy => Ended(its)) /\ (where = "left" => Gone(h, its))
    BY <2>1
  <2> QED BY <1>3, <2>1, <2>2, <2>3, <2>4, SettleIs
<1>11. (h.busy /\ ~busy' => Ended(items')) /\ (where' = "left" => Gone(h, items'))
  BY <1>9, <1>10, EndsStay
<1>12. Reached(h, items', where', queue', last')
  <2>1. CASE h.many
    <3>1. SUFFICES ASSUME h.node PROVE EachReached(items')
      BY <2>1 DEF Reached
    <3>2. Send(its, new, nodes, l)
      BY <1>3, <3>1 DEF named
    <3> QED BY <1>2, <1>4, <1>8, <2>1, <3>1, <3>2, EachStarts DEF new
  <2>2. CASE ~h.many
    <3>1. n = 1 /\ its[1].node = nodes[1] /\ its[1].plan = plans[1]
          /\ \A j \in DOMAIN its[1].plan : its[1].state[j] = "unsent"
      BY <1>2, <1>4, <2>2 DEF NewRows
    <3>2. \A m \in DOMAIN named : named[m] = its[1].node
      BY <3>1 DEF named
    <3>3. h.node => named # <<>>
      <4>1. DOMAIN nodes = {1}
        BY <3>1
      <4>2. nodes # <<>>
        BY <4>1
      <4> QED BY <4>2 DEF named
    <3>4. ~h.node /\ h.at \in NodeRoutes => l = its[1].node
      BY <1>6, <2>2, <3>1, RemembersIs DEF l
    <3>5. OneName(h, its[1], named, l)
      BY <3>1, <3>2, <3>3, <3>4 DEF OneName
    <3>6. OneName(h, items'[1], queue', last')
      BY <1>3, <1>4, <1>5, <1>7, <1>8, <2>2, <3>5, OneNameSent
    <3> QED BY <2>2, <3>6 DEF Reached
  <2> QED BY <2>1, <2>2
<1> QED BY <1>3, <1>9, <1>10, <1>11, <1>12 DEF Running

LEMMA WanderStep ==
  ASSUME NEW h \in Table, Running(h), Wander
  PROVE  Running(h)'
<1>1. /\ where' = "wandered" /\ handler' = handler /\ items' = items /\ busy' = busy
      /\ queue' \in {<<>>, queue} /\ last' \in {NoNode, last}
  BY DEF Wander
<1>2. queue' \in Seq(Nodes) /\ last' \in Nodes \cup {NoNode}
  <2>1. queue \in Seq(Nodes) /\ <<>> \in Seq(Nodes) /\ last \in Nodes \cup {NoNode}
    BY DEF Running
  <2> QED BY <1>1, <2>1
<1>3. Reached(h, items', where', queue', last')
  BY <1>1 DEF Running, Reached
<1> QED BY <1>1, <1>2, <1>3 DEF Running

(* A handler ends before the next one starts.                              *)
LEMMA FlowInit == Init => FlowInv
BY DEF Init, FlowInv, Idle

LEMMA FlowStep == FlowInv /\ [Next]_vars => FlowInv'
<1> SUFFICES ASSUME FlowInv, [Next]_vars PROVE FlowInv'
  OBVIOUS
<1>1. CASE handler = NoHandler
  <2>1. Idle
    BY <1>1, HandlerIs DEF FlowInv, Running
  <2>2. CASE \E h \in Table : Start(h)
    BY <2>1, <2>2, StartStep DEF FlowInv
  <2>3. CASE \E i \in DOMAIN items : AnswerChange(i) \/ AnswerReads(i)
    BY <2>1, <2>3 DEF Idle
  <2>4. CASE Wander \/ Finish
    BY <1>1, <2>4 DEF Wander, Finish
  <2>5. CASE UNCHANGED vars
    BY <2>1, <2>5 DEF FlowInv, Idle, vars
  <2> QED BY <2>2, <2>3, <2>4, <2>5 DEF Next
<1>2. CASE handler # NoHandler
  <2>1. PICK h \in Table : Running(h)
    BY <1>2 DEF FlowInv, Idle
  <2>2. CASE \E g \in Table : Start(g)
    BY <1>2, <2>2 DEF Start
  <2>3. CASE \E i \in DOMAIN items : AnswerChange(i) \/ AnswerReads(i)
    BY <2>1, <2>3, AnswersStep DEF FlowInv
  <2>4. CASE Wander
    BY <2>1, <2>4, WanderStep DEF FlowInv
  <2>5. CASE Finish
    BY <2>5 DEF Finish, FlowInv, Idle
  <2>6. CASE UNCHANGED vars
    BY <2>1, <2>6 DEF FlowInv, Running, vars
  <2> QED BY <2>2, <2>3, <2>4, <2>5, <2>6 DEF Next
<1> QED BY <1>1, <1>2

LEMMA FlowHolds == Spec => []FlowInv
BY FlowInit, FlowStep, PTL DEF Spec

(* Types: every name in the queue and on a request is a node of the        *)
(* cluster, a request is somewhere on its way, and the handler that runs   *)
(* leads to a page the router knows.                                       *)
THEOREM FlowTypes == Spec => []TypeOK
<1>1. FlowInv => TypeOK
  <2>1. CASE Idle
    <3>1. DOMAIN items = {} /\ queue \in Seq(Nodes)
      BY <2>1 DEF Idle
    <3> QED BY <2>1, <3>1 DEF Idle, TypeOK
  <2>2. ASSUME NEW h \in Table, Running(h) PROVE TypeOK
    <3>1. handler \in Page
      BY <2>2, HandlerIs DEF Running
    <3>2. handler.at \in Routes /\ {handler.next, handler.retreat} \subseteq Routes \cup {"stay", "reload"}
      BY <3>1 DEF Page
    <3>3. ASSUME NEW i \in DOMAIN items, NEW j \in DOMAIN items[i].plan
          PROVE  /\ items[i].state[j] \in {"unsent", "sent", "ok", "failed", "refused"}
                 /\ items[i].carried[j] \in Nodes \cup {NoNode}
      <4>1. IsRow(h, items[i])
        BY <2>2 DEF Running, AreRows
      <4> QED BY <4>1 DEF IsRow, Progress
    <3>4. \A i \in DOMAIN items : items[i].node \in Nodes \cup {NoNode}
      BY <2>2, NodesAre DEF Running
    <3> QED BY <2>2, <3>2, <3>3, <3>4 DEF TypeOK, Running
  <2> QED BY <2>1, <2>2 DEF FlowInv
<1> QED BY <1>1, FlowHolds, PTL

(* The message of success is the truth, for every handler that gives one:  *)
(* when a row has come to success, each change the row stands for was made *)
(* -- whatever the interleaving of the answers, for its promise awaits it  *)
(* and swallows no failure of it.                                          *)
THEOREM PraiseIsTrue == Spec => []SuccessIsTrue
<1>1. FlowInv => SuccessIsTrue
  <2>1. CASE Idle
    BY <2>1 DEF Idle, SuccessIsTrue
  <2>2. ASSUME NEW h \in Table, Running(h), NEW i \in DOMAIN items, NEW j \in DOMAIN items[i].plan,
               handler.praises, Outcome(items[i]) = "success",
               Is(j, items[i], Changing), ~LetGo(items[i].plan[j])
        PROVE  items[i].state[j] = "ok"
    <3>1. h.praises
      BY <2>2, HandlerIs DEF Running
    <3>2. items[i].plan \in h.do
      BY <2>2 DEF Running, AreRows, IsRow
    <3>3. items[i].plan[j].awaited /\ items[i].plan[j].failure # "ignored"
      BY <2>2, <3>1, <3>2, ChangesAreReturned DEF Is
    <3>4. j \in Awaited(items[i].plan)
      BY <3>3 DEF Awaited
    <3>5. Passed(items[i], j) /\ ~Fails(items[i], j)
      BY <2>2, <3>4 DEF Outcome
    <3> QED BY <3>3, <3>5 DEF Passed, Fails
  <2> QED BY <2>1, <2>2 DEF FlowInv, SuccessIsTrue
<1> QED BY <1>1, FlowHolds, PTL

(* Access control follows its resource: a control is asked for only once   *)
(* the resource was created, and removed only once the resource is gone.   *)
THEOREM ControlIsLast == Spec => []ControlFollows
<1>1. FlowInv => ControlFollows
  <2>1. CASE Idle
    BY <2>1 DEF Idle, ControlFollows
  <2>2. ASSUME NEW h \in Table, Running(h), NEW i \in DOMAIN items,
               NEW j \in DOMAIN items[i].plan, NEW k \in DOMAIN items[i].plan,
               Controls(items[i].plan[j], items[i].plan[k]), items[i].state[j] # "unsent"
        PROVE  items[i].state[k] \in {"ok", "refused"}
    <3>1. items[i].plan \in h.do /\ InOrder(items[i])
      BY <2>2 DEF Running, AreRows, IsRow
    <3>2. k \in items[i].plan[j].after /\ items[i].plan[k].failure # "ignored"
      BY <2>2, <3>1, ControlsAreChained
    <3>3. Passed(items[i], k)
      BY <2>2, <3>1, <3>2 DEF InOrder
    <3> QED BY <3>2, <3>3 DEF Passed
  <2> QED BY <2>1, <2>2 DEF FlowInv, ControlFollows
<1> QED BY <1>1, FlowHolds, PTL

(* Nothing is created twice by a second click: while no row has come to an *)
(* outcome, the button that a creation disabled is still disabled.         *)
THEOREM SecondClickIsLost == Spec => []CreatesOnce
<1>1. FlowInv => CreatesOnce
  <2>1. CASE Idle
    BY <2>1 DEF Idle, CreatesOnce
  <2>2. ASSUME NEW h \in Table, Running(h), NEW i \in DOMAIN items, NEW j \in DOMAIN items[i].plan,
               Outcomes(items) = {"pending"}, Is(j, items[i], {"create"}),
               items[i].plan[j].to \notin OneOfEach, ~handler.late
        PROVE  busy
    <3>1. items[i].plan[j].kind = "create" /\ ~h.late
      BY <2>2, HandlerIs DEF Is, Running, SameEnds
    <3>2. items[i].plan \in h.do
      BY <2>2 DEF Running, AreRows, IsRow
    <3>3. h.busy
      BY <2>2, <3>1, <3>2, CreatorsDisable
    <3>4. ~Ended(items)
      BY <2>2 DEF Ended, Outcomes
    <3> QED BY <2>2, <3>3, <3>4 DEF Running
  <2> QED BY <2>1, <2>2 DEF FlowInv, CreatesOnce
<1> QED BY <1>1, FlowHolds, PTL

(* A handler leaves quietly: it does not go to another page while a change *)
(* it asked for is being made, but for the joining of further networks.    *)
(* Its rows have all ended.  One that worked waited for its changes, and   *)
(* one that failed had none under way beside the request that failed.      *)
THEOREM NothingUnderWay == Spec => []LeavesQuietly
<1>1. FlowInv => LeavesQuietly
  <2>1. CASE Idle
    BY <2>1 DEF Idle, LeavesQuietly
  <2>2. ASSUME NEW h \in Table, Running(h), where = "left", handler.leaves = "last",
               NEW i \in DOMAIN items, NEW j \in Outstanding(i), Is(j, items[i], Changing),
               items[i].plan[j].call # "connect",
               ~\E k \in items[i].plan[j].after : items[i].state[k] = "refused"
        PROVE  FALSE
    <3> DEFINE p == items[i].plan
               Failed(k) == Fails(items[i], k)
    <3>1. h.leaves = "last" /\ Gone(h, items)
      BY <2>2, HandlerIs DEF Running, SameEnds
    <3>2. {h.next, h.retreat} # {"stay"} /\ "pending" \notin Outcomes(items)
      BY <3>1 DEF Gone, Leaves
    <3>3. p \in h.do /\ InOrder(items[i])
      BY <2>2 DEF Running, AreRows, IsRow
    <3>4. j \in DOMAIN p /\ items[i].state[j] = "sent" /\ p[j].kind \in Changing
      BY <2>2 DEF Outstanding, Is
    <3>5. /\ p[j].awaited
          /\ h.many \/ h.retreat # "stay" =>
               \A k \in Awaited(p) \ {j} : Rejects(p[k]) => k \in p[j].after \/ j \in p[k].after
      BY <2>2, <3>1, <3>2, <3>3, <3>4, LeaversWait
    <3>6. j \in Awaited(p) /\ Awaited(p) \subseteq DOMAIN p
      BY <3>4, <3>5 DEF Awaited
    <3>7. ~Passed(items[i], j)
      BY <3>4 DEF Passed
    <3>8. Outcome(items[i]) # "pending"
      BY <3>2 DEF Outcomes
    <3>9. \E k \in Awaited(p) : Failed(k)
      BY <3>6, <3>7, <3>8 DEF Outcome
    <3>10. Outcome(items[i]) = "error"
      BY <3>9 DEF Outcome
    <3>11. h.many \/ h.retreat # "stay"
      <4> SUFFICES ASSUME ~h.many PROVE h.retreat # "stay"
        OBVIOUS
      <4>1. DOMAIN items = {i}
        BY <2>2 DEF Running, AreRows
      <4>2. "success" \notin Outcomes(items)
        BY <3>10, <4>1 DEF Outcomes
      <4> QED BY <3>1, <4>2 DEF Gone, Leaves
    <3>12. PICK k \in Awaited(p) : Failed(k)
      BY <3>9
    <3>13. /\ k # j /\ k \in DOMAIN p /\ Rejects(p[k]) /\ items[i].state[k] # "unsent"
           /\ items[i].state[k] # "refused" => ~Passed(items[i], k)
      BY <3>4, <3>6, <3>12 DEF Passed, Fails, Rejects
    <3>14. k \in p[j].after \/ j \in p[k].after
      BY <3>5, <3>11, <3>12, <3>13
    <3>15. items[i].state[j] # "unsent"
      BY <3>4
    <3>16. k \in p[j].after => FALSE
      BY <2>2, <3>3, <3>4, <3>13, <3>15 DEF InOrder
    <3>17. j \in p[k].after => FALSE
      BY <3>3, <3>7, <3>13 DEF InOrder
    <3> QED BY <3>14, <3>16, <3>17
  <2> QED BY <2>1, <2>2 DEF FlowInv, LeavesQuietly
<1> QED BY <1>1, FlowHolds, PTL

(* A request about something on a node reaches the agent of that node, as  *)
(* long as the user stays: nothing else can have come into the one queue   *)
(* of names, and there is always a name left for the next request.         *)
THEOREM NodesReached == Spec => []RightNode
<1>1. FlowInv => RightNode
  <2>1. CASE Idle
    BY <2>1 DEF Idle, RightNode
  <2>2. ASSUME NEW h \in Table, Running(h), where # "wandered",
               NEW i \in DOMAIN items, NEW j \in DOMAIN items[i].plan,
               items[i].state[j] # "unsent", Meant(items[i], j) # NoNode
        PROVE  items[i].carried[j] = items[i].node
    <3>1. handler.at = h.at /\ handler.node = h.node
      BY <2>2, HandlerIs DEF Running, SameEnds
    <3>2. MeansNode(h, items[i].plan[j])
      BY <2>2, <3>1 DEF Meant, MeansNode
    <3>3. Reached(h, items, where, queue, last)
      BY <2>2 DEF Running
    <3>4. CASE h.many /\ h.node
      BY <3>2, <3>3, <3>4 DEF Reached, EachReached, MeansNode
    <3>5. CASE h.many /\ ~h.node
      <4>1. items[i].plan \in h.do
        BY <2>2 DEF Running, AreRows, IsRow
      <4> QED BY <3>2, <3>5, <4>1, NodesAreNamed DEF MeansNode
    <3>6. CASE ~h.many
      <4>1. i = 1
        BY <2>2, <3>6 DEF Running, AreRows
      <4> QED BY <2>2, <3>2, <3>3, <3>6, <4>1 DEF Reached, OneName
    <3> QED BY <3>4, <3>5, <3>6
  <2> QED BY <2>1, <2>2 DEF FlowInv, RightNode
<1> QED BY <1>1, FlowHolds, PTL
=============================================================================
