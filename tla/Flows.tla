-------------------------------- MODULE Flows -------------------------------
(* What runs the handlers of the pages: a handler sends the requests of its *)
(* plan as the answers to earlier ones allow, tells the outcome, frees its  *)
(* button and leaves the page.  Meanwhile the user may go elsewhere, which  *)
(* stops nothing.  A request for an agent carries the name of a node, taken *)
(* from the one queue that all the pages share.                             *)
EXTENDS Plans, Routes

CONSTANTS Table,      \* the handlers of the application
          Nodes,      \* the nodes of a cluster of agents
          NoNode, NoHandler,
          MaxRows     \* bound: the rows of a selection

ASSUME MaxRowsIsPositive == MaxRows \in Nat \ {0}
ASSUME NoNodeIsNone == NoNode \notin Nodes

VARIABLES handler,  \* the handler that runs, its choice of a plan made
          items,    \* for each row: its node, its plan, how far each request
                    \* is ("unsent", "sent", "ok", "failed", or "refused"
                    \* and gone on from), what it carried
          busy,     \* the flag that disables the button
          where,    \* the user is "here", has "left" by the handler's doing, or
                    \* "wandered" off
          queue,    \* HttpRequestHelper: headers.agentTargetQueue ...
          last      \* ... and headers.agentTargetLastValue

vars == <<handler, items, busy, where, queue, last>>

Init ==
  /\ handler = NoHandler /\ items = <<>>
  /\ busy = FALSE /\ where = "here"
  /\ queue = <<>> /\ last = NoNode

-----------------------------------------------------------------------------
\* A row of the handler: which of its requests have had the answer they need,
\* which can be sent now, and what its promise has come to.
Passed(item, j) ==
  \/ item.state[j] = "ok"
  \/ item.state[j] = "failed" /\ item.plan[j].failure = "ignored"
  \/ item.state[j] = "refused" /\ Rejects(item.plan[j])
Fails(item, j) == item.state[j] \in {"failed", "refused"} /\ Rejects(item.plan[j])
AtOnce(item) == {j \in DOMAIN item.plan : item.state[j] = "unsent"}  \* mutant
Ready(item) ==
  {j \in DOMAIN item.plan : item.state[j] = "unsent" /\ \A k \in item.plan[j].after : Passed(item, k)}
NeverRejected(item) ==  \* mutant
  IF \A j \in Awaited(item.plan) : item.state[j] \in {"ok", "failed", "refused"} THEN "success" ELSE "pending"
Outcome(item) ==
  IF \E j \in Awaited(item.plan) : Fails(item, j) THEN "error"
  ELSE IF \A j \in Awaited(item.plan) : Passed(item, j) THEN "success"
  ELSE "pending"
Outcomes(its) == {Outcome(its[i]) : i \in DOMAIN its}

\* portainerAgentTargetHeader: the n-th name taken from a queue that nothing is
\* added to, what is left of the queue, and the value it remembers.
Spliced(q, l, n) == IF q = <<>> THEN l ELSE <<q[IF n <= Len(q) THEN n ELSE Len(q)]>>  \* mutant
Taken(q, l, n) == IF q = <<>> THEN l ELSE q[IF n <= Len(q) THEN n ELSE Len(q)]
NeverRemembered(q, l, n) == l  \* mutant
Left(q, n) == IF n < Len(q) THEN SubSeq(q, n + 1, Len(q)) ELSE <<>>
Remembered(q, l, n) == IF n >= Len(q) /\ q # <<>> THEN q[Len(q)] ELSE l

\* The requests of the set new (pairs of a row and a request) are sent, in the
\* order of the rows: the interceptor runs once the callback is over, when what
\* the callback had to name has been named.
Before(x, y) == x[1] < y[1] \/ (x[1] = y[1] /\ x[2] < y[2])
ForAgents(its, new) == {x \in new : its[x[1]].plan[x[2]].agent}
Place(its, new, x) == 1 + Cardinality({y \in ForAgents(its, new) : Before(y, x)})
NamedOnTheWay(its, new) ==
  LET naming == {x \in new : its[x[1]].plan[x[2]].names}
  IN  IF naming = {} THEN <<>> ELSE <<its[(CHOOSE x \in naming : TRUE)[1]].node>>
Send(its, new, named, l) ==
  LET agents == ForAgents(its, new)
      q == named \o NamedOnTheWay(its, new)
  IN  /\ items' = [i \in DOMAIN its |->
           [its[i] EXCEPT
             !.state = [j \in DOMAIN @ |-> IF <<i, j>> \in new THEN "sent" ELSE @[j]],
             !.carried = [j \in DOMAIN @ |->
               IF <<i, j>> \in agents THEN Taken(q, l, Place(its, new, <<i, j>>)) ELSE @[j]]]]
      /\ queue' = Left(q, Cardinality(agents))
      /\ last' = Remembered(q, l, Cardinality(agents))

-----------------------------------------------------------------------------
\* The nodes a handler can be about: those of its rows, the one of its page, or
\* the one a service names on the way.
NodesOf(h) ==
  IF h.node \/ h.at \in NodeRoutes \/ (\E p \in h.do : \E j \in DOMAIN p : p[j].names)
  THEN Nodes ELSE {NoNode}
Row(node, plan) ==
  [node |-> node, plan |-> plan, state |-> [j \in DOMAIN plan |-> "unsent"],
   carried |-> [j \in DOMAIN plan |-> NoNode]]

\* What the handlers that opened the page have left as the last name.
Remembers(h, node) ==
  IF \E g \in Table : g.at = h.at /\ g.node /\ g # h THEN node ELSE NoNode

\* What becomes of the button and of the page once rows have ended: the last row
\* of a selection leaves the page, or the first that worked.
LeavesWithAny(h, its, outcome) ==  \* mutant
  outcome \in Outcomes(its) /\ (IF outcome = "success" THEN h.next ELSE h.retreat) # "stay"
Leaves(h, its, outcome) ==
  /\ outcome \in Outcomes(its)
  /\ (IF outcome = "success" THEN h.next ELSE h.retreat) # "stay"
  /\ h.leaves = "last" => "pending" \notin Outcomes(its)
SettleAtOnce(h, its, isBusy) ==  \* mutant
  /\ busy' = FALSE
  /\ where' = IF where = "here" /\ (Leaves(h, its, "success") \/ Leaves(h, its, "error"))
              THEN "left" ELSE where
\* A flag that is set late goes up once something has been answered.
Rises(h, its) == h.late /\ \E i \in DOMAIN its : \E j \in DOMAIN its[i].plan : Passed(its[i], j)
Settle(h, its, isBusy) ==
  /\ busy' = ((isBusy \/ Rises(h, its)) /\ Outcomes(its) \cap h.frees = {})
  /\ where' = IF where = "here" /\ (Leaves(h, its, "success") \/ Leaves(h, its, "error"))
              THEN "left" ELSE where

\* The handler is called: it names the node of each row, and sends what waits for
\* nothing.
Start(h) ==
  /\ handler = NoHandler
  /\ \E n \in 1..(IF h.many THEN MaxRows ELSE 1) :
     \E nodes \in [1..n -> NodesOf(h)], plans \in [1..n -> h.do] :
       LET its == [i \in 1..n |-> Row(nodes[i], plans[i])]
       IN  /\ handler' = [h EXCEPT !.do = Nothing]
           /\ Send(its, UNION {{i} \X Ready(its[i]) : i \in 1..n},
                   IF h.node THEN nodes ELSE <<>>, Remembers(h, nodes[1]))
           /\ Settle(h, its, h.busy)

\* The answers to requests of row i, and what they allow to send.
Answered(i, result) ==
  LET its == [items EXCEPT ![i].state =
                [j \in DOMAIN @ |-> IF j \in DOMAIN result THEN result[j] ELSE @[j]]]
  IN  /\ Send(its, {i} \X Ready(its[i]), queue, last)
      /\ Settle(handler, its, busy)
      /\ UNCHANGED handler

Outstanding(i) == {j \in DOMAIN items[i].plan : items[i].state[j] = "sent"}
Reads(i) == {j \in Outstanding(i) : items[i].plan[j].kind = "read"}

\* A request that changes something is answered.
Answers(r) == {"ok", "failed"} \cup (IF r.heeded \/ ~Rejects(r) THEN {} ELSE {"refused"})
AnswerChange(i) ==
  \E j \in Outstanding(i) \ Reads(i) :
  \E answer \in Answers(items[i].plan[j]) : Answered(i, [k \in {j} |-> answer])

\* Bound: the reads a row waits for are answered together, all of them or all but
\* one with success.
AnswerReads(i) ==
  /\ Reads(i) # {}
  /\ \E bad \in {{}} \cup {{j} : j \in Reads(i)} :
       Answered(i, [j \in Reads(i) |-> IF j \in bad THEN "failed" ELSE "ok"])

\* The user goes to another page; one about the engine empties the queue first
\* (app.js, onBefore).
Wander ==
  /\ handler # NoHandler /\ where = "here"
  /\ where' = "wandered"
  /\ \/ queue' = <<>> /\ last' = NoNode
     \/ UNCHANGED <<queue, last>>
  /\ UNCHANGED <<handler, items, busy>>

\* Nothing is outstanding and the button is free, or its page is gone: the next
\* handler may run.
Finish ==
  /\ handler # NoHandler
  /\ \A i \in DOMAIN items : Outstanding(i) = {}
  /\ ~busy \/ where # "here"
  /\ handler' = NoHandler /\ items' = <<>> /\ busy' = FALSE /\ where' = "here"
  /\ queue' = <<>> /\ last' = NoNode

Next ==
  \/ \E h \in Table : Start(h)
  \/ \E i \in DOMAIN items : AnswerChange(i) \/ AnswerReads(i)
  \/ Wander
  \/ Finish

\* The server goes on answering as long as it owes an answer, if only with errors.
Fairness == WF_vars(\E i \in DOMAIN items : AnswerChange(i) \/ AnswerReads(i))
Spec == Init /\ [][Next]_vars /\ Fairness

-----------------------------------------------------------------------------
\* What the handlers of the application have in common, which TLC finds of each of
\* them.  The promises below rest on it for any other table as well.
Changing == {"create", "change", "remove"}
LetGo(r) == (r.to = "image" /\ r.call = "create") \/ r.call = "connect" \/ r.to = "storidge"
OneOfEach == {"control", "webhook", "membership", "config", "tag", "image", "file"}

Request ==
  [to : STRING, call : STRING, kind : {"read"} \cup Changing, agent : BOOLEAN, names : BOOLEAN,
   failure : {"told", "unsaid", "ignored", "lost"}, heeded : BOOLEAN, awaited : BOOLEAN, after : SUBSET Nat]
Page ==
  [at : Routes, do : SUBSET Seq(Request), many : BOOLEAN, busy : BOOLEAN, late : BOOLEAN,
   frees : SUBSET {"success", "error"}, next : Routes \cup {"stay", "reload"},
   retreat : Routes \cup {"stay", "reload"}, praises : BOOLEAN, node : BOOLEAN,
   leaves : {"first", "last"}]
ASSUME TableIsTyped ==
  /\ Table \subseteq Page /\ NoHandler \notin Page
  /\ \A h \in Table : \A p \in h.do : \A j \in DOMAIN p : p[j].after \subseteq DOMAIN p

\* A handler that says it worked returns the promises of the changes it makes, and
\* swallows no failure of them.
ASSUME ChangesAreReturned ==
  \A h \in Table : h.praises =>
    \A p \in h.do : \A j \in DOMAIN p :
      p[j].kind \in Changing /\ ~LetGo(p[j]) => p[j].awaited /\ p[j].failure # "ignored"

\* The call for an access control is made where the call for its resource is answered.
Controls(r, resource) ==
  /\ r.to = "control" /\ resource.to \notin {"control", "webhook"}
  /\ r.kind \in {"create", "remove"} /\ resource.kind = r.kind /\ ~LetGo(resource)
ASSUME ControlsAreChained ==
  \A h \in Table : \A p \in h.do : \A j, k \in DOMAIN p :
    Controls(p[j], p[k]) => k \in p[j].after /\ p[k].failure # "ignored"

\* A handler that goes elsewhere waits for the changes it makes; if it goes though
\* something failed, each change is before or after whatever may fail, never beside.
ASSUME LeaversWait ==
  \A h \in Table : h.leaves = "last" /\ {h.next, h.retreat} # {"stay"} =>
    \A p \in h.do : \A j \in DOMAIN p : p[j].kind \in Changing /\ p[j].call # "connect" =>
      /\ p[j].awaited
      /\ h.many \/ h.retreat # "stay" =>
           \A k \in Awaited(p) \ {j} : Rejects(p[k]) => k \in p[j].after \/ j \in p[k].after

\* A handler that creates something there can be two of disables its button, sooner
\* or late.
ASSUME CreatorsDisable ==
  \A h \in Table : \A p \in h.do : \A j \in DOMAIN p :
    p[j].kind = "create" /\ p[j].to \notin OneOfEach => h.busy \/ h.late

\* Whatever runs for each row of a selection makes one request of an agent per row, at
\* once, when it names nodes, and none for a node when it does not.  A handler of a page
\* whose URL has a node names it, or another of the page did.
ASSUME NodesAreNamed ==
  /\ \A h \in Table : h.many /\ h.node =>
       \A p \in h.do : \E a \in DOMAIN p :
         p[a].after = {} /\ \A j \in DOMAIN p : (p[j].agent <=> j = a) /\ ~p[j].names
  /\ \A h \in Table : h.many /\ ~h.node =>
       h.at \notin NodeRoutes /\ \A p \in h.do : \A j \in DOMAIN p : p[j].agent => ~p[j].names
  /\ \A h \in Table : ~h.many /\ ~h.node /\ h.at \in NodeRoutes =>
       \E g \in Table : g.at = h.at /\ g.node /\ g # h

-----------------------------------------------------------------------------
\* Types; a handler belongs to a page the router knows, and leads to one.
TypeOK ==
  /\ handler # NoHandler =>
       handler.at \in Routes /\ {handler.next, handler.retreat} \subseteq Routes \cup {"stay", "reload"}
  /\ \A i \in DOMAIN items :
       /\ items[i].node \in Nodes \cup {NoNode}
       /\ \A j \in DOMAIN items[i].plan :
            /\ items[i].state[j] \in {"unsent", "sent", "ok", "failed", "refused"}
            /\ items[i].carried[j] \in Nodes \cup {NoNode}
  /\ busy \in BOOLEAN
  /\ where \in {"here", "left", "wandered"}
  /\ queue \in Seq(Nodes) /\ last \in Nodes \cup {NoNode}

Is(j, item, kinds) == item.plan[j].kind \in kinds

\* "Success" is the truth: when it is shown for a row, every change the row stands
\* for was made.  Two things are let go by design, a pull that may fail when the
\* image is there and the further networks of a container created again, and one
\* by mistake: the Storidge cluster is said to be down whatever it answered.
SuccessIsTrue ==
  \A i \in DOMAIN items :
    handler.praises /\ Outcome(items[i]) = "success" =>
      \A j \in DOMAIN items[i].plan :
        Is(j, items[i], Changing) /\ ~LetGo(items[i].plan[j]) => items[i].state[j] = "ok"

\* A handler does not leave the page, and so does not load again what the page
\* shows, while a change it asked for is still being made: the reader would see the
\* state of before.  The loop over macvlan networks does, the container created
\* again may still be joining networks, and a removal that was refused but not
\* heeded goes on to remove the control.
LeavesQuietly ==
  where = "left" /\ handler.leaves = "last" =>
    \A i \in DOMAIN items : \A j \in Outstanding(i) :
      Is(j, items[i], Changing) =>
        \/ items[i].plan[j].call = "connect"
        \/ \E k \in items[i].plan[j].after : items[i].state[k] = "refused"

\* As long as the user stays, a request about something on one node reaches the
\* agent of that node (httpRequestHelper.js, 17-23): on a page whose URL names a
\* node, for each row of a selection, and when a service names one on the way.
Meant(item, j) ==
  IF item.plan[j].agent /\ (handler.at \in NodeRoutes \/ handler.node \/ item.plan[j].names)
  THEN item.node ELSE NoNode
RightNode ==
  where # "wandered" =>
    \A i \in DOMAIN items : \A j \in DOMAIN items[i].plan :
      items[i].state[j] # "unsent" /\ Meant(items[i], j) # NoNode =>
        items[i].carried[j] = items[i].node

\* Access control follows its resource: a control is created for something that
\* has been created, and removed after what it protects is gone, or after a refusal
\* that the service does not heed: the container, or volume, that stays loses its
\* control.  The webhook of a service is not what its control protects.
ControlFollows ==
  \A i \in DOMAIN items : \A j, k \in DOMAIN items[i].plan :
    Controls(items[i].plan[j], items[i].plan[k]) /\ items[i].state[j] # "unsent" =>
      items[i].state[k] \in {"ok", "refused"}

\* Nothing is created twice by a second click: from the call on, as long as the
\* creation is still to come or outstanding, the button is disabled.  Of some
\* things a second one is refused by whoever keeps them, or is the same as the
\* first.  A failure frees the button though what was sent along with the request
\* that failed may still be made.  A flag that is set late keeps no such promise:
\* a second click while the page looks for a container of the name, or asks
\* whether to replace it, starts a second creation, and whichever ends first frees
\* the button.
CreatesOnce ==
  where = "here" =>
    \A i \in DOMAIN items : \A j \in DOMAIN items[i].plan :
      /\ items[i].state[j] \in {"unsent", "sent"} /\ Outcomes(items) = {"pending"}
      /\ Is(j, items[i], {"create"}) /\ items[i].plan[j].to \notin OneOfEach
      /\ ~handler.late
      => busy

\* A button comes back: the flag is cleared, or the page is left.  The promise of a
\* new user or team whose membership was refused never settles.
HasLost == \E i \in DOMAIN items : \E j \in DOMAIN items[i].plan : items[i].plan[j].failure = "lost"
ButtonsFreed == (busy /\ ~HasLost) ~> (~busy \/ where # "here")
=============================================================================
