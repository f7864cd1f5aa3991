------------------------------- MODULE Plans --------------------------------
(* The language in which the browser's handlers are described: a request of *)
(* the REST layer, and a plan, the requests a chain of promises makes, each *)
(* with the requests that must have been answered before it is sent.  A     *)
(* handler that decides what to send has several plans, so every operator   *)
(* works on sets of plans:                                                  *)
(*   P ** Q     return p.then(q)           P || Q   $q.all([p, q])          *)
(*   Opt(P)     p, or nothing              Each(P)  p for each of a list    *)
(* $q.all rejects at the first failure and stops nothing: what the other    *)
(* promises of a plan send, they send all the same.                         *)
EXTENDS Naturals, Sequences, FiniteSets

Nothing == {<<>>}

\* A resource of the REST layer: the calls that read, create, change and
\* remove, and whether its URL holds "/docker/", so that the requests carry the
\* name of the node an agent should hand them to.
Rest(name, agent, reads, creates, changes, removes) ==
  [name |-> name, agent |-> agent, reads |-> reads, creates |-> creates,
   changes |-> changes, removes |-> removes]

Kind(rest, call) == CASE call \in rest.reads   -> "read"
                      [] call \in rest.creates -> "create"
                      [] call \in rest.changes -> "change"
                      [] call \in rest.removes -> "remove"

\* One request.  Before some, the service itself names the node.  A failure rejects
\* the promise of the handler, which says so ("told") or stumbles over it while it
\* looks for the words ("unsaid"), is taken for a success ("ignored"), or rejects a
\* promise nobody looks at ("lost").  An answer that only carries a message is a
\* refusal as well: a service that does not heed it rejects its promise and goes on.
Call(rest, call) ==
  {<<[to |-> rest.name, call |-> call, kind |-> Kind(rest, call), agent |-> rest.agent,
      names |-> FALSE, failure |-> "told", heeded |-> TRUE, awaited |-> TRUE, after |-> {}]>>}
Rejects(r) == r.failure \in {"told", "unsaid"}

Awaited(p) == {i \in DOMAIN p : p[i].awaited}
Shift(S, n) == {i + n : i \in S}

InParallel(p, q) ==
  p \o [i \in DOMAIN q |-> [q[i] EXCEPT !.after = Shift(@, Len(p))]]
InSequence(p, q) ==
  p \o [i \in DOMAIN q |-> [q[i] EXCEPT !.after = IF @ = {} THEN Awaited(p) ELSE Shift(@, Len(p))]]

P || Q == {InParallel(p, q) : p \in P, q \in Q}
P ** Q == {InSequence(p, q) : p \in P, q \in Q}
Opt(P) == Nothing \cup P
Each(P) == Nothing \cup P \cup (P || P)

\* The handler goes on whatever becomes of P: it swallows its failure, it never
\* hears of it, or it does not even wait for an answer.
Ignored(P) == {[i \in DOMAIN p |-> [p[i] EXCEPT !.failure = "ignored"]] : p \in P}
Lost(P) == {[i \in DOMAIN p |-> [p[i] EXCEPT !.failure = "lost"]] : p \in P}
Unheeded(P) == {[i \in DOMAIN p |-> [p[i] EXCEPT !.heeded = FALSE]] : p \in P}
Naming(P) == {[i \in DOMAIN p |-> [p[i] EXCEPT !.names = TRUE]] : p \in P}
NotAwaited(P) == {[i \in DOMAIN p |-> [p[i] EXCEPT !.awaited = FALSE]] : p \in P}

-----------------------------------------------------------------------------
\* A handler: the state of the router it belongs to; what it sends, once or for
\* each row of a selection; whether it disables its button, at the call or late,
\* once its first request has been answered, and on which outcomes it frees it; where it goes when it worked and when it did not; whether it says
\* that it worked; whether it first names the node its requests are for; for a
\* selection, whether it leaves with the last row or with the first that worked.
Handler(at, do) ==
  [at |-> at, do |-> do, many |-> FALSE, busy |-> FALSE, late |-> FALSE, frees |-> {}, next |-> "stay",
   retreat |-> "stay", praises |-> FALSE, node |-> FALSE,
   leaves |-> "last"]

\* What a page reads when it opens: silence when it works, an error when not.
Load(at, do) == Handler(at, do)
\* A button that acts, tells the outcome, and goes somewhere when it worked.
Button(at, do, next) == [Handler(at, do) EXCEPT !.praises = TRUE, !.next = next]
\* One that stays disabled until the outcome is known.
Form(at, do, next) ==
  [Button(at, do, next) EXCEPT !.busy = TRUE, !.frees = {"success", "error"}]
\* The same thing done to each row of a selection, the outcome told for each, and
\* the page loaded again once the last has ended, well or not.
Selection(at, do) ==
  [Button(at, do, "reload") EXCEPT !.many = TRUE, !.retreat = "reload"]
OnNode(h) == [h EXCEPT !.node = TRUE]
Silent(h) == [h EXCEPT !.praises = FALSE]
OrElse(h, retreat) == [h EXCEPT !.retreat = retreat]
Late(h) == [h EXCEPT !.busy = FALSE, !.late = TRUE]
FreedOnly(h, outcomes) == [h EXCEPT !.frees = outcomes]
=============================================================================
