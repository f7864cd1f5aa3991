-------------------------- MODULE ReplaceContainer --------------------------
(* Replacing a container by a new one of the same name: create() of the page *)
(* that creates containers, when the name is in use, and recreateContainer() *)
(* of the page of a container.  Each is a chain of requests, of which some   *)
(* are made beside the chain and not waited for; several of them, on one     *)
(* page or on many, work on the same containers.                             *)
EXTENDS Naturals

CONSTANTS
  Creates,    \* calls of create()
  Recreates,  \* calls of recreateContainer(), on pages of the container First
  Pages,
  Page,       \* the page each call is made from
  Faults      \* TRUE when a request may fail that could be served

Calls == Creates \cup Recreates
ASSUME CallsHavePages == Page \in [Calls -> Pages] /\ Creates \cap Recreates = {}
ASSUME FaultsIsBoolean == Faults \in BOOLEAN

None == 0      \* no container
Leftover == 1  \* one an earlier failure left behind under the name with -old
First == 2     \* the one to replace

Steps == {"pull", "stop", "rename", "create", "start", "protect", "connect", "remove", "forget"}

VARIABLES
  alive,      \* the containers that exist
  running,    \* those that run
  name,       \* the name of each, kept for those that are gone
  fresh,      \* the identifier of the next
  started, connected,  \* history: those that a chain started, and connected
  controls,   \* the containers for which Portainer holds a resource control
  shown,      \* what the pages of First have read of it
  busy,       \* state.actionInProgress, state.recreateContainerInProgress
  left,       \* the page was left after a success
  calls

engine == <<alive, running, name, fresh, started, connected, controls>>
view == <<busy, left>>
vars == <<engine, shown, view, calls>>

Call == [at : {"idle", "find", "confirm", "doing", "success", "failure", "declined"},
         old : Nat, wasRunning : BOOLEAN, new : Nat,
         todo : SUBSET Steps,    \* the chain, in the order of Rank
         wants : SUBSET Steps,   \* history: the chain when it was started
         aside : SUBSET Steps]   \* what is made beside it

-----------------------------------------------------------------------------
\* The order of the calls of then.  create() has neither stop nor rename in its
\* chain, recreateContainer() not connect: these they leave aside.
RankProtectEarly ==  \* mutant
  [pull |-> 1, stop |-> 2, rename |-> 3, protect |-> 4, create |-> 5, start |-> 6, connect |-> 7,
   remove |-> 8, forget |-> 9]
RankRemoveEarly ==  \* mutant
  [pull |-> 1, stop |-> 2, rename |-> 3, remove |-> 4, create |-> 5, start |-> 6, protect |-> 7,
   connect |-> 8, forget |-> 9]
RankProtectLast ==  \* mutant
  [pull |-> 1, stop |-> 2, rename |-> 3, create |-> 4, start |-> 5, connect |-> 6, remove |-> 7,
   protect |-> 8, forget |-> 9]
Rank ==
  [pull |-> 1, stop |-> 2, rename |-> 3, create |-> 4, start |-> 5, protect |-> 6,
   connect |-> 7, remove |-> 8, forget |-> 9]
IsNext(todo, s) == s \in todo /\ \A t \in todo : Rank[s] <= Rank[t]

If(condition, s) == IF condition THEN {s} ELSE {}
Free(n) == \A c \in alive : name[c] # n

Init ==
  /\ alive \in {{First}, {Leftover, First}}
  /\ running \in SUBSET {First}
  /\ name = [c \in {Leftover, First} |-> IF c = First THEN "web" ELSE "web-old"]
  /\ fresh = First + 1 /\ started = {} /\ connected = {}
  /\ controls \in SUBSET {First}
  /\ shown = [running |-> First \in running, control |-> First \in controls]
  /\ busy = [g \in Pages |-> FALSE] /\ left = [g \in Pages |-> FALSE]
  /\ calls = [p \in Calls |-> [at |-> "idle", old |-> None, wasRunning |-> FALSE, new |-> None,
                               todo |-> {}, wants |-> {}, aside |-> {}]]

Open(p) == calls[p].at = "idle" /\ ~busy[Page[p]] /\ ~left[Page[p]]
Become(p, call) == calls' = [calls EXCEPT ![p] = call]
SetBusy(p, b) == busy' = [busy EXCEPT ![Page[p]] = b]

-----------------------------------------------------------------------------
\* create(): the flag is not set yet, and the button works, while the containers
\* are searched for one with the name.
Click(p) ==
  /\ p \in Creates /\ Open(p)
  /\ Become(p, [calls[p] EXCEPT !.at = "find"])
  /\ UNCHANGED <<engine, shown, view>>

\* findCurrentContainer: a failure is shown and taken for no container.
FindCurrentContainer(p) ==
  /\ calls[p].at = "find"
  /\ \/ \E c \in alive :
          /\ name[c] = "web"
          /\ Become(p, [calls[p] EXCEPT !.at = "confirm", !.old = c, !.wasRunning = c \in running])
     \/ /\ Faults \/ Free("web")
        /\ Become(p, [calls[p] EXCEPT !.at = "confirm"])
  /\ UNCHANGED <<engine, shown, view>>

\* startCreationProcess, confirmed if there is one to replace: the call of
\* stopAndRenameContainer is an argument of then, made before anything else.  Not to
\* pull the image is to pull it in no time.
StartCreationProcess(p, protect, connect) ==
  LET old == calls[p].old
      todo == {"pull", "create", "start"} \cup If(protect, "protect")
              \cup If(connect, "connect") \cup If(old # None, "remove")
  IN  /\ calls[p].at = "confirm"
      /\ Become(p, [calls[p] EXCEPT
                     !.at = "doing", !.todo = todo, !.wants = todo,
                     !.aside = IF old = None THEN {}
                               ELSE {"rename"} \cup If(calls[p].wasRunning, "stop")])
      /\ SetBusy(p, TRUE)
      /\ UNCHANGED <<engine, shown, left>>
\* Not confirmed, or the form is not valid: the flag is cleared, whoever set it.
Decline(p) ==
  /\ calls[p].at = "confirm"
  /\ Become(p, [calls[p] EXCEPT !.at = "declined"]) /\ SetBusy(p, FALSE)
  /\ UNCHANGED <<engine, shown, left>>

\* recreateContainer, confirmed, with what the page has read.
RecreateContainer(p) ==
  LET todo == {"pull", "rename", "create", "remove"} \cup If(shown.running, "stop")
              \cup If(shown.running, "start")
              \cup If(shown.control, "protect") \cup If(shown.control, "forget")
  IN  /\ p \in Recreates /\ Open(p)
      /\ Become(p, [calls[p] EXCEPT !.at = "doing", !.old = First, !.todo = todo, !.wants = todo])
      /\ SetBusy(p, TRUE)
      /\ UNCHANGED <<engine, shown, left>>

-----------------------------------------------------------------------------
\* What the engine accepts: a container that is stopped already answers 304,
\* which is a failure to $http.
Accepted(p, s) ==
  /\ s = "stop" => calls[p].old \in running
  /\ s = "rename" => calls[p].old \in alive /\ Free("web-old")
  /\ s = "create" => Free("web")
  /\ s = "start" => calls[p].new \in alive \ running
  /\ s = "connect" => calls[p].new \in alive
  /\ s = "remove" => calls[p].old \in alive

\* What it then does; forget is the removal of the control of what was removed.
Served(p, s) ==
  LET old == calls[p].old
      new == calls[p].new
  IN  /\ alive' = (IF s = "remove" THEN alive \ {old} ELSE alive) \cup If(s = "create", fresh)
      /\ running' = (IF s \in {"stop", "remove"} THEN running \ {old} ELSE running)
                    \cup If(s = "start", new)
      /\ name' = CASE s = "rename" -> [name EXCEPT ![old] = "web-old"]
                   [] s = "create" -> [c \in DOMAIN name \cup {fresh} |->
                                         IF c = fresh THEN "web" ELSE name[c]]
                   [] OTHER -> name
      /\ fresh' = IF s = "create" THEN fresh + 1 ELSE fresh
      /\ started' = started \cup If(s = "start", new)
      /\ connected' = connected \cup If(s = "connect", new)
      /\ controls' = (IF s = "forget" THEN controls \ {old} ELSE controls)
                     \cup If(s = "protect", new)
      /\ UNCHANGED shown

\* The next request of the chain succeeds.  The last one leaves the page; the
\* flag of recreateContainer stays set, as the page goes.
Answered(p, s) ==
  LET todo == calls[p].todo \ {s}
  IN  /\ IsNext(calls[p].todo, s) /\ Accepted(p, s) /\ Served(p, s)
      /\ Become(p, [calls[p] EXCEPT
                     !.at = IF todo = {} THEN "success" ELSE @,
                     !.todo = todo,
                     !.new = IF s = "create" THEN fresh ELSE @,
                     !.aside = @ \cup If(s = "create" /\ p \in Recreates, "connect")])
      /\ left' = [left EXCEPT ![Page[p]] = @ \/ todo = {}]
      /\ busy' = [busy EXCEPT ![Page[p]] = @ /\ ~(todo = {} /\ p \in Creates)]

\* It fails, refused or served with the answer lost: the rest is given up, and
\* nothing is undone.  The failure to pull is ignored by create().
Failed(p, s) ==
  /\ IsNext(calls[p].todo, s)
  /\ ~(s = "pull" /\ p \in Creates)
  /\ \/ (Faults \/ ~Accepted(p, s)) /\ UNCHANGED <<engine, shown>>
     \/ Faults /\ Accepted(p, s) /\ Served(p, s)
  /\ Become(p, [calls[p] EXCEPT !.at = "failure", !.todo = {}])
  /\ UNCHANGED left
FailedRetired(p, s) == Failed(p, s) /\ SetBusy(p, p \in Recreates)  \* mutant
NotifyOnError(p, s) == Failed(p, s) /\ SetBusy(p, FALSE)

\* A request that is made beside a chain; what fails there is not heard of.
Aside(p, s) ==
  /\ IsNext(calls[p].aside, s)
  /\ \/ /\ Accepted(p, s) /\ Served(p, s)
        /\ Become(p, [calls[p] EXCEPT !.aside = @ \ {s}])
     \/ /\ Faults /\ Accepted(p, s) /\ Served(p, s)
        /\ Become(p, [calls[p] EXCEPT !.aside = {}])
     \/ /\ Faults \/ ~Accepted(p, s)
        /\ Become(p, [calls[p] EXCEPT !.aside = {}])
        /\ UNCHANGED <<engine, shown>>
  /\ UNCHANGED view

\* A container ends by itself.
Exits(c) ==
  /\ c \in running /\ running' = running \ {c}
  /\ UNCHANGED <<alive, name, fresh, started, connected, controls, shown, view, calls>>

Progress(p) == \E s \in Steps : Answered(p, s) \/ NotifyOnError(p, s)
Next ==
  \/ \E p \in Calls :
       \/ Click(p) \/ FindCurrentContainer(p) \/ Decline(p)
       \/ \E protect, connect \in BOOLEAN : StartCreationProcess(p, protect, connect)
       \/ RecreateContainer(p)
       \/ Progress(p)
       \/ \E s \in Steps : Aside(p, s)
  \/ \E c \in running : Exits(c)

\* Every request is answered, refused or given up by the browser.
Spec == Init /\ [][Next]_vars /\ \A p \in Calls : WF_vars(Progress(p))

-----------------------------------------------------------------------------
\* Types: no identifier is used before it is given out: a control is made for a
\* container that has been created.
TypeOK ==
  /\ fresh \in Nat /\ alive \subseteq 1..(fresh - 1)
  /\ running \subseteq alive
  /\ name \in [1..(fresh - 1) -> {"web", "web-old"}]
  /\ started \subseteq 1..(fresh - 1) /\ connected \subseteq 1..(fresh - 1)
  /\ controls \subseteq 1..(fresh - 1)
  /\ shown \in [running : BOOLEAN, control : BOOLEAN]
  /\ busy \in [Pages -> BOOLEAN] /\ left \in [Pages -> BOOLEAN]
  /\ calls \in [Calls -> Call]

\* However the calls overlap and fail, the first container is never gone without
\* another: one that was started in its stead (created, if the first one did not
\* run) is there.  Whether it still runs is the container's own affair.
Survives ==
  \E c \in alive : \/ c = First
                   \/ c > First /\ (shown.running => c \in started)

\* A container is removed only by the call that has its replacement: created,
\* started, protected and connected, as far as this call is to wait for that.
ReadyFirst ==
  [][\A c \in alive \ alive' : \E p \in Calls :
       /\ calls[p].old = c /\ calls[p].new > c
       /\ "start" \in calls[p].wants => calls[p].new \in started
       /\ "protect" \in calls[p].wants => calls[p].new \in controls
       /\ "connect" \in calls[p].wants => calls[p].new \in connected]_vars

\* A button that was disabled works again, or its page is gone.
Settles == \A g \in Pages : busy[g] ~> (~busy[g] \/ left[g])
=============================================================================
