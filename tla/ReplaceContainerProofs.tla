----------------------- MODULE ReplaceContainerProofs -----------------------
(* Proofs about ReplaceContainer, for any number of calls and of pages, with *)
(* and without faults.  The invariant: every call knows a replacement newer  *)
(* than what it replaces, as ready as its chain has made it (Sound), and the *)
(* newest of the containers that serve exists (NewestLives).                 *)
EXTENDS ReplaceContainer, TLAPS

\* What serves, whether it still runs or not: the first container, and those that
\* were started in its stead.
Serves(c) == c = First \/ (c > First /\ c < fresh /\ (shown.running => c \in started))

NewestLives == \E c \in alive : Serves(c) /\ \A d \in Nat : Serves(d) => d <= c

\* What a call that has something left to do has done.
Sound(p) ==
  LET c == calls[p]
  IN  /\ c.old < fresh
      /\ c.aside \subseteq {"stop", "rename", "connect"}
      /\ c.todo \subseteq c.wants
      /\ "forget" \in c.todo => c.old = First
      /\ "create" \in c.todo => c.wants \cap {"start", "protect", "connect"} \subseteq c.todo
      /\ c.todo # {} =>
           /\ c.at = "doing"
           /\ "remove" \in c.todo /\ shown.running => "start" \in c.wants
           /\ "create" \notin c.todo =>
                /\ c.new > c.old /\ c.new > First /\ c.new < fresh
                /\ "start" \in c.wants \ c.todo => c.new \in started
                /\ "protect" \in c.wants \ c.todo => c.new \in controls
                /\ "connect" \in c.wants \ c.todo => c.new \in connected

AllSound == \A p \in Calls : Sound(p)
Inv == TypeOK /\ fresh > First /\ AllSound /\ NewestLives

-----------------------------------------------------------------------------
\* What the order of the requests says.
LEMMA Order ==
  ASSUME NEW todo \in SUBSET Steps, NEW s \in Steps, IsNext(todo, s)
  PROVE  /\ s \in todo
         /\ s \in {"start", "protect", "connect", "remove", "forget"} => "create" \notin todo
         /\ s \in {"remove", "forget"} => todo \cap {"start", "protect", "connect"} = {}
BY DEF IsNext, Rank, Steps

\* A call in a known state has fields of their types.
LEMMA CallFields ==
  ASSUME TypeOK, NEW p \in Calls
  PROVE  /\ calls[p] \in Call
         /\ calls[p].old \in Nat /\ calls[p].new \in Nat
         /\ calls[p].todo \in SUBSET Steps /\ calls[p].wants \in SUBSET Steps
         /\ calls[p].aside \in SUBSET Steps
BY DEF TypeOK, Call

LEMMA Opening == Init => Inv
<1> SUFFICES ASSUME Init PROVE Inv
  OBVIOUS
<1> USE DEF First, Leftover, None
<1>1. TypeOK
  BY CallsHavePages DEF Init, TypeOK, Call
<1>2. fresh > First
  BY DEF Init
<1>3. AllSound
  BY DEF Init, AllSound, Sound
<1>4. NewestLives
  <2>1. First \in alive /\ Serves(First)
    BY DEF Init, Serves
  <2>2. \A d \in Nat : Serves(d) => d <= First
    BY DEF Init, Serves
  <2> QED
    BY <2>1, <2>2 DEF NewestLives
<1> QED
  BY <1>1, <1>2, <1>3, <1>4 DEF Inv

-----------------------------------------------------------------------------
\* What a request that is served does to what the other calls rely on: whatever
\* one of them has achieved stays so.
LEMMA ServedKeeps ==
  ASSUME Inv, NEW p \in Calls, NEW s \in Steps, Accepted(p, s), Served(p, s),
         s \in {"start", "connect"} => calls[p].new \in alive,
         s = "protect" => calls[p].new > First /\ calls[p].new < fresh,
         s = "forget" => calls[p].old = First,
         s = "remove" => /\ calls[p].new > calls[p].old
                         /\ Serves(calls[p].new)
  PROVE  /\ alive' \subseteq 1..(fresh' - 1) /\ running' \subseteq alive'
         /\ fresh' \in Nat /\ fresh <= fresh'
         /\ name' \in [1..(fresh' - 1) -> {"web", "web-old"}]
         /\ started \subseteq started' /\ started' \subseteq 1..(fresh' - 1)
         /\ connected \subseteq connected' /\ connected' \subseteq 1..(fresh' - 1)
         /\ controls \ {First} \subseteq controls' /\ controls' \subseteq 1..(fresh' - 1)
         /\ shown' = shown
         /\ NewestLives'
<1> USE DEF First, If
<1>0. /\ fresh \in Nat /\ fresh > First /\ alive \subseteq 1..(fresh - 1) /\ running \subseteq alive
      /\ name \in [1..(fresh - 1) -> {"web", "web-old"}]
      /\ started \subseteq 1..(fresh - 1) /\ connected \subseteq 1..(fresh - 1)
      /\ controls \subseteq 1..(fresh - 1)
      /\ calls[p].old \in Nat /\ calls[p].new \in Nat
  BY CallFields DEF Inv, TypeOK
<1>1. fresh' \in Nat /\ fresh <= fresh' /\ (s # "create" => fresh' = fresh)
      /\ (s = "create" => fresh' = fresh + 1)
  BY <1>0 DEF Served
<1>2. alive' \subseteq 1..(fresh' - 1) /\ running' \subseteq alive'
  BY <1>0, <1>1 DEF Served, Accepted
<1>3. name' \in [1..(fresh' - 1) -> {"web", "web-old"}]
  <2>1. CASE s = "create"
    <3>1. name' = [c \in 1..fresh |-> IF c = fresh THEN "web" ELSE name[c]]
      BY <1>0, <2>1 DEF Served
    <3> QED
      BY <3>1, <1>0, <1>1, <2>1
  <2>2. CASE s = "rename"
    BY <1>0, <1>1, <2>2 DEF Served
  <2>3. CASE s # "create" /\ s # "rename"
    BY <1>0, <1>1, <2>3 DEF Served
  <2> QED
    BY <2>1, <2>2, <2>3
<1>4. started \subseteq started' /\ started' \subseteq 1..(fresh' - 1)
  BY <1>0, <1>1 DEF Served
<1>5. connected \subseteq connected' /\ connected' \subseteq 1..(fresh' - 1)
  BY <1>0, <1>1 DEF Served
<1>6. controls \ {First} \subseteq controls' /\ controls' \subseteq 1..(fresh' - 1)
  BY <1>0, <1>1 DEF Served
<1>7. shown' = shown
  BY DEF Served
<1>8. NewestLives'
  <2>1. PICK c \in alive : Serves(c) /\ \A d \in Nat : Serves(d) => d <= c
    BY DEF Inv, NewestLives
  <2>2. c \in Nat /\ c < fresh
    BY <1>0, <2>1
  <2>3. \A d \in Nat : Serves(d) => Serves(d)'
    BY <1>0, <1>1, <1>4, <1>7 DEF Serves
  <2>4. CASE s = "create"
    <3>1. c \in alive' /\ fresh \in alive'
      BY <2>4, <2>1 DEF Served
    <3>2. started' = started
      BY <2>4 DEF Served
    <3>3. CASE shown.running
      <4>1. \A d \in Nat : Serves(d)' => Serves(d)
        BY <1>0, <1>1, <1>7, <3>2, <3>3 DEF Serves
      <4> QED
        BY <4>1, <3>1, <2>1, <2>2, <2>3 DEF NewestLives
    <3>4. CASE ~shown.running
      <4>1. PICK n \in Nat : n = fresh
        BY <1>0
      <4>2. Serves(n)' /\ \A d \in Nat : Serves(d)' => d <= n
        BY <1>0, <1>1, <1>7, <2>4, <3>4, <4>1 DEF Serves
      <4> QED
        BY <4>1, <4>2, <3>1 DEF NewestLives
    <3> QED
      BY <3>3, <3>4
  <2>5. CASE s = "start"
    <3>0. PICK n \in Nat : n = calls[p].new
      BY <1>0
    <3>1. alive' = alive /\ started' = started \cup {n} /\ fresh' = fresh /\ n \in alive
      BY <2>5, <3>0 DEF Served
    <3>2. \A d \in Nat : Serves(d)' => Serves(d) \/ d = n
      BY <3>1, <1>7 DEF Serves
    <3>3. CASE Serves(n)' /\ n > c
      <4>1. \A d \in Nat : Serves(d)' => d <= n
        BY <3>2, <3>3, <2>1, <2>2
      <4> QED
        BY <4>1, <3>1, <3>3 DEF NewestLives
    <3>4. CASE ~(Serves(n)' /\ n > c)
      <4>1. \A d \in Nat : Serves(d)' => d <= c
        BY <3>2, <3>4, <2>1, <2>2
      <4> QED
        BY <4>1, <3>1, <2>1, <2>2, <2>3 DEF NewestLives
    <3> QED
      BY <3>3, <3>4
  <2>6. CASE s \notin {"create", "start"}
    <3>1. started' = started /\ fresh' = fresh
      BY <2>6 DEF Served
    <3>2. \A d \in Nat : Serves(d)' <=> Serves(d)
      BY <3>1, <1>7 DEF Serves
    <3>3. c \in alive'
      <4>1. CASE s = "remove"
        <5>1. calls[p].old # c
          BY <4>1, <2>1, <2>2, <1>0
        <5> QED
          BY <5>1, <4>1, <2>1 DEF Served
      <4>2. CASE s # "remove"
        BY <4>2, <2>1 DEF Served
      <4> QED
        BY <4>1, <4>2
    <3> QED
      BY <3>2, <3>3, <2>1, <2>2 DEF NewestLives
  <2> QED
    BY <2>4, <2>5, <2>6
<1> QED
  BY <1>1, <1>2, <1>3, <1>4, <1>5, <1>6, <1>7, <1>8

\* A call that does not move is as sound as it was, when nothing was lost that it
\* relies on.
LEMMA OthersSound ==
  ASSUME Inv, NEW q \in Calls, calls'[q] = calls[q],
         fresh' \in Nat, fresh <= fresh', shown' = shown, started \subseteq started',
         connected \subseteq connected', controls \ {First} \subseteq controls'
  PROVE  Sound(q)'
<1>1. Sound(q) /\ fresh \in Nat /\ fresh > First
  BY DEF Inv, AllSound, TypeOK
<1>2. calls[q].old \in Nat /\ calls[q].new \in Nat
  BY CallFields DEF Inv
<1> QED
  BY <1>1, <1>2 DEF Sound, First

\* What is left to show of a step of the call p: the engine does as in ServedKeeps,
\* or nothing.
Kept ==
  /\ alive' \subseteq 1..(fresh' - 1) /\ running' \subseteq alive'
  /\ fresh' \in Nat /\ fresh <= fresh'
  /\ name' \in [1..(fresh' - 1) -> {"web", "web-old"}]
  /\ started \subseteq started' /\ started' \subseteq 1..(fresh' - 1)
  /\ connected \subseteq connected' /\ connected' \subseteq 1..(fresh' - 1)
  /\ controls \ {First} \subseteq controls' /\ controls' \subseteq 1..(fresh' - 1)
  /\ shown' = shown
  /\ NewestLives'

LEMMA IdleKeeps == ASSUME Inv, UNCHANGED <<engine, shown>> PROVE Kept
BY DEF Inv, TypeOK, Kept, engine, NewestLives, Serves

LEMMA CallSteps ==
  ASSUME Inv, Kept, NEW p \in Calls, NEW call \in Call, Become(p, call), Sound(p)',
         busy' \in [Pages -> BOOLEAN], left' \in [Pages -> BOOLEAN]
  PROVE  Inv'
<1>1. calls' \in [Calls -> Call] /\ \A q \in Calls : q # p => calls'[q] = calls[q]
  BY DEF Inv, TypeOK, Become
<1>2. TypeOK'
  BY <1>1 DEF Inv, TypeOK, Kept
<1>3. AllSound'
  <2> SUFFICES ASSUME NEW q \in Calls PROVE Sound(q)'
    BY DEF AllSound
  <2>1. CASE q = p
    BY <2>1
  <2>2. CASE q # p
    BY <2>2, <1>1, OthersSound DEF Kept
  <2> QED
    BY <2>1, <2>2
<1>4. fresh' > First
  BY DEF Inv, TypeOK, Kept, First
<1> QED
  BY <1>2, <1>3, <1>4 DEF Inv, Kept

LEMMA ViewTypes ==
  ASSUME Inv, NEW p \in Calls
  PROVE  /\ Page[p] \in Pages
         /\ busy \in [Pages -> BOOLEAN] /\ left \in [Pages -> BOOLEAN]
         /\ \A b \in BOOLEAN : SetBusy(p, b) => busy' \in [Pages -> BOOLEAN]
BY CallsHavePages DEF Inv, TypeOK, SetBusy

\* The call p becomes what Become says.
LEMMA Becomes ==
  ASSUME Inv, NEW p \in Calls, NEW call, Become(p, call)
  PROVE  calls'[p] = call
BY DEF Inv, TypeOK, Become

-----------------------------------------------------------------------------
LEMMA ClickStep == ASSUME Inv, NEW p \in Calls, Click(p) PROVE Inv'
<1> DEFINE call == [calls[p] EXCEPT !.at = "find"]
<1>1. Kept /\ Become(p, call)
  BY IdleKeeps DEF Click
<1>2. calls[p] \in Call /\ Sound(p)
  BY CallFields DEF Inv, AllSound
<1>3. call \in Call /\ calls'[p] = call
  BY <1>1, <1>2, Becomes DEF Call
<1>4. Sound(p)'
  BY <1>2, <1>3 DEF Click, Open, Sound, engine, Call
<1> QED
  BY <1>1, <1>3, <1>4, CallSteps, ViewTypes DEF Click, view

LEMMA FindStep == ASSUME Inv, NEW p \in Calls, FindCurrentContainer(p) PROVE Inv'
<1>1. Kept /\ calls[p] \in Call /\ Sound(p) /\ UNCHANGED <<engine, shown, view>>
      /\ calls[p].todo = {}
  BY IdleKeeps, CallFields DEF FindCurrentContainer, Inv, AllSound, Sound
<1>2. ASSUME NEW c \in alive,
             Become(p, [calls[p] EXCEPT !.at = "confirm", !.old = c, !.wasRunning = c \in running])
      PROVE  Inv'
  <2> DEFINE was == c \in running
             call == [calls[p] EXCEPT !.at = "confirm", !.old = c, !.wasRunning = was]
  <2>0. was \in BOOLEAN /\ Become(p, call)
    BY <1>2
  <2> HIDE DEF was
  <2>1. c \in Nat /\ c < fresh
    BY DEF Inv, TypeOK
  <2>2. call \in Call /\ calls'[p] = call
    BY <1>1, <2>0, <2>1, Becomes DEF Call
  <2>3. Sound(p)'
    BY <1>1, <2>1, <2>2 DEF Sound, engine, Call
  <2> QED
    BY <1>1, <2>0, <2>2, <2>3, CallSteps, ViewTypes DEF view
<1>3. ASSUME Become(p, [calls[p] EXCEPT !.at = "confirm"]) PROVE Inv'
  <2> DEFINE call == [calls[p] EXCEPT !.at = "confirm"]
  <2>2. call \in Call /\ calls'[p] = call
    BY <1>1, <1>3, Becomes DEF Call
  <2>3. Sound(p)'
    BY <1>1, <2>2 DEF Sound, engine, Call
  <2> QED
    BY <1>1, <1>3, <2>2, <2>3, CallSteps, ViewTypes DEF view
<1> QED
  BY <1>2, <1>3 DEF FindCurrentContainer

LEMMA StartStep ==
  ASSUME Inv, NEW p \in Calls, NEW protect \in BOOLEAN, NEW connect \in BOOLEAN,
         StartCreationProcess(p, protect, connect)
  PROVE  Inv'
<1> DEFINE old == calls[p].old
           todo == {"pull", "create", "start"} \cup If(protect, "protect")
                   \cup If(connect, "connect") \cup If(old # None, "remove")
           aside == IF old = None THEN {} ELSE {"rename"} \cup If(calls[p].wasRunning, "stop")
           call == [calls[p] EXCEPT !.at = "doing", !.todo = todo, !.wants = todo, !.aside = aside]
<1>1. Kept /\ Become(p, call) /\ calls[p] \in Call /\ Sound(p) /\ UNCHANGED <<engine, shown>>
  BY IdleKeeps, CallFields DEF StartCreationProcess, Inv, AllSound
<1>2. todo \subseteq Steps /\ aside \subseteq {"stop", "rename"} /\ "create" \in todo
      /\ "start" \in todo /\ "forget" \notin todo
  BY DEF If, Steps
<1> HIDE DEF todo, aside
<1>3. call \in Call /\ calls'[p] = call
  BY <1>1, <1>2, Becomes DEF Call, Steps
<1>4. Sound(p)'
  BY <1>1, <1>2, <1>3 DEF Sound, engine, Call
<1> QED
  BY <1>1, <1>3, <1>4, CallSteps, ViewTypes DEF StartCreationProcess

LEMMA DeclineStep == ASSUME Inv, NEW p \in Calls, Decline(p) PROVE Inv'
<1> DEFINE call == [calls[p] EXCEPT !.at = "declined"]
<1>1. Kept /\ Become(p, call) /\ calls[p] \in Call /\ Sound(p) /\ UNCHANGED <<engine, shown>>
  BY IdleKeeps, CallFields DEF Decline, Inv, AllSound
<1>2. call \in Call /\ calls'[p] = call
  BY <1>1, Becomes DEF Call
<1>3. Sound(p)'
  BY <1>1, <1>2 DEF Decline, Sound, engine, Call
<1> QED
  BY <1>1, <1>2, <1>3, CallSteps, ViewTypes DEF Decline

LEMMA RecreateStep == ASSUME Inv, NEW p \in Calls, RecreateContainer(p) PROVE Inv'
<1> DEFINE todo == {"pull", "rename", "create", "remove"} \cup If(shown.running, "stop")
                   \cup If(shown.running, "start")
                   \cup If(shown.control, "protect") \cup If(shown.control, "forget")
           call == [calls[p] EXCEPT !.at = "doing", !.old = First, !.todo = todo, !.wants = todo]
<1>1. Kept /\ Become(p, call) /\ calls[p] \in Call /\ Sound(p) /\ UNCHANGED <<engine, shown>>
  BY IdleKeeps, CallFields DEF RecreateContainer, Inv, AllSound
<1>2. todo \subseteq Steps /\ "create" \in todo /\ (shown.running => "start" \in todo)
  BY DEF If, Steps
<1> HIDE DEF todo
<1>3. call \in Call /\ calls'[p] = call
  BY <1>1, <1>2, Becomes DEF Call, First
<1>4. Sound(p)'
  BY <1>1, <1>2, <1>3 DEF Sound, engine, Call, Inv
<1> QED
  BY <1>1, <1>3, <1>4, CallSteps, ViewTypes DEF RecreateContainer

-----------------------------------------------------------------------------
\* What a call has done when the turn of s comes.
LEMMA InTurn ==
  ASSUME Inv, NEW p \in Calls, NEW s \in Steps, IsNext(calls[p].todo, s), Accepted(p, s)
  PROVE  /\ s \in {"start", "connect"} => calls[p].new \in alive
         /\ s = "protect" => calls[p].new > First /\ calls[p].new < fresh
         /\ s = "forget" => calls[p].old = First
         /\ s = "remove" => /\ calls[p].new > calls[p].old
                            /\ Serves(calls[p].new)
                            /\ "start" \in calls[p].wants => calls[p].new \in started
                            /\ "protect" \in calls[p].wants => calls[p].new \in controls
                            /\ "connect" \in calls[p].wants => calls[p].new \in connected
<1>1. Sound(p) /\ calls[p].todo \in SUBSET Steps /\ calls[p].wants \in SUBSET Steps
  BY CallFields DEF Inv, AllSound
<1>2. calls[p].todo # {} /\ s \in calls[p].todo
  BY <1>1, Order
<1>3. s \in {"start", "connect"} => calls[p].new \in alive
  BY DEF Accepted
<1>4. s \in {"protect", "remove"} => "create" \notin calls[p].todo
  BY <1>1, Order
<1>5. s = "remove" => calls[p].todo \cap {"start", "protect", "connect"} = {}
  BY <1>1, Order
<1>6. s = "protect" => calls[p].new > First /\ calls[p].new < fresh
  BY <1>1, <1>2, <1>4 DEF Sound
<1>7. s = "forget" => calls[p].old = First
  BY <1>1, <1>2 DEF Sound
<1>8. ASSUME s = "remove"
      PROVE  /\ calls[p].new > calls[p].old /\ calls[p].new > First /\ calls[p].new < fresh
             /\ shown.running => "start" \in calls[p].wants
             /\ "start" \in calls[p].wants => calls[p].new \in started
             /\ "protect" \in calls[p].wants => calls[p].new \in controls
             /\ "connect" \in calls[p].wants => calls[p].new \in connected
  BY <1>1, <1>2, <1>4, <1>5, <1>8 DEF Sound
<1> QED
  BY <1>3, <1>6, <1>7, <1>8 DEF Serves

LEMMA AnsweredStep == ASSUME Inv, NEW p \in Calls, NEW s \in Steps, Answered(p, s) PROVE Inv'
<1> DEFINE todo == calls[p].todo \ {s}
           aside == calls[p].aside \cup If(s = "create" /\ p \in Recreates, "connect")
           new == IF s = "create" THEN fresh ELSE calls[p].new
           at == IF todo = {} THEN "success" ELSE calls[p].at
           call == [calls[p] EXCEPT !.at = at, !.todo = todo, !.new = new, !.aside = aside]
<1>1. /\ Become(p, call) /\ calls[p] \in Call /\ Sound(p)
      /\ IsNext(calls[p].todo, s) /\ Accepted(p, s) /\ Served(p, s)
  BY CallFields DEF Answered, Inv, AllSound
<1>2. Kept
  BY <1>1, InTurn, ServedKeeps DEF Kept
<1>3. calls[p].todo \in SUBSET Steps /\ s \in calls[p].todo /\ fresh \in Nat
      /\ (s \in {"start", "protect", "connect"} => "create" \notin calls[p].todo)
      /\ (s \in {"remove", "forget"} => "create" \notin calls[p].todo)
  <2>1. calls[p].todo \in SUBSET Steps /\ fresh \in Nat
    BY CallFields DEF Inv, TypeOK
  <2> QED
    BY <1>1, <2>1, Order
<1>4. aside \subseteq {"stop", "rename", "connect"}
  BY <1>1 DEF Sound, If
<1>5. new \in Nat /\ todo \subseteq Steps /\ at \in {"idle", "find", "confirm", "doing", "success", "failure", "declined"}
  BY <1>1, <1>3 DEF Call
<1>6. call \in Call /\ calls'[p] = call
  BY <1>1, <1>4, <1>5, Becomes DEF Call, Steps
<1>7. /\ s = "create" => fresh' = fresh + 1
      /\ s = "start" => new \in started'
      /\ s = "protect" => new \in controls'
      /\ s = "connect" => new \in connected'
  BY <1>1 DEF Served, If
<1>8. Sound(p)'
  <2>1. calls'[p].old = calls[p].old /\ calls'[p].wants = calls[p].wants
        /\ calls'[p].todo = todo /\ calls'[p].new = new /\ calls'[p].aside = aside
        /\ calls'[p].at = at
    <3>1. calls[p] \in Call /\ calls'[p] = call
      BY <1>1, <1>6
    <3> HIDE DEF at, todo, new, aside
    <3> QED
      BY <3>1 DEF Call
  <2>2. calls[p].old \in Nat /\ calls[p].new \in Nat /\ fresh > First
        /\ calls[p].wants \in SUBSET Steps
    BY CallFields DEF Inv
  <2>3. CASE s = "create"
    BY <1>1, <1>2, <1>3, <1>4, <1>7, <2>1, <2>2, <2>3 DEF Sound, Kept
  <2>4. CASE s # "create"
    BY <1>1, <1>2, <1>3, <1>4, <1>7, <2>1, <2>2, <2>4 DEF Sound, Kept
  <2> QED
    BY <2>3, <2>4
<1>9. busy' \in [Pages -> BOOLEAN] /\ left' \in [Pages -> BOOLEAN]
  BY ViewTypes DEF Answered
<1> QED
  BY <1>1, <1>2, <1>6, <1>8, <1>9, CallSteps

\* A request is served and its answer lost, or neither.
LEMMA FailedKeeps == ASSUME Inv, NEW p \in Calls, NEW s \in Steps, Failed(p, s) PROVE Kept
<1>1. CASE Accepted(p, s) /\ Served(p, s)
  BY <1>1, InTurn, ServedKeeps DEF Failed, Kept
<1>2. CASE UNCHANGED <<engine, shown>>
  BY <1>2, IdleKeeps
<1> QED
  BY <1>1, <1>2 DEF Failed

LEMMA NotifyStep == ASSUME Inv, NEW p \in Calls, NEW s \in Steps, NotifyOnError(p, s) PROVE Inv'
<1> DEFINE call == [calls[p] EXCEPT !.at = "failure", !.todo = {}]
<1>1. Kept /\ Become(p, call) /\ calls[p] \in Call /\ Sound(p)
  BY FailedKeeps, CallFields DEF NotifyOnError, Failed, Inv, AllSound
<1>2. call \in Call /\ calls'[p] = call
  BY <1>1, Becomes DEF Call
<1>3. Sound(p)'
  BY <1>1, <1>2, CallFields DEF Sound, Kept, Call, Inv, TypeOK
<1> QED
  BY <1>1, <1>2, <1>3, CallSteps, ViewTypes DEF NotifyOnError, Failed

LEMMA AsideStep == ASSUME Inv, NEW p \in Calls, NEW s \in Steps, Aside(p, s) PROVE Inv'
<1>1. calls[p] \in Call /\ Sound(p) /\ calls[p].aside \in SUBSET Steps
      /\ calls[p].todo \in SUBSET Steps /\ calls[p].wants \in SUBSET Steps
      /\ calls[p].old \in Nat /\ calls[p].new \in Nat /\ fresh \in Nat /\ fresh > First
  BY CallFields DEF Inv, AllSound, TypeOK
<1>2. s \in {"stop", "rename", "connect"}
  BY <1>1 DEF Aside, IsNext, Sound
<1>3. Kept
  <2>1. CASE Accepted(p, s) /\ Served(p, s)
    <3>1. s = "connect" => calls[p].new \in alive
      BY <2>1 DEF Accepted
    <3> QED
      BY <2>1, <3>1, <1>2, ServedKeeps DEF Kept
  <2>2. CASE UNCHANGED <<engine, shown>>
    BY <2>2, IdleKeeps
  <2> QED
    BY <2>1, <2>2 DEF Aside
<1>4. ASSUME NEW rest \in SUBSET calls[p].aside, Become(p, [calls[p] EXCEPT !.aside = rest])
      PROVE  Inv'
  <2> DEFINE call == [calls[p] EXCEPT !.aside = rest]
  <2>1. call \in Call /\ calls'[p] = call
    BY <1>1, <1>4, Becomes DEF Call
  <2>2. Sound(p)'
    <3>1. calls'[p].old = calls[p].old /\ calls'[p].wants = calls[p].wants
          /\ calls'[p].todo = calls[p].todo /\ calls'[p].new = calls[p].new
          /\ calls'[p].at = calls[p].at /\ calls'[p].aside = rest
      BY <1>1, <2>1 DEF Call
    <3> QED
      BY <1>1, <1>3, <3>1 DEF Sound, Kept, First
  <2> QED
    BY <1>3, <1>4, <2>1, <2>2, CallSteps, ViewTypes DEF Aside, view
<1> QED
  BY <1>4 DEF Aside

LEMMA ExitsStep == ASSUME Inv, NEW c \in running, Exits(c) PROVE Inv'
<1>1. TypeOK'
  BY DEF Inv, TypeOK, Exits, view
<1>2. AllSound'
  BY DEF Inv, AllSound, Sound, Exits, view
<1>3. NewestLives' /\ fresh' > First
  BY DEF Inv, NewestLives, Serves, Exits
<1> QED
  BY <1>1, <1>2, <1>3 DEF Inv

LEMMA Stutters == ASSUME Inv, UNCHANGED vars PROVE Inv'
<1>1. TypeOK'
  BY DEF Inv, TypeOK, vars, engine, view
<1>2. AllSound'
  BY DEF Inv, AllSound, Sound, vars, engine, view
<1>3. NewestLives' /\ fresh' > First
  BY DEF Inv, NewestLives, Serves, vars, engine
<1> QED
  BY <1>1, <1>2, <1>3 DEF Inv

LEMMA Stepping == Inv /\ [Next]_vars => Inv'
<1> SUFFICES ASSUME Inv, [Next]_vars PROVE Inv'
  OBVIOUS
<1>1. ASSUME NEW p \in Calls, Click(p) PROVE Inv'
  BY <1>1, ClickStep
<1>2. ASSUME NEW p \in Calls, FindCurrentContainer(p) PROVE Inv'
  BY <1>2, FindStep
<1>3. ASSUME NEW p \in Calls, Decline(p) PROVE Inv'
  BY <1>3, DeclineStep
<1>4. ASSUME NEW p \in Calls, NEW protect \in BOOLEAN, NEW connect \in BOOLEAN,
             StartCreationProcess(p, protect, connect)
      PROVE  Inv'
  BY <1>4, StartStep
<1>5. ASSUME NEW p \in Calls, RecreateContainer(p) PROVE Inv'
  BY <1>5, RecreateStep
<1>6. ASSUME NEW p \in Calls, Progress(p) PROVE Inv'
  BY <1>6, AnsweredStep, NotifyStep DEF Progress
<1>7. ASSUME NEW p \in Calls, NEW s \in Steps, Aside(p, s) PROVE Inv'
  BY <1>7, AsideStep
<1>8. ASSUME NEW c \in running, Exits(c) PROVE Inv'
  BY <1>8, ExitsStep
<1>9. CASE UNCHANGED vars
  BY <1>9, Stutters
<1> QED
  BY <1>1, <1>2, <1>3, <1>4, <1>5, <1>6, <1>7, <1>8, <1>9 DEF Next

LEMMA Invariance == Spec => []Inv
BY Opening, Stepping, PTL DEF Spec

-----------------------------------------------------------------------------
\* Types, for any number of calls: what the page and the engine hold of the
\* containers that are being replaced stays well formed.
THEOREM Typing == Spec => []TypeOK
<1>1. Inv => TypeOK
  BY DEF Inv
<1> QED
  BY <1>1, Invariance, PTL

\* However many calls of create() and recreateContainer() overlap and fail, there is
\* always the first container or one started in its stead: the newest is never the old one of a call.
THEOREM AlwaysOne == Spec => []Survives
<1>1. Inv => Survives
  BY DEF Inv, NewestLives, Serves, Survives
<1> QED
  BY <1>1, Invariance, PTL

\* A container is only removed by a call whose new one is ready: created, started,
\* protected and connected as the chain was to do.
THEOREM RemovedWhenReplaced == Spec => ReadyFirst
<1> DEFINE Ready == \A c \in alive \ alive' : \E p \in Calls :
             /\ calls[p].old = c /\ calls[p].new > c
             /\ "start" \in calls[p].wants => calls[p].new \in started
             /\ "protect" \in calls[p].wants => calls[p].new \in controls
             /\ "connect" \in calls[p].wants => calls[p].new \in connected
<1>1. ASSUME Inv, [Next]_vars PROVE [Ready]_vars
  <2>1. ASSUME NEW p \in Calls, NEW s \in Steps, Accepted(p, s), Served(p, s),
               IsNext(calls[p].todo, s) \/ s \notin {"remove"}
        PROVE  Ready
    <3>1. CASE s = "remove"
      <4>1. alive \ alive' \subseteq {calls[p].old}
        BY <2>1, <3>1 DEF Served, If
      <4> QED
        BY <4>1, <1>1, <2>1, <3>1, InTurn
    <3>2. CASE s # "remove"
      BY <2>1, <3>2 DEF Served
    <3> QED
      BY <3>1, <3>2
  <2>2. ASSUME alive' = alive PROVE Ready
    BY <2>2
  <2>3. ASSUME NEW p \in Calls, Progress(p) PROVE Ready
    BY <2>1, <2>2, <2>3 DEF Progress, Answered, NotifyOnError, Failed, engine
  <2>4. ASSUME NEW p \in Calls, NEW s \in Steps, Aside(p, s) PROVE Ready
    <3>1. s # "remove"
      BY <1>1, <2>4 DEF Aside, IsNext, Inv, AllSound, Sound
    <3> QED
      BY <2>1, <2>2, <2>4, <3>1 DEF Aside, engine
  <2> HIDE DEF Ready
  <2> QED
    BY <1>1, <2>2, <2>3, <2>4
    DEF Next, vars, engine, Click, FindCurrentContainer, Decline, StartCreationProcess,
        RecreateContainer, Exits
<1> QED
  BY <1>1, Invariance, PTL DEF Spec, ReadyFirst
=============================================================================
