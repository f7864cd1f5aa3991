----------------------------- MODULE EditService ----------------------------
(* The page that edits a Swarm service: the sections it shows, the copy kept *)
(* to reset them, the specification the answer carried, and the updates and  *)
(* reads under way.  JavaScript passes objects by reference, so the three    *)
(* come to share parts; and an update is refused unless it names the version *)
(* the service is at, which others may change.  What the page shows of a      *)
(* section is a translation of it, which does not give every value back.      *)
EXTENDS Naturals, FiniteSets

CONSTANTS
  Sections,       \* what the page shows and edits: Image, EnvironmentVariables ...
  Rest,           \* what no update carries: RollbackConfig
  Values,
  Possible,       \* Possible[s]: those a section of either kind can have
  Default,        \* what Swarm makes of a section that an update leaves out
  Back,           \* Back[s][v]: v, shown and translated back for an update
  Published,      \* sections shown as the endpoint has them, not the spec: Ports
  Images,         \* sections a forced update may take the digest from: Image
  Arrays,         \* the sections that are arrays, edited in place
  InTemplate,     \* those under TaskTemplate or Mode in the specification
  OnlyIfMarked,   \* those an update takes from the page only if they are marked
  Shared,         \* those an update hands on without copying: ServiceMounts
  Silent,         \* those with an edit that does not mark them: Ports, Hosts ...
  Sliders,        \* those with an input that is never disabled
  Forms,          \* the sections each form resets together
  Slots,          \* bound: requests under way at a time
  MaxVersion,     \* bound: versions of the service; at the last one nobody edits
  MaxMarks        \* bound: marks of a section

ASSUME SectionsAreSorted ==
  /\ Arrays \subseteq Sections /\ InTemplate \subseteq Sections
  /\ OnlyIfMarked \subseteq Sections \ Arrays
  /\ Shared \subseteq Arrays \cap InTemplate
  /\ Silent \subseteq Arrays /\ Sliders \subseteq OnlyIfMarked
  /\ Published \subseteq Sections /\ Images \subseteq InTemplate
  /\ Forms \subseteq SUBSET Sections
ASSUME ValuesAreTranslated ==
  /\ Possible \in [Sections \cup Rest -> SUBSET Values] /\ Default \in Values
  /\ Back \in [Sections -> [Values -> Values]]
ASSUME BoundsAreNumbers == MaxVersion \in Nat /\ MaxMarks \in Nat

VARIABLES
  spec, version,  \* the service, as Swarm keeps it
  page,           \* $scope.service: what is shown, Model and Version, with
                  \* originalService: its copy of the sections and of Model
  joined,         \* sections shown by the very array originalService holds
  mounted,        \* sections whose array Model holds too
  modelJoined,    \* Model is the one originalService holds
  marks,          \* how often previousServiceValues lists a section
  last,           \* $scope.lastVersion
  isUpdating,     \* $scope.isUpdating: the inputs are disabled
  net,            \* the requests under way and their answers
  touched,        \* history: the sections edited while the page showed a version
  misled          \* history: an update was answered "200, rpc error"

vars == <<spec, version, page, joined, mounted, modelJoined, marks, last, isUpdating, net,
          touched, misled>>
service == <<spec, version>>
sharing == <<joined, mounted, modelJoined>>

Sheets == [Sections -> Values]
Ports == {x \in [Published -> Values] : \A s \in Published : x[s] \in Possible[s]}
Pages == [shown : Sheets, original : Sheets, model : Sheets, originalModel : Sheets,
          version : Nat]
Update == [kind : {"update"}, config : Sheets, version : Nat, forced : BOOLEAN]
Outcome == [kind : {"done"}, forced : BOOLEAN]
Value == [kind : {"value"}, config : Sheets, ports : Ports, version : Nat]
Read == [kind |-> "read"]
Idle == [kind |-> "none"]

-----------------------------------------------------------------------------
\* ServiceViewModel and the translations of initView: what is shown of a section
\* stands for the value an update will make of it.  An environment variable without
\* "=" and a host with aliases do not come back, a size comes back rounded.
View(sheet, ports) ==
  [s \in Sections |-> IF s \in Published THEN ports[s] ELSE Back[s][sheet[s]]]

\* initView with the answer: the sections, Model and originalService are copies
\* of what was read, none shared with another but for Model, which is the answer.
PageOf(sheet, ports, v) ==
  [shown |-> View(sheet, ports), original |-> View(sheet, ports),
   model |-> sheet, originalModel |-> sheet, version |-> v]
SectionsOf(s) == [x \in Sections |-> s[x]]

\* The page once its first read is answered.
Init ==
  /\ spec \in {x \in [Sections \cup Rest -> Values] : \A s \in DOMAIN x : x[s] \in Possible[s]}
  /\ version = 1
  /\ \E ports \in Ports : page = PageOf(SectionsOf(spec), ports, 1)
  /\ joined = {} /\ mounted = {} /\ modelJoined = FALSE
  /\ marks = [s \in Sections |-> 0]
  /\ last = 1 /\ isUpdating = FALSE
  /\ net = [i \in Slots |-> Idle]
  /\ touched = {} /\ misled = FALSE

Put(i, message) == net' = [net EXCEPT ![i] = message]

\* updateServiceArray, updateServiceAttribute and the handlers that call them:
\* whoever holds the array that is edited sees it change.
WithModel(p, model) ==
  [p EXCEPT !.model = model, !.originalModel = IF modelJoined THEN model ELSE @]
Edited(s, v) ==
  LET model == IF s \in mounted THEN [page.model EXCEPT ![s] = v] ELSE page.model
  IN  [WithModel(page, model) EXCEPT
        !.shown[s] = v, !.original = IF s \in joined THEN [@ EXCEPT ![s] = v] ELSE @]
Edit(s, v) ==
  /\ version < MaxVersion /\ (isUpdating => s \in Sliders)
  /\ page' = Edited(s, v)
  /\ touched' = touched \cup {<<page.version, s>>}
  /\ \/ marks[s] < MaxMarks /\ marks' = [marks EXCEPT ![s] = @ + 1]
     \/ s \in Silent /\ UNCHANGED marks
  /\ UNCHANGED <<service, sharing, last, isUpdating, net, misled>>

\* cancelChanges with the sections of a form: one mark of each goes, and what is
\* shown is from now on what originalService holds.
CancelUnchecked(K) ==  \* mutant
  /\ page' = [page EXCEPT !.shown = [s \in Sections |-> IF s \in K THEN page.original[s] ELSE @[s]]]
  /\ marks' = [s \in Sections |-> IF s \in K THEN marks[s] - 1 ELSE marks[s]]
  /\ joined' = joined \cup (K \cap Arrays) /\ mounted' = mounted \ (K \ joined)
  /\ UNCHANGED <<service, modelJoined, last, isUpdating, net, touched, misled>>
CancelChanges(K) ==
  /\ page' = [page EXCEPT !.shown = [s \in Sections |-> IF s \in K THEN page.original[s] ELSE @[s]]]
  /\ marks' = [s \in Sections |-> IF s \in K /\ marks[s] > 0 THEN marks[s] - 1 ELSE marks[s]]
  /\ joined' = joined \cup (K \cap Arrays) /\ mounted' = mounted \ (K \ joined)
  /\ UNCHANGED <<service, modelJoined, last, isUpdating, net, touched, misled>>

\* cancelChanges without: every mark goes, and every attribute comes from
\* originalService, Model too.
CancelAllChanges ==
  /\ page' = [page EXCEPT !.shown = page.original, !.model = page.originalModel]
  /\ marks' = [s \in Sections |-> 0]
  /\ joined' = Arrays /\ modelJoined' = TRUE
  /\ mounted' = IF modelJoined THEN mounted \ (Arrays \ joined) ELSE {}
  /\ UNCHANGED <<service, last, isUpdating, net, touched, misled>>

-----------------------------------------------------------------------------
Sent(sheet, forced) ==
  [kind |-> "update", config |-> sheet, version |-> page.version, forced |-> forced]

\* updateService, from any form with a mark: serviceToConfig takes TaskTemplate
\* and Mode from Model by reference, so what is filled in stays in Model, whatever
\* the answer.
UpdateService(i) ==
  LET config == [s \in Sections |->
                  IF s \in OnlyIfMarked /\ marks[s] = 0 THEN page.model[s] ELSE page.shown[s]]
      model == [s \in Sections |-> IF s \in InTemplate THEN config[s] ELSE page.model[s]]
  IN  /\ \E s \in Sections : marks[s] > 0
      /\ net[i] = Idle /\ Put(i, Sent(config, FALSE))
      /\ page' = WithModel(page, model)
      /\ mounted' = mounted \cup Shared
      /\ UNCHANGED <<service, joined, modelJoined, marks, last, isUpdating, touched, misled>>

\* forceUpdateService, confirmed: Model as it is, and no other at the same time.
\* To pull the image again it takes the digest from the one in Model.
UpdateInProgress == \E i \in Slots : net[i].kind \in {"update", "done"} /\ net[i].forced
ForceUpdateService(i) ==
  /\ ~isUpdating /\ ~UpdateInProgress
  /\ net[i] = Idle
  /\ \E pulled \in {{}, Images}, bare \in [Images -> Values] :
       LET model == [s \in Sections |-> IF s \in pulled THEN bare[s] ELSE page.model[s]]
       IN  /\ Put(i, Sent(model, TRUE)) /\ page' = WithModel(page, model)
           /\ touched' = touched \cup ({page.version} \X pulled)
  /\ UNCHANGED <<service, sharing, marks, last, isUpdating, misled>>

-----------------------------------------------------------------------------
\* Swarm makes an update that names the version the service is at.  What the
\* update leaves out is gone.
Accept(i) ==
  /\ net[i].kind = "update" /\ net[i].version = version /\ version < MaxVersion
  /\ spec' = [s \in Sections \cup Rest |-> IF s \in Sections THEN net[i].config[s] ELSE Default]
  /\ version' = version + 1
  /\ Put(i, [kind |-> "done", forced |-> net[i].forced])
  /\ UNCHANGED <<page, sharing, marks, last, isUpdating, touched, misled>>
ServeRead(i) ==
  /\ net[i].kind = "read"
  /\ \E ports \in Ports :
       Put(i, [kind |-> "value", config |-> SectionsOf(spec), ports |-> ports, version |-> version])
  /\ UNCHANGED <<service, page, sharing, marks, last, isUpdating, touched, misled>>

\* Another page, a stack or a webhook updates the service.
OtherUpdate(s, v) ==
  /\ version < MaxVersion
  /\ spec' = [spec EXCEPT ![s] = v] /\ version' = version + 1
  /\ UNCHANGED <<page, sharing, marks, last, isUpdating, net, touched, misled>>

-----------------------------------------------------------------------------
\* The success of an update: cancelChanges({}) empties previousServiceValues and
\* resets nothing; initView reads the service again.  An engine that answers 200
\* with "rpc error" in the body has changed nothing, and is treated alike.
Updated(i) ==
  /\ net[i].kind \in {"done", "update"}
  /\ misled' = (misled \/ net[i].kind = "update")
  /\ marks' = [s \in Sections |-> 0]
  /\ Put(i, Read)
  /\ UNCHANGED <<service, page, sharing, last, isUpdating, touched>>
\* The refusal of another version, or any other, is shown, and the page keeps its
\* edits.  It changes nothing, so when it is decided does not matter.
NotUpdatedButRead(i) ==  \* mutant
  /\ net[i].kind = "update" /\ Put(i, Read)
  /\ UNCHANGED <<service, page, sharing, marks, last, isUpdating, touched, misled>>
NotUpdated(i) ==
  /\ net[i].kind = "update" /\ Put(i, Idle)
  /\ UNCHANGED <<service, page, sharing, marks, last, isUpdating, touched, misled>>

\* initView: a version no newer than the last one is taken to mean that an update
\* is still being made.
ReadVersionOnly(i) ==  \* mutant
  /\ net[i].kind = "value"
  /\ isUpdating' = (last >= net[i].version)
  /\ last' = IF last >= net[i].version THEN last ELSE net[i].version
  /\ page' = [page EXCEPT !.version = net[i].version]
  /\ joined' = {} /\ mounted' = {} /\ modelJoined' = FALSE
  /\ touched' = {x \in touched : x[1] >= net[i].version}
  /\ Put(i, Idle)
  /\ UNCHANGED <<service, marks, misled>>
InitView(i) ==
  /\ net[i].kind = "value"
  /\ isUpdating' = (last >= net[i].version)
  /\ last' = IF last >= net[i].version THEN last ELSE net[i].version
  /\ page' = PageOf(net[i].config, net[i].ports, net[i].version)
  /\ joined' = {} /\ mounted' = {} /\ modelJoined' = FALSE
  /\ touched' = {x \in touched : x[1] >= net[i].version}
  /\ Put(i, Idle)
  /\ UNCHANGED <<service, marks, misled>>
\* The read fails: the page says so and stays as it is.
ReadFails(i) ==
  /\ net[i].kind = "read" /\ Put(i, Idle)
  /\ UNCHANGED <<service, page, sharing, marks, last, isUpdating, touched, misled>>

Next ==
  \/ \E s \in Sections : \E v \in Possible[s] : Edit(s, v)
  \/ \E s \in Sections \cup Rest : \E v \in Possible[s] : OtherUpdate(s, v)
  \/ \E K \in Forms : CancelChanges(K)
  \/ CancelAllChanges
  \/ \E i \in Slots : \/ UpdateService(i) \/ ForceUpdateService(i)
                      \/ Accept(i) \/ ServeRead(i)
                      \/ Updated(i) \/ NotUpdated(i) \/ InitView(i) \/ ReadFails(i)

Spec == Init /\ [][Next]_vars

-----------------------------------------------------------------------------
\* Types; a section that shares its array is an array, and is not marked less
\* than never.
TypeOK ==
  /\ spec \in [Sections \cup Rest -> Values] /\ version \in Nat
  /\ page \in Pages
  /\ joined \subseteq Arrays /\ mounted \subseteq Shared /\ modelJoined \in BOOLEAN
  /\ marks \in [Sections -> Nat]
  /\ last \in Nat /\ isUpdating \in BOOLEAN
  /\ net \in [Slots -> Update \cup Outcome \cup Value \cup {Read, Idle}]
  /\ touched \subseteq Nat \X Sections /\ misled \in BOOLEAN

\* The work of others is kept: an update that is accepted changes no section but
\* those edited on this page while it showed the version that is replaced.  The
\* version makes it so: what the page sends of the rest is what the service is at.
\* What was edited and then reset may still be sent: Model remembers it.  The code
\* keeps it of what comes back from the page as it was: not of the section that no
\* update carries, of a value the page cannot show, or of the ports, which it takes
\* from the endpoint.
ComesBack(s, v) == s \notin Published /\ Back[s][v] = v
OthersKept ==
  [][\A i \in Slots : net[i].kind = "update" /\ net'[i].kind = "done" =>
       \A s \in Sections : spec'[s] # spec[s] =>
         <<version, s>> \in touched \/ ~ComesBack(s, spec[s])]_vars

\* The page never takes its own update for one under way, which would disable every
\* input until the user reloads it: unless an engine has said 200 and done nothing,
\* what is read after an update is newer than what was read before.
NeverLocked == ~misled => ~isUpdating
=============================================================================
