-------------------------- MODULE EditServiceProofs -------------------------
(* What holds of the page that edits a service for any sections, values and *)
(* bounds: its types, that it never locks itself, and that an update keeps  *)
(* the work of others.                                                      *)
EXTENDS EditService, TLAPS

\* A message that is not idle says by its kind what it carries.
LEMMA Carried ==
  ASSUME TypeOK, NEW i \in Slots
  PROVE  /\ net[i].kind = "update" => net[i] \in Update
         /\ net[i].kind = "done" => net[i] \in Outcome
         /\ net[i].kind = "value" => net[i] \in Value
  BY DEF TypeOK, Update, Outcome, Value, Read, Idle

\* Editing a page, or giving it another Model, leaves it a page.
LEMMA ModelTyped ==
  ASSUME TypeOK, NEW model \in Sheets, NEW p \in Pages
  PROVE  WithModel(p, model) \in Pages
  BY DEF WithModel, Pages, TypeOK

LEMMA EditedTyped ==
  ASSUME TypeOK, NEW s \in Sections, NEW v \in Values
  PROVE  Edited(s, v) \in Pages
<1> DEFINE model == IF s \in mounted THEN [page.model EXCEPT ![s] = v] ELSE page.model
           p == WithModel(page, model)
           original == IF s \in joined THEN [p.original EXCEPT ![s] = v] ELSE p.original
<1>1. model \in Sheets
  BY DEF TypeOK, Pages, Sheets
<1>2. p \in Pages
  BY <1>1, ModelTyped DEF TypeOK
<1>3. original \in Sheets /\ [p.shown EXCEPT ![s] = v] \in Sheets
  BY <1>2 DEF Pages, Sheets
<1>4. Edited(s, v) = [p EXCEPT !.shown = [p.shown EXCEPT ![s] = v], !.original = original]
  BY <1>2 DEF Edited, Pages
<1> QED
  BY <1>2, <1>3, <1>4 DEF Pages

\* A page made of an answer is a page.
LEMMA PageTyped ==
  ASSUME NEW sheet \in Sheets, NEW ports \in Ports, NEW v \in Nat
  PROVE  PageOf(sheet, ports, v) \in Pages
<1>1. View(sheet, ports) \in Sheets
  BY ValuesAreTranslated DEF View, Sheets, Ports
<1> QED
  BY <1>1 DEF PageOf, Pages

LEMMA SectionsTyped ==
  ASSUME NEW x \in [Sections \cup Rest -> Values]
  PROVE  SectionsOf(x) \in Sheets
  BY DEF SectionsOf, Sheets

\* The types hold initially and every action keeps them.
LEMMA InitTyped == Init => TypeOK
<1> SUFFICES ASSUME Init PROVE TypeOK
  OBVIOUS
<1>1. page \in Pages
  BY PageTyped, SectionsTyped DEF Init
<1>2. net \in [Slots -> Update \cup Outcome \cup Value \cup {Read, Idle}]
  BY DEF Init
<1>3. joined \subseteq Arrays /\ mounted \subseteq Shared /\ touched \subseteq Nat \X Sections
  BY DEF Init
<1> QED
  BY <1>1, <1>2, <1>3 DEF Init, TypeOK

LEMMA NextTyped ==
  ASSUME TypeOK, [Next]_vars
  PROVE  TypeOK'
<1> USE DEF Put, Read, Idle, service, sharing
<1>1. ASSUME NEW s \in Sections, NEW v \in Values, Edit(s, v)
      PROVE  TypeOK'
  <2>1. page' \in Pages
    BY <1>1, EditedTyped DEF Edit
  <2>2. touched' \subseteq Nat \X Sections
    BY <1>1 DEF Edit, TypeOK, Pages
  <2>3. marks' \in [Sections -> Nat]
    BY <1>1 DEF Edit, TypeOK
  <2> QED
    BY <1>1, <2>1, <2>2, <2>3 DEF Edit, TypeOK
<1>2. ASSUME NEW s \in Sections \cup Rest, NEW v \in Values, OtherUpdate(s, v)
      PROVE  TypeOK'
  BY <1>2 DEF OtherUpdate, TypeOK
<1>3. ASSUME NEW K \in Forms, CancelChanges(K)
      PROVE  TypeOK'
  <2>1. page' \in Pages
    BY <1>3 DEF CancelChanges, TypeOK, Pages, Sheets
  <2>2. marks' \in [Sections -> Nat]
    BY <1>3 DEF CancelChanges, TypeOK
  <2>3. joined' \subseteq Arrays /\ mounted' \subseteq Shared
    BY <1>3 DEF CancelChanges, TypeOK
  <2> QED
    BY <1>3, <2>1, <2>2, <2>3 DEF CancelChanges, TypeOK
<1>4. CASE CancelAllChanges
  BY <1>4 DEF CancelAllChanges, TypeOK, Pages
<1>5. ASSUME NEW i \in Slots, UpdateService(i)
      PROVE  TypeOK'
  <2> DEFINE config == [s \in Sections |->
               IF s \in OnlyIfMarked /\ marks[s] = 0 THEN page.model[s] ELSE page.shown[s]]
             model == [s \in Sections |-> IF s \in InTemplate THEN config[s] ELSE page.model[s]]
  <2>1. config \in Sheets
    BY DEF TypeOK, Pages, Sheets
  <2>2. model \in Sheets
    BY <2>1 DEF TypeOK, Pages, Sheets
  <2>3. page' \in Pages
    BY <1>5, <2>2, ModelTyped DEF UpdateService, TypeOK
  <2>4. Sent(config, FALSE) \in Update
    BY <2>1 DEF Sent, Update, TypeOK, Pages
  <2>5. net' \in [Slots -> Update \cup Outcome \cup Value \cup {Read, Idle}]
    BY <1>5, <2>4 DEF UpdateService, TypeOK
  <2> QED
    BY <1>5, <2>3, <2>5 DEF UpdateService, TypeOK
<1>6. ASSUME NEW i \in Slots, ForceUpdateService(i)
      PROVE  TypeOK'
  <2>1. PICK pulled \in {{}, Images}, bare \in [Images -> Values] :
          LET model == [s \in Sections |-> IF s \in pulled THEN bare[s] ELSE page.model[s]]
          IN  /\ Put(i, Sent(model, TRUE)) /\ page' = WithModel(page, model)
              /\ touched' = touched \cup ({page.version} \X pulled)
    BY <1>6 DEF ForceUpdateService
  <2> DEFINE model == [s \in Sections |-> IF s \in pulled THEN bare[s] ELSE page.model[s]]
  <2>2. pulled \subseteq Images /\ pulled \subseteq Sections
    BY SectionsAreSorted
  <2>3. model \in Sheets
    BY <2>2 DEF TypeOK, Pages, Sheets
  <2>4. Sent(model, TRUE) \in Update
    BY <2>3 DEF Sent, Update, TypeOK, Pages
  <2>5. page' \in Pages
    BY <2>1, <2>3, ModelTyped DEF TypeOK
  <2>6. touched' \subseteq Nat \X Sections
    BY <2>1, <2>2 DEF TypeOK, Pages
  <2> QED
    BY <1>6, <2>1, <2>4, <2>5, <2>6 DEF ForceUpdateService, TypeOK
<1>7. ASSUME NEW i \in Slots, Accept(i)
      PROVE  TypeOK'
  <2>1. spec' \in [Sections \cup Rest -> Values]
    BY <1>7, Carried, ValuesAreTranslated DEF Accept, Update, Sheets
  <2> QED
    BY <1>7, <2>1, Carried DEF Accept, TypeOK, Update, Outcome
<1>8. ASSUME NEW i \in Slots, ServeRead(i)
      PROVE  TypeOK'
  <2>1. PICK ports \in Ports :
          Put(i, [kind |-> "value", config |-> SectionsOf(spec), ports |-> ports, version |-> version])
    BY <1>8 DEF ServeRead
  <2>2. SectionsOf(spec) \in Sheets
    BY SectionsTyped DEF TypeOK
  <2>3. net' \in [Slots -> Update \cup Outcome \cup Value \cup {Read, Idle}]
    BY <2>1, <2>2 DEF TypeOK, Value
  <2> QED
    BY <1>8, <2>3 DEF ServeRead, TypeOK
<1>9. ASSUME NEW i \in Slots, Updated(i)
      PROVE  TypeOK'
  BY <1>9 DEF Updated, TypeOK
<1>10. ASSUME NEW i \in Slots, NotUpdated(i)
       PROVE  TypeOK'
  BY <1>10 DEF NotUpdated, TypeOK
<1>11. ASSUME NEW i \in Slots, InitView(i)
       PROVE  TypeOK'
  <2>1. net[i] \in Value
    BY <1>11, Carried DEF InitView
  <2>2. page' \in Pages /\ last' \in Nat /\ isUpdating' \in BOOLEAN
    BY <1>11, <2>1, PageTyped DEF InitView, Value, TypeOK
  <2>3. net' \in [Slots -> Update \cup Outcome \cup Value \cup {Read, Idle}]
    BY <1>11 DEF InitView, TypeOK
  <2> QED
    BY <1>11, <2>2, <2>3 DEF InitView, TypeOK
<1>12. ASSUME NEW i \in Slots, ReadFails(i)
       PROVE  TypeOK'
  BY <1>12 DEF ReadFails, TypeOK
<1>13. CASE UNCHANGED vars
  BY <1>13 DEF vars, TypeOK
<1> QED
  BY <1>1, <1>2, <1>3, <1>4, <1>5, <1>6, <1>7, <1>8, <1>9, <1>10, <1>11, <1>12, <1>13, ValuesAreTranslated DEF Next

\* The variables of the page always have their types, whatever the sections.
THEOREM Typing == Spec => []TypeOK
  BY InitTyped, NextTyped, PTL DEF Spec

-----------------------------------------------------------------------------
(* While no engine has said 200 and done nothing, at most one success is     *)
(* being read back, and the service is then ahead of the page.               *)
ReadingBack == {i \in Slots : net[i].kind \in {"done", "read", "value"}}
OneAtATime ==
  ~misled =>
    /\ ~isUpdating /\ last = page.version /\ page.version <= version
    /\ \A i, j \in ReadingBack : i = j
    /\ ReadingBack # {} => page.version < version
    /\ \A i \in Slots : /\ net[i].kind = "value" => page.version < net[i].version /\ net[i].version <= version
                        /\ net[i].kind = "update" => net[i].version <= page.version

LEMMA InitOneAtATime == Init => OneAtATime
  BY DEF Init, OneAtATime, ReadingBack, Idle, PageOf

Calm(i) ==
  \/ net'[i] = net[i]
  \/ net'[i].kind = "update" /\ net'[i].version = page.version
  \/ net'[i].kind = "none"

\* A step that leaves the versions, the reading back and the messages alone.
LEMMA Undisturbed ==
  ASSUME TypeOK, OneAtATime, misled' = misled,
         isUpdating' = isUpdating, last' = last, page'.version = page.version,
         version' \in Nat, version \in Nat, page.version \in Nat,
         version' = version \/ version' = version + 1,
         \A i \in Slots : Calm(i)
  PROVE  OneAtATime'
<1> USE DEF Calm
<1> SUFFICES ASSUME ~misled' PROVE OneAtATime'
  BY DEF OneAtATime
<1>1. ~misled
  OBVIOUS
<1>2. ReadingBack' \subseteq ReadingBack
  BY DEF ReadingBack
<1>3. ~isUpdating' /\ last' = page'.version
  BY <1>1 DEF OneAtATime
<1>4. page'.version <= version' /\ (ReadingBack' # {} => page'.version < version')
  BY <1>1, <1>2 DEF OneAtATime
<1>5. \A i, j \in ReadingBack' : i = j
  BY <1>1, <1>2 DEF OneAtATime
<1>6. ASSUME NEW i \in Slots, net'[i].kind = "value"
      PROVE  page'.version < net'[i].version /\ net'[i].version <= version'
  <2>1. net'[i] = net[i] /\ net[i] \in Value
    BY <1>6, Carried
  <2>2. page.version < net[i].version /\ net[i].version <= version /\ net[i].version \in Nat
    BY <1>1, <1>6, <2>1 DEF OneAtATime, Value
  <2> QED
    BY <2>1, <2>2
<1>7. ASSUME NEW i \in Slots, net'[i].kind = "update"
      PROVE  net'[i].version <= page'.version
  BY <1>1, <1>7 DEF OneAtATime
<1> QED
  BY <1>3, <1>4, <1>5, <1>6, <1>7 DEF OneAtATime

LEMMA NetAlone ==
  ASSUME TypeOK, OneAtATime, misled' = misled, isUpdating' = isUpdating, last' = last,
         net' = net, page'.version = page.version, version \in Nat, page.version \in Nat,
         version' = version \/ version' = version + 1
  PROVE  OneAtATime'
<1>1. version' \in Nat
  OBVIOUS
<1>2. \A i \in Slots : Calm(i)
  BY DEF Calm
<1> QED
  BY <1>1, <1>2, Undisturbed

LEMMA NextOneAtATime ==
  ASSUME TypeOK, TypeOK', OneAtATime, [Next]_vars
  PROVE  OneAtATime'
<1> USE DEF Put, service
<1>0. version \in Nat /\ version' \in Nat /\ page.version \in Nat
  BY DEF TypeOK, Pages
<1>1. ASSUME NEW s \in Sections, NEW v \in Values, Edit(s, v)
      PROVE  OneAtATime'
  <2>1. page'.version = page.version
    BY <1>1 DEF Edit, Edited, WithModel, TypeOK, Pages
  <2> QED
    BY <1>0, <1>1, <2>1, NetAlone DEF Edit
<1>2. ASSUME NEW s \in Sections \cup Rest, NEW v \in Values, OtherUpdate(s, v)
      PROVE  OneAtATime'
  BY <1>0, <1>2, NetAlone DEF OtherUpdate
<1>3. ASSUME NEW K \in Forms, CancelChanges(K)
      PROVE  OneAtATime'
  <2>1. page'.version = page.version
    BY <1>3 DEF CancelChanges, TypeOK, Pages
  <2> QED
    BY <1>0, <1>3, <2>1, NetAlone DEF CancelChanges
<1>4. CASE CancelAllChanges
  <2>1. page'.version = page.version
    BY <1>4 DEF CancelAllChanges, TypeOK, Pages
  <2> QED
    BY <1>0, <1>4, <2>1, NetAlone DEF CancelAllChanges
<1>5. ASSUME NEW i \in Slots, UpdateService(i)
      PROVE  OneAtATime'
  <2>1. page'.version = page.version
    BY <1>5 DEF UpdateService, WithModel, TypeOK, Pages
  <2>2. \A j \in Slots : Calm(j)
    BY <1>5 DEF Calm, UpdateService, Sent, TypeOK
  <2> QED
    BY <1>0, <1>5, <2>1, <2>2, Undisturbed DEF UpdateService
<1>6. ASSUME NEW i \in Slots, ForceUpdateService(i)
      PROVE  OneAtATime'
  <2>1. \A j \in Slots : Calm(j)
    BY <1>6 DEF Calm, ForceUpdateService, Sent, TypeOK
  <2>2. page'.version = page.version
    BY <1>6 DEF ForceUpdateService, WithModel, TypeOK, Pages
  <2> QED
    BY <1>0, <1>6, <2>1, <2>2, Undisturbed DEF ForceUpdateService
<1>7. ASSUME NEW i \in Slots, Accept(i)
      PROVE  OneAtATime'
  <2> SUFFICES ASSUME ~misled' PROVE OneAtATime'
    BY DEF OneAtATime
  <2>1. page.version = version /\ ReadingBack = {}
    BY <1>0, <1>7 DEF Accept, OneAtATime
  <2>2. \A j \in Slots : j # i => net'[j] = net[j]
    BY <1>7 DEF Accept, TypeOK
  <2>3. net'[i].kind = "done"
    BY <1>7 DEF Accept, TypeOK
  <2>4. ReadingBack' = {i}
    BY <2>1, <2>2, <2>3 DEF ReadingBack
  <2>5. \A j \in Slots : net'[j].kind # "value"
    BY <2>1, <2>2, <2>3 DEF ReadingBack
  <2>6. \A j \in Slots : net'[j].kind = "update" => net'[j].version <= page.version
    BY <1>7, <2>2, <2>3 DEF Accept, OneAtATime
  <2> QED
    BY <1>0, <1>7, <2>1, <2>4, <2>5, <2>6 DEF Accept, OneAtATime
<1>8. ASSUME NEW i \in Slots, ServeRead(i)
      PROVE  OneAtATime'
  <2> SUFFICES ASSUME ~misled' PROVE OneAtATime'
    BY DEF OneAtATime
  <2>1. i \in ReadingBack
    BY <1>8 DEF ServeRead, ReadingBack
  <2>2. \A j \in Slots : j # i => net'[j] = net[j]
    BY <1>8 DEF ServeRead, TypeOK
  <2>3. net'[i].kind = "value" /\ net'[i].version = version
    BY <1>8 DEF ServeRead, TypeOK
  <2>4. ReadingBack' = ReadingBack
    BY <2>1, <2>2, <2>3 DEF ReadingBack
  <2> QED
    BY <1>0, <1>8, <2>1, <2>2, <2>3, <2>4 DEF ServeRead, OneAtATime
<1>9. ASSUME NEW i \in Slots, Updated(i)
      PROVE  OneAtATime'
  <2> SUFFICES ASSUME ~misled' PROVE OneAtATime'
    BY DEF OneAtATime
  <2>1. net[i].kind = "done" /\ ~misled
    BY <1>9 DEF Updated
  <2>2. \A j \in Slots : j # i => net'[j] = net[j]
    BY <1>9 DEF Updated, TypeOK
  <2>3. net'[i].kind = "read"
    BY <1>9 DEF Updated, TypeOK, Read
  <2>4. ReadingBack' = ReadingBack
    BY <2>1, <2>2, <2>3 DEF ReadingBack
  <2> QED
    BY <1>0, <1>9, <2>1, <2>2, <2>3, <2>4 DEF Updated, OneAtATime
<1>10. ASSUME NEW i \in Slots, NotUpdated(i)
       PROVE  OneAtATime'
  <2>1. \A j \in Slots : Calm(j)
    BY <1>10 DEF Calm, NotUpdated, TypeOK, Idle
  <2> QED
    BY <1>0, <1>10, <2>1, Undisturbed DEF NotUpdated
<1>11. ASSUME NEW i \in Slots, InitView(i)
       PROVE  OneAtATime'
  <2> SUFFICES ASSUME ~misled' PROVE OneAtATime'
    BY DEF OneAtATime
  <2>1. net[i] \in Value /\ i \in ReadingBack /\ ~misled
    BY <1>11, Carried DEF InitView, ReadingBack
  <2>2. net[i].version \in Nat /\ page.version < net[i].version /\ net[i].version <= version
    BY <1>11, <2>1 DEF InitView, OneAtATime, Value
  <2>0. ~(last >= net[i].version)
    BY <1>0, <2>1, <2>2 DEF OneAtATime
  <2>3. page'.version = net[i].version /\ last' = net[i].version /\ ~isUpdating'
    BY <1>11, <2>0 DEF InitView, PageOf
  <2>4. \A j \in Slots : j # i => net'[j] = net[j] /\ j \notin ReadingBack
    BY <1>11, <2>1 DEF InitView, TypeOK, OneAtATime, ReadingBack
  <2>5. net'[i].kind = "none"
    BY <1>11 DEF InitView, TypeOK, Idle
  <2>6. ReadingBack' = {} /\ \A j \in Slots : net'[j].kind # "value"
    BY <2>4, <2>5 DEF ReadingBack
  <2>7. ASSUME NEW j \in Slots, net'[j].kind = "update"
        PROVE  net'[j].version <= page'.version
    <3>1. net[j] = net'[j] /\ net[j] \in Update /\ net[j].version <= page.version
      BY <2>1, <2>4, <2>5, <2>7, Carried DEF OneAtATime
    <3> QED
      BY <1>0, <2>2, <2>3, <3>1 DEF Update
  <2> QED
    BY <1>11, <2>2, <2>3, <2>6, <2>7 DEF InitView, OneAtATime
<1>12. ASSUME NEW i \in Slots, ReadFails(i)
       PROVE  OneAtATime'
  <2>1. \A j \in Slots : Calm(j)
    BY <1>12 DEF Calm, ReadFails, TypeOK, Idle
  <2> QED
    BY <1>0, <1>12, <2>1, Undisturbed DEF ReadFails
<1>13. CASE UNCHANGED vars
  BY <1>0, <1>13, NetAlone DEF vars
<1> QED
  BY <1>1, <1>2, <1>3, <1>4, <1>5, <1>6, <1>7, <1>8, <1>9, <1>10, <1>11, <1>12, <1>13, ValuesAreTranslated DEF Next

\* The page never disables its own inputs, for any number of requests under way and
\* any interleaving of the answers with the updates of others.
THEOREM Unlocked == Spec => []NeverLocked
<1>1. Init => TypeOK /\ OneAtATime
  BY InitTyped, InitOneAtATime
<1>2. TypeOK /\ OneAtATime /\ [Next]_vars => (TypeOK /\ OneAtATime)'
  BY NextTyped, NextOneAtATime
<1>3. OneAtATime => NeverLocked
  BY DEF OneAtATime, NeverLocked
<1> QED
  BY <1>1, <1>2, <1>3, PTL DEF Spec

-----------------------------------------------------------------------------
(* Whatever names the version the service is at agrees with the service in   *)
(* every section that was not edited while the page showed that version and  *)
(* has a value that comes back.                                              *)
Agrees(sheet) ==
  \A s \in Sections : ComesBack(s, spec[s]) /\ <<version, s>> \notin touched => sheet[s] = spec[s]
PageAgrees(p) ==
  Agrees(p.shown) /\ Agrees(p.original) /\ Agrees(p.model) /\ Agrees(p.originalModel)
Known ==
  /\ page.version <= version
  /\ \A i \in Slots : net[i].kind \in {"update", "value"} => net[i].version <= version
Faithful ==
  /\ Known
  /\ page.version = version => PageAgrees(page)
  /\ \A i \in Slots : /\ net[i].kind = "update" /\ net[i].version = version => Agrees(net[i].config)
                      /\ net[i].kind = "value" /\ net[i].version = version =>
                           net[i].config = SectionsOf(spec)

\* A page made of what the service is at agrees with it.
LEMMA FreshAgrees ==
  ASSUME NEW ports \in Ports, NEW v
  PROVE  PageAgrees(PageOf(SectionsOf(spec), ports, v))
<1>1. Agrees(SectionsOf(spec))
  BY DEF Agrees, SectionsOf
<1>2. Agrees(View(SectionsOf(spec), ports))
  BY DEF Agrees, SectionsOf, View, ComesBack
<1> QED
  BY <1>1, <1>2 DEF PageAgrees, PageOf

LEMMA InitFaithful == Init => Faithful
<1> SUFFICES ASSUME Init PROVE Faithful
  OBVIOUS
<1>1. PageAgrees(page)
  BY FreshAgrees DEF Init
<1>2. page.version = 1 /\ version = 1
  BY DEF Init, PageOf
<1> QED
  BY <1>1, <1>2 DEF Init, Faithful, Known, Idle

\* The service moves on: nothing names its new version yet.
LEMMA Outdated ==
  ASSUME TypeOK, Faithful, version' = version + 1, page' = page,
         \A i \in Slots : net'[i] = net[i] \/ net'[i].kind \notin {"update", "value"}
  PROVE  Faithful'
<1>1. page'.version < version'
  BY DEF Faithful, Known, TypeOK, Pages
<1>2. ASSUME NEW i \in Slots, net'[i].kind \in {"update", "value"}
      PROVE  net'[i].version < version'
  <2>1. net'[i] = net[i] /\ net[i].version \in Nat /\ net[i].version <= version
    BY <1>2, Carried DEF Faithful, Known, Update, Value
  <2> QED
    BY <2>1 DEF TypeOK
<1>3. page'.version \in Nat /\ version' \in Nat
  BY DEF TypeOK, Pages
<1>4. \A i \in Slots : net'[i].kind \in {"update", "value"} => net'[i].version <= version' /\ net'[i].version # version'
  <2> TAKE i \in Slots
  <2> HAVE net'[i].kind \in {"update", "value"}
  <2>1. net'[i] = net[i] /\ net[i].version \in Nat
    BY Carried DEF Update, Value
  <2> QED
    BY <1>2, <1>3, <2>1
<1> QED
  BY <1>1, <1>3, <1>4 DEF Faithful, Known

Sound(i) ==
  \/ net'[i] = net[i]
  \/ net'[i].kind = "update" /\ Agrees(net'[i].config)
  \/ net'[i].kind \notin {"update", "value"}

\* The service stays, no edit is forgotten, and what is new agrees.
LEMMA StillFaithful ==
  ASSUME Faithful, spec' = spec, version' = version, Known',
         \A s \in Sections : <<version, s>> \in touched => <<version, s>> \in touched',
         page'.version = version => PageAgrees(page)',
         \A i \in Slots : Sound(i)
  PROVE  Faithful'
<1> USE DEF Sound
<1>1. ASSUME NEW sheet, Agrees(sheet)
      PROVE  \A s \in Sections :
               ComesBack(s, spec'[s]) /\ <<version', s>> \notin touched' => sheet[s] = spec'[s]
  BY <1>1 DEF Agrees
<1>2. ASSUME NEW i \in Slots, net'[i].kind = "update", net'[i].version = version'
      PROVE  \A s \in Sections : ComesBack(s, spec'[s]) /\ <<version', s>> \notin touched' =>
               net'[i].config[s] = spec'[s]
  <2>1. Agrees(net'[i].config)
    BY <1>2 DEF Faithful
  <2> QED
    BY <1>1, <2>1
<1>3. ASSUME NEW i \in Slots, net'[i].kind = "value", net'[i].version = version'
      PROVE  net'[i].config = SectionsOf(spec')
  BY <1>3 DEF Faithful
<1> QED
  BY <1>2, <1>3 DEF Faithful, Agrees

\* The same for a step that sends nothing and receives nothing.
LEMMA NetFaithful ==
  ASSUME Faithful, spec' = spec, version' = version, net' = net, page'.version = page.version,
         \A s \in Sections : <<version, s>> \in touched => <<version, s>> \in touched',
         page.version = version => PageAgrees(page)'
  PROVE  Faithful'
<1>1. Known'
  BY DEF Faithful, Known
<1>2. \A i \in Slots : Sound(i)
  BY DEF Sound
<1>3. page'.version = version => PageAgrees(page)'
  OBVIOUS
<1> QED
  BY <1>1, <1>2, <1>3, StillFaithful

LEMMA NextFaithful ==
  ASSUME TypeOK, TypeOK', Faithful, [Next]_vars
  PROVE  Faithful'
<1> USE DEF Put, service
<1>1. ASSUME NEW s \in Sections, NEW v \in Values, Edit(s, v)
      PROVE  Faithful'
  <2>1. page'.version = page.version
    BY <1>1 DEF Edit, Edited, WithModel, TypeOK, Pages
  <2>2. ASSUME NEW r \in Sections, r # s
        PROVE  /\ page'.shown[r] = page.shown[r] /\ page'.original[r] = page.original[r]
               /\ page'.model[r] = page.model[r]
               /\ page'.originalModel[r] \in {page.originalModel[r], page.model[r]}
    BY <1>1, <2>2 DEF Edit, Edited, WithModel, TypeOK, Pages, Sheets
  <2>3. page.version = version => PageAgrees(page)'
    <3> SUFFICES ASSUME page.version = version, NEW r \in Sections, <<version', r>> \notin touched',
                        ComesBack(r, spec'[r])
                 PROVE  /\ page'.shown[r] = spec'[r] /\ page'.original[r] = spec'[r]
                        /\ page'.model[r] = spec'[r] /\ page'.originalModel[r] = spec'[r]
      BY DEF PageAgrees, Agrees
    <3>1. version' = version /\ spec' = spec /\ touched' = touched \cup {<<version, s>>}
      BY <1>1 DEF Edit
    <3>2. r # s /\ <<version, r>> \notin touched
      BY <3>1
    <3> QED
      BY <2>2, <3>1, <3>2 DEF Faithful, PageAgrees, Agrees
  <2> QED
    BY <1>1, <2>1, <2>3, NetFaithful DEF Edit
<1>2. ASSUME NEW s \in Sections \cup Rest, NEW v \in Values, OtherUpdate(s, v)
      PROVE  Faithful'
  BY <1>2, Outdated DEF OtherUpdate
<1>3. ASSUME NEW K \in Forms, CancelChanges(K)
      PROVE  Faithful'
  <2>1. page'.version = page.version
    BY <1>3 DEF CancelChanges, TypeOK, Pages
  <2>2. page.version = version => PageAgrees(page)'
    BY <1>3 DEF CancelChanges, TypeOK, Pages, Sheets, Faithful, PageAgrees, Agrees
  <2> QED
    BY <1>3, <2>1, <2>2, NetFaithful DEF CancelChanges
<1>4. CASE CancelAllChanges
  <2>1. page'.version = page.version
    BY <1>4 DEF CancelAllChanges, TypeOK, Pages
  <2>2. page.version = version => PageAgrees(page)'
    BY <1>4 DEF CancelAllChanges, TypeOK, Pages, Faithful, PageAgrees, Agrees
  <2> QED
    BY <1>4, <2>1, <2>2, NetFaithful DEF CancelAllChanges
<1>5. ASSUME NEW i \in Slots, UpdateService(i)
      PROVE  Faithful'
  <2> DEFINE config == [s \in Sections |->
               IF s \in OnlyIfMarked /\ marks[s] = 0 THEN page.model[s] ELSE page.shown[s]]
             model == [s \in Sections |-> IF s \in InTemplate THEN config[s] ELSE page.model[s]]
  <2>1. page' = WithModel(page, model) /\ net' = [net EXCEPT ![i] = Sent(config, FALSE)]
        /\ spec' = spec /\ version' = version /\ touched' = touched
    BY <1>5 DEF UpdateService
  <2>2. page.version = version => Agrees(config) /\ Agrees(model)
    BY DEF Faithful, PageAgrees, Agrees
  <2> HIDE DEF config, model
  <2>3. page'.version = page.version
    BY <2>1 DEF WithModel, TypeOK, Pages
  <2>4. page'.shown = page.shown /\ page'.original = page.original /\ page'.model = model
        /\ page'.originalModel \in {page.originalModel, model}
    BY <2>1 DEF WithModel, TypeOK, Pages
  <2>5. page'.version = version => PageAgrees(page)'
    BY <2>1, <2>2, <2>3, <2>4 DEF Faithful, PageAgrees, Agrees
  <2>6. \A j \in Slots : j # i => net'[j] = net[j]
    BY <2>1 DEF TypeOK
  <2>7. net'[i].kind = "update" /\ net'[i].config = config /\ net'[i].version = page.version
    BY <2>1 DEF TypeOK, Sent
  <2>8. Known'
    BY <2>1, <2>3, <2>6, <2>7 DEF Faithful, Known
  <2>9. CASE page.version = version
    <3>1. \A j \in Slots : Sound(j)
      BY <2>2, <2>6, <2>7, <2>9 DEF Sound
    <3> QED
      BY <2>1, <2>5, <2>8, <3>1, StillFaithful
  <2>10. CASE page.version # version
    BY <2>1, <2>3, <2>6, <2>7, <2>8, <2>10 DEF Faithful, Agrees
  <2> QED
    BY <2>9, <2>10
<1>6. ASSUME NEW i \in Slots, ForceUpdateService(i)
      PROVE  Faithful'
  <2>1. PICK pulled \in {{}, Images}, bare \in [Images -> Values] :
          LET model == [s \in Sections |-> IF s \in pulled THEN bare[s] ELSE page.model[s]]
          IN  /\ Put(i, Sent(model, TRUE)) /\ page' = WithModel(page, model)
              /\ touched' = touched \cup ({page.version} \X pulled)
    BY <1>6 DEF ForceUpdateService
  <2> DEFINE model == [s \in Sections |-> IF s \in pulled THEN bare[s] ELSE page.model[s]]
  <2>2. page' = WithModel(page, model) /\ net' = [net EXCEPT ![i] = Sent(model, TRUE)]
        /\ spec' = spec /\ version' = version
    BY <1>6, <2>1 DEF ForceUpdateService
  <2>3. page.version = version => \A s \in Sections :
          ComesBack(s, spec[s]) /\ <<version, s>> \notin touched' => model[s] = spec[s]
    BY <2>1 DEF Faithful, PageAgrees, Agrees
  <2>4. \A s \in Sections : <<version, s>> \in touched => <<version, s>> \in touched'
    BY <2>1
  <2> HIDE DEF model
  <2>5. page'.version = page.version /\ page'.shown = page.shown /\ page'.original = page.original
        /\ page'.model = model /\ page'.originalModel \in {page.originalModel, model}
    BY <2>2 DEF WithModel, TypeOK, Pages
  <2>6. \A j \in Slots : j # i => net'[j] = net[j]
    BY <2>2 DEF TypeOK
  <2>7. net'[i].kind = "update" /\ net'[i].config = model /\ net'[i].version = page.version
    BY <2>2 DEF TypeOK, Sent
  <2>8. Known'
    BY <2>2, <2>5, <2>6, <2>7 DEF Faithful, Known
  <2>9. page'.version = version => PageAgrees(page)'
    BY <2>2, <2>3, <2>4, <2>5 DEF Faithful, PageAgrees, Agrees
  <2>10. ASSUME NEW j \in Slots, net'[j].kind = "update", net'[j].version = version
         PROVE  \A s \in Sections :
                  ComesBack(s, spec[s]) /\ <<version, s>> \notin touched' => net'[j].config[s] = spec[s]
    <3>1. CASE j = i
      BY <2>3, <2>7, <2>10, <3>1
    <3>2. CASE j # i
      BY <2>4, <2>6, <2>10, <3>2 DEF Faithful, Agrees
    <3> QED
      BY <3>1, <3>2
  <2>11. ASSUME NEW j \in Slots, net'[j].kind = "value", net'[j].version = version
         PROVE  net'[j].config = SectionsOf(spec)
    BY <2>2, <2>6, <2>7, <2>11 DEF Faithful
  <2> QED
    BY <2>2, <2>8, <2>9, <2>10, <2>11 DEF Faithful, Agrees
<1>7. ASSUME NEW i \in Slots, Accept(i)
      PROVE  Faithful'
  <2>1. \A j \in Slots : net'[j] = net[j] \/ net'[j].kind = "done"
    BY <1>7 DEF Accept, TypeOK
  <2> QED
    BY <1>7, <2>1, Outdated DEF Accept
<1>8. ASSUME NEW i \in Slots, ServeRead(i)
      PROVE  Faithful'
  <2>0. net'[i].kind = "value" /\ net'[i].config = SectionsOf(spec) /\ net'[i].version = version
    BY <1>8 DEF ServeRead, TypeOK
  <2>1. \A j \in Slots : j # i => net'[j] = net[j]
    BY <1>8 DEF ServeRead, TypeOK
  <2>2. spec' = spec /\ version' = version /\ touched' = touched /\ page' = page
    BY <1>8 DEF ServeRead
  <2>3. Known'
    BY <2>0, <2>1, <2>2 DEF Faithful, Known, TypeOK
  <2> QED
    BY <2>0, <2>1, <2>2, <2>3 DEF Faithful, PageAgrees, Agrees
<1>9. ASSUME NEW i \in Slots, Updated(i) \/ NotUpdated(i) \/ ReadFails(i)
      PROVE  Faithful'
  <2>1. \A j \in Slots : net'[j] = net[j] \/ net'[j].kind \in {"read", "none"}
    BY <1>9 DEF Updated, NotUpdated, ReadFails, TypeOK, Read, Idle
  <2>2. spec' = spec /\ version' = version /\ touched' = touched /\ page' = page
    BY <1>9 DEF Updated, NotUpdated, ReadFails
  <2> QED
    BY <2>1, <2>2 DEF Faithful, Known, PageAgrees, Agrees
<1>10. ASSUME NEW i \in Slots, InitView(i)
       PROVE  Faithful'
  <2>1. net[i] \in Value /\ net[i].version <= version
    BY <1>10, Carried DEF InitView, Faithful, Known
  <2>2. \A j \in Slots : net'[j] = net[j] \/ net'[j].kind = "none"
    BY <1>10 DEF InitView, TypeOK, Idle
  <2>3. spec' = spec /\ version' = version
        /\ page' = PageOf(net[i].config, net[i].ports, net[i].version)
    BY <1>10 DEF InitView
  <2>4. Known'
    BY <2>1, <2>2, <2>3 DEF Faithful, Known, PageOf
  <2>5. \A s \in Sections : <<version, s>> \in touched => <<version, s>> \in touched'
    BY <1>10, <2>1 DEF InitView, TypeOK, Value
  <2>6. page'.version = version => PageAgrees(page)'
    <3> SUFFICES ASSUME page'.version = version PROVE PageAgrees(page)'
      OBVIOUS
    <3>1. net[i].version = version
      BY <2>3 DEF PageOf
    <3>2. net[i].config = SectionsOf(spec) /\ net[i].ports \in Ports
      BY <1>10, <2>1, <3>1 DEF InitView, Faithful, Value
    <3>3. PageAgrees(page')
      BY <2>3, <3>2, FreshAgrees
    <3> QED
      BY <2>3, <2>5, <3>3 DEF PageAgrees, Agrees
  <2>7. \A j \in Slots : Sound(j)
    BY <2>2 DEF Sound
  <2> QED
    BY <2>3, <2>4, <2>5, <2>6, <2>7, StillFaithful
<1>11. CASE UNCHANGED vars
  BY <1>11, NetFaithful DEF vars, Faithful, PageAgrees, Agrees
<1> QED
  BY <1>1, <1>2, <1>3, <1>4, <1>5, <1>6, <1>7, <1>8, <1>9, <1>10, <1>11, ValuesAreTranslated DEF Next

\* An update that Swarm makes leaves every section that nobody edited on this page
\* as it was: what others changed since the page was read is not undone, where the
\* page gives back what it read.
THEOREM OthersAreKept == Spec => OthersKept
<1> DEFINE Kept == \A i \in Slots : net[i].kind = "update" /\ net'[i].kind = "done" =>
                     \A s \in Sections : spec'[s] # spec[s] =>
                       <<version, s>> \in touched \/ ~ComesBack(s, spec[s])
<1>1. Init => TypeOK /\ Faithful
  BY InitTyped, InitFaithful
<1>2. TypeOK /\ Faithful /\ [Next]_vars => (TypeOK /\ Faithful)'
  BY NextTyped, NextFaithful
<1>3. TypeOK /\ Faithful /\ [Next]_vars => [Kept]_vars
  <2> SUFFICES ASSUME TypeOK, Faithful, Next, NEW i \in Slots,
                      net[i].kind = "update", net'[i].kind = "done"
               PROVE  \A s \in Sections : spec'[s] # spec[s] =>
                        <<version, s>> \in touched \/ ~ComesBack(s, spec[s])
    OBVIOUS
  <2>1. ASSUME net' = net PROVE FALSE
    BY <2>1
  <2>2. ASSUME NEW j \in Slots, UpdateService(j) PROVE FALSE
    BY <2>2 DEF UpdateService, Put, Sent, TypeOK
  <2>3. ASSUME NEW j \in Slots, ForceUpdateService(j) PROVE FALSE
    BY <2>3 DEF ForceUpdateService, Put, Sent, TypeOK
  <2>4. ASSUME NEW j \in Slots, ServeRead(j) PROVE FALSE
    BY <2>4 DEF ServeRead, Put, TypeOK
  <2>5. ASSUME NEW j \in Slots, Updated(j) \/ NotUpdated(j) \/ ReadFails(j) \/ InitView(j)
        PROVE  FALSE
    BY <2>5 DEF Updated, NotUpdated, ReadFails, InitView, Put, Read, Idle, TypeOK
  <2>6. ASSUME NEW j \in Slots, Accept(j) PROVE j = i
    BY <2>6 DEF Accept, Put, TypeOK
  <2>7. Accept(i)
    <3>1. CASE \/ \E s \in Sections : \E v \in Possible[s] : Edit(s, v)
              \/ \E s \in Sections \cup Rest : \E v \in Possible[s] : OtherUpdate(s, v)
      BY <2>1, <3>1 DEF Edit, OtherUpdate
    <3>2. CASE CancelAllChanges \/ \E K \in Forms : CancelChanges(K)
      BY <2>1, <3>2 DEF CancelChanges, CancelAllChanges
    <3> QED
      BY <2>2, <2>3, <2>4, <2>5, <2>6, <3>1, <3>2 DEF Next
  <2> QED
    BY <2>7 DEF Accept, Faithful, Agrees
<1> QED
  BY <1>1, <1>2, <1>3, PTL DEF Spec, OthersKept
=============================================================================
