----------------------------- MODULE BoardProofs -----------------------------
(***************************************************************************)
(* Proofs about Board, for any clients and zones: the types, that a        *)
(* SuperAdmin's page outlives the deletion of zones, which models can be   *)
(* old, and that a discovery is shown.                                     *)
(***************************************************************************)
EXTENDS Board, TLAPS

\* The page of a SuperAdmin keeps the tab of the default zone.
DefaultTabStays == admin => Open /\ DefaultZone \in tabs

\* An open page with tabs has one that is the current one.
OneIsCurrent == Open /\ tabs # {} => current # NoTab

\* A model that was filled at the last change of states agrees with them.
AllFresh ==
    Open => \A z \in fetched \ missed, c \in Client :
                models[z][c] # "none" => (models[z][c] = "online" <=> states[c] = "OnLine")

\* A page that has seen a NewClient of -1 has seen the OnLine after it.
GreetingsEnd == Open /\ ~greeting => states[NoId] # "NewClient"

\* Without a page there is no tab.
ClosedHasNoTab == mode = "closed" => current = NoTab

\* What the page remembers of a client is its last event, unless there was none.
StatesAreLast ==
    Open => \A c \in Client : states[c] \in {"absent", "NewClient", last[c]}

IInv ==
    /\ TypeOK /\ ClosedHasNoTab /\ DefaultTabStays /\ OneIsCurrent /\ AllFresh /\ GreetingsEnd
    /\ StatesAreLast

\* The sets that the types are made of.
LEMMA Constants ==
    /\ DefaultZone \in Zones /\ NoTab \notin Zones
    /\ NoId \in Ids /\ Client \subseteq Ids /\ NoId \notin Client
    /\ NoRows \in [Client -> Status] /\ NoStates \in [Ids -> Event \cup {"absent"}]
BY NoIdAssumption, MaxZoneAssumption
   DEF DefaultZone, Zones, NoTab, Ids, NoRows, NoStates, Status, Event

\* The listener's ids are the page's.
LEMMA EventIds == Events!Ids = Ids
BY DEF Events!Ids, Ids

\* What the fourth column says of an event.
LEMMA StatusOfEvent ==
    ASSUME NEW e \in Event \cup {"absent"}
    PROVE  /\ StatusOf(e) \in Status /\ StatusOf(e) # "none"
           /\ StatusOf(e) = "online" <=> e = "OnLine"
BY DEF StatusOf, Status, Event

\* Before the first page there is nothing to be wrong.
LEMMA InitIInv == Init => IInv
<1> SUFFICES ASSUME Init PROVE IInv  OBVIOUS
<1>1. TypeOK  BY Constants, EventIds DEF Init, Events!Init, TypeOK
<1> QED  BY <1>1 DEF Init, IInv, ClosedHasNoTab, DefaultTabStays, OneIsCurrent, AllFresh, GreetingsEnd, StatesAreLast, Open

\* A model that is filled agrees with the states it is filled from (fetchModel).
LEMMA Filled ==
    ASSUME NEW z \in Zones, NEW c \in Client, NEW m \in Members,
           NEW s \in [Ids -> Event \cup {"absent"}],
           NEW row, row = IF c \in m[z] THEN StatusOf(s[c]) ELSE "none"
    PROVE  row \in Status /\ (row # "none" => (row = "online" <=> s[c] = "OnLine"))
<1>1. s[c] \in Event \cup {"absent"}  BY Constants
<1> QED  BY <1>1, StatusOfEvent DEF Status

\* Filling models keeps their type and makes them agree with the states.
LEMMA FetchStep ==
    ASSUME NEW zs \in SUBSET Zones, Fetch(zs), IInv,
           members' \in Members, states' \in [Ids -> Event \cup {"absent"}]
    PROVE  /\ models' \in [Zones -> [Client -> Status]]
           /\ missed' \in SUBSET Zones
           /\ \A z \in zs, c \in Client :
                models'[z][c] # "none" => (models'[z][c] = "online" <=> states'[c] = "OnLine")
           /\ \A z \in Zones \ zs : models'[z] = models[z] /\ (z \in missed' <=> z \in missed)
<1>1. \A z \in zs, c \in Client :
          models'[z][c] \in Status
          /\ (models'[z][c] # "none" => (models'[z][c] = "online" <=> states'[c] = "OnLine"))
  <2> SUFFICES ASSUME NEW z \in zs, NEW c \in Client
               PROVE  /\ models'[z][c] \in Status
                      /\ models'[z][c] # "none" =>
                            (models'[z][c] = "online" <=> states'[c] = "OnLine")
    OBVIOUS
  <2>1. models'[z][c] = IF c \in members'[z] THEN StatusOf(states'[c]) ELSE "none"
    BY DEF Fetch
  <2> QED  BY <2>1, Filled
<1>2. \A z \in zs : models'[z] \in [Client -> Status]
  <2> SUFFICES ASSUME NEW z \in zs PROVE models'[z] \in [Client -> Status]  OBVIOUS
  <2>1. models'[z] = [c \in Client |-> IF c \in members'[z] THEN StatusOf(states'[c]) ELSE "none"]
    BY DEF Fetch
  <2> QED  BY <1>1, <2>1
<1>3. \A z \in Zones \ zs : models'[z] = models[z] /\ models[z] \in [Client -> Status]
  BY DEF Fetch, IInv, TypeOK
<1>4. models' \in [Zones -> [Client -> Status]]
  <2>1. models' = [z \in Zones |-> models'[z]]  BY DEF Fetch
  <2> QED  BY <1>2, <1>3, <2>1
<1> QED  BY <1>1, <1>3, <1>4 DEF Fetch, IInv, TypeOK

\* An event reaches the page, or there is none, or the process dies for want of a tab;
\* a SuperAdmin's page has one (handleState).
LEMMA EventStep ==
    ASSUME IInv, NEW id \in Ids, NEW event \in Event, HandleState(id, event),
           members' \in Members, UNCHANGED page
    PROVE  /\ mode' \in {"closed", "open", "dead"}
           /\ models' \in [Zones -> [Client -> Status]]
           /\ states' \in [Ids -> Event \cup {"absent"}]
           /\ missed' \in SUBSET Zones
           /\ ClosedHasNoTab' /\ DefaultTabStays' /\ OneIsCurrent' /\ AllFresh'
           /\ Open' => Open /\ states'[id] = event
           /\ \A i \in Ids \ {id} : states'[i] = states[i]
<1> USE DEF IInv
<1>1. CASE ~Open \/ states[id] = event
  <2>1. UNCHANGED <<mode, models, states, missed>>  BY <1>1 DEF HandleState
  <2> QED  BY <1>1, <2>1 DEF TypeOK, page, ClosedHasNoTab, DefaultTabStays, OneIsCurrent, AllFresh, Open
<1>2. CASE Open /\ states[id] # event
  <2>1. /\ states' = [states EXCEPT ![id] = event]
        /\ states' \in [Ids -> Event \cup {"absent"}]
        /\ states'[id] = event /\ \A i \in Ids \ {id} : states'[i] = states[i]
    BY <1>2 DEF HandleState, TypeOK
  <2>2. CASE current = NoTab
    <3>1. mode' = "dead" /\ UNCHANGED <<models, missed>>  BY <1>2, <2>2 DEF HandleState
    <3>2. ~admin  BY <1>2, <2>2 DEF DefaultTabStays, OneIsCurrent
    <3>3. UNCHANGED <<admin, tabs, current, fetched>>  BY DEF page
    <3> QED  BY <2>1, <3>1, <3>2, <3>3
             DEF TypeOK, ClosedHasNoTab, DefaultTabStays, OneIsCurrent, AllFresh, Open
  <2>3. CASE current # NoTab
    <3>1. UNCHANGED <<mode, admin, tabs, current, fetched>> /\ missed' = Zones \ {current}
      BY <1>2, <2>3 DEF HandleState, page
    <3>2. current \in Zones  BY <2>3 DEF TypeOK
    <3> DEFINE row == [c \in Client |->
                         IF c \in members'[current] THEN StatusOf(states'[c]) ELSE "none"]
    <3>3. models' = [models EXCEPT ![current] = row]  BY <1>2, <2>3 DEF HandleState
    <3>4. \A c \in Client : /\ row[c] \in Status
                            /\ row[c] # "none" => (row[c] = "online" <=> states'[c] = "OnLine")
      <4> SUFFICES ASSUME NEW c \in Client
                   PROVE  /\ row[c] \in Status
                          /\ row[c] # "none" => (row[c] = "online" <=> states'[c] = "OnLine")
        OBVIOUS
      <4>1. row[c] = IF c \in members'[current] THEN StatusOf(states'[c]) ELSE "none"
        OBVIOUS
      <4> HIDE DEF row
      <4>2. states' \in [Ids -> Event \cup {"absent"}] /\ members' \in Members
        BY <2>1
      <4> QED  BY <3>2, <4>1, <4>2, Filled
    <3>5. row \in [Client -> Status]
      <4>1. row = [c \in Client |-> row[c]]  OBVIOUS
      <4> HIDE DEF row
      <4> QED  BY <3>4, <4>1
    <3> HIDE DEF row
    <3>6. models' \in [Zones -> [Client -> Status]] /\ models'[current] = row
      BY <3>2, <3>3, <3>5 DEF TypeOK
    <3>7. AllFresh'  BY <3>1, <3>4, <3>6 DEF AllFresh, TypeOK
    <3>8. ClosedHasNoTab' /\ DefaultTabStays' /\ OneIsCurrent' /\ (Open' => Open)
      BY <3>1 DEF ClosedHasNoTab, DefaultTabStays, OneIsCurrent, Open
    <3> QED  BY <2>1, <3>1, <3>6, <3>7, <3>8 DEF TypeOK
  <2> QED  BY <2>2, <2>3
<1> QED  BY <1>1, <1>2

\* The steps of the listener's thread: the first half of a discovery leaves the page
\* with a NewClient of -1, the second follows it with OnLine.
LEMMA ListenerStep == ASSUME IInv, Listener PROVE IInv'
<1> USE DEF IInv
<1>1. ASSUME NEW c \in Client, Discover(c) PROVE IInv'
  <2>1. members' \in Members
    <3>1. CASE UNCHANGED members  BY <3>1 DEF TypeOK
    <3>2. ASSUME NEW zs \in SUBSET Zones, InsertedInto(c, zs) PROVE members' \in Members
      <4>1. members' = [z \in Zones |-> IF z \in zs THEN members[z] \cup {c} ELSE members[z]]
        BY <3>2 DEF InsertedInto
      <4>2. \A z \in Zones : members[z] \in SUBSET Client /\ c \notin members[z]
        BY <3>2 DEF InsertedInto, TypeOK, Members
      <4>3. \A z \in Zones \ {DefaultZone} : members[z] \cap members[DefaultZone] = {}
        BY DEF TypeOK, Members
      <4>4. \A z \in Zones \ {DefaultZone} : members'[z] \cap members'[DefaultZone] = {}
        BY <3>2, <4>1, <4>2, <4>3, Constants DEF InsertedInto
      <4>5. members' \in [Zones -> SUBSET Client]  BY <4>1, <4>2
      <4> QED  BY <4>4, <4>5 DEF Members
    <3> QED  BY <1>1, <3>1, <3>2 DEF Discover
  <2>2. /\ HandleState(NoId, "NewClient") /\ UNCHANGED page /\ greeting' = TRUE
        /\ last' = [last EXCEPT ![NoId] = "NewClient"]
    BY <1>1 DEF Discover, Events!NewClient
  <2>3. "NewClient" \in Event /\ NoId \in Ids  BY Constants DEF Event
  <2>4. /\ mode' \in {"closed", "open", "dead"} /\ models' \in [Zones -> [Client -> Status]]
        /\ states' \in [Ids -> Event \cup {"absent"}] /\ missed' \in SUBSET Zones
        /\ ClosedHasNoTab' /\ DefaultTabStays' /\ OneIsCurrent' /\ AllFresh'
        /\ Open' => Open /\ states'[NoId] = "NewClient"
        /\ \A i \in Ids \ {NoId} : states'[i] = states[i]
    BY <2>1, <2>2, <2>3, EventStep
  <2>5. StatesAreLast'
    BY <2>2, <2>4, Constants DEF StatesAreLast, TypeOK
  <2> QED  BY <2>1, <2>2, <2>3, <2>4, <2>5 DEF TypeOK, page, GreetingsEnd
<1>2. ASSUME NEW id \in Ids, NEW event \in {"OnLine", "OffLine"}, HandleState(id, event),
             UNCHANGED <<members, page>>, last' = [last EXCEPT ![id] = event],
             greeting' = FALSE, greeting => id = NoId
      PROVE  IInv'
  <2>1. event \in Event /\ event # "NewClient" /\ members' \in Members
    BY <1>2 DEF Event, TypeOK
  <2>2. UNCHANGED page  BY <1>2
  <2>3. /\ mode' \in {"closed", "open", "dead"} /\ models' \in [Zones -> [Client -> Status]]
        /\ states' \in [Ids -> Event \cup {"absent"}] /\ missed' \in SUBSET Zones
        /\ ClosedHasNoTab' /\ DefaultTabStays' /\ OneIsCurrent' /\ AllFresh'
        /\ Open' => Open /\ states'[id] = event
        /\ \A i \in Ids \ {id} : states'[i] = states[i]
    BY <1>2, <2>1, <2>2, EventStep
  <2>4. GreetingsEnd'
    BY <1>2, <2>1, <2>3, Constants DEF GreetingsEnd
  <2>5. last' \in [Ids -> Event \cup {"none"}]
        /\ last'[id] = event /\ \A i \in Ids \ {id} : last'[i] = last[i]
    BY <1>2, <2>1 DEF TypeOK
  <2>6. StatesAreLast'
    BY <2>3, <2>5, Constants DEF StatesAreLast
  <2> QED  BY <1>2, <2>1, <2>2, <2>3, <2>4, <2>5, <2>6 DEF TypeOK, page
<1>3. CASE Greet
  <2>1. NoId \in Ids  BY Constants
  <2> QED  BY <1>2, <1>3, <2>1 DEF Greet, Events!Greeted
<1>4. ASSUME NEW c \in Client, Tick(c) PROVE IInv'
  <2>1. c \in Ids  BY Constants
  <2> QED  BY <1>2, <1>4, <2>1 DEF Tick, Events!Heard, TypeOK
<1>5. ASSUME NEW id \in Ids, Lost(id) PROVE IInv'
  <2>1. last' = [i \in Ids |-> IF i \in {id} THEN "OffLine" ELSE last[i]]
    BY <1>5, EventIds DEF Lost, Events!Lost
  <2>2. last' = [last EXCEPT ![id] = "OffLine"]  BY <2>1 DEF TypeOK
  <2> QED  BY <1>2, <1>5, <2>2 DEF Lost, Events!Lost, TypeOK
<1> QED  BY <1>1, <1>3, <1>4, <1>5 DEF Listener

\* A handler of the session that fills models leaves those that had been filled as they
\* were.
LEMMA RefillStep ==
    ASSUME IInv, NEW zs \in SUBSET Zones, Fetch(zs), members' \in Members,
           UNCHANGED <<states, mode, last, greeting>>, fetched' \subseteq fetched \cup zs
    PROVE  /\ models' \in [Zones -> [Client -> Status]] /\ missed' \in SUBSET Zones
           /\ AllFresh' /\ GreetingsEnd' /\ StatesAreLast'
<1>1. states' \in [Ids -> Event \cup {"absent"}]  BY DEF IInv, TypeOK
<1>2. /\ models' \in [Zones -> [Client -> Status]] /\ missed' \in SUBSET Zones
      /\ \A z \in zs, c \in Client :
            models'[z][c] # "none" => (models'[z][c] = "online" <=> states'[c] = "OnLine")
      /\ \A z \in Zones \ zs : models'[z] = models[z] /\ (z \in missed' <=> z \in missed)
  BY <1>1, FetchStep
<1>3. AllFresh'
  <2> SUFFICES ASSUME Open', NEW z \in fetched' \ missed', NEW c \in Client
               PROVE  models'[z][c] # "none" => (models'[z][c] = "online" <=> states'[c] = "OnLine")
    BY DEF AllFresh
  <2>1. CASE z \in zs  BY <1>2, <2>1
  <2>2. CASE z \notin zs
    <3>1. z \in fetched \ missed /\ z \in Zones  BY <1>2, <2>2 DEF IInv, TypeOK
    <3>2. Open  BY DEF Open
    <3> QED  BY <1>2, <2>2, <3>1, <3>2 DEF IInv, AllFresh
  <2> QED  BY <2>1, <2>2
<1>4. GreetingsEnd' /\ StatesAreLast'  BY DEF IInv, GreetingsEnd, StatesAreLast, Open
<1> QED  BY <1>2, <1>3, <1>4

\* The constructor of a page: every row of its first model says offline, and no client
\* has a state.
LEMMA OpenBoardStep ==
    ASSUME IInv, NEW isAdmin \in BOOLEAN, NEW zs \in SUBSET Zones, OpenBoard(isAdmin, zs)
    PROVE  IInv'
<1> USE DEF IInv
<1>1. /\ mode = "closed" /\ current = NoTab
      /\ admin' = isAdmin /\ zones' = zs /\ tabs' = zs /\ states' = NoStates
      /\ isAdmin => DefaultZone \in zs
      /\ UNCHANGED <<members, last, greeting>>
  BY DEF OpenBoard, world, ClosedHasNoTab
<1>2. states' \in [Ids -> Event \cup {"absent"}] /\ \A i \in Ids : states'[i] = "absent"
  BY <1>1, Constants DEF NoStates
<1>3. CASE zs = {}
  <2>1. mode' = "dead" /\ UNCHANGED <<current, fetched, models, missed>>
    BY <1>3 DEF OpenBoard
  <2>2. TypeOK'  BY <1>1, <1>2, <2>1 DEF TypeOK
  <2>3. ~isAdmin  BY <1>1, <1>3
  <2> QED  BY <1>1, <2>1, <2>2, <2>3
           DEF ClosedHasNoTab, DefaultTabStays, OneIsCurrent, AllFresh, GreetingsEnd, StatesAreLast, Open
<1>4. CASE zs # {}
  <2>1. mode' = "open" /\ current' \in zs /\ fetched' = {current'} /\ missed' = {}
    BY <1>4 DEF OpenBoard
  <2>2. models' = [z \in Zones |-> [c \in Client |->
                      IF z = current' /\ c \in members[z] THEN "offline" ELSE "none"]]
    BY <1>4 DEF OpenBoard
  <2>3. models' \in [Zones -> [Client -> Status]]
        /\ \A z \in Zones, c \in Client : models'[z][c] # "online"
    BY <2>2 DEF Status
  <2>4. current' \in Zones /\ current' # NoTab  BY <2>1, Constants
  <2>5. TypeOK'  BY <1>1, <1>2, <2>1, <2>3, <2>4 DEF TypeOK
  <2>6. AllFresh'
    <3>1. \A c \in Client : states'[c] = "absent" /\ models'[current'][c] # "online"
      BY <1>2, <2>3, <2>4, Constants
    <3> QED  BY <2>1, <3>1 DEF AllFresh
  <2>7. GreetingsEnd' /\ StatesAreLast'  BY <1>2, Constants DEF GreetingsEnd, StatesAreLast
  <2> QED  BY <1>1, <2>1, <2>4, <2>5, <2>6, <2>7
           DEF ClosedHasNoTab, DefaultTabStays, OneIsCurrent, Open
<1> QED  BY <1>3, <1>4

\* Its end.
LEMMA CloseStep == ASSUME IInv, Close PROVE IInv'
<1>1. /\ mode' = "closed" /\ admin' = FALSE /\ zones' = {} /\ tabs' = {} /\ current' = NoTab
      /\ fetched' = {} /\ states' = NoStates /\ missed' = {}
      /\ models' = [z \in Zones |-> NoRows]
      /\ UNCHANGED <<members, last, greeting>>
  BY DEF Close, world
<1>2. TypeOK'  BY <1>1, Constants DEF IInv, TypeOK
<1> QED  BY <1>1, <1>2
         DEF IInv, ClosedHasNoTab, DefaultTabStays, OneIsCurrent, AllFresh, GreetingsEnd, StatesAreLast, Open

\* Deleting a zone keeps the default zone exclusive.
LEMMA WithoutZoneFacts ==
    ASSUME members \in Members, NEW z \in Zones \ {DefaultZone}
    PROVE  WithoutZone(z) \in Members
<1> DEFINE w == WithoutZone(z)
<1>1. /\ members \in [Zones -> SUBSET Client] /\ DefaultZone \in Zones
      /\ \A y \in Zones \ {DefaultZone} : members[y] \cap members[DefaultZone] = {}
  BY Constants DEF Members
<1>2. w[z] = {}  BY DEF WithoutZone
<1>3. w[DefaultZone] = members[DefaultZone] \cup
          {c \in members[z] : \A x \in Zones \ {z} : c \notin members[x]}
  BY <1>1 DEF WithoutZone
<1>4. \A y \in Zones \ {z, DefaultZone} : w[y] = members[y]  BY DEF WithoutZone
<1>5. w \in [Zones -> SUBSET Client]
  <2>1. \A y \in Zones : w[y] \in SUBSET Client  BY <1>1, <1>2, <1>3, <1>4
  <2>2. w = [y \in Zones |-> w[y]]  BY DEF WithoutZone
  <2> HIDE DEF w
  <2> QED  BY <2>1, <2>2
<1>6. \A y \in Zones \ {DefaultZone} : w[y] \cap w[DefaultZone] = {}
  <2> SUFFICES ASSUME NEW y \in Zones \ {DefaultZone} PROVE w[y] \cap w[DefaultZone] = {}
    OBVIOUS
  <2>1. CASE y = z  BY <1>2, <2>1
  <2>2. CASE y # z  BY <1>1, <1>3, <1>4, <2>2
  <2> QED  BY <2>1, <2>2
<1> HIDE DEF w
<1>7. w \in Members  BY <1>5, <1>6 DEF Members
<1> QED  BY <1>7 DEF w

\* The handlers of the page.
LEMMA SessionStep == ASSUME IInv, Session PROVE IInv'
<1> USE DEF IInv
<1>1. ASSUME NEW z \in Zones, SwitchTab(z) PROVE IInv'
  <2>1. /\ Open /\ z \in tabs /\ current' = z /\ fetched' = fetched \cup {z}
        /\ UNCHANGED <<members, last, greeting, mode, admin, zones, tabs, states>>
        /\ Fetch({z} \ fetched)
    BY <1>1 DEF SwitchTab, world
  <2>2. {z} \ fetched \in SUBSET Zones /\ members' \in Members
        /\ fetched' \subseteq fetched \cup ({z} \ fetched)
    BY <2>1 DEF TypeOK
  <2>3. /\ models' \in [Zones -> [Client -> Status]] /\ missed' \in SUBSET Zones
        /\ AllFresh' /\ GreetingsEnd' /\ StatesAreLast'
    BY <2>1, <2>2, RefillStep
  <2>4. TypeOK'  BY <2>1, <2>3 DEF TypeOK
  <2>5. z # NoTab  BY Constants
  <2> QED  BY <2>1, <2>3, <2>4, <2>5 DEF ClosedHasNoTab, DefaultTabStays, OneIsCurrent, Open
<1>2. ASSUME NEW zs \in SUBSET Zones, Fetch(zs) \/ UNCHANGED <<models, missed>>,
             members' \in Members, UNCHANGED <<last, greeting, mode, page, states>>
      PROVE  IInv'
  <2>1. UNCHANGED <<admin, zones, tabs, current, fetched>>  BY <1>2 DEF page
  <2>2. /\ models' \in [Zones -> [Client -> Status]] /\ missed' \in SUBSET Zones
        /\ AllFresh' /\ GreetingsEnd' /\ StatesAreLast'
    <3>1. CASE Fetch(zs)  BY <1>2, <2>1, <3>1, RefillStep
    <3>2. CASE UNCHANGED <<models, missed>>
      BY <1>2, <2>1, <3>2 DEF TypeOK, AllFresh, GreetingsEnd, StatesAreLast, Open
    <3> QED  BY <1>2, <3>1, <3>2
  <2>3. TypeOK'  BY <1>2, <2>1, <2>2 DEF TypeOK
  <2> QED  BY <1>2, <2>1, <2>2, <2>3 DEF ClosedHasNoTab, DefaultTabStays, OneIsCurrent, Open
<1>3. ASSUME NEW m \in Members, EditClients(m) PROVE IInv'
  <2>1. zones \cup {DefaultZone} \in SUBSET Zones  BY Constants DEF TypeOK
  <2> QED  BY <1>2, <1>3, <2>1 DEF EditClients
<1>4. ASSUME NEW selected \in SUBSET Client, DelClients(selected) PROVE IInv'
  <2>1. zones \in SUBSET Zones  BY DEF TypeOK
  <2>2. members' = [z \in Zones |-> members[z] \ selected]  BY <1>4 DEF DelClients
  <2>3. members' \in Members  BY <2>2, Constants DEF TypeOK, Members
  <2> QED  BY <1>2, <1>4, <2>1, <2>3 DEF DelClients
<1>5. ASSUME NEW z \in Zones, NEW zs \in SUBSET Zones, AddZone(z, zs) PROVE IInv'
  <2>1. /\ Open /\ zones' = zs \cup {DefaultZone, z} /\ tabs' = tabs \cup {z}
        /\ current' = IF tabs = {} THEN z ELSE current
        /\ UNCHANGED <<members, last, greeting, mode, admin, fetched, models, states, missed>>
    BY <1>5 DEF AddZone, world
  <2>2. TypeOK'  BY <2>1, Constants DEF TypeOK
  <2>3. z # NoTab  BY Constants
  <2> QED  BY <2>1, <2>2, <2>3
           DEF ClosedHasNoTab, DefaultTabStays, OneIsCurrent, AllFresh, GreetingsEnd, StatesAreLast, Open
<1>6. CASE DelZone
  <2>1. /\ Open /\ current \in tabs \ {DefaultZone} /\ members' = WithoutZone(current)
        /\ tabs' = tabs \ {current}
        /\ current' \in IF tabs' = {} THEN {NoTab} ELSE tabs'
        /\ fetched' \in {fetched \ {current}, (fetched \ {current}) \cup (tabs' \cap {current'})}
        /\ UNCHANGED <<last, greeting, mode, admin, zones, states>>
        /\ Fetch({DefaultZone} \cup (fetched' \ fetched))
    BY <1>6 DEF DelZone
  <2>2. current \in Zones /\ members' \in Members  BY <2>1, WithoutZoneFacts DEF TypeOK
  <2>3. fetched' \in SUBSET Zones /\ tabs' \in SUBSET Zones  BY <2>1 DEF TypeOK
  <2>4. /\ {DefaultZone} \cup (fetched' \ fetched) \in SUBSET Zones
        /\ fetched' \subseteq fetched \cup ({DefaultZone} \cup (fetched' \ fetched))
    BY <2>3, Constants
  <2>5. /\ models' \in [Zones -> [Client -> Status]] /\ missed' \in SUBSET Zones
        /\ AllFresh' /\ GreetingsEnd' /\ StatesAreLast'
    BY <2>1, <2>2, <2>4, RefillStep
  <2>6. current' \in tabs' \cup {NoTab} /\ (tabs' # {} => current' # NoTab)
    BY <2>1, <2>3, Constants
  <2>7. TypeOK'  BY <2>1, <2>2, <2>3, <2>5, <2>6 DEF TypeOK
  <2> QED  BY <2>1, <2>5, <2>6, <2>7 DEF ClosedHasNoTab, DefaultTabStays, OneIsCurrent, Open
<1>7. CASE SendToAll
  <2>1. /\ UNCHANGED <<members, last, greeting, mode, models, missed>>
        /\ UNCHANGED <<admin, zones, tabs, current, fetched>>
        /\ states' = [i \in Ids |->
              IF i \in Client /\ states[i] = "absent" /\ models[current][i] # "none"
              THEN "NewClient" ELSE states[i]]
    BY <1>7 DEF SendToAll, world, page
  <2>2. /\ states' \in [Ids -> Event \cup {"absent"}]
        /\ states'[NoId] = states[NoId]
        /\ \A c \in Client : states'[c] = "OnLine" <=> states[c] = "OnLine"
        /\ \A c \in Client : states'[c] \in {"NewClient", states[c]}
    BY <2>1, Constants DEF TypeOK, Event
  <2>3. TypeOK'  BY <2>1, <2>2 DEF TypeOK
  <2> QED  BY <2>1, <2>2, <2>3
           DEF ClosedHasNoTab, DefaultTabStays, OneIsCurrent, AllFresh, GreetingsEnd, StatesAreLast, Open
<1> QED
  BY <1>1, <1>3, <1>4, <1>5, <1>6, <1>7, OpenBoardStep, CloseStep DEF Session

\* Every step of the listener, the page and the other sessions, or none.
LEMMA NextIInv == IInv /\ [Next]_vars => IInv'
<1> SUFFICES ASSUME IInv, [Next]_vars PROVE IInv'  OBVIOUS
<1>1. CASE UNCHANGED vars
  BY <1>1 DEF IInv, TypeOK, ClosedHasNoTab, DefaultTabStays, OneIsCurrent, AllFresh,
              GreetingsEnd, StatesAreLast, Open, vars, world, page
<1>2. ASSUME NEW m \in Members, Elsewhere(m) PROVE IInv'
  BY <1>2 DEF Elsewhere, IInv, TypeOK, ClosedHasNoTab, DefaultTabStays, OneIsCurrent, AllFresh,
              GreetingsEnd, StatesAreLast, Open, page
<1> QED  BY <1>1, <1>2, ListenerStep, SessionStep DEF Next

\* The inductive invariant of the page holds for ever.
THEOREM AlwaysIInv == Spec => []IInv
BY InitIInv, NextIInv, PTL DEF Spec

\* Every variable of the page keeps its type (ClientBoard.cpp:45-86), and the default
\* zone stays exclusive.
THEOREM TypeCorrect == Spec => []TypeOK
<1>1. IInv => TypeOK  BY DEF IInv
<1> QED  BY <1>1, AlwaysIInv, PTL

\* However zones are added and deleted, no event finds a SuperAdmin's page without a
\* tab (ClientBoard.cpp:119-120, 373-376).
THEOREM SuperAdminBoardAlwaysLives == Spec => []SuperAdminBoardLives
<1>1. IInv => SuperAdminBoardLives  BY DEF IInv, DefaultTabStays, SuperAdminBoardLives, Open
<1> QED  BY <1>1, AlwaysIInv, PTL

\* For any clients and zones, the status column of the current tab is old only if
\* states changed while another tab was current (ClientBoard.cpp:108-125, 507-517).
THEOREM StaleOnlyWhereMissed == Spec => []StaleOnlyIfMissed
<1>1. IInv => StaleOnlyIfMissed  BY DEF IInv, AllFresh, StaleOnlyIfMissed, Row
<1> QED  BY <1>1, AlwaysIInv, PTL

\* For any clients and zones, a client that the current tab shows online was OnLine in
\* its last event, unless states changed behind another tab (ClientBoard.cpp:108-125).
THEOREM ShownOnlineIsAlwaysOnline == Spec => []ShownOnlineIsOnline
<1>1. IInv => ShownOnlineIsOnline
  BY DEF IInv, TypeOK, AllFresh, StatesAreLast, ShownOnlineIsOnline, Row
<1> QED  BY <1>1, AlwaysIInv, PTL

\* Whatever the page has seen before, a discovery redraws its current tab: the last
\* event of -1 is never the NewClient that announces it (ClientBoard.cpp:112-117).
THEOREM DiscoveriesAreShown == Spec => DiscoveredIsShown
<1> DEFINE A == Open /\ ~greeting /\ greeting' /\ current # NoTab
                => \A c \in members'[current] : models'[current][c] # "none"
<1>1. ASSUME IInv, IInv', Next, Open, ~greeting, greeting', current # NoTab,
             NEW c \in members'[current]
      PROVE  models'[current][c] # "none"
  <2>1. PICK d \in Client : Discover(d)
    BY <1>1 DEF Next, Listener, Session, Greet, Tick, Lost, Events!Greeted, Events!Heard,
                Events!Lost, Elsewhere, OpenBoard, Close, SwitchTab,
                EditClients, DelClients, AddZone, DelZone, SendToAll, world
  <2>2. HandleState(NoId, "NewClient") /\ states[NoId] # "NewClient"
    BY <1>1, <2>1 DEF Discover, IInv, GreetingsEnd
  <2>3. /\ current \in Zones /\ members' \in Members
        /\ models \in [Zones -> [Client -> Status]] /\ states' \in [Ids -> Event \cup {"absent"}]
    BY <1>1 DEF IInv, TypeOK
  <2>4. c \in Client  BY <2>3 DEF Members
  <2>5. models'[current] =
            [e \in Client |-> IF e \in members'[current] THEN StatusOf(states'[e]) ELSE "none"]
    BY <1>1, <2>2, <2>3 DEF HandleState
  <2>6. models'[current][c] = StatusOf(states'[c])  BY <2>4, <2>5
  <2>7. states'[c] \in Event \cup {"absent"}  BY <2>3, <2>4, Constants
  <2> QED  BY <2>6, <2>7, StatusOfEvent
<1>2. IInv /\ IInv' /\ [Next]_vars => [A]_vars  BY <1>1
<1> QED  BY <1>2, AlwaysIInv, PTL DEF Spec, DiscoveredIsShown

-----------------------------------------------------------------------------
(* What the page hears of the listener *)

\* The page takes for granted no other order of the signals than the listener promises
\* (StateListener.cpp:100-127, 169-175): with ImplementsEventsAlways of
\* StateListenerProofs, what is proved here holds of the pages beside that listener.
THEOREM BoardHearsEvents == Spec => Events!Spec
<1>1. Init => Events!Init  BY DEF Init
<1>2. Next => [Events!Next]_<<last, greeting>>
  <2>1. CASE Listener
    <3>1. Events!Ids = Ids  BY EventIds
    <3> QED  BY <2>1, <3>1 DEF Listener, Discover, Tick, Greet, Lost, Events!Next
  <2>2. CASE Session
    BY <2>2 DEF Session, OpenBoard, Close, SwitchTab, EditClients, DelClients, AddZone,
                DelZone, SendToAll, world
  <2>3. ASSUME NEW m \in Members, Elsewhere(m) PROVE UNCHANGED <<last, greeting>>
    BY <2>3 DEF Elsewhere
  <2> QED  BY <2>1, <2>2, <2>3 DEF Next
<1>3. [Next]_vars => [Events!Next]_<<last, greeting>>  BY <1>2 DEF vars, world
<1> QED  BY <1>1, <1>3, PTL DEF Spec, Events!Spec, Events!vars
=============================================================================
