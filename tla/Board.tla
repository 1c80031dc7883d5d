-------------------------------- MODULE Board --------------------------------
(***************************************************************************)
(* The clients page of one web session (src/webgui/view/ClientBoard.cpp):  *)
(* a tab for each zone the user may see, a model behind each tab, and the  *)
(* last event of each client, which the listener's thread writes through   *)
(* the signal stateChanged while it holds the session's lock.              *)
(*                                                                         *)
(* A tab's model is filled when the tab is first shown; after that only    *)
(* events and the session's own edits fill it again, and an event fills    *)
(* the current tab's alone.  What the database says of a zone changes at   *)
(* any time, by other sessions and by the listener.                        *)
(*                                                                         *)
(* Handlers of the page run one at a time under the session's lock; a      *)
(* dialog waits for its user without it.  Names and the two styles of the  *)
(* page are left out.                                                      *)
(***************************************************************************)
EXTENDS Integers

CONSTANTS
    Client,    \* the ids of clients
    NoId,      \* -1, the id of a discovery packet, which is signalled as well
    MaxZone    \* bound: the greatest id that Zone2Name hands out

ASSUME NoIdAssumption == NoId \notin Client
ASSUME MaxZoneAssumption == MaxZone \in Nat

VARIABLES
    members,   \* fetchModel's query: the clients of each zone
    last,      \* the last event of each id that the listener has signalled
    greeting,  \* is the listener between NewClient and the tick of -1?
    mode,      \* no page, a page, or a dead process
    admin,     \* is the user a SuperAdmin?
    zones,     \* the keys of _zones
    tabs,      \* the zones that have a tab in _table
    current,   \* the zone of the current tab, NoTab when there is none
    fetched,   \* the zones whose view has got its model: no longer named "init"
    models,    \* _models: the rows of each model
    states,    \* _states: the last event of each id
    missed     \* history: zones whose model was not filled at the last change of states

world == <<members, last, greeting>>
page == <<admin, zones, tabs, current, fetched>>
vars == <<world, mode, page, models, states, missed>>

\* The listener, as far as its signal shows it; StateListener implements it.
Events == INSTANCE ListenerEvents

Zones == 0..MaxZone
DefaultZone == 0
NoTab == -1
Ids == Client \cup {NoId}

Status == {"none", "offline", "online", "blank"}
Event == {"NewClient", "OnLine", "OffLine"}

\* What the database can say: the default zone is exclusive.
Members ==
    {m \in [Zones -> SUBSET Client] :
        \A z \in Zones \ {DefaultZone} : m[z] \cap m[DefaultZone] = {}}

TypeOK ==
    /\ members \in Members
    /\ last \in [Ids -> Event \cup {"none"}]
    /\ greeting \in BOOLEAN
    /\ mode \in {"closed", "open", "dead"}
    /\ admin \in BOOLEAN
    /\ zones \in SUBSET Zones
    /\ tabs \in SUBSET Zones
    /\ current \in tabs \cup {NoTab}
    /\ fetched \in SUBSET Zones
    /\ models \in [Zones -> [Client -> Status]]
    /\ states \in [Ids -> Event \cup {"absent"}]
    /\ missed \in SUBSET Zones

-----------------------------------------------------------------------------
(* Filling a model *)

NoRows == [c \in Client |-> "none"]
NoStates == [i \in Ids |-> "absent"]

\* The fourth column; it stays blank for the event NewClient.
StatusOf(event) ==
    CASE event = "OnLine" -> "online"
      [] event = "NewClient" -> "blank"
      [] OTHER -> "offline"

\* fetchModel for each zone of zs, from the database and the states of that moment.
Fetch(zs) ==
    /\ models' = [z \in Zones |->
          IF z \in zs
          THEN [c \in Client |-> IF c \in members'[z] THEN StatusOf(states'[c]) ELSE "none"]
          ELSE models[z]]
    /\ missed' = missed \ zs

Open == mode = "open"

-----------------------------------------------------------------------------
(* The listener's thread *)

HandleStateLate(id, event) ==
    IF ~Open \/ states[id] = event
    THEN UNCHANGED <<mode, models, states, missed>>
    ELSE /\ states' = [states EXCEPT ![id] = event]
         /\ IF current = NoTab
            THEN mode' = "dead" /\ UNCHANGED <<models, missed>>
            ELSE /\ models' = [models EXCEPT ![current] =
                      [c \in Client |->
                         IF c \in members'[current] THEN StatusOf(states[c]) ELSE "none"]]
                 /\ missed' = Zones \ {current}
                 /\ UNCHANGED mode

HandleStateInserts(id, event) ==
    IF ~Open \/ states[id] = event
    THEN UNCHANGED <<mode, models, states, missed>>
    ELSE /\ states' = [states EXCEPT ![id] = IF @ = "absent" THEN event ELSE @]
         /\ IF current = NoTab
            THEN mode' = "dead" /\ UNCHANGED <<models, missed>>
            ELSE /\ models' = [models EXCEPT ![current] =
                      [c \in Client |->
                         IF c \in members'[current] THEN StatusOf(states'[c]) ELSE "none"]]
                 /\ missed' = Zones \ {current}
                 /\ UNCHANGED mode

\* handleState of the board, if there is one.  Without a current tab the look-up of
\* its zone throws a string, which nothing in the listener's thread catches.
HandleState(id, event) ==
    IF ~Open \/ states[id] = event
    THEN UNCHANGED <<mode, models, states, missed>>
    ELSE /\ states' = [states EXCEPT ![id] = event]
         /\ IF current = NoTab
            THEN mode' = "dead" /\ UNCHANGED <<models, missed>>
            ELSE /\ models' = [models EXCEPT ![current] =
                      [c \in Client |->
                         IF c \in members'[current] THEN StatusOf(states'[c]) ELSE "none"]]
                 /\ missed' = Zones \ {current}
                 /\ UNCHANGED mode

\* A client new to the table, whose address may have rows in IP2Zone already.
InsertedInto(c, zs) ==
    /\ last[c] = "none" /\ states[c] = "absent"
    /\ \A z \in Zones : c \notin members[z]
    /\ zs = {DefaultZone} \/ (zs # {} /\ DefaultZone \notin zs)
    /\ members' = [z \in Zones |-> IF z \in zs THEN members[z] \cup {c} ELSE members[z]]

\* handleCMD of a client that the cache does not hold: it is inserted, unless the
\* table holds it, and the boards are told NewClient of the id -1, ...
Discover(c) ==
    /\ mode # "dead"
    /\ Events!NewClient
    /\ (\E zs \in SUBSET Zones : InsertedInto(c, zs)) \/ UNCHANGED members
    /\ HandleState(NoId, "NewClient")
    /\ UNCHANGED page

GreetTheClient ==
    /\ mode # "dead"
    /\ greeting
    /\ greeting' = FALSE
    /\ UNCHANGED <<members, page>>
    /\ \E c \in Client : last' = [last EXCEPT ![c] = "OnLine"] /\ HandleState(c, "OnLine")

\* ... and then OnLine of -1: tick is called with it, not with the new id.
Greet ==
    /\ mode # "dead"
    /\ Events!Greeted
    /\ UNCHANGED <<members, page>>
    /\ HandleState(NoId, "OnLine")

\* A heartbeat of a client, or its discovery packet when the cache holds it.
Tick(c) ==
    /\ mode # "dead"
    /\ Events!Heard(c)
    /\ UNCHANGED <<members, page>>
    /\ HandleState(c, "OnLine")

\* The countdown of an id reaches 0.  Of several that do in the same second the pages
\* are told one by one.
Lost(id) ==
    /\ mode # "dead"
    /\ Events!Lost({id})
    /\ UNCHANGED <<members, page>>
    /\ HandleState(id, "OffLine")

\* Other sessions edit clients and zones.
Elsewhere(m) ==
    /\ mode # "dead"
    /\ members' = m
    /\ UNCHANGED <<last, greeting, mode, page, models, states, missed>>

-----------------------------------------------------------------------------
(* The session *)

\* The constructor with the zones zs, all of them for a SuperAdmin, and the fetch
\* for the first tab.  Without a tab it follows a null pointer.
OpenBoard(isAdmin, zs) ==
    /\ mode = "closed"
    /\ isAdmin => DefaultZone \in zs
    /\ admin' = isAdmin
    /\ zones' = zs
    /\ tabs' = zs
    /\ states' = NoStates
    /\ UNCHANGED world
    /\ IF zs = {}
       THEN mode' = "dead" /\ UNCHANGED <<current, fetched, models, missed>>
       ELSE /\ mode' = "open"
            /\ current' \in {z \in zs : \A y \in zs : z <= y}
            /\ fetched' = {current'}
            /\ models' = [z \in Zones |-> [c \in Client |->
                             IF z = current' /\ c \in members[z] THEN "offline" ELSE "none"]]
            /\ missed' = {}

\* The session ends; handleState is disconnected.
Close ==
    /\ Open
    /\ mode' = "closed"
    /\ admin' = FALSE
    /\ zones' = {}
    /\ tabs' = {}
    /\ current' = NoTab
    /\ fetched' = {}
    /\ models' = [z \in Zones |-> NoRows]
    /\ states' = NoStates
    /\ missed' = {}
    /\ UNCHANGED world

\* changedTab: the model is fetched for a view that has none, and for no other.
SwitchTab(z) ==
    /\ Open
    /\ z \in tabs \ {current}
    /\ current' = z
    /\ fetched' = fetched \cup {z}
    /\ UNCHANGED <<world, mode, admin, zones, tabs, states>>
    /\ Fetch({z} \ fetched)

\* editClient or addClient: the script succeeds and the models of all zones with a
\* check box and of the default zone are filled, or it stops and none is.
EditClients(m) ==
    /\ Open
    /\ members' = m
    /\ UNCHANGED <<last, greeting, mode, page, states>>
    /\ Fetch(zones \cup {DefaultZone}) \/ UNCHANGED <<models, missed>>

\* delClient: the clients selected in the current tab.
DelClients(selected) ==
    /\ Open
    /\ current \in fetched
    /\ selected # {}
    /\ \A c \in selected : models[current][c] # "none"
    /\ members' = [z \in Zones |-> members[z] \ selected]
    /\ UNCHANGED <<last, greeting, mode, page, states>>
    /\ Fetch(zones)

\* addZone: _zones is read anew, with the zones zs of others, and a tab appended.
AddZone(z, zs) ==
    /\ Open
    /\ \A y \in Zones : y >= z => y \notin zones /\ members[y] = {}
    /\ zones' = zs \cup {DefaultZone, z}
    /\ tabs' = tabs \cup {z}
    /\ current' = IF tabs = {} THEN z ELSE current
    /\ UNCHANGED <<world, mode, admin, fetched, models, states, missed>>

\* del_zone_in_ip2zone and move2defaultZone.
WithoutZone(z) ==
    [y \in Zones |->
        CASE y = z -> {}
          [] y = DefaultZone ->
               members[y] \cup {c \in members[z] : \A x \in Zones \ {z} : c \notin members[x]}
          [] OTHER -> members[y]]

DelAnyZone ==
    /\ Open
    /\ current \in tabs
    /\ members' = WithoutZone(current)
    /\ tabs' = tabs \ {current}
    /\ current' \in IF tabs' = {} THEN {NoTab} ELSE tabs'
    /\ fetched' \in {fetched \ {current}, (fetched \ {current}) \cup (tabs' \cap {current'})}
    /\ UNCHANGED <<last, greeting, mode, admin, zones, states>>
    /\ Fetch({DefaultZone} \cup (fetched' \ fetched))

DelZoneKeepsCurrent ==
    /\ Open
    /\ current \in tabs \ {DefaultZone}
    /\ members' = WithoutZone(current)
    /\ tabs' = tabs \ {current}
    /\ current' = current
    /\ fetched' \in {fetched \ {current}, (fetched \ {current}) \cup (tabs' \cap {current'})}
    /\ UNCHANGED <<last, greeting, mode, admin, zones, states>>
    /\ Fetch({DefaultZone} \cup (fetched' \ fetched))

\* delZone of the current tab.  Which tab follows, and whether changedTab is called
\* for it, is the tab widget's affair.
DelZone ==
    /\ Open
    /\ current \in tabs \ {DefaultZone}
    /\ members' = WithoutZone(current)
    /\ tabs' = tabs \ {current}
    /\ current' \in IF tabs' = {} THEN {NoTab} ELSE tabs'
    /\ fetched' \in {fetched \ {current}, (fetched \ {current}) \cup (tabs' \cap {current'})}
    /\ UNCHANGED <<last, greeting, mode, admin, zones, states>>
    /\ Fetch({DefaultZone} \cup (fetched' \ fetched))

\* sendMessage or shutdown for the whole zone: reading _states of a client that has
\* none inserts the enumeration's first value, NewClient.
SendToAll ==
    /\ Open
    /\ current \in fetched
    /\ states' = [i \in Ids |->
          IF i \in Client /\ states[i] = "absent" /\ models[current][i] # "none"
          THEN "NewClient" ELSE states[i]]
    /\ UNCHANGED <<world, mode, page, models, missed>>

-----------------------------------------------------------------------------

Init ==
    /\ members \in Members
    /\ Events!Init
    /\ mode = "closed"
    /\ admin = FALSE
    /\ zones = {}
    /\ tabs = {}
    /\ current = NoTab
    /\ fetched = {}
    /\ models = [z \in Zones |-> NoRows]
    /\ states = NoStates
    /\ missed = {}

Listener ==
    \/ \E c \in Client : Discover(c) \/ Tick(c)
    \/ Greet
    \/ \E id \in Ids : Lost(id)

Session ==
    \/ \E isAdmin \in BOOLEAN, zs \in SUBSET Zones : OpenBoard(isAdmin, zs)
    \/ Close
    \/ \E z \in Zones : SwitchTab(z)
    \/ \E m \in Members : EditClients(m)
    \/ \E selected \in SUBSET Client : DelClients(selected)
    \/ \E z \in Zones, zs \in SUBSET Zones : AddZone(z, zs)
    \/ DelZone
    \/ SendToAll

Next == Listener \/ Session \/ \E m \in Members : Elsewhere(m)

Spec == Init /\ [][Next]_vars

-----------------------------------------------------------------------------
(* Properties *)

Row(c) == models[current][c]

\* A client that the listener has just inserted is on the page if its zone's tab is
\* the current one.  handleState ignores an event that repeats the last one of its
\* id (ClientBoard.cpp:112-117), so this needs the OnLine of -1 after each
\* NewClient of -1 (StateListener.cpp:170-175).
DiscoveredIsShown ==
    [][Open /\ ~greeting /\ greeting' /\ current # NoTab
       => \A c \in members'[current] : models'[current][c] # "none"]_vars

\* The status column of the current tab is that of the last events, unless states
\* changed while another tab was the current one: then, and only then, it is old.
StaleOnlyIfMissed ==
    Open /\ current \in fetched \ missed =>
        \A c \in Client : Row(c) # "none" => (Row(c) = "online" <=> states[c] = "OnLine")

\* A client that the current tab shows as online is one that the listener counts, unless
\* states changed while another tab was the current one.  A page misses no OffLine, though
\* it ignores events that repeat and shares the listener's thread with every other page
\* (ClientBoard.cpp:108-125); the converse holds only from the next heartbeat on, as the
\* constructor takes every client for offline.
ShownOnlineIsOnline ==
    Open /\ current \in fetched \ missed =>
        \A c \in Client : Row(c) = "online" => last[c] = "OnLine"

\* No sequence of edits takes the last tab from a SuperAdmin's page, after which the
\* next event would end the process: the default zone cannot be deleted
\* (ClientBoard.cpp:373-376).
SuperAdminBoardLives == admin => mode # "dead"
=============================================================================
