---------------------------- MODULE StateListener ----------------------------
(***************************************************************************)
(* The management station's listener (src/webgui/model/StateListener.cpp): *)
(* one thread runs an io_service with two handlers, the UDP receive on     *)
(* port 43201 and a one-second timer.  It tells a discovery packet (id -1) *)
(* from a heartbeat, keeps the cache _clients of the Clients table and the *)
(* countdown _states of every client, emits StateEvents, and answers with  *)
(* HELLO and BYE commands that detached threads carry to the classroom.    *)
(*                                                                         *)
(* The Clients table (DbProxy) is shared with the web sessions, which add, *)
(* delete and re-address rows whenever they like.                          *)
(*                                                                         *)
(* A row's name is left out: no decision of the listener reads it.  An id  *)
(* missing from _states and one that counts 0 are one state here: every    *)
(* reader treats them alike, so findClient's insertion of 0 is invisible.  *)
(***************************************************************************)
EXTENDS Integers

CONSTANTS
    Ip,        \* addresses of classroom computers
    NoIp,      \* no row, no address
    MaxId,     \* bound: the greatest id the Clients table hands out
    CountMax   \* count_max, 15 in the code

ASSUME NoIpAssumption == NoIp \notin Ip
ASSUME MaxIdAssumption == MaxId \in Nat
ASSUME CountMaxAssumption == CountMax \in Nat \ {0}

VARIABLES
    clients,   \* the Clients table: ID -> IP, NoIp where there is no row
    seq,       \* its AUTOINCREMENT sequence: the last id handed out
    cache,     \* StateListener::_clients, the copy of the table
    states,    \* StateListener::_states, the seconds left of each id
    signalled, \* the last StateEvent emitted for each id
    adding,    \* the address whose discovery packet is half handled, or NoIp
    sent       \* the commands the last handler step gave to cmd_async_send

vars == <<clients, seq, cache, states, signalled, adding, sent>>

Ids == 1..MaxId

\* The id of a discovery packet; the listener also counts and signals it.
NoId == -1

AllIds == Ids \cup {NoId}

Commands == [cmd : {"HELLO", "BYE"}, id : AllIds, ip : Ip]

TypeOK ==
    /\ clients \in [Ids -> Ip \cup {NoIp}]
    /\ seq \in 0..MaxId
    /\ cache \in [Ids -> Ip \cup {NoIp}]
    /\ states \in [AllIds -> 0..CountMax]
    /\ signalled \in [AllIds -> {"none", "NewClient", "OnLine", "OffLine"}]
    /\ adding \in Ip \cup {NoIp}
    /\ sent \in SUBSET Commands

-----------------------------------------------------------------------------
(* The Clients table *)

HasIp(table, ip) == \E i \in Ids : table[i] = ip

\* The first row with this address in the order of the ids.
IdOf(table, ip) ==
    CHOOSE i \in Ids : table[i] = ip /\ \A j \in Ids : table[j] = ip => i <= j

\* DbProxy::addClient: IP is UNIQUE, so the INSERT of a known address fails and
\* leaves the table and its sequence as they were.
InsertClient(ip) ==
    IF HasIp(clients, ip)
    THEN UNCHANGED <<clients, seq>>
    ELSE /\ seq < MaxId
         /\ seq' = seq + 1
         /\ clients' = [clients EXCEPT ![seq + 1] = ip]

Table == <<clients, seq>>

-----------------------------------------------------------------------------
(* The handlers, run one after the other by the listener's thread *)

Idle == adding = NoIp

\* tick: the event goes out and the countdown starts again.
Tick(id) ==
    /\ states' = [states EXCEPT ![id] = CountMax]
    /\ signalled' = [signalled EXCEPT ![id] = "OnLine"]

Send(cmd, id, ip) == sent' = {[cmd |-> cmd, id |-> id, ip |-> ip]}

\* handleCMD, id -1, from an address of the cache: HELLO tells the agent its id.
DiscoverKnown(ip) ==
    /\ Idle
    /\ HasIp(cache, ip)
    /\ Tick(IdOf(cache, ip))
    /\ Send("HELLO", IdOf(cache, ip), ip)
    /\ UNCHANGED <<Table, cache, adding>>

\* handleCMD, id -1, from an unknown address: the row is inserted and NewClient
\* signalled.  The table is read again only in GreetNew, by another SQL
\* statement, and a web session may come between.
DiscoverNew(ip) ==
    /\ Idle
    /\ ~HasIp(cache, ip)
    /\ InsertClient(ip)
    /\ signalled' = [signalled EXCEPT ![NoId] = "NewClient"]
    /\ adding' = ip
    /\ sent' = {}
    /\ UNCHANGED <<cache, states>>

GreetNewGuessesId ==
    /\ ~Idle
    /\ cache' = clients
    /\ Tick(NoId)
    /\ Send("HELLO", IF seq < MaxId THEN seq + 1 ELSE seq, adding)
    /\ adding' = NoIp
    /\ UNCHANGED Table

GreetNewTicksTheRow ==
    /\ ~Idle
    /\ cache' = clients
    /\ Tick(IF HasIp(clients, adding) THEN IdOf(clients, adding) ELSE NoId)
    /\ Send("HELLO", NoId, adding)
    /\ adding' = NoIp
    /\ UNCHANGED Table

\* The rest of that branch: _clients is read anew, but id is still -1 when it is
\* ticked and when HELLO is sent.
GreetNew ==
    /\ ~Idle
    /\ cache' = clients
    /\ Tick(NoId)
    /\ Send("HELLO", NoId, adding)
    /\ adding' = NoIp
    /\ UNCHANGED Table

\* findClient: the cache is believed when it agrees and read anew when it does not.
FindClientInCache(id, ip) == cache[id] = ip
FindClientByAddress(id, ip) == cache[id] = ip \/ HasIp(clients, ip)
FindClientIfCounted(id, ip) == (cache[id] = ip \/ clients[id] = ip) /\ states[id] > 0
FindClient(id, ip) == cache[id] = ip \/ clients[id] = ip

RefreshByInsert(id, ip) ==
    cache' = [i \in Ids |-> IF cache[i] = NoIp THEN clients[i] ELSE cache[i]]
RefreshOnMiss(id, ip) == cache' = IF cache[id] = ip THEN cache ELSE clients

\* handleCMD, any other id: count the heartbeat, or send BYE to an agent whose id
\* is not in the database so that it starts from discovery again.
Heartbeat(ip, id) ==
    /\ Idle
    /\ RefreshOnMiss(id, ip)
    /\ IF FindClient(id, ip)
       THEN Tick(id) /\ sent' = {}
       ELSE Send("BYE", id, ip) /\ UNCHANGED <<states, signalled>>
    /\ UNCHANGED <<Table, adding>>

DelStateCountNoSkip ==
    /\ Idle
    /\ states' = [i \in AllIds |-> states[i] - 1]
    /\ signalled' = [i \in AllIds |-> IF states[i] = 1 THEN "OffLine" ELSE signalled[i]]
    /\ sent' = {}
    /\ UNCHANGED <<Table, cache, adding>>

DelStateCountLate ==
    /\ Idle
    /\ states' = [i \in AllIds |-> IF states[i] = 0 THEN 0 ELSE states[i] - 1]
    /\ signalled' = [i \in AllIds |-> IF states[i] = 0 THEN "OffLine" ELSE signalled[i]]
    /\ sent' = {}
    /\ UNCHANGED <<Table, cache, adding>>

\* delStateCount: a second less for every id, OffLine for those that reach 0.
DelStateCount ==
    /\ Idle
    /\ states' = [i \in AllIds |-> IF states[i] = 0 THEN 0 ELSE states[i] - 1]
    /\ signalled' = [i \in AllIds |-> IF states[i] = 1 THEN "OffLine" ELSE signalled[i]]
    /\ sent' = {}
    /\ UNCHANGED <<Table, cache, adding>>

\* The station's process dies and starts again: the constructor reads the table.
Restart ==
    /\ cache' = clients
    /\ states' = [i \in AllIds |-> 0]
    /\ signalled' = [i \in AllIds |-> "none"]
    /\ adding' = NoIp
    /\ sent' = {}
    /\ UNCHANGED Table

-----------------------------------------------------------------------------
(* The web sessions (ClientBoard), seen through the Clients table *)

WebUnchanged == sent' = {} /\ UNCHANGED <<cache, states, signalled, adding>>

WebAddClient(ip) == InsertClient(ip) /\ WebUnchanged

WebDelClient(id) ==
    /\ clients' = [clients EXCEPT ![id] = NoIp]
    /\ UNCHANGED seq
    /\ WebUnchanged

\* The UPDATE of editClient: it fails when another row has the address.
WebEditClient(id, ip) ==
    /\ clients[id] # NoIp
    /\ ~HasIp(clients, ip)
    /\ clients' = [clients EXCEPT ![id] = ip]
    /\ UNCHANGED seq
    /\ WebUnchanged

-----------------------------------------------------------------------------

Init ==
    /\ clients = [i \in Ids |-> NoIp]
    /\ seq = 0
    /\ cache = [i \in Ids |-> NoIp]
    /\ states = [i \in AllIds |-> 0]
    /\ signalled = [i \in AllIds |-> "none"]
    /\ adding = NoIp
    /\ sent = {}

\* Agents keep the id of an earlier database, so any id may come from any address.
Listen(ip) ==
    \/ DiscoverKnown(ip)
    \/ DiscoverNew(ip)
    \/ \E id \in Ids : Heartbeat(ip, id)

Web ==
    \/ \E ip \in Ip : WebAddClient(ip)
    \/ \E id \in Ids : WebDelClient(id)
    \/ \E id \in Ids, ip \in Ip : WebEditClient(id, ip)

Next == (\E ip \in Ip : Listen(ip)) \/ GreetNew \/ DelStateCount \/ Restart \/ Web

SafeSpec == Init /\ [][Next]_vars

\* A handler that has begun ends, and the io_service runs its ready handlers in
\* turn, so an expired timer is not passed over for ever in favour of packets.
Fairness == WF_vars(GreetNew) /\ SF_vars(DelStateCount)

Spec == SafeSpec /\ Fairness

-----------------------------------------------------------------------------
(* Properties *)

UniqueIps(table) ==
    \A i, j \in Ids : table[i] = table[j] /\ table[i] # NoIp => i = j

\* BYE (StateListener.cpp:180-185) goes only to an agent whose id and address are
\* not a row of the database at that moment, however old the cache is: the miss
\* has read the table again.  A BYE to a registered agent would put a running
\* classroom back into discovery.
ByeOnlyToStrangers ==
    \A c \in sent : c.cmd = "BYE" => clients[c.id] # c.ip

\* Only ids that the database has handed out are ever counted as online: a
\* heartbeat with a foreign id (StateListener.cpp:177-179) creates no ghost.
OnlineIsIssued == \A i \in Ids : states[i] > 0 => i <= seq

\* The cache holds an address at most once, so that the search of handleCMD
\* (StateListener.cpp:160-167) for the owner of an address has one answer even
\* after rows were deleted, added again and re-addressed behind the cache's back.
OneIdPerIp == UniqueIps(cache)

\* The countdown and the emitted events implement the failure detector for every
\* id of the table: what subscribers were last told is what the countdown says,
\* and a client that falls silent is eventually reported OffLine.
Detector == INSTANCE FailureDetector WITH
    Nodes <- Ids,
    Limit <- CountMax,
    silence <- [i \in Ids |-> CountMax - states[i]],
    status <- [i \in Ids |-> IF signalled[i] = "OnLine" THEN "online" ELSE "offline"]

ImplementsDetector == Detector!Spec

\* The events come as the pages rely on: NewClient only of -1 and never twice without the
\* OnLine of -1 in between, which a page would ignore as no change
\* (ClientBoard.cpp:112-117), and OffLine only where OnLine came last, so that no page is
\* told of the loss of a client that was never there (StateListener.cpp:100-127, 169-175).
Events == INSTANCE ListenerEvents WITH
    Client <- Ids,
    last <- signalled,
    greeting <- ~Idle

ImplementsEvents == Events!Spec
=============================================================================
