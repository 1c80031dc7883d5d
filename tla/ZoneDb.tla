------------------------------- MODULE ZoneDb -------------------------------
(***************************************************************************)
(* The classification of clients into zones: the tables Clients, Zone2Name *)
(* and IP2Zone with their triggers (src/webgui/model/DbProxy.cpp), and the *)
(* statements that ClientBoard and the listener run on them.               *)
(*                                                                         *)
(* A call of runSQL holds the database's mutex, so no other thread sees    *)
(* its statements apart; but each statement commits alone, so a crash      *)
(* leaves the database after some of them.  A board offers the zones of    *)
(* its copy _zones, which only its own addZone reads anew.  Foreign keys   *)
(* are declared and not enforced (SQLite's default).                       *)
(*                                                                         *)
(* Names are left out: renaming a client or a zone (modifyZone) changes    *)
(* nothing that is kept here.                                              *)
(***************************************************************************)
EXTENDS Integers

CONSTANTS
    Ip,       \* addresses of clients
    NoIp,     \* no row, no address
    MaxId,    \* bound: the greatest id the Clients table hands out
    MaxZone,  \* bound: the greatest id Zone2Name hands out
    Board     \* the boards open in the web sessions

ASSUME NoIpAssumption == NoIp \notin Ip
ASSUME MaxIdAssumption == MaxId \in Nat
ASSUME MaxZoneAssumption == MaxZone \in Nat

VARIABLES
    clients,  \* Clients: ID -> IP, NoIp where there is no row
    seq,      \* its AUTOINCREMENT sequence
    zones,    \* Zone2Name: the zones there are
    zoneSeq,  \* its AUTOINCREMENT sequence
    zonesOf,  \* IP2Zone: the zones of each address
    known,    \* ClientBoard::_zones of each board
    adding    \* an addClient between its two calls of the database: [ip, checked]

tables == <<clients, seq, zones, zoneSeq, zonesOf>>
vars == <<tables, known, adding>>

Ids == 1..MaxId
Zones == 0..MaxZone

\* "Unclassified", which createTables inserts and delZone refuses to delete.
DefaultZone == 0

NotAdding == [ip |-> NoIp, checked |-> {}]

TypeOK ==
    /\ clients \in [Ids -> Ip \cup {NoIp}]
    /\ seq \in 0..MaxId
    /\ zones \in SUBSET Zones
    /\ DefaultZone \in zones
    /\ zoneSeq \in 0..MaxZone
    /\ zonesOf \in [Ip -> SUBSET Zones]
    /\ known \in [Board -> SUBSET Zones]
    /\ adding \in [Board -> [ip : Ip \cup {NoIp}, checked : SUBSET Zones]]

-----------------------------------------------------------------------------
(* The triggers: what a statement leaves of the zones zs of one address *)

IsClient(table, ip) == \E i \in Ids : table[i] = ip

\* INSERT INTO IP2Zone, with delDefaultZone: the default zone gives way.
InsertedPlain(zs, new) == zs \cup new
Inserted(zs, new) == IF new = {} THEN zs ELSE (zs \cup new) \ {DefaultZone}

\* DELETE FROM IP2Zone, with move2defaultZone: the address of a client that loses
\* its last row falls back to the default zone.
DeletedPlain(zs, gone, isClient) == zs \ gone
Deleted(zs, gone, isClient) ==
    IF zs # {} /\ zs \subseteq gone /\ isClient THEN {DefaultZone} ELSE zs \ gone

\* A row that is already there violates the primary key: the script stops at it.
BeforeDuplicate(zs, checked) ==
    {z \in checked : \A d \in checked \cap zs : z < d}

\* INSERT INTO Clients, with addToDefaultZone; it fails when the address is there.
InsertClient(ip) ==
    IF IsClient(clients, ip)
    THEN UNCHANGED <<clients, seq, zonesOf>>
    ELSE /\ seq < MaxId
         /\ seq' = seq + 1
         /\ clients' = [clients EXCEPT ![seq + 1] = ip]
         /\ zonesOf' = [zonesOf EXCEPT ![ip] = IF @ = {} THEN {DefaultZone} ELSE @]

-----------------------------------------------------------------------------
(* The listener and the boards *)

\* handleCMD of the listener inserts the client it has discovered.
Discover(ip) == InsertClient(ip) /\ UNCHANGED <<zones, zoneSeq, known, adding>>

\* A new board of a user who may see the zones zs; its predecessor's dialog is gone.
OpenBoard(b, zs) ==
    /\ known' = [known EXCEPT ![b] = zs]
    /\ adding' = [adding EXCEPT ![b] = NotAdding]
    /\ UNCHANGED tables

Ready(b) == adding[b] = NotAdding

AddZone(b) ==
    /\ Ready(b)
    /\ zoneSeq < MaxZone
    /\ zoneSeq' = zoneSeq + 1
    /\ zones' = zones \cup {zoneSeq + 1}
    /\ known' = [known EXCEPT ![b] = zones']
    /\ UNCHANGED <<clients, seq, zonesOf, adding>>

\* delZone, with del_zone_in_ip2zone.  The board keeps the zone in _zones.
DelAnyZone(b, z) ==
    /\ Ready(b)
    /\ z \in known[b]
    /\ zones' = zones \ {z}
    /\ zonesOf' = [ip \in Ip |-> Deleted(zonesOf[ip], IF z \in zones THEN {z} ELSE {},
                                         IsClient(clients, ip))]
    /\ UNCHANGED <<clients, seq, zoneSeq, known, adding>>

DelZone(b, z) ==
    /\ Ready(b)
    /\ z \in known[b] \ {DefaultZone}
    /\ zones' = zones \ {z}
    /\ zonesOf' = [ip \in Ip |-> Deleted(zonesOf[ip], IF z \in zones THEN {z} ELSE {},
                                         IsClient(clients, ip))]
    /\ UNCHANGED <<clients, seq, zoneSeq, known, adding>>

DelClientEarly(b, id) ==
    /\ Ready(b)
    /\ clients' = [clients EXCEPT ![id] = NoIp]
    /\ zonesOf' = [ip \in Ip |-> IF ip = clients[id] THEN Deleted(zonesOf[ip], Zones, TRUE)
                                                     ELSE zonesOf[ip]]
    /\ UNCHANGED <<seq, zones, zoneSeq, known, adding>>

\* DELETE FROM Clients, with onDelClients: the row of the client is gone when the
\* rows of its address are deleted.
DelClient(b, id) ==
    /\ Ready(b)
    /\ clients' = [clients EXCEPT ![id] = NoIp]
    /\ zonesOf' = [ip \in Ip |-> IF ip = clients[id] THEN {} ELSE zonesOf[ip]]
    /\ UNCHANGED <<seq, zones, zoneSeq, known, adding>>

\* addClient: one call inserts the client, its result ignored, ...
AddClient(b, ip, checked) ==
    /\ Ready(b)
    /\ InsertClient(ip)
    /\ adding' = [adding EXCEPT ![b] = [ip |-> ip, checked |-> checked]]
    /\ UNCHANGED <<zones, zoneSeq, known>>

\* ... the next the zones that were checked.
AddClientZones(b) ==
    /\ ~Ready(b)
    /\ zonesOf' = [zonesOf EXCEPT ![adding[b].ip] =
                     Inserted(@, BeforeDuplicate(@, adding[b].checked))]
    /\ adding' = [adding EXCEPT ![b] = NotAdding]
    /\ UNCHANGED <<clients, seq, zones, zoneSeq, known>>

\* editClient's script for a row on display, whose client may be deleted since.
\* UPDATE fails when another client has the address, and then the script stops.
Readdressed(id, ip) == IF clients[id] = NoIp THEN clients ELSE [clients EXCEPT ![id] = ip]

AddressFree(id, ip) == clients[id] = NoIp \/ \A i \in Ids \ {id} : clients[i] # ip

EditClient(b, id, ip, checked) ==
    /\ Ready(b)
    /\ AddressFree(id, ip)
    /\ clients' = Readdressed(id, ip)
    /\ zonesOf' = [zonesOf EXCEPT ![ip] =
                     Inserted(Deleted(@, Zones, IsClient(clients', ip)), checked)]
    /\ UNCHANGED <<seq, zones, zoneSeq, known, adding>>

\* The process dies inside that script: after UPDATE, after DELETE, or after the
\* INSERTs of the zones up to z.  No board survives.
CrashInEdit(b, id, ip, checked) ==
    /\ Ready(b)
    /\ AddressFree(id, ip)
    /\ clients' = Readdressed(id, ip)
    /\ \/ UNCHANGED zonesOf
       \/ \E z \in Zones : zonesOf' =
             [zonesOf EXCEPT ![ip] = Inserted(Deleted(@, Zones, IsClient(clients', ip)),
                                              {c \in checked : c <= z})]
    /\ known' = [c \in Board |-> {}]
    /\ adding' = [c \in Board |-> NotAdding]
    /\ UNCHANGED <<seq, zones, zoneSeq>>

\* The process dies anywhere else.
Crash ==
    /\ known' = [c \in Board |-> {}]
    /\ adding' = [c \in Board |-> NotAdding]
    /\ UNCHANGED tables

-----------------------------------------------------------------------------

Init ==
    /\ clients = [i \in Ids |-> NoIp]
    /\ seq = 0
    /\ zones = {DefaultZone}
    /\ zoneSeq = 0
    /\ zonesOf = [ip \in Ip |-> {}]
    /\ known = [b \in Board |-> {}]
    /\ adding = [b \in Board |-> NotAdding]

\* The zones a board has check boxes for.
Boxes(b) == known[b] \ {DefaultZone}

Edit(b) ==
    \E ip \in Ip, checked \in SUBSET Boxes(b) :
        \/ AddClient(b, ip, checked)
        \/ \E id \in Ids : EditClient(b, id, ip, checked) \/ CrashInEdit(b, id, ip, checked)

BoardStep(b) ==
    \/ \E zs \in SUBSET zones : OpenBoard(b, zs)
    \/ AddZone(b)
    \/ \E z \in Zones : DelZone(b, z)
    \/ \E id \in Ids : DelClient(b, id)
    \/ AddClientZones(b)
    \/ Edit(b)

Next == (\E ip \in Ip : Discover(ip)) \/ (\E b \in Board : BoardStep(b)) \/ Crash

Spec == Init /\ [][Next]_vars

-----------------------------------------------------------------------------
(* Properties *)

\* The default zone holds only what has no other zone (the comment of the
\* triggers, DbProxy.cpp:56-57), through every order of inserts, deletes, edits
\* and crashes.
DefaultZoneExclusive ==
    \A ip \in Ip : DefaultZone \in zonesOf[ip] => zonesOf[ip] = {DefaultZone}

\* A client is listed when one of its zones exists: only then some board shows it.
Listed(ip) == zonesOf[ip] \cap zones # {}

\* A row is inserted for a zone that is deleted already, from an old _zones.
StaleInsert(ip) == ~(zonesOf'[ip] \ zonesOf[ip] \subseteq zones)

\* No step takes a client off all boards, be it the deletion of its last zone, an
\* edit that checks nothing or a crash in the middle: unless it has a row for a
\* deleted zone before, or the step inserts one or changes its address (editClient
\* moves no row along), some board still shows it.
KeepsListed(id) ==
    /\ clients[id] # NoIp
    /\ clients'[id] = clients[id]
    /\ zonesOf[clients[id]] # {}
    /\ zonesOf[clients[id]] \subseteq zones
    /\ ~StaleInsert(clients[id])
    => zonesOf'[clients[id]] \cap zones' # {}

StaysListed == [][\A id \in Ids : KeepsListed(id)]_vars

\* The board promises (ClientBoard.cpp:378-380) that the nodes of a deleted zone
\* which no zone manages fall back to the default zone: no client has only zones
\* that do not exist.
DeletedZonesFallBack ==
    \A id \in Ids :
        clients[id] # NoIp /\ zonesOf[clients[id]] # {} => Listed(clients[id])

-----------------------------------------------------------------------------
(* Refinement *)

Classes == INSTANCE Classification WITH
    Address <- Ip,
    Zone <- Zones,
    Default <- DefaultZone,
    present <- {ip \in Ip : IsClient(clients, ip)},
    exists <- zones

\* Triggers (DbProxy.cpp:63-91), scripts of several statements, calls that lose to
\* another session's and crashes together still do to the classification only what
\* it promises: one address changes at a time, or a zone goes, and a client that had
\* a zone is left with one.
ImplementsClassification == Classes!Spec
=============================================================================
