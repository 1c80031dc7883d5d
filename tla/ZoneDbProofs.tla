---------------------------- MODULE ZoneDbProofs ----------------------------
(***************************************************************************)
(* Safety of the classification for any number of addresses, clients,      *)
(* zones and boards.                                                       *)
(***************************************************************************)
EXTENDS ZoneDb, TLAPS

\* IP is UNIQUE in Clients.
UniqueIps ==
    \A i, j \in Ids : clients[i] = clients[j] /\ clients[i] # NoIp => i = j

\* No dialog has a check box for the default zone.
NoDefaultBox == \A b \in Board : DefaultZone \notin adding[b].checked

IInv == TypeOK /\ DefaultZoneExclusive /\ UniqueIps /\ NoDefaultBox

\* The default zone is alone or absent in zs.
Exclusive(zs) == DefaultZone \in zs => zs = {DefaultZone}

LEMMA IdsAndZones ==
    /\ Ids \subseteq Nat \ {0}
    /\ DefaultZone \in Zones
    /\ \A s \in 0..MaxZone : s \in Zones
BY MaxIdAssumption, MaxZoneAssumption DEF Ids, Zones, DefaultZone

\* What the triggers keep, whatever rows a statement inserts or deletes.
LEMMA TriggersKeepExclusive ==
    ASSUME NEW zs \in SUBSET Zones, NEW new \in SUBSET Zones, NEW isClient \in BOOLEAN
    PROVE  /\ Inserted(zs, new) \in SUBSET Zones
           /\ Deleted(zs, new, isClient) \in SUBSET Zones
           /\ Exclusive(zs) => /\ Exclusive(Inserted(zs, new))
                               /\ Exclusive(Deleted(zs, new, isClient))
BY IdsAndZones DEF Inserted, Deleted, Exclusive

\* A client with rows keeps one: the last is replaced by the default zone.
LEMMA DeletedLeavesAZone ==
    ASSUME NEW zs \in SUBSET Zones, zs # {}, NEW gone \in SUBSET Zones
    PROVE  /\ Deleted(zs, gone, TRUE) # {}
           /\ Deleted(zs, gone, TRUE) \subseteq (zs \ gone) \cup {DefaultZone}
BY DEF Deleted

\* Inserting rows for zones that have check boxes leaves a row, of a checked zone
\* if there is any.
LEMMA InsertedLeavesAZone ==
    ASSUME NEW zs \in SUBSET Zones, zs # {}, NEW new \in SUBSET Zones, DefaultZone \notin new
    PROVE  /\ Inserted(zs, new) # {}
           /\ Inserted(zs, new) \subseteq zs \cup new
BY DEF Inserted

\* The INSERT of a client, by the listener or by a board.
LEMMA InsertClientKeeps ==
    ASSUME IInv, NEW ip \in Ip, InsertClient(ip)
    PROVE  /\ clients' \in [Ids -> Ip \cup {NoIp}]
           /\ seq' \in 0..MaxId
           /\ zonesOf' \in [Ip -> SUBSET Zones]
           /\ UniqueIps'
           /\ DefaultZoneExclusive'
           /\ \A i \in Ip : zonesOf[i] # {} => zonesOf'[i] = zonesOf[i]
<1> USE DEF IInv, TypeOK
<1>1. CASE IsClient(clients, ip)
  BY <1>1, MaxIdAssumption DEF InsertClient, UniqueIps, DefaultZoneExclusive
<1>2. CASE ~IsClient(clients, ip)
  <2>1. /\ seq < MaxId
        /\ seq' = seq + 1
        /\ clients' = [clients EXCEPT ![seq + 1] = ip]
        /\ zonesOf' = [zonesOf EXCEPT ![ip] =
                         IF zonesOf[ip] = {} THEN {DefaultZone} ELSE zonesOf[ip]]
    BY <1>2 DEF InsertClient
  <2>2. seq + 1 \in Ids BY <2>1, MaxIdAssumption DEF Ids
  <2>3. /\ clients' \in [Ids -> Ip \cup {NoIp}]
        /\ UniqueIps'
    BY <1>2, <2>1, <2>2 DEF UniqueIps, IsClient
  <2>4. {DefaultZone} \in SUBSET Zones BY IdsAndZones
  <2>5. zonesOf' \in [Ip -> SUBSET Zones] BY <2>1, <2>4
  <2>6. DefaultZoneExclusive' BY <2>1 DEF DefaultZoneExclusive
  <2>7. seq' \in 0..MaxId BY <2>1, MaxIdAssumption
  <2> QED BY <2>1, <2>3, <2>5, <2>6, <2>7
<1> QED BY <1>1, <1>2

\* The UPDATE of editClient.
LEMMA ReaddressedKeeps ==
    ASSUME IInv, NEW id \in Ids, NEW ip \in Ip, AddressFree(id, ip),
           clients' = Readdressed(id, ip)
    PROVE  /\ clients' \in [Ids -> Ip \cup {NoIp}]
           /\ UniqueIps'
BY DEF IInv, TypeOK, AddressFree, Readdressed, UniqueIps

LEMMA IInvInit == Init => IInv
BY IdsAndZones, NoIpAssumption, MaxIdAssumption, MaxZoneAssumption
   DEF Init, IInv, TypeOK, DefaultZoneExclusive, UniqueIps, NoDefaultBox, NotAdding, DefaultZone

\* The part of the invariant that speaks of the boards.
BoardsOK ==
    /\ known \in [Board -> SUBSET Zones]
    /\ adding \in [Board -> [ip : Ip \cup {NoIp}, checked : SUBSET Zones]]
    /\ NoDefaultBox

\* The part that speaks of the tables.
TablesOK ==
    /\ clients \in [Ids -> Ip \cup {NoIp}]
    /\ seq \in 0..MaxId
    /\ zones \in SUBSET Zones
    /\ DefaultZone \in zones
    /\ zoneSeq \in 0..MaxZone
    /\ zonesOf \in [Ip -> SUBSET Zones]
    /\ DefaultZoneExclusive
    /\ UniqueIps

LEMMA IInvParts == IInv <=> TablesOK /\ BoardsOK
BY DEF IInv, TypeOK, TablesOK, BoardsOK

LEMMA IInvPartsPrimed == TablesOK' /\ BoardsOK' => IInv'
BY DEF IInv, TypeOK, TablesOK, BoardsOK

\* No board survives a crash, and a new board has no dialog.
LEMMA NotAddingOK ==
    /\ NotAdding \in [ip : Ip \cup {NoIp}, checked : SUBSET Zones]
    /\ DefaultZone \notin NotAdding.checked
BY DEF NotAdding

LEMMA CrashedBoardsOK ==
    ASSUME known' = [c \in Board |-> {}], adding' = [c \in Board |-> NotAdding]
    PROVE  BoardsOK'
BY NotAddingOK DEF BoardsOK, NoDefaultBox

\* The zones that the script of editClient leaves are exclusive again.
LEMMA RezonedKeeps ==
    ASSUME IInv, NEW ip \in Ip, NEW gone \in SUBSET Zones, NEW new \in SUBSET Zones,
           NEW isClient \in BOOLEAN,
           zonesOf' = [zonesOf EXCEPT ![ip] = Inserted(Deleted(@, gone, isClient), new)]
    PROVE  /\ zonesOf' \in [Ip -> SUBSET Zones]
           /\ DefaultZoneExclusive'
<1>1. zonesOf \in [Ip -> SUBSET Zones] /\ Exclusive(zonesOf[ip])
  BY DEF IInv, TypeOK, DefaultZoneExclusive, Exclusive
<1> DEFINE d == Deleted(zonesOf[ip], gone, isClient)
<1>2. d \in SUBSET Zones /\ Exclusive(d)
  BY <1>1, TriggersKeepExclusive
<1>3. Inserted(d, new) \in SUBSET Zones /\ Exclusive(Inserted(d, new))
  BY <1>2, TriggersKeepExclusive
<1>4. zonesOf' = [zonesOf EXCEPT ![ip] = Inserted(d, new)]
  OBVIOUS
<1> HIDE DEF d
<1> QED BY <1>1, <1>3, <1>4 DEF IInv, DefaultZoneExclusive, Exclusive

LEMMA IInvStep ==
    IInv /\ [Next]_vars => IInv'
<1> SUFFICES ASSUME IInv, [Next]_vars PROVE IInv'
  OBVIOUS
<1>0. TablesOK /\ BoardsOK BY IInvParts
<1>1. ASSUME NEW ip \in Ip, Discover(ip) PROVE IInv'
  <2>1. InsertClient(ip) BY <1>1 DEF Discover
  <2>2. TablesOK'
    BY <1>0, <1>1, <2>1, InsertClientKeeps DEF Discover, TablesOK
  <2>3. BoardsOK' BY <1>0, <1>1 DEF Discover, BoardsOK, NoDefaultBox
  <2> QED BY <2>2, <2>3, IInvPartsPrimed
<1>2. ASSUME NEW b \in Board, NEW zs \in SUBSET zones, OpenBoard(b, zs) PROVE IInv'
  <2>1. TablesOK'
    BY <1>0, <1>2 DEF OpenBoard, TablesOK, tables, DefaultZoneExclusive, UniqueIps
  <2>2. zs \in SUBSET Zones BY <1>0, <1>2 DEF TablesOK
  <2>3. BoardsOK'
    BY <1>0, <1>2, <2>2, NotAddingOK DEF OpenBoard, BoardsOK, NoDefaultBox
  <2> QED BY <2>1, <2>3, IInvPartsPrimed
<1>3. ASSUME NEW b \in Board, AddZone(b) PROVE IInv'
  <2>1. zoneSeq + 1 \in Zones /\ zoneSeq' \in 0..MaxZone
    BY <1>0, <1>3, MaxZoneAssumption DEF AddZone, TablesOK, Zones
  <2>2. zones' \in SUBSET Zones /\ DefaultZone \in zones'
    BY <1>0, <1>3, <2>1 DEF AddZone, TablesOK
  <2>3. TablesOK'
    BY <1>0, <1>3, <2>1, <2>2 DEF AddZone, TablesOK, DefaultZoneExclusive, UniqueIps
  <2>4. BoardsOK'
    BY <1>0, <1>3, <2>2 DEF AddZone, BoardsOK, NoDefaultBox
  <2> QED BY <2>3, <2>4, IInvPartsPrimed
<1>4. ASSUME NEW b \in Board, NEW z \in Zones, DelZone(b, z) PROVE IInv'
  <2> DEFINE gone == IF z \in zones THEN {z} ELSE {}
  <2>1. gone \in SUBSET Zones BY <1>4
  <2>2. \A ip \in Ip : /\ Deleted(zonesOf[ip], gone, IsClient(clients, ip)) \in SUBSET Zones
                       /\ Exclusive(Deleted(zonesOf[ip], gone, IsClient(clients, ip)))
    <3> SUFFICES ASSUME NEW ip \in Ip
                 PROVE  /\ Deleted(zonesOf[ip], gone, IsClient(clients, ip)) \in SUBSET Zones
                        /\ Exclusive(Deleted(zonesOf[ip], gone, IsClient(clients, ip)))
      OBVIOUS
    <3>1. zonesOf[ip] \in SUBSET Zones /\ Exclusive(zonesOf[ip])
      BY <1>0 DEF TablesOK, DefaultZoneExclusive, Exclusive
    <3>2. IsClient(clients, ip) \in BOOLEAN BY DEF IsClient
    <3> HIDE DEF gone
    <3> QED BY <2>1, <3>1, <3>2, TriggersKeepExclusive
  <2>3. zonesOf' = [ip \in Ip |-> Deleted(zonesOf[ip], gone, IsClient(clients, ip))]
    BY <1>4 DEF DelZone
  <2> HIDE DEF gone
  <2>4. zonesOf' \in [Ip -> SUBSET Zones] /\ DefaultZoneExclusive'
    BY <2>2, <2>3 DEF DefaultZoneExclusive, Exclusive
  <2>5. TablesOK' BY <1>0, <1>4, <2>4 DEF DelZone, TablesOK, UniqueIps
  <2>6. BoardsOK' BY <1>0, <1>4 DEF DelZone, BoardsOK, NoDefaultBox
  <2> QED BY <2>5, <2>6, IInvPartsPrimed
<1>5. ASSUME NEW b \in Board, NEW id \in Ids, DelClient(b, id) PROVE IInv'
  <2>1. TablesOK'
    BY <1>0, <1>5 DEF DelClient, TablesOK, DefaultZoneExclusive, UniqueIps
  <2>2. BoardsOK' BY <1>0, <1>5 DEF DelClient, BoardsOK, NoDefaultBox
  <2> QED BY <2>1, <2>2, IInvPartsPrimed
<1>6. ASSUME NEW b \in Board, AddClientZones(b) PROVE IInv'
  <2> DEFINE ip == adding[b].ip
             new == BeforeDuplicate(zonesOf[ip], adding[b].checked)
  <2>1. new \in SUBSET Zones BY <1>0 DEF BoardsOK, BeforeDuplicate
  <2>2. zonesOf' = [zonesOf EXCEPT ![ip] = Inserted(zonesOf[ip], new)]
    BY <1>6 DEF AddClientZones
  <2> HIDE DEF new
  <2>3. zonesOf' \in [Ip -> SUBSET Zones] /\ DefaultZoneExclusive'
    <3>1. CASE ip \in Ip
      <4>1. zonesOf[ip] \in SUBSET Zones /\ Exclusive(zonesOf[ip])
        BY <1>0, <3>1 DEF TablesOK, DefaultZoneExclusive, Exclusive
      <4>2. Inserted(zonesOf[ip], new) \in SUBSET Zones /\ Exclusive(Inserted(zonesOf[ip], new))
        BY <2>1, <4>1, TriggersKeepExclusive
      <4> HIDE DEF ip
      <4> QED BY <1>0, <2>2, <3>1, <4>2 DEF TablesOK, DefaultZoneExclusive, Exclusive
    <3>2. CASE ip \notin Ip
      <4>1. zonesOf' = zonesOf BY <1>0, <2>2, <3>2 DEF TablesOK
      <4> QED BY <1>0, <4>1 DEF TablesOK, DefaultZoneExclusive
    <3> QED BY <3>1, <3>2
  <2>4. TablesOK' BY <1>0, <1>6, <2>3 DEF AddClientZones, TablesOK, UniqueIps
  <2>5. BoardsOK'
    BY <1>0, <1>6, NotAddingOK DEF AddClientZones, BoardsOK, NoDefaultBox
  <2> QED BY <2>4, <2>5, IInvPartsPrimed
<1>7. ASSUME NEW b \in Board, NEW ip \in Ip, NEW checked \in SUBSET Boxes(b),
             AddClient(b, ip, checked)
      PROVE  IInv'
  <2>1. InsertClient(ip) BY <1>7 DEF AddClient
  <2>2. TablesOK'
    BY <1>0, <1>7, <2>1, InsertClientKeeps DEF AddClient, TablesOK
  <2>3. checked \in SUBSET Zones /\ DefaultZone \notin checked
    BY <1>0, <1>7 DEF Boxes, BoardsOK
  <2>4. adding' = [adding EXCEPT ![b] = [ip |-> ip, checked |-> checked]] /\ known' = known
    BY <1>7 DEF AddClient
  <2>5. BoardsOK' BY <1>0, <2>3, <2>4 DEF BoardsOK, NoDefaultBox
  <2> QED BY <2>2, <2>5, IInvPartsPrimed
<1>8. ASSUME NEW b \in Board, NEW ip \in Ip, NEW checked \in SUBSET Boxes(b), NEW id \in Ids,
             EditClient(b, id, ip, checked)
      PROVE  IInv'
  <2>1. /\ AddressFree(id, ip)
        /\ clients' = Readdressed(id, ip)
        /\ zonesOf' = [zonesOf EXCEPT ![ip] =
                         Inserted(Deleted(@, Zones, IsClient(clients', ip)), checked)]
        /\ UNCHANGED <<seq, zones, zoneSeq, known, adding>>
    BY <1>8 DEF EditClient
  <2>2. clients' \in [Ids -> Ip \cup {NoIp}] /\ UniqueIps'
    BY <2>1, ReaddressedKeeps
  <2>3. checked \in SUBSET Zones BY <1>0 DEF Boxes, BoardsOK
  <2>4. IsClient(clients', ip) \in BOOLEAN BY DEF IsClient
  <2>5. zonesOf' \in [Ip -> SUBSET Zones] /\ DefaultZoneExclusive'
    BY <2>1, <2>3, <2>4, RezonedKeeps
  <2>6. TablesOK' BY <1>0, <2>1, <2>2, <2>5 DEF TablesOK
  <2>7. BoardsOK' BY <1>0, <2>1 DEF BoardsOK, NoDefaultBox
  <2> QED BY <2>6, <2>7, IInvPartsPrimed
<1>9. ASSUME NEW b \in Board, NEW ip \in Ip, NEW checked \in SUBSET Boxes(b), NEW id \in Ids,
             CrashInEdit(b, id, ip, checked)
      PROVE  IInv'
  <2>1. /\ AddressFree(id, ip)
        /\ clients' = Readdressed(id, ip)
        /\ known' = [c \in Board |-> {}]
        /\ adding' = [c \in Board |-> NotAdding]
        /\ UNCHANGED <<seq, zones, zoneSeq>>
    BY <1>9 DEF CrashInEdit
  <2>2. clients' \in [Ids -> Ip \cup {NoIp}] /\ UniqueIps'
    BY <2>1, ReaddressedKeeps
  <2>3. IsClient(clients', ip) \in BOOLEAN BY DEF IsClient
  <2>4. ASSUME NEW z \in Zones,
               zonesOf' = [zonesOf EXCEPT ![ip] =
                             Inserted(Deleted(@, Zones, IsClient(clients', ip)),
                                      {c \in checked : c <= z})]
        PROVE  zonesOf' \in [Ip -> SUBSET Zones] /\ DefaultZoneExclusive'
    <3>1. {c \in checked : c <= z} \in SUBSET Zones BY <1>0 DEF Boxes, BoardsOK
    <3> QED BY <2>3, <2>4, <3>1, RezonedKeeps
  <2>5. zonesOf' \in [Ip -> SUBSET Zones] /\ DefaultZoneExclusive'
    <3>1. CASE UNCHANGED zonesOf
      BY <1>0, <3>1 DEF TablesOK, DefaultZoneExclusive
    <3> QED BY <1>9, <2>4, <3>1 DEF CrashInEdit
  <2>6. TablesOK' BY <1>0, <2>1, <2>2, <2>5 DEF TablesOK
  <2>7. BoardsOK' BY <2>1, CrashedBoardsOK
  <2> QED BY <2>6, <2>7, IInvPartsPrimed
<1>10. ASSUME Crash PROVE IInv'
  <2>1. TablesOK'
    BY <1>0, <1>10 DEF Crash, TablesOK, tables, DefaultZoneExclusive, UniqueIps
  <2>2. BoardsOK' BY <1>10, CrashedBoardsOK DEF Crash
  <2> QED BY <2>1, <2>2, IInvPartsPrimed
<1>11. ASSUME UNCHANGED vars PROVE IInv'
  BY <1>11 DEF IInv, TypeOK, DefaultZoneExclusive, UniqueIps, NoDefaultBox, vars, tables
<1> QED
  BY <1>1, <1>2, <1>3, <1>4, <1>5, <1>6, <1>7, <1>8, <1>9, <1>10, <1>11
     DEF Next, BoardStep, Edit

-----------------------------------------------------------------------------

\* The inductive invariant holds in every reachable state.
THEOREM Invariance == Spec => []IInv
BY IInvInit, IInvStep, PTL DEF Spec

\* Every variable keeps its type; the default zone always exists.
THEOREM TypeCorrect == Spec => []TypeOK
BY Invariance, PTL DEF IInv

\* Whatever is inserted, deleted, edited or cut off by a crash, the default zone
\* never holds a client together with another zone (DbProxy.cpp:56-57).
THEOREM DefaultZoneAlwaysExclusive == Spec => []DefaultZoneExclusive
<1>1. IInv => DefaultZoneExclusive BY DEF IInv
<1> QED BY Invariance, <1>1, PTL

-----------------------------------------------------------------------------
(* No step takes a client off all boards *)

\* It is enough that a zone is left and that no zone is deleted.
LEMMA SomeZoneSuffices ==
    ASSUME NEW ip \in Ip, zonesOf[ip] \subseteq zones, ~StaleInsert(ip),
           zones \subseteq zones', zonesOf'[ip] # {}
    PROVE  zonesOf'[ip] \cap zones' # {}
BY DEF StaleInsert

LEMMA StepKeepsListed ==
    ASSUME IInv, Next, NEW id \in Ids,
           clients[id] # NoIp, clients'[id] = clients[id],
           zonesOf[clients[id]] # {}, zonesOf[clients[id]] \subseteq zones,
           ~StaleInsert(clients[id])
    PROVE  zonesOf'[clients[id]] \cap zones' # {}
<1> DEFINE ip == clients[id]
           Goal == zonesOf'[ip] \cap zones' # {}
<1>0. /\ ip \in Ip
      /\ zonesOf \in [Ip -> SUBSET Zones]
      /\ DefaultZone \in zones
  BY DEF IInv, TypeOK
<1>1. zones \subseteq zones' /\ zonesOf'[ip] # {} => Goal
  BY <1>0, SomeZoneSuffices
<1>2. ASSUME NEW i \in Ip, InsertClient(i), zones' = zones PROVE Goal
  BY <1>0, <1>1, <1>2, InsertClientKeeps
<1>3. ASSUME NEW i \in Ip, NEW new \in SUBSET Zones, DefaultZone \notin new,
             zonesOf' = [zonesOf EXCEPT ![i] = Inserted(@, new)], zones' = zones
      PROVE  Goal
  <2>1. CASE i = ip
    <3>1. zonesOf'[ip] = Inserted(zonesOf[ip], new) BY <1>0, <1>3, <2>1
    <3> QED BY <1>0, <1>1, <1>3, <3>1, InsertedLeavesAZone
  <2>2. CASE i # ip
    BY <1>0, <1>1, <1>3, <2>2
  <2> QED BY <2>1, <2>2
<1>4. ASSUME NEW i \in Ip, NEW new \in SUBSET Zones, DefaultZone \notin new,
             zonesOf' = [zonesOf EXCEPT ![i] =
                           Inserted(Deleted(@, Zones, IsClient(clients', i)), new)],
             zones' = zones
      PROVE  Goal
  <2>1. CASE i = ip
    <3>1. IsClient(clients', i) BY <2>1 DEF IsClient
    <3> DEFINE d == Deleted(zonesOf[ip], Zones, TRUE)
    <3>2. d # {} /\ d \in SUBSET Zones
      BY <1>0, IdsAndZones, DeletedLeavesAZone, TriggersKeepExclusive
    <3>3. Deleted(zonesOf[ip], Zones, IsClient(clients', i)) = d
      BY <3>1 DEF Deleted
    <3>4. zonesOf'[ip] = Inserted(d, new) BY <1>0, <1>4, <2>1, <3>3
    <3> HIDE DEF d
    <3> QED BY <1>1, <1>4, <3>2, <3>4, InsertedLeavesAZone
  <2>2. CASE i # ip
    BY <1>0, <1>1, <1>4, <2>2
  <2> QED BY <2>1, <2>2
<1>5. ASSUME NEW i \in Ip, Discover(i) PROVE Goal
  BY <1>2, <1>5 DEF Discover
<1>6. ASSUME NEW b \in Board, NEW zs \in SUBSET zones, OpenBoard(b, zs) PROVE Goal
  BY <1>1, <1>6 DEF OpenBoard, tables
<1>7. ASSUME NEW b \in Board, AddZone(b) PROVE Goal
  BY <1>1, <1>7 DEF AddZone
<1>8. ASSUME NEW b \in Board, NEW z \in Zones, DelZone(b, z) PROVE Goal
  <2> DEFINE gone == IF z \in zones THEN {z} ELSE {}
  <2>1. z # DefaultZone /\ zones' = zones \ {z} BY <1>8 DEF DelZone
  <2>2. IsClient(clients, ip) BY DEF IsClient
  <2>3. zonesOf'[ip] = Deleted(zonesOf[ip], gone, IsClient(clients, ip))
    BY <1>0, <1>8 DEF DelZone
  <2>4. Deleted(zonesOf[ip], gone, IsClient(clients, ip)) = Deleted(zonesOf[ip], gone, TRUE)
    BY <2>2 DEF Deleted
  <2>5. gone \in SUBSET Zones /\ zonesOf[ip] \ gone \subseteq zones' BY <2>1
  <2> HIDE DEF gone
  <2>6. /\ zonesOf'[ip] # {}
        /\ zonesOf'[ip] \subseteq (zonesOf[ip] \ gone) \cup {DefaultZone}
    <3>1. zonesOf[ip] \in SUBSET Zones /\ zonesOf[ip] # {} BY <1>0
    <3>2. zonesOf'[ip] = Deleted(zonesOf[ip], gone, TRUE) BY <2>3, <2>4
    <3> HIDE DEF ip
    <3>3. /\ Deleted(zonesOf[ip], gone, TRUE) # {}
          /\ Deleted(zonesOf[ip], gone, TRUE) \subseteq (zonesOf[ip] \ gone) \cup {DefaultZone}
      BY <2>5, <3>1, DeletedLeavesAZone
    <3> QED BY <3>2, <3>3
  <2>7. DefaultZone \in zones' BY <1>0, <2>1
  <2>8. zonesOf'[ip] \subseteq zones' BY <2>5, <2>6, <2>7
  <2> HIDE DEF ip
  <2> QED BY <2>6, <2>8
<1>9. ASSUME NEW b \in Board, NEW i \in Ids, DelClient(b, i) PROVE Goal
  <2>1. i # id /\ zones' = zones BY <1>9 DEF DelClient, IInv, TypeOK
  <2>2. clients[i] # ip BY <2>1 DEF IInv, UniqueIps
  <2>3. zonesOf'[ip] = zonesOf[ip] BY <1>0, <1>9, <2>2 DEF DelClient
  <2> QED BY <1>1, <2>1, <2>3
<1>10. ASSUME NEW b \in Board, AddClientZones(b) PROVE Goal
  <2> DEFINE i == adding[b].ip
             new == BeforeDuplicate(zonesOf[i], adding[b].checked)
  <2>1. /\ adding[b].checked \in SUBSET Zones
        /\ DefaultZone \notin adding[b].checked
    BY DEF IInv, TypeOK, NoDefaultBox
  <2>2. new \in SUBSET Zones /\ DefaultZone \notin new
    BY <2>1 DEF BeforeDuplicate
  <2>3. zonesOf' = [zonesOf EXCEPT ![i] = Inserted(@, new)] /\ zones' = zones
    BY <1>10 DEF AddClientZones
  <2> HIDE DEF new
  <2>4. CASE i \in Ip BY <1>3, <2>2, <2>3, <2>4
  <2>5. CASE i \notin Ip
    <3>1. zonesOf' = zonesOf BY <1>0, <2>3, <2>5
    <3> QED BY <1>1, <2>3, <3>1
  <2> QED BY <2>4, <2>5
<1>11. ASSUME NEW b \in Board, NEW i \in Ip, NEW checked \in SUBSET Boxes(b),
              AddClient(b, i, checked)
       PROVE  Goal
  BY <1>2, <1>11 DEF AddClient
<1>12. ASSUME NEW b \in Board, NEW i \in Ip, NEW checked \in SUBSET Boxes(b), NEW j \in Ids,
              EditClient(b, j, i, checked) \/ CrashInEdit(b, j, i, checked)
       PROVE  Goal
  <2>1. checked \in SUBSET Zones /\ DefaultZone \notin checked
    BY DEF Boxes, IInv, TypeOK
  <2>2. CASE EditClient(b, j, i, checked)
    BY <1>4, <2>1, <2>2 DEF EditClient
  <2>3. CASE CrashInEdit(b, j, i, checked)
    <3>1. zones' = zones BY <2>3 DEF CrashInEdit
    <3>2. CASE UNCHANGED zonesOf BY <1>1, <3>1, <3>2
    <3>3. ASSUME NEW z \in Zones,
                 zonesOf' = [zonesOf EXCEPT ![i] =
                               Inserted(Deleted(@, Zones, IsClient(clients', i)),
                                        {c \in checked : c <= z})]
          PROVE  Goal
      <4>1. /\ {c \in checked : c <= z} \in SUBSET Zones
            /\ DefaultZone \notin {c \in checked : c <= z}
        BY <2>1
      <4> QED BY <1>4, <3>1, <3>3, <4>1
    <3> QED BY <2>3, <3>2, <3>3 DEF CrashInEdit
  <2> QED BY <1>12, <2>2, <2>3
<1>13. ASSUME Crash PROVE Goal
  BY <1>1, <1>13 DEF Crash, tables
<1> QED
  BY <1>5, <1>6, <1>7, <1>8, <1>9, <1>10, <1>11, <1>12, <1>13 DEF Next, BoardStep, Edit

\* No step takes a client off all boards: neither the deletion of its last zone,
\* nor an edit, nor a crash between the statements of one.
THEOREM ClientsStayListed == Spec => StaysListed
<1>1. IInv /\ [Next]_vars => [\A id \in Ids : KeepsListed(id)]_vars
  <2> SUFFICES ASSUME IInv, Next, NEW id \in Ids PROVE KeepsListed(id)
    OBVIOUS
  <2> QED BY StepKeepsListed DEF KeepsListed
<1> QED BY Invariance, <1>1, PTL DEF Spec, StaysListed

-----------------------------------------------------------------------------
(* The tables implement the classification *)

\* The addresses of the clients there are.
Present == {ip \in Ip : IsClient(clients, ip)}

\* The tables always hold a class of each address.
LEMMA ZonesAreClasses ==
    ASSUME IInv PROVE \A ip \in Ip : zonesOf[ip] \in Classes!Class
BY DEF IInv, TypeOK, DefaultZoneExclusive, Classes!Class

\* Replacing the zones of one address by what MayBecome allows is a Reclassify.
LEMMA IsReclassify ==
    ASSUME IInv, IInv', NEW a \in Ip, NEW zs,
           zonesOf' = [zonesOf EXCEPT ![a] = zs],
           zs = {} => zonesOf[a] = {} \/ a \notin Present',
           zs = {DefaultZone} => zonesOf[a] = {DefaultZone} \/ (zonesOf[a] # {} /\ a \in Present'),
           UNCHANGED zones,
           Present' = Present \/ \E old \in Present : a \notin Present /\ Present' = (Present \ {old}) \cup {a}
    PROVE  Classes!Reclassify(a)
<1>1. zonesOf'[a] = zs /\ zonesOf'[a] \in Classes!Class
  <2>1. zonesOf'[a] = zs  BY DEF IInv, TypeOK
  <2>2. zonesOf'[a] \in SUBSET Zones  BY DEF IInv, TypeOK
  <2>3. DefaultZone \in zonesOf'[a] => zonesOf'[a] = {DefaultZone}
    BY DEF IInv, DefaultZoneExclusive
  <2> QED  BY <2>1, <2>2, <2>3 DEF Classes!Class
<1>2. Classes!MayBecome(zonesOf[a], zonesOf'[a], a \in Present')
  BY <1>1 DEF Classes!MayBecome
<1>3. UNCHANGED Present \/ \E old \in Ip : Classes!Move(old, a)
  BY DEF Classes!Move, Present
<1> QED  BY <1>1, <1>2, <1>3 DEF Classes!Reclassify, Present

\* AUTOINCREMENT: no row has an id that is still to be handed out.
RowsAreOld == \A i \in Ids : i > seq => clients[i] = NoIp

LEMMA RowsStayOld == IInv /\ RowsAreOld /\ [Next]_vars => RowsAreOld'
<1> SUFFICES ASSUME IInv, RowsAreOld, [Next]_vars PROVE RowsAreOld'
  OBVIOUS
<1>1. ASSUME NEW ip \in Ip, InsertClient(ip) PROVE RowsAreOld'
  <2>1. CASE IsClient(clients, ip)  BY <1>1, <2>1 DEF InsertClient, RowsAreOld
  <2>2. CASE ~IsClient(clients, ip)
    <3>1. clients' = [clients EXCEPT ![seq + 1] = ip] /\ seq' = seq + 1
      BY <1>1, <2>2 DEF InsertClient
    <3>2. seq \in Nat /\ \A i \in Ids : i \in Nat
      BY IdsAndZones, MaxIdAssumption DEF IInv, TypeOK
    <3>3. \A i \in Ids : i # seq + 1 => clients'[i] = clients[i]
      BY <3>1 DEF IInv, TypeOK
    <3> QED  BY <3>1, <3>2, <3>3 DEF RowsAreOld
  <2> QED  BY <2>1, <2>2
<1>2. ASSUME UNCHANGED <<clients, seq>> PROVE RowsAreOld'
  BY <1>2 DEF RowsAreOld
<1>3. ASSUME NEW b \in Board, NEW id \in Ids, DelClient(b, id) PROVE RowsAreOld'
  BY <1>3 DEF DelClient, RowsAreOld, IInv, TypeOK
<1>4. ASSUME NEW b \in Board, NEW ip \in Ip, NEW checked, NEW id \in Ids,
             EditClient(b, id, ip, checked) \/ CrashInEdit(b, id, ip, checked)
      PROVE  RowsAreOld'
  <2>1. clients' = Readdressed(id, ip) /\ UNCHANGED seq
    BY <1>4 DEF EditClient, CrashInEdit
  <2> QED  BY <2>1 DEF Readdressed, RowsAreOld, IInv, TypeOK
<1> QED
  BY <1>1, <1>2, <1>3, <1>4
     DEF Next, BoardStep, Edit, Discover, OpenBoard, AddZone, DelZone, AddClientZones, AddClient,
         Crash, vars, tables

\* An INSERT INTO Clients enrols a client, or fails and leaves everything.
LEMMA InsertEnrols ==
    ASSUME IInv, RowsAreOld, NEW ip \in Ip, InsertClient(ip), UNCHANGED zones
    PROVE  Classes!Enrol(ip) \/ UNCHANGED Classes!vars
<1>1. CASE IsClient(clients, ip)
  BY <1>1 DEF InsertClient, Classes!vars
<1>2. CASE ~IsClient(clients, ip)
  <2>1. /\ seq + 1 \in Ids
        /\ clients' = [clients EXCEPT ![seq + 1] = ip]
        /\ zonesOf' = [zonesOf EXCEPT ![ip] =
                         IF zonesOf[ip] = {} THEN {DefaultZone} ELSE zonesOf[ip]]
    BY <1>2, MaxIdAssumption DEF InsertClient, Ids, IInv, TypeOK
  <2>2. clients[seq + 1] = NoIp
    BY <2>1, IdsAndZones, MaxIdAssumption DEF IInv, TypeOK, RowsAreOld
  <2>3. \A i \in Ids : clients'[i] = IF i = seq + 1 THEN ip ELSE clients[i]
    BY <2>1 DEF IInv, TypeOK
  <2>4. Present' = Present \cup {ip} /\ ip \notin Present
    BY <1>2, <2>1, <2>2, <2>3, NoIpAssumption DEF Present, IsClient
  <2> QED  BY <2>1, <2>4 DEF Classes!Enrol, Present
<1> QED  BY <1>1, <1>2

\* A zone's row goes, with the rows of its clients; or it had gone before.
LEMMA DelZoneDissolves ==
    ASSUME IInv, NEW b \in Board, NEW z \in Zones, DelZone(b, z)
    PROVE  Classes!Dissolve(z) \/ UNCHANGED Classes!vars
<1>1. /\ z # DefaultZone /\ zones' = zones \ {z} /\ UNCHANGED clients
      /\ zonesOf' = [ip \in Ip |-> Deleted(zonesOf[ip], IF z \in zones THEN {z} ELSE {},
                                           IsClient(clients, ip))]
  BY DEF DelZone
<1>2. Present' = Present  BY <1>1 DEF Present, IsClient
<1>3. CASE z \in zones
  <2>1. \A ip \in Ip : zonesOf'[ip] = IF zonesOf[ip] = {z} /\ ip \in Present THEN {DefaultZone}
                                                                        ELSE zonesOf[ip] \ {z}
    BY <1>1, <1>3 DEF Deleted, Present
  <2>2. zonesOf' = [ip \in Ip |-> IF zonesOf[ip] = {z} /\ ip \in Present THEN {DefaultZone}
                                                                    ELSE zonesOf[ip] \ {z}]
    BY <1>1, <2>1
  <2> QED  BY <1>1, <1>2, <1>3, <2>2 DEF Classes!Dissolve, Present
<1>4. CASE z \notin zones
  <2>1. \A ip \in Ip : zonesOf'[ip] = zonesOf[ip]  BY <1>1, <1>4 DEF Deleted
  <2>2. zonesOf' = zonesOf  BY <1>1, <2>1 DEF IInv, TypeOK
  <2> QED  BY <1>1, <1>2, <1>4, <2>2 DEF Classes!vars, Present
<1> QED  BY <1>3, <1>4

\* A client's row goes, and with it the rows of its address.
LEMMA DelClientRetires ==
    ASSUME IInv, NEW b \in Board, NEW id \in Ids, DelClient(b, id)
    PROVE  (\E a \in Ip : Classes!Retire(a)) \/ UNCHANGED Classes!vars
<1>1. /\ clients' = [clients EXCEPT ![id] = NoIp] /\ UNCHANGED zones
      /\ zonesOf' = [ip \in Ip |-> IF ip = clients[id] THEN {} ELSE zonesOf[ip]]
  BY DEF DelClient
<1>2. \A i \in Ids : clients'[i] = IF i = id THEN NoIp ELSE clients[i]
  BY <1>1 DEF IInv, TypeOK
<1>3. CASE clients[id] = NoIp
  <2>1. \A ip \in Ip : zonesOf'[ip] = zonesOf[ip]  BY <1>1, <1>3, NoIpAssumption
  <2>2. zonesOf' = zonesOf  BY <1>1, <2>1 DEF IInv, TypeOK
  <2>3. Present' = Present  BY <1>2, <1>3, NoIpAssumption DEF Present, IsClient
  <2> QED  BY <1>1, <2>2, <2>3 DEF Classes!vars, Present
<1>4. CASE clients[id] # NoIp
  <2> DEFINE a == clients[id]
  <2>1. a \in Ip  BY <1>4 DEF IInv, TypeOK
  <2>2. a \in Present /\ Present' = Present \ {a}
    BY <1>2, <1>4, <2>1, NoIpAssumption DEF Present, IsClient, IInv, UniqueIps
  <2>3. zonesOf' = [zonesOf EXCEPT ![a] = {}]
    BY <1>1, <2>1 DEF IInv, TypeOK
  <2> HIDE DEF a
  <2> QED  BY <1>1, <2>1, <2>2, <2>3 DEF Classes!Retire, Present
<1> QED  BY <1>3, <1>4

\* The zones that addClient inserts extend those of the address.
LEMMA AddZonesReclassifies ==
    ASSUME IInv, IInv', NEW b \in Board, AddClientZones(b)
    PROVE  (\E a \in Ip : Classes!Reclassify(a)) \/ UNCHANGED Classes!vars
<1> DEFINE a == adding[b].ip
           new == BeforeDuplicate(zonesOf[a], adding[b].checked)
<1>1. /\ zonesOf' = [zonesOf EXCEPT ![a] = Inserted(zonesOf[a], new)]
      /\ UNCHANGED <<clients, zones>>
  BY DEF AddClientZones
<1>2. DefaultZone \notin new  BY DEF IInv, NoDefaultBox, BeforeDuplicate
<1>3. Present' = Present  BY <1>1 DEF Present, IsClient
<1> HIDE DEF new
<1>4. CASE a \in Ip
  <2> DEFINE zs == Inserted(zonesOf[a], new)
  <2>1. /\ zs = {} => zonesOf[a] = {}
        /\ zs = {DefaultZone} => zonesOf[a] = {DefaultZone}
    BY <1>2 DEF Inserted
  <2>2. zonesOf' = [zonesOf EXCEPT ![a] = zs]  BY <1>1
  <2> HIDE DEF zs, a
  <2> QED  BY <1>1, <1>3, <1>4, <2>1, <2>2, IsReclassify
<1>5. CASE a \notin Ip
  <2>1. zonesOf' = zonesOf  BY <1>1, <1>5 DEF IInv, TypeOK
  <2> QED  BY <1>1, <1>3, <2>1 DEF Classes!vars, Present
<1> QED  BY <1>4, <1>5

\* The UPDATE of editClient leaves the clients' addresses or moves one.
LEMMA ReaddressedMoves ==
    ASSUME IInv, NEW id \in Ids, NEW ip \in Ip, AddressFree(id, ip),
           clients' = Readdressed(id, ip)
    PROVE  /\ \/ Present' = Present
              \/ \E old \in Present : ip \notin Present /\ Present' = (Present \ {old}) \cup {ip}
           /\ ip \in Present' <=> IsClient(clients', ip)
<1>1. ip \in Present' <=> IsClient(clients', ip)  BY DEF Present
<1>2. CASE clients[id] = NoIp
  BY <1>1, <1>2 DEF Readdressed, Present, IsClient
<1>3. CASE clients[id] = ip
  <2>1. clients' = clients  BY <1>3, NoIpAssumption DEF Readdressed, IInv, TypeOK
  <2> QED  BY <1>1, <2>1 DEF Present, IsClient
<1>4. CASE clients[id] \notin {NoIp, ip}
  <2> DEFINE old == clients[id]
  <2>1. \A i \in Ids : clients'[i] = IF i = id THEN ip ELSE clients[i]
    BY <1>4 DEF Readdressed, IInv, TypeOK
  <2>2. old \in Present /\ ip \notin Present
    BY <1>4 DEF Present, IsClient, AddressFree, IInv, TypeOK
  <2>3. \A i \in Ids : i # id => clients[i] # old
    BY <1>4 DEF IInv, UniqueIps
  <2>4. Present' = (Present \ {old}) \cup {ip}
    BY <1>4, <2>1, <2>3 DEF Present, IsClient
  <2> QED  BY <1>1, <2>2, <2>4
<1> QED  BY <1>2, <1>3, <1>4

\* Its script, whole or cut off by a crash after any of its statements.
LEMMA EditReclassifies ==
    ASSUME IInv, IInv', NEW b \in Board, NEW ip \in Ip, NEW checked \in SUBSET Boxes(b), NEW id \in Ids,
           EditClient(b, id, ip, checked) \/ CrashInEdit(b, id, ip, checked)
    PROVE  Classes!Reclassify(ip)
<1>1. clients' = Readdressed(id, ip) /\ AddressFree(id, ip) /\ UNCHANGED zones
  BY DEF EditClient, CrashInEdit
<1>2. /\ \/ Present' = Present
         \/ \E old \in Present : ip \notin Present /\ Present' = (Present \ {old}) \cup {ip}
      /\ ip \in Present' <=> IsClient(clients', ip)
  BY <1>1, ReaddressedMoves
<1>3. ASSUME NEW new, DefaultZone \notin new,
             zonesOf' = [zonesOf EXCEPT ![ip] = Inserted(Deleted(@, Zones, IsClient(clients', ip)), new)]
      PROVE  Classes!Reclassify(ip)
  <2> DEFINE zs == Inserted(Deleted(zonesOf[ip], Zones, IsClient(clients', ip)), new)
  <2>1. zonesOf[ip] \in SUBSET Zones  BY DEF IInv, TypeOK
  <2>2. zs = {} => zonesOf[ip] = {} \/ ip \notin Present'
    BY <1>2, <1>3, <2>1 DEF Inserted, Deleted
  <2>3. zs = {DefaultZone} => zonesOf[ip] # {} /\ ip \in Present'
    BY <1>2, <1>3, <2>1 DEF Inserted, Deleted
  <2>4. zonesOf' = [zonesOf EXCEPT ![ip] = zs]  BY <1>3
  <2> HIDE DEF zs
  <2> QED  BY <1>1, <1>2, <2>2, <2>3, <2>4, IsReclassify
<1>4. ASSUME UNCHANGED zonesOf PROVE Classes!Reclassify(ip)
  <2>1. zonesOf' = [zonesOf EXCEPT ![ip] = zonesOf[ip]]  BY <1>4 DEF IInv, TypeOK
  <2> QED  BY <1>1, <1>2, <2>1, IsReclassify
<1>5. DefaultZone \notin checked  BY DEF Boxes
<1>6. CASE EditClient(b, id, ip, checked)
  BY <1>3, <1>5, <1>6 DEF EditClient
<1>7. CASE CrashInEdit(b, id, ip, checked)
  <2>1. ASSUME NEW z \in Zones,
               zonesOf' = [zonesOf EXCEPT ![ip] = Inserted(Deleted(@, Zones, IsClient(clients', ip)),
                                                           {c \in checked : c <= z})]
        PROVE  Classes!Reclassify(ip)
    <3>1. DefaultZone \notin {c \in checked : c <= z}  BY <1>5
    <3> QED  BY <1>3, <2>1, <3>1
  <2> QED  BY <1>4, <1>7, <2>1 DEF CrashInEdit
<1> QED  BY <1>6, <1>7

LEMMA StepClassifies ==
    IInv /\ IInv' /\ RowsAreOld /\ [Next]_vars => [Classes!Next]_(Classes!vars)
<1> SUFFICES ASSUME IInv, IInv', RowsAreOld, [Next]_vars
             PROVE  Classes!Next \/ UNCHANGED Classes!vars
  OBVIOUS
<1>1. ASSUME UNCHANGED <<clients, zones, zonesOf>> PROVE UNCHANGED Classes!vars
  BY <1>1 DEF Classes!vars, IsClient
<1>2. ASSUME NEW ip \in Ip, InsertClient(ip), UNCHANGED zones
      PROVE  Classes!Next \/ UNCHANGED Classes!vars
  BY <1>2, InsertEnrols DEF Classes!Next
<1>3. ASSUME NEW b \in Board, AddZone(b) PROVE Classes!Next
  <2>1. /\ zones' = zones \cup {zoneSeq + 1} /\ UNCHANGED <<clients, zonesOf>>
        /\ zoneSeq + 1 \in Zones /\ zoneSeq + 1 # DefaultZone
    BY <1>3, MaxZoneAssumption DEF AddZone, IInv, TypeOK, Zones, DefaultZone
  <2>2. Classes!Found(zoneSeq + 1)  BY <2>1 DEF Classes!Found, IsClient
  <2> QED  BY <2>1, <2>2 DEF Classes!Next
<1>4. ASSUME NEW b \in Board, NEW z \in Zones, DelZone(b, z)
      PROVE  Classes!Next \/ UNCHANGED Classes!vars
  BY <1>4, DelZoneDissolves DEF Classes!Next
<1>5. ASSUME NEW b \in Board, NEW id \in Ids, DelClient(b, id)
      PROVE  Classes!Next \/ UNCHANGED Classes!vars
  BY <1>5, DelClientRetires DEF Classes!Next
<1>6. ASSUME NEW b \in Board, AddClientZones(b)
      PROVE  Classes!Next \/ UNCHANGED Classes!vars
  BY <1>6, AddZonesReclassifies DEF Classes!Next
<1>7. ASSUME NEW b \in Board, NEW ip \in Ip, NEW checked \in SUBSET Boxes(b), NEW id \in Ids,
             EditClient(b, id, ip, checked) \/ CrashInEdit(b, id, ip, checked)
      PROVE  Classes!Next
  BY <1>7, EditReclassifies DEF Classes!Next
<1> QED
  BY <1>1, <1>2, <1>3, <1>4, <1>5, <1>6, <1>7
     DEF Next, BoardStep, Edit, Discover, OpenBoard, AddClient, Crash, vars, tables

\* For any number of addresses, clients, zones and boards: what sessions, the listener,
\* failing calls and crashes do to the tables is what the classification promises.
THEOREM ImplementsClassificationAlways == Spec => ImplementsClassification
<1>1. Init => RowsAreOld /\ Classes!Init
  BY NoIpAssumption DEF Init, RowsAreOld, Classes!Init, IsClient
<1> QED
  BY <1>1, IInvInit, IInvStep, RowsStayOld, StepClassifies, PTL
     DEF Spec, ImplementsClassification, Classes!Spec
=============================================================================
