--------------------------- MODULE DiscoveryProofs ---------------------------
(***************************************************************************)
(* Proofs about Discovery, for any number of computers, ids and commands   *)
(* under way: the station in the midst of its agents is the listener of    *)
(* StateListener, which is proved about for packets of any origin, so its  *)
(* invariants hold there too; the types of the whole; that agents report   *)
(* only ids that were handed out; and that an agent that has joined stays  *)
(* so.  That agents do join is a liveness property and stays with TLC.     *)
(***************************************************************************)
EXTENDS Discovery, StateListenerProofs

\* What the listener does for a packet is one of its steps.
LEMMA ListenIsNext ==
    ASSUME NEW ip \in Ip
    PROVE  /\ Announce(ip) => Next
           /\ \A id \in Ids : Heartbeat(ip, id) => Next
<1> QED  BY DEF Announce, Listen, Next

\* A step of the composition is a step of the listener or leaves it alone.
LEMMA StepIsListeners == [DiscoveryNext]_discoveryVars => [Next]_vars
<1> SUFFICES ASSUME DiscoveryNext, ~UNCHANGED vars PROVE Next
  BY DEF discoveryVars
<1>1. CASE \E ip \in Computer : Report(ip)
  <2>1. PICK ip \in Computer : Report(ip)  BY <1>1
  <2>2. Announce(ip) \/ \E id \in Ids : Heartbeat(ip, id)  BY <2>1 DEF Report, Station
  <2>3. ip \in Ip  BY ComputerAssumption
  <2> QED  BY <2>2, <2>3, ListenIsNext
<1>2. CASE Station(GreetNew)  BY <1>2 DEF Station, Next
<1>3. CASE Station(DelStateCount)  BY <1>3 DEF Station, Next
<1>4. CASE \E c \in net : Command(c)  BY <1>4 DEF Command
<1>5. CASE Disturbance
  <2>1. LatePacket \/ Restart \/ Web  BY <1>5 DEF Disturbance, Station
  <2>2. CASE LatePacket
    <3>1. PICK ip \in Ip : Announce(ip) \/ \E id \in Ids : Heartbeat(ip, id)
      BY <2>2 DEF LatePacket
    <3> QED  BY <3>1, ListenIsNext
  <2> QED  BY <2>1, <2>2 DEF Next
<1>6. CASE CalmDown  BY <1>6 DEF CalmDown
<1> QED  BY <1>1, <1>2, <1>3, <1>4, <1>5, <1>6 DEF DiscoveryNext

\* The composition implements the listener alone: what is proved of handlers that take
\* any packet from anywhere (StateListener.cpp:76-186) holds among agents, lost commands
\* and restarts.
THEOREM DiscoveryImplementsListener == DiscoverySafeSpec => SafeSpec
<1>1. DiscoveryInit => Init  BY DEF DiscoveryInit
<1> QED  BY <1>1, StepIsListeners, PTL DEF DiscoverySafeSpec, SafeSpec

\* No station that hears its agents ever says BYE to one that its table holds under the
\* id it reports, nor counts an id that it did not hand out, nor knows an address twice.
COROLLARY ListenerInvariants ==
    DiscoverySafeSpec => [](ByeOnlyToStrangers /\ OnlineIsIssued /\ OneIdPerIp)
<1> QED
  BY DiscoveryImplementsListener, ByeOnlyWhereNoRow, OnlineIsAlwaysIssued,
     CacheHasOneIdPerIp, PTL

RoomTypeOK ==
    /\ reg \in [Computer -> Nat \cup {Anonymous}]
    /\ deaf \in [Computer -> BOOLEAN]
    /\ net \in SUBSET Commands
    /\ calm \in BOOLEAN

\* What the agent takes a command for (server/cmd.cpp:218-245): the -1 of HELLO turns
\* into 1, so an agent that was told anything reports a natural number.
LEMMA ParsedId ==
    ASSUME NEW c \in Commands, c.cmd = "HELLO"
    PROVE  /\ Parsed(c).id = IF c.id < 0 THEN 1 ELSE c.id
           /\ Parsed(c).id \in Nat \ {0}
<1> DEFINE line == [verb |-> c.cmd, id |-> c.id, args |-> 0]
<1>1. c.id \in Nat \ {0} \/ c.id = -1
  BY MaxIdAssumption, IdsFacts DEF Commands, AllIds, NoId
<1>2. Arity["HELLO"] = 0 /\ "HELLO" \in DOMAIN Arity  BY DEF Arity
<1>3. Accepted(line)  BY <1>2 DEF Accepted
<1>4. Parsed(c).id = TokenizedId(c.id)  BY <1>3 DEF Parsed, ParseCmd
<1> QED  BY <1>1, <1>4 DEF TokenizedId

\* Commands of the listener's step join those under way, or are lost.
LEMMA PutKeepsTypes ==
    ASSUME RoomTypeOK, TypeOK', Put(sent'), calm' \in BOOLEAN
    PROVE  RoomTypeOK'
<1>1. sent' \in SUBSET Commands  BY DEF TypeOK
<1>2. net' \in SUBSET (net \cup sent') /\ reg' = reg /\ deaf' = deaf  BY DEF Put
<1> QED  BY <1>1, <1>2 DEF RoomTypeOK

\* Every step of the composition keeps the types of the agents' side.
LEMMA RoomTypes ==
    ASSUME RoomTypeOK, TypeOK', [DiscoveryNext]_discoveryVars
    PROVE  RoomTypeOK'
<1>2. CASE \E ip \in Computer : Report(ip)
  <2>1. Put(sent') /\ UNCHANGED calm  BY <1>2 DEF Report, Station
  <2> QED  BY <2>1, PutKeepsTypes DEF RoomTypeOK
<1>3. CASE Station(GreetNew) \/ Station(DelStateCount)
  <2>1. Put(sent') /\ UNCHANGED calm  BY <1>3 DEF Station
  <2> QED  BY <2>1, PutKeepsTypes DEF RoomTypeOK
<1>4. CASE \E c \in net : Command(c)
  <2>1. PICK c \in net : Command(c)  BY <1>4
  <2>2. c \in Commands /\ c.cmd \in {"HELLO", "BYE"}  BY DEF RoomTypeOK, Commands
  <2>3. net' = net \ {c} /\ calm' = calm  BY <2>1 DEF Command, Deliver, Lose, CutOff
  <2>4. reg' \in [Computer -> Nat \cup {Anonymous}]
    <3>1. CASE Lose(c) \/ CutOff(c)  BY <3>1 DEF Lose, CutOff, RoomTypeOK
    <3>2. CASE Deliver(c)
      <4>1. (IF c.cmd = "HELLO" THEN Parsed(c).id ELSE Anonymous) \in Nat \cup {Anonymous}
        BY <2>2, ParsedId
      <4> QED  BY <3>2, <4>1 DEF Deliver, RoomTypeOK
    <3> QED  BY <2>1, <3>1, <3>2 DEF Command
  <2>5. deaf' \in [Computer -> BOOLEAN]
    BY <2>1 DEF Command, Deliver, Lose, CutOff, RoomTypeOK
  <2> QED  BY <2>3, <2>4, <2>5 DEF RoomTypeOK
<1>5. CASE Disturbance
  <2>1. CASE Station(LatePacket \/ Restart \/ Web)
    <3>1. Put(sent') /\ UNCHANGED calm  BY <2>1 DEF Station
    <3> QED  BY <3>1, PutKeepsTypes DEF RoomTypeOK
  <2>2. CASE (\E ip \in Computer : AgentBoot(ip)) /\ UNCHANGED <<vars, calm>>
    <3>1. PICK ip \in Computer : AgentBoot(ip)  BY <2>2
    <3>2. /\ reg' = [reg EXCEPT ![ip] = Anonymous] /\ deaf' = [deaf EXCEPT ![ip] = FALSE]
          /\ net' = net /\ calm' = calm
      BY <2>2, <3>1 DEF AgentBoot
    <3> QED  BY <3>2 DEF RoomTypeOK
  <2> QED  BY <1>5, <2>1, <2>2 DEF Disturbance
<1>6. CASE CalmDown  BY <1>6 DEF CalmDown, roomVars, RoomTypeOK
<1>7. CASE UNCHANGED discoveryVars  BY <1>7 DEF discoveryVars, roomVars, RoomTypeOK
<1> QED  BY <1>2, <1>3, <1>4, <1>5, <1>6, <1>7 DEF DiscoveryNext

\* Agents, commands and the listener keep their types.
THEOREM DiscoveryTypeCorrect == DiscoverySafeSpec => []DiscoveryTypeOK
<1>1. DiscoveryInit => RoomTypeOK
  <2> SUFFICES ASSUME DiscoveryInit PROVE RoomTypeOK  OBVIOUS
  <2>1. /\ reg = [p \in Computer |-> Anonymous] /\ deaf = [p \in Computer |-> FALSE]
        /\ net = {} /\ calm = FALSE
    BY DEF DiscoveryInit, RoomInit
  <2> QED  BY <2>1 DEF RoomTypeOK
<1>2. TypeOK /\ RoomTypeOK => DiscoveryTypeOK  BY DEF RoomTypeOK, DiscoveryTypeOK
<1> QED
  BY <1>1, <1>2, RoomTypes, DiscoveryImplementsListener, TypeCorrect, PTL
     DEF DiscoverySafeSpec
-----------------------------------------------------------------------------
(* The ids that agents report *)

\* The table has had a row when an address is being added, and the ids of HELLO are -1
\* or have been handed out.
CommandsAreIssued ==
    /\ adding # NoIp => seq >= 1
    /\ \A c \in net : c.cmd = "HELLO" => seq >= 1 /\ c.id <= seq

\* The sequence never falls back, not even when the station or a row goes.
LEMMA SeqGrows == ASSUME TypeOK, Next PROVE seq <= seq'
<1>1. seq \in Nat  BY MaxIdAssumption DEF TypeOK
<1>2. ASSUME NEW ip \in Ip, InsertClient(ip) PROVE seq <= seq'
  BY <1>1, <1>2 DEF InsertClient
<1>3. ASSUME seq' = seq PROVE seq <= seq'  BY <1>1, <1>3
<1> QED
  BY <1>2, <1>3
     DEF Next, Listen, Web, DiscoverKnown, DiscoverNew, Heartbeat, GreetNew, DelStateCount,
         Restart, WebAddClient, WebDelClient, WebEditClient, Table

\* A row of the table has an id that was handed out.
LEMMA RowHasSeq ==
    ASSUME IInv, NEW ip \in Ip, HasIp(clients, ip) \/ HasIp(cache, ip)
    PROVE  seq >= 1
<1>1. PICK i \in Ids : clients[i] = ip \/ cache[i] = ip  BY DEF HasIp
<1>2. i <= seq  BY <1>1, NoIpAssumption DEF IInv, IssuedIds
<1> QED  BY <1>2, IdsFacts, MaxIdAssumption DEF IInv, TypeOK

\* What the listener sends, and what it is about to greet, is of the table.
LEMMA SentIsIssued ==
    ASSUME IInv, IInv', adding # NoIp => seq >= 1, Next
    PROVE  /\ adding' # NoIp => seq' >= 1
           /\ \A c \in sent' : c.cmd = "HELLO" => seq' >= 1 /\ c.id <= seq'
<1> DEFINE Goal ==
      /\ adding' # NoIp => seq' >= 1
      /\ \A c \in sent' : c.cmd = "HELLO" => seq' >= 1 /\ c.id <= seq'
<1>0. seq \in Nat /\ seq' \in Nat  BY MaxIdAssumption DEF IInv, TypeOK
<1>1. ASSUME NEW ip \in Ip, DiscoverKnown(ip) PROVE Goal
  <2>1. IdOf(cache, ip) \in Ids /\ cache[IdOf(cache, ip)] = ip
    BY <1>1, IdOfIsOwner DEF DiscoverKnown, IInv, OneIdPerIp
  <2>2. IdOf(cache, ip) <= seq  BY <2>1, NoIpAssumption DEF IInv, IssuedIds
  <2>3. seq >= 1  BY <1>1, RowHasSeq DEF DiscoverKnown
  <2> QED  BY <1>1, <2>2, <2>3 DEF DiscoverKnown, Idle, Send, Table
<1>2. ASSUME NEW ip \in Ip, DiscoverNew(ip) PROVE Goal
  <2>1. seq' >= 1
    <3>1. CASE HasIp(clients, ip)
      BY <1>0, <1>2, <3>1, RowHasSeq DEF DiscoverNew, InsertClient
    <3>2. CASE ~HasIp(clients, ip)
      BY <1>0, <1>2, <3>2 DEF DiscoverNew, InsertClient
    <3> QED  BY <3>1, <3>2
  <2> QED  BY <1>2, <2>1 DEF DiscoverNew
<1>3. CASE GreetNew
  BY <1>0, <1>3 DEF GreetNew, Idle, Send, NoId, Table
<1>4. ASSUME NEW ip \in Ip, NEW id \in Ids, Heartbeat(ip, id) PROVE Goal
  BY <1>4 DEF Heartbeat, Idle, Send, Table
<1>5. ASSUME sent' = {}, adding' \in {adding, NoIp}, seq <= seq' PROVE Goal
  BY <1>0, <1>5
<1>6. seq <= seq'  BY SeqGrows DEF IInv
<1> QED
  BY <1>1, <1>2, <1>3, <1>4, <1>5, <1>6
     DEF Next, Listen, Web, DelStateCount, Restart, WebAddClient, WebDelClient,
         WebEditClient, WebUnchanged

\* Commands of the station's step join those under way; nobody reports another id.
LEMMA PutIsIssued ==
    ASSUME CommandsAreIssued, ReportsAreIssued, RoomTypeOK, IInv, IInv', Next, Put(sent')
    PROVE  CommandsAreIssued' /\ ReportsAreIssued'
<1>1. seq \in Nat /\ seq' \in Nat /\ seq <= seq'
  BY SeqGrows, MaxIdAssumption DEF IInv, TypeOK
<1>2. net' \in SUBSET (net \cup sent') /\ reg' = reg  BY DEF Put
<1>3. /\ adding' # NoIp => seq' >= 1
      /\ \A c \in sent' : c.cmd = "HELLO" => seq' >= 1 /\ c.id <= seq'
  BY SentIsIssued DEF CommandsAreIssued
<1>4. \A c \in net : c.id \in Int
  <2>1. net \in SUBSET Commands  BY DEF RoomTypeOK
  <2>2. AllIds \subseteq Int  BY IdsFacts DEF AllIds, NoId
  <2>3. \A c \in Commands : c.id \in AllIds  BY DEF Commands
  <2> QED  BY <2>1, <2>2, <2>3
<1>5. \A c \in net : c.cmd = "HELLO" => seq' >= 1 /\ c.id <= seq'
  BY <1>1, <1>4 DEF CommandsAreIssued
<1>6. ReportsAreIssued'
  <2> SUFFICES ASSUME NEW ip \in Computer, reg[ip] # Anonymous PROVE reg[ip] \in 1..seq'
    BY <1>2 DEF ReportsAreIssued
  <2>1. reg[ip] \in 1..seq  BY DEF ReportsAreIssued
  <2> QED  BY <1>1, <2>1
<1> QED  BY <1>2, <1>3, <1>5, <1>6 DEF CommandsAreIssued

\* So do a delivery, which makes an id of a command a report, and everything else.
LEMMA IssuedStep ==
    ASSUME CommandsAreIssued, ReportsAreIssued, RoomTypeOK, IInv, IInv',
           [DiscoveryNext]_discoveryVars
    PROVE  CommandsAreIssued' /\ ReportsAreIssued'
<1>2. ASSUME UNCHANGED vars, net' \in SUBSET net,
             \A ip \in Computer : reg'[ip] \in {reg[ip], Anonymous} \/ reg'[ip] \in 1..seq
      PROVE  CommandsAreIssued' /\ ReportsAreIssued'
  BY <1>2 DEF CommandsAreIssued, ReportsAreIssued, vars
<1>3. CASE \E c \in net : Command(c)
  <2>1. PICK c \in net : Command(c)  BY <1>3
  <2>2. c \in Commands /\ c.cmd \in {"HELLO", "BYE"}  BY DEF RoomTypeOK, Commands
  <2>3. UNCHANGED vars /\ net' = net \ {c} /\ calm' = calm
    BY <2>1 DEF Command, Deliver, Lose, CutOff
  <2>4. c.cmd = "HELLO" => Parsed(c).id \in 1..seq
    <3> SUFFICES ASSUME c.cmd = "HELLO" PROVE Parsed(c).id \in 1..seq  OBVIOUS
    <3>1. seq \in Nat /\ seq >= 1 /\ c.id <= seq
      BY MaxIdAssumption DEF CommandsAreIssued, IInv, TypeOK
    <3>2. Parsed(c).id = (IF c.id < 0 THEN 1 ELSE c.id) /\ Parsed(c).id \in Nat \ {0}
      BY <2>2, ParsedId
    <3> QED  BY <3>1, <3>2
  <2>5. \A ip \in Computer : reg'[ip] \in {reg[ip], Anonymous} \/ reg'[ip] \in 1..seq
    <3>1. CASE Lose(c) \/ CutOff(c)  BY <3>1 DEF Lose, CutOff
    <3>2. CASE Deliver(c)  BY <2>2, <2>4, <3>2 DEF Deliver, RoomTypeOK
    <3> QED  BY <2>1, <3>1, <3>2 DEF Command
  <2> QED  BY <1>2, <2>3, <2>5
<1>4. CASE Disturbance
  <2>1. CASE Station(LatePacket \/ Restart \/ Web)
    <3>1. Put(sent')  BY <2>1 DEF Station
    <3>2. LatePacket => Next  BY ListenIsNext DEF LatePacket
    <3>3. Next  BY <2>1, <3>2 DEF Station, Next
    <3> QED  BY <3>1, <3>3, PutIsIssued
  <2>2. CASE (\E ip \in Computer : AgentBoot(ip)) /\ UNCHANGED <<vars, calm>>
    <3>1. PICK p \in Computer : AgentBoot(p)  BY <2>2
    <3>2. \A ip \in Computer : reg'[ip] \in {reg[ip], Anonymous}
      BY <3>1 DEF AgentBoot, RoomTypeOK
    <3> QED  BY <1>2, <2>2, <3>1, <3>2 DEF AgentBoot
  <2> QED  BY <1>4, <2>1, <2>2 DEF Disturbance
<1>5. CASE \E ip \in Computer : Report(ip)
  <2>1. PICK ip \in Computer : Report(ip)  BY <1>5
  <2>2. Put(sent') /\ (Announce(ip) \/ \E id \in Ids : Heartbeat(ip, id))
    BY <2>1 DEF Report, Station
  <2> QED  BY <2>2, ListenIsNext, PutIsIssued, ComputerAssumption
<1>6. CASE Station(GreetNew) \/ Station(DelStateCount)
  BY <1>6, PutIsIssued DEF Station, Next
<1>7. CASE CalmDown \/ UNCHANGED discoveryVars
  BY <1>2, <1>7 DEF CalmDown, discoveryVars, roomVars
<1> QED  BY <1>3, <1>4, <1>5, <1>6, <1>7 DEF DiscoveryNext

\* Types, table, commands and reports together.
DiscoveryIInv == IInv /\ RoomTypeOK /\ CommandsAreIssued /\ ReportsAreIssued

THEOREM DiscoveryInvariance == DiscoverySafeSpec => []DiscoveryIInv
<1>1. DiscoveryInit => RoomTypeOK /\ CommandsAreIssued /\ ReportsAreIssued
  <2> SUFFICES ASSUME DiscoveryInit PROVE RoomTypeOK /\ CommandsAreIssued /\ ReportsAreIssued
    OBVIOUS
  <2>1. /\ reg = [p \in Computer |-> Anonymous] /\ deaf = [p \in Computer |-> FALSE]
        /\ net = {} /\ calm = FALSE /\ adding = NoIp
    BY DEF DiscoveryInit, RoomInit, Init
  <2> QED  BY <2>1 DEF RoomTypeOK, CommandsAreIssued, ReportsAreIssued
<1>2. DiscoverySafeSpec => []IInv  BY DiscoveryImplementsListener, Invariance, PTL
<1>3. IInv => TypeOK  BY DEF IInv
<1>4. /\ IInv /\ IInv' /\ RoomTypeOK /\ CommandsAreIssued /\ ReportsAreIssued
      /\ [DiscoveryNext]_discoveryVars
      => (RoomTypeOK /\ CommandsAreIssued /\ ReportsAreIssued)'
  BY <1>3, RoomTypes, IssuedStep, PTL
<1> QED  BY <1>1, <1>2, <1>4, PTL DEF DiscoverySafeSpec, DiscoveryIInv

\* Among any number of computers, whatever commands are lost, late or overtake each other
\* and whoever restarts, no agent reports an id that the table has not handed out
\* (StateListener.cpp:175, server/cmd.cpp:218-245).
THEOREM ReportsAreAlwaysIssued == DiscoverySafeSpec => []ReportsAreIssued
BY DiscoveryInvariance, PTL DEF DiscoveryIInv

-----------------------------------------------------------------------------
(* Settled agents *)

\* The address of another comes into the table without disturbing a row.
LEMMA InsertLeavesRow ==
    ASSUME IInv, NEW ip \in Ip, NEW p \in Ip, InsertClient(p),
           NEW id \in Ids, clients[id] = ip
    PROVE  clients'[id] = ip
<1>1. id <= seq  BY NoIpAssumption DEF IInv, IssuedIds
<1>2. CASE HasIp(clients, p)  BY <1>2 DEF InsertClient
<1>3. CASE ~HasIp(clients, p)
  <2>1. clients' = [clients EXCEPT ![seq + 1] = p]  BY <1>3 DEF InsertClient
  <2>2. id # seq + 1  BY <1>1, IdsFacts, MaxIdAssumption DEF IInv, TypeOK
  <2> QED  BY <2>1, <2>2 DEF IInv, TypeOK
<1> QED  BY <1>2, <1>3

\* What the station does for an address and an id that are a row, and for any other
\* address: the row stays where it is, and this address is told nothing.
LEMMA StationLeavesRow ==
    ASSUME IInv, NEW ip \in Ip, NEW id \in Ids, cache[id] = ip, clients[id] = ip, adding # ip,
           \/ Heartbeat(ip, id)
           \/ \E p \in Ip \ {ip} : Announce(p) \/ \E j \in Ids : Heartbeat(p, j)
           \/ GreetNew
           \/ DelStateCount
    PROVE  /\ cache'[id] = ip /\ clients'[id] = ip /\ adding' # ip
           /\ \A c \in sent' : c.ip # ip
<1> DEFINE Goal ==
      /\ cache'[id] = ip /\ clients'[id] = ip /\ adding' # ip
      /\ \A c \in sent' : c.ip # ip
<1>1. CASE Heartbeat(ip, id)
  BY <1>1 DEF Heartbeat, RefreshOnMiss, FindClient, Table
<1>2. ASSUME NEW p \in Ip \ {ip}, DiscoverKnown(p) PROVE Goal
  BY <1>2 DEF DiscoverKnown, Send, Table
<1>3. ASSUME NEW p \in Ip \ {ip}, DiscoverNew(p) PROVE Goal
  <2>1. clients'[id] = ip  BY <1>3, InsertLeavesRow DEF DiscoverNew
  <2> QED  BY <1>3, <2>1 DEF DiscoverNew
<1>4. ASSUME NEW p \in Ip \ {ip}, NEW j \in Ids, Heartbeat(p, j) PROVE Goal
  BY <1>4 DEF Heartbeat, RefreshOnMiss, Send, Table
<1>5. CASE GreetNew
  BY <1>5, NoIpAssumption DEF GreetNew, Send, Table
<1>6. CASE DelStateCount
  BY <1>6 DEF DelStateCount, Table
<1> QED  BY <1>1, <1>2, <1>3, <1>4, <1>5, <1>6 DEF Announce

\* Commands to others join those under way, and the agent stays settled.
LEMMA PutLeavesSettled ==
    ASSUME NEW ip \in Computer, Settled(ip), Put(sent'), \A c \in sent' : c.ip # ip,
           cache'[reg[ip]] = ip, clients'[reg[ip]] = ip, adding' # ip
    PROVE  Settled(ip)'
<1>1. net' \in SUBSET (net \cup sent') /\ reg' = reg  BY DEF Put
<1> QED  BY <1>1 DEF Settled

LEMMA SettledStep ==
    ASSUME DiscoveryIInv, NEW ip \in Computer, calm, Settled(ip),
           [DiscoveryNext]_discoveryVars
    PROVE  Settled(ip)'
<1> USE DEF DiscoveryIInv
<1>1. ip \in Ip  BY ComputerAssumption
<1>2. PICK id \in Ids : /\ id = reg[ip] /\ cache[id] = ip /\ clients[id] = ip /\ adding # ip
                        /\ \A c \in net : c.ip = ip => c.cmd = "HELLO" /\ c.id = id
  BY DEF Settled
<1>3. id # Anonymous  BY IdsFacts DEF Anonymous
<1>4. ASSUME Put(sent'),
             \/ Heartbeat(ip, id)
             \/ \E p \in Ip \ {ip} : Announce(p) \/ \E j \in Ids : Heartbeat(p, j)
             \/ GreetNew
             \/ DelStateCount
      PROVE  Settled(ip)'
  BY <1>1, <1>2, <1>4, StationLeavesRow, PutLeavesSettled
<1>5. ASSUME NEW p \in Computer, Report(p) PROVE Settled(ip)'
  <2>1. Put(sent')  BY <1>5 DEF Report, Station
  <2>2. CASE p = ip
    <3>1. Heartbeat(ip, id)  BY <1>2, <1>3, <1>5, <2>2 DEF Report, Station
    <3> QED  BY <1>4, <2>1, <3>1
  <2>3. CASE p # ip
    <3>1. p \in Ip \ {ip}  BY <2>3, ComputerAssumption
    <3>2. Announce(p) \/ \E j \in Ids : Heartbeat(p, j)  BY <1>5 DEF Report, Station
    <3> QED  BY <1>4, <2>1, <3>1, <3>2
  <2> QED  BY <2>2, <2>3
<1>6. CASE Station(GreetNew) \/ Station(DelStateCount)
  BY <1>4, <1>6 DEF Station
<1>7. ASSUME NEW c \in net, Command(c) PROVE Settled(ip)'
  <2>1. UNCHANGED vars /\ net' = net \ {c}  BY <1>7 DEF Command, Deliver, Lose, CutOff
  <2>2. reg'[ip] = id
    <3>1. CASE Lose(c) \/ CutOff(c)  BY <1>2, <3>1 DEF Lose, CutOff
    <3>2. CASE Deliver(c) /\ c.ip # ip  BY <1>2, <3>2 DEF Deliver, RoomTypeOK
    <3>3. CASE Deliver(c) /\ c.ip = ip
      <4>1. c \in Commands /\ c.cmd = "HELLO" /\ c.id = id  BY <1>2, <3>3 DEF RoomTypeOK
      <4>2. Parsed(c).id = id  BY <4>1, ParsedId, IdsFacts
      <4> QED  BY <3>3, <4>1, <4>2 DEF Deliver, RoomTypeOK
    <3> QED  BY <1>7, <3>1, <3>2, <3>3 DEF Command
  <2> QED  BY <1>2, <2>1, <2>2 DEF vars, Settled
<1>8. CASE CalmDown \/ UNCHANGED discoveryVars
  BY <1>8 DEF CalmDown, discoveryVars, vars, roomVars, Settled
<1>9. ~Disturbance  BY DEF Disturbance
<1> QED  BY <1>5, <1>6, <1>7, <1>8, <1>9 DEF DiscoveryNext

\* The safety half of AgentsJoin, for any number of computers: an agent that reports its
\* row while the network holds nothing else for it keeps doing so, whatever the others do,
\* until somebody edits the table, a computer or the station restarts or a packet comes
\* late (StateListener.cpp:154-186).
THEOREM SettledStayForGood == DiscoverySafeSpec => SettledForGood
<1>1. DiscoveryIInv /\ [DiscoveryNext]_discoveryVars
      => [\A ip \in Computer : calm /\ Settled(ip) => Settled(ip)']_discoveryVars
  BY SettledStep
<1> QED  BY <1>1, DiscoveryInvariance, PTL DEF DiscoverySafeSpec, SettledForGood

\* What AgentsJoin asks of the listener's cache is lost only by a disturbance: calm agents
\* and the listener never make it believe in a row that the table does not have, whatever
\* they insert (StateListener.cpp:154-186).
THEOREM CacheIsOutdatedByOthers ==
    DiscoverySafeSpec =>
        [][\A ip \in Computer : calm /\ ~Outdated(ip) => ~Outdated(ip)']_discoveryVars
<1>1. ASSUME DiscoveryIInv, NEW ip \in Computer, calm, ~Outdated(ip),
             [DiscoveryNext]_discoveryVars
      PROVE  ~Outdated(ip)'
  <2>1. ip \in Ip  BY ComputerAssumption
  <2>2. ASSUME \/ clients' = clients
               \/ cache' = cache /\ \E p \in Ip : InsertClient(p),
               cache' \in {cache, clients}
        PROVE  ~Outdated(ip)'
    <3>1. SUFFICES ASSUME NEW i \in Ids, cache'[i] = ip PROVE clients'[i] = ip
      BY DEF Outdated
    <3>2. clients[i] = ip  BY <1>1, <2>2, <3>1 DEF Outdated
    <3> QED  BY <1>1, <2>1, <2>2, <3>2, InsertLeavesRow DEF DiscoveryIInv
  <2>3. ASSUME NEW p \in Ip, Announce(p) PROVE ~Outdated(ip)'
    BY <2>2, <2>3 DEF Announce, DiscoverKnown, DiscoverNew, Table
  <2>4. ASSUME NEW p \in Ip, NEW id \in Ids, Heartbeat(p, id) PROVE ~Outdated(ip)'
    BY <2>2, <2>4 DEF Heartbeat, RefreshOnMiss, Table
  <2>5. CASE \E p \in Computer : Report(p)
    BY <2>3, <2>4, <2>5, ComputerAssumption DEF Report, Station
  <2>6. CASE Station(GreetNew) \/ Station(DelStateCount)
    BY <2>2, <2>6 DEF Station, GreetNew, DelStateCount, Table
  <2>7. CASE (\E c \in net : Command(c)) \/ CalmDown \/ UNCHANGED discoveryVars
    BY <2>2, <2>7 DEF Command, CalmDown, discoveryVars, vars
  <2>8. ~Disturbance  BY <1>1 DEF Disturbance
  <2> QED  BY <1>1, <2>5, <2>6, <2>7, <2>8 DEF DiscoveryNext
<1>2. DiscoveryIInv /\ [DiscoveryNext]_discoveryVars
      => [\A ip \in Computer : calm /\ ~Outdated(ip) => ~Outdated(ip)']_discoveryVars
  BY <1>1
<1> QED  BY <1>2, DiscoveryInvariance, PTL DEF DiscoverySafeSpec
=============================================================================
