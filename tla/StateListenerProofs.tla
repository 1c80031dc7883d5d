------------------------- MODULE StateListenerProofs -------------------------
(***************************************************************************)
(* Safety of the listener for any number of addresses and ids and any      *)
(* countdown, and that it implements the safety part of FailureDetector.   *)
(***************************************************************************)
EXTENDS StateListener, TLAPS

\* Rows and cached rows have ids that the sequence has handed out.
IssuedIds(table) == \A i \in Ids : table[i] # NoIp => i <= seq

\* What the subscribers were last told of a client is what its countdown says.
SignalledAsCounted == \A i \in Ids : signalled[i] = "OnLine" <=> states[i] > 0

IInv ==
    /\ TypeOK
    /\ UniqueIps(clients)
    /\ OneIdPerIp
    /\ IssuedIds(clients)
    /\ IssuedIds(cache)
    /\ OnlineIsIssued
    /\ SignalledAsCounted

LEMMA IdsFacts ==
    /\ Ids \subseteq Nat \ {0}
    /\ Ids \subseteq AllIds
    /\ NoId \in AllIds
    /\ NoId \notin Ids
BY MaxIdAssumption DEF Ids, AllIds, NoId

\* The search of handleCMD finds the one row that has the address.
LEMMA IdOfIsOwner ==
    ASSUME NEW table, UniqueIps(table), NEW ip \in Ip, HasIp(table, ip)
    PROVE  IdOf(table, ip) \in Ids /\ table[IdOf(table, ip)] = ip
<1>1. PICK i \in Ids : table[i] = ip BY DEF HasIp
<1>2. \A j \in Ids : table[j] = ip => j = i
  BY <1>1, NoIpAssumption DEF UniqueIps
<1>3. \A j \in Ids : table[j] = ip => i <= j
  BY <1>2, IdsFacts
<1> QED BY <1>1, <1>3 DEF IdOf

\* The INSERT keeps addresses unique and its id is a new one.
LEMMA InsertKeepsTable ==
    ASSUME IInv, NEW ip \in Ip, InsertClient(ip)
    PROVE  /\ clients' \in [Ids -> Ip \cup {NoIp}]
           /\ seq' \in 0..MaxId
           /\ seq <= seq'
           /\ UniqueIps(clients')
           /\ \A i \in Ids : clients'[i] # NoIp => i <= seq'
<1> USE DEF IInv, TypeOK
<1>1. CASE HasIp(clients, ip)
  BY <1>1, MaxIdAssumption DEF InsertClient, IssuedIds
<1>2. CASE ~HasIp(clients, ip)
  <2>1. /\ seq < MaxId
        /\ seq' = seq + 1
        /\ clients' = [clients EXCEPT ![seq + 1] = ip]
    BY <1>2 DEF InsertClient
  <2>2. seq + 1 \in Ids BY <2>1, MaxIdAssumption DEF Ids
  <2>3. UniqueIps(clients') BY <1>2, <2>1, <2>2 DEF UniqueIps, HasIp
  <2>4. \A i \in Ids : clients'[i] # NoIp => i <= seq'
    BY <2>1, <2>2, IdsFacts DEF IssuedIds
  <2> QED BY <2>1, <2>2, <2>3, <2>4, MaxIdAssumption
<1> QED BY <1>1, <1>2

\* Ticking a client or the discovery id keeps countdown and events in step.
LEMMA TickKeepsCounts ==
    ASSUME IInv, NEW id \in AllIds, Tick(id), id \in Ids => id <= seq, seq' = seq
    PROVE  /\ states' \in [AllIds -> 0..CountMax]
           /\ signalled' \in [AllIds -> {"none", "NewClient", "OnLine", "OffLine"}]
           /\ OnlineIsIssued'
           /\ SignalledAsCounted'
<1>1. states' \in [AllIds -> 0..CountMax]
  BY CountMaxAssumption DEF IInv, TypeOK, Tick
<1>2. signalled' \in [AllIds -> {"none", "NewClient", "OnLine", "OffLine"}]
  BY DEF IInv, TypeOK, Tick
<1>3. OnlineIsIssued'
  BY IdsFacts DEF IInv, TypeOK, Tick, OnlineIsIssued
<1>4. SignalledAsCounted'
  BY CountMaxAssumption, IdsFacts DEF IInv, TypeOK, Tick, SignalledAsCounted
<1> QED BY <1>1, <1>2, <1>3, <1>4

LEMMA IInvInit == Init => IInv
BY MaxIdAssumption, CountMaxAssumption, IdsFacts
   DEF Init, IInv, TypeOK, UniqueIps, OneIdPerIp, IssuedIds, OnlineIsIssued,
       SignalledAsCounted, Commands

LEMMA IInvStep == IInv /\ [Next]_vars => IInv'
<1> SUFFICES ASSUME IInv, [Next]_vars PROVE IInv'
  OBVIOUS
<1> USE DEF IInv
<1>1. ASSUME NEW ip \in Ip, DiscoverKnown(ip) PROVE IInv'
  <2>1. /\ IdOf(cache, ip) \in Ids
        /\ cache[IdOf(cache, ip)] = ip
    BY <1>1, IdOfIsOwner DEF DiscoverKnown, OneIdPerIp
  <2>2. IdOf(cache, ip) <= seq
    BY <2>1, NoIpAssumption DEF IssuedIds
  <2>3. seq' = seq BY <1>1 DEF DiscoverKnown, Table
  <2>4. /\ states' \in [AllIds -> 0..CountMax]
        /\ signalled' \in [AllIds -> {"none", "NewClient", "OnLine", "OffLine"}]
        /\ OnlineIsIssued'
        /\ SignalledAsCounted'
    BY <1>1, <2>1, <2>2, <2>3, TickKeepsCounts, IdsFacts, Zenon DEF DiscoverKnown
  <2>5. sent' \in SUBSET Commands
    <3>1. sent' = {[cmd |-> "HELLO", id |-> IdOf(cache, ip), ip |-> ip]}
      BY <1>1 DEF DiscoverKnown, Send
    <3>2. IdOf(cache, ip) \in AllIds BY <2>1, IdsFacts
    <3>3. [cmd |-> "HELLO", id |-> IdOf(cache, ip), ip |-> ip] \in Commands
      BY <3>2 DEF Commands
    <3> QED BY <3>1, <3>3
  <2> QED
    BY <1>1, <2>4, <2>5
       DEF DiscoverKnown, Table, TypeOK, UniqueIps, OneIdPerIp, IssuedIds
<1>2. ASSUME NEW ip \in Ip, DiscoverNew(ip) PROVE IInv'
  <2>1. InsertClient(ip) BY <1>2 DEF DiscoverNew
  <2>2. /\ clients' \in [Ids -> Ip \cup {NoIp}]
        /\ seq' \in 0..MaxId
        /\ seq <= seq'
        /\ UniqueIps(clients')
        /\ \A i \in Ids : clients'[i] # NoIp => i <= seq'
    BY <2>1, InsertKeepsTable, Zenon
  <2>3. TypeOK' BY <1>2, <2>2 DEF DiscoverNew, TypeOK, Commands
  <2>4. OnlineIsIssued' /\ IssuedIds(cache)'
    BY <1>2, <2>2, MaxIdAssumption, IdsFacts
       DEF DiscoverNew, OnlineIsIssued, IssuedIds, TypeOK
  <2>5. SignalledAsCounted'
    BY <1>2, IdsFacts DEF DiscoverNew, SignalledAsCounted, TypeOK
  <2> QED
    BY <1>2, <2>2, <2>3, <2>4, <2>5 DEF DiscoverNew, UniqueIps, OneIdPerIp, IssuedIds
<1>3. ASSUME GreetNew PROVE IInv'
  <2>1. /\ Tick(NoId)
        /\ seq' = seq
    BY <1>3 DEF GreetNew, Table
  <2>2. /\ states' \in [AllIds -> 0..CountMax]
        /\ signalled' \in [AllIds -> {"none", "NewClient", "OnLine", "OffLine"}]
        /\ OnlineIsIssued'
        /\ SignalledAsCounted'
    BY <2>1, TickKeepsCounts, IdsFacts, Zenon
  <2>3. sent' \in SUBSET Commands
    BY <1>3, IdsFacts DEF GreetNew, Send, Commands, Idle, TypeOK
  <2> QED
    BY <1>3, <2>2, <2>3
       DEF GreetNew, Table, TypeOK, UniqueIps, OneIdPerIp, IssuedIds
<1>4. ASSUME NEW ip \in Ip, NEW id \in Ids, Heartbeat(ip, id) PROVE IInv'
  <2>1. /\ cache' \in {cache, clients}
        /\ seq' = seq
        /\ clients' = clients
        /\ adding' = adding
    BY <1>4 DEF Heartbeat, RefreshOnMiss, Table
  <2>2. FindClient(id, ip) => id <= seq
    BY NoIpAssumption DEF FindClient, IssuedIds
  <2>3. /\ states' \in [AllIds -> 0..CountMax]
        /\ signalled' \in [AllIds -> {"none", "NewClient", "OnLine", "OffLine"}]
        /\ OnlineIsIssued'
        /\ SignalledAsCounted'
    <3>1. CASE FindClient(id, ip)
      <4>1. Tick(id) BY <1>4, <3>1 DEF Heartbeat
      <4> QED BY <2>1, <2>2, <3>1, <4>1, TickKeepsCounts, IdsFacts, Zenon
    <3>2. CASE ~FindClient(id, ip)
      BY <1>4, <2>1, <3>2 DEF Heartbeat, OnlineIsIssued, SignalledAsCounted, TypeOK
    <3> QED BY <3>1, <3>2
  <2>4. sent' \in SUBSET Commands
    BY <1>4, IdsFacts DEF Heartbeat, Send, Commands
  <2>5. TypeOK' BY <2>1, <2>3, <2>4 DEF TypeOK
  <2> QED
    BY <2>1, <2>3, <2>5 DEF UniqueIps, OneIdPerIp, IssuedIds
<1>5. ASSUME DelStateCount PROVE IInv'
  <2>1. states' \in [AllIds -> 0..CountMax]
    BY <1>5, CountMaxAssumption DEF DelStateCount, TypeOK
  <2>2. OnlineIsIssued' /\ SignalledAsCounted'
    BY <1>5, CountMaxAssumption, IdsFacts
       DEF DelStateCount, TypeOK, Table, OnlineIsIssued, SignalledAsCounted
  <2> QED
    BY <1>5, <2>1, <2>2
       DEF DelStateCount, Table, TypeOK, Commands, UniqueIps, OneIdPerIp, IssuedIds
<1>6. ASSUME Restart PROVE IInv'
  BY <1>6, CountMaxAssumption, IdsFacts
     DEF Restart, Table, TypeOK, Commands, UniqueIps, OneIdPerIp, IssuedIds,
         OnlineIsIssued, SignalledAsCounted
<1>7. ASSUME NEW ip \in Ip, WebAddClient(ip) PROVE IInv'
  <2>1. InsertClient(ip) BY <1>7 DEF WebAddClient
  <2>2. /\ clients' \in [Ids -> Ip \cup {NoIp}]
        /\ seq' \in 0..MaxId
        /\ seq <= seq'
        /\ UniqueIps(clients')
        /\ \A i \in Ids : clients'[i] # NoIp => i <= seq'
    BY <2>1, InsertKeepsTable, Zenon
  <2>3. OnlineIsIssued' /\ IssuedIds(cache)'
    BY <1>7, <2>2, MaxIdAssumption, IdsFacts
       DEF WebAddClient, WebUnchanged, OnlineIsIssued, IssuedIds, TypeOK
  <2> QED
    BY <1>7, <2>2, <2>3
       DEF WebAddClient, WebUnchanged, TypeOK, Commands, UniqueIps, OneIdPerIp,
           IssuedIds, SignalledAsCounted
<1>8. ASSUME NEW id \in Ids, WebDelClient(id) PROVE IInv'
  BY <1>8
     DEF WebDelClient, WebUnchanged, TypeOK, Commands, UniqueIps, OneIdPerIp,
         IssuedIds, OnlineIsIssued, SignalledAsCounted
<1>9. ASSUME NEW id \in Ids, NEW ip \in Ip, WebEditClient(id, ip) PROVE IInv'
  BY <1>9
     DEF WebEditClient, HasIp, WebUnchanged, TypeOK, Commands, UniqueIps, OneIdPerIp,
         IssuedIds, OnlineIsIssued, SignalledAsCounted
<1>10. ASSUME UNCHANGED vars PROVE IInv'
  BY <1>10
     DEF vars, TypeOK, UniqueIps, OneIdPerIp, IssuedIds, OnlineIsIssued,
         SignalledAsCounted, Commands
<1> QED
  BY <1>1, <1>2, <1>3, <1>4, <1>5, <1>6, <1>7, <1>8, <1>9, <1>10
     DEF Next, Listen, Web

\* BYE is sent only by the miss of Heartbeat, which has just read the table.
LEMMA ByeStep == TypeOK /\ ByeOnlyToStrangers /\ [Next]_vars => ByeOnlyToStrangers'
<1> SUFFICES ASSUME TypeOK, ByeOnlyToStrangers, [Next]_vars PROVE ByeOnlyToStrangers'
  OBVIOUS
<1>1. ASSUME NEW ip \in Ip, NEW id \in Ids, Heartbeat(ip, id)
      PROVE  ByeOnlyToStrangers'
  <2>1. CASE FindClient(id, ip)
    BY <1>1, <2>1 DEF Heartbeat, ByeOnlyToStrangers
  <2>2. CASE ~FindClient(id, ip)
    BY <1>1, <2>2 DEF Heartbeat, FindClient, Send, Table, ByeOnlyToStrangers
  <2> QED BY <2>1, <2>2
<1>2. ASSUME NEW ip \in Ip, DiscoverKnown(ip) PROVE ByeOnlyToStrangers'
  BY <1>2 DEF DiscoverKnown, Send, ByeOnlyToStrangers
<1>3. ASSUME GreetNew PROVE ByeOnlyToStrangers'
  BY <1>3 DEF GreetNew, Send, ByeOnlyToStrangers
<1>4. ASSUME sent' = {} PROVE ByeOnlyToStrangers'
  BY <1>4 DEF ByeOnlyToStrangers
<1>5. ASSUME UNCHANGED vars PROVE ByeOnlyToStrangers'
  BY <1>5 DEF vars, ByeOnlyToStrangers
<1> QED
  BY <1>1, <1>2, <1>3, <1>4, <1>5
     DEF Next, Listen, Web, DiscoverNew, DelStateCount, Restart, WebAddClient,
         WebDelClient, WebEditClient, WebUnchanged

\* The countdowns, the cache and the table always have their types and agree with
\* each other as IInv says, whatever packets, ticks, restarts and edits come.
THEOREM Invariance == SafeSpec => []IInv
BY IInvInit, IInvStep, PTL DEF SafeSpec

\* Type correctness of the listener.
THEOREM TypeCorrect == SafeSpec => []TypeOK
BY Invariance, PTL DEF IInv

\* The cache holds an address once, so handleCMD's search has one answer.
THEOREM CacheHasOneIdPerIp == SafeSpec => []OneIdPerIp
BY Invariance, PTL DEF IInv

\* No id that the database never handed out is counted online.
THEOREM OnlineIsAlwaysIssued == SafeSpec => []OnlineIsIssued
BY Invariance, PTL DEF IInv

\* No agent whose id and address are a row is told BYE, however stale the cache is.
THEOREM ByeOnlyWhereNoRow == SafeSpec => []ByeOnlyToStrangers
<1>1. Init => ByeOnlyToStrangers BY DEF Init, ByeOnlyToStrangers
<1> QED BY <1>1, ByeStep, TypeCorrect, PTL DEF SafeSpec

-----------------------------------------------------------------------------
(* Refinement *)

\* Ticking a client is hearing it.
LEMMA TickIsHear ==
    ASSUME IInv, NEW id \in Ids, Tick(id)
    PROVE  Detector!Hear(id)
<1>1. [i \in Ids |-> CountMax - states[i]]'
        = [[i \in Ids |-> CountMax - states[i]] EXCEPT ![id] = 0]
  <2>1. \A i \in Ids :
          CountMax - states'[i] = IF i = id THEN 0 ELSE CountMax - states[i]
    BY CountMaxAssumption, IdsFacts DEF IInv, TypeOK, Tick
  <2> QED BY <2>1
<1>2. [i \in Ids |-> IF signalled[i] = "OnLine" THEN "online" ELSE "offline"]'
        = [[i \in Ids |-> IF signalled[i] = "OnLine" THEN "online" ELSE "offline"]
              EXCEPT ![id] = "online"]
  BY IdsFacts DEF IInv, TypeOK, Tick
<1> QED BY <1>1, <1>2 DEF Detector!Hear

\* A step that leaves the countdown and the events of all clients alone stutters.
LEMMA SameCountsStutter ==
    ASSUME \A i \in Ids : states'[i] = states[i],
           \A i \in Ids : (signalled'[i] = "OnLine") <=> (signalled[i] = "OnLine")
    PROVE  UNCHANGED Detector!vars
BY DEF Detector!vars

LEMMA RefinementStep == IInv /\ [Next]_vars => [Detector!Next]_(Detector!vars)
<1> SUFFICES ASSUME IInv, [Next]_vars PROVE [Detector!Next]_(Detector!vars)
  OBVIOUS
<1>1. ASSUME NEW ip \in Ip, DiscoverKnown(ip) PROVE Detector!Next
  <2>1. IdOf(cache, ip) \in Ids
    BY <1>1, IdOfIsOwner DEF DiscoverKnown, IInv, OneIdPerIp
  <2>2. PICK id \in Ids : id = IdOf(cache, ip) BY <2>1
  <2>3. Tick(id) BY <1>1, <2>2 DEF DiscoverKnown
  <2>4. Detector!Hear(id) BY <2>3, TickIsHear
  <2> QED BY <2>4 DEF Detector!Next
<1>2. ASSUME NEW ip \in Ip, DiscoverNew(ip) PROVE UNCHANGED Detector!vars
  BY <1>2, SameCountsStutter, IdsFacts DEF DiscoverNew, IInv, TypeOK
<1>3. ASSUME GreetNew PROVE UNCHANGED Detector!vars
  BY <1>3, SameCountsStutter, IdsFacts DEF GreetNew, Tick, IInv, TypeOK
<1>4. ASSUME NEW ip \in Ip, NEW id \in Ids, Heartbeat(ip, id)
      PROVE  [Detector!Next]_(Detector!vars)
  <2>1. CASE FindClient(id, ip)
    <3>1. Tick(id) BY <1>4, <2>1 DEF Heartbeat
    <3>2. Detector!Hear(id) BY <3>1, TickIsHear
    <3> QED BY <3>2 DEF Detector!Next
  <2>2. CASE ~FindClient(id, ip)
    BY <1>4, <2>2, SameCountsStutter DEF Heartbeat
  <2> QED BY <2>1, <2>2
<1>5. ASSUME DelStateCount PROVE Detector!Second
  <2>1. \A i \in Ids : i \in AllIds /\ states[i] \in 0..CountMax
    BY IdsFacts DEF IInv, TypeOK
  <2>2. [i \in Ids |-> CountMax - states[i]]'
          = [i \in Ids |->
               IF [j \in Ids |-> CountMax - states[j]][i] < CountMax
               THEN [j \in Ids |-> CountMax - states[j]][i] + 1
               ELSE CountMax]
    BY <1>5, <2>1, CountMaxAssumption DEF DelStateCount
  <2>3. [i \in Ids |-> IF signalled[i] = "OnLine" THEN "online" ELSE "offline"]'
          = [i \in Ids |->
               IF [j \in Ids |-> CountMax - states[j]][i] = CountMax - 1
               THEN "offline"
               ELSE [j \in Ids |-> IF signalled[j] = "OnLine"
                                   THEN "online" ELSE "offline"][i]]
    BY <1>5, <2>1, CountMaxAssumption DEF DelStateCount
  <2> QED BY <2>2, <2>3 DEF Detector!Second
<1>6. ASSUME Restart PROVE Detector!Reset
  BY <1>6, CountMaxAssumption, IdsFacts DEF Restart, Detector!Reset
<1>7. ASSUME states' = states, signalled' = signalled PROVE UNCHANGED Detector!vars
  BY <1>7 DEF Detector!vars
<1> QED
  BY <1>1, <1>2, <1>3, <1>4, <1>5, <1>6, <1>7
     DEF Next, Listen, Web, WebAddClient, WebDelClient, WebEditClient, WebUnchanged,
         vars, Detector!Next

\* The countdown and the events of every client behave like the failure detector:
\* subscribers are told OnLine exactly when a client is heard and OffLine exactly
\* after CountMax seconds of silence.  (That silence does pass is left to TLC.)
THEOREM ImplementsDetectorSafety == SafeSpec => Detector!SafeSpec
<1>1. Init => Detector!Init
  BY CountMaxAssumption, IdsFacts DEF Init, Detector!Init
<1> QED
  BY <1>1, RefinementStep, Invariance, PTL DEF SafeSpec, Detector!SafeSpec

-----------------------------------------------------------------------------
(* The events *)

\* Between handlers the events of -1 agree with its countdown too.
DiscoveryAsCounted == Idle => (signalled[NoId] = "OnLine" <=> states[NoId] > 0)

\* An id whose countdown and event stay as they are stays in step.
LEMMA DiscoveryAsCountedStep == IInv /\ DiscoveryAsCounted /\ [Next]_vars => DiscoveryAsCounted'
<1> SUFFICES ASSUME IInv, DiscoveryAsCounted, [Next]_vars PROVE DiscoveryAsCounted'
  OBVIOUS
<1> USE DEF IInv
<1>1. ASSUME NEW id \in AllIds, Tick(id), Idle \/ id = NoId PROVE DiscoveryAsCounted'
  BY <1>1, CountMaxAssumption, IdsFacts DEF Tick, TypeOK, DiscoveryAsCounted
<1>2. ASSUME UNCHANGED <<states, signalled, adding>> PROVE DiscoveryAsCounted'
  BY <1>2 DEF DiscoveryAsCounted, Idle
<1>3. ASSUME NEW ip \in Ip, DiscoverKnown(ip) PROVE DiscoveryAsCounted'
  <2>1. IdOf(cache, ip) \in AllIds
    BY <1>3, IdOfIsOwner, IdsFacts DEF DiscoverKnown, OneIdPerIp
  <2> QED  BY <1>1, <1>3, <2>1 DEF DiscoverKnown
<1>4. ASSUME NEW ip \in Ip, DiscoverNew(ip) PROVE DiscoveryAsCounted'
  BY <1>4, NoIpAssumption DEF DiscoverNew, DiscoveryAsCounted, Idle
<1>5. CASE GreetNew  BY <1>1, <1>5, IdsFacts DEF GreetNew
<1>6. ASSUME NEW ip \in Ip, NEW id \in Ids, Heartbeat(ip, id) PROVE DiscoveryAsCounted'
  BY <1>1, <1>2, <1>6, IdsFacts DEF Heartbeat
<1>7. CASE DelStateCount
  BY <1>7, IdsFacts, CountMaxAssumption DEF DelStateCount, TypeOK, DiscoveryAsCounted
<1>8. CASE Restart
  BY <1>8, IdsFacts DEF Restart, DiscoveryAsCounted
<1>9. CASE Web \/ UNCHANGED vars
  BY <1>2, <1>9 DEF Web, WebAddClient, WebDelClient, WebEditClient, WebUnchanged, vars
<1> QED
  BY <1>3, <1>4, <1>5, <1>6, <1>7, <1>8, <1>9 DEF Next, Listen

LEMMA EventsStep ==
    IInv /\ DiscoveryAsCounted /\ [Next]_vars => [Events!Next]_(Events!vars)
<1> SUFFICES ASSUME IInv, DiscoveryAsCounted, [Next]_vars
             PROVE  [Events!Next]_(Events!vars)
  OBVIOUS
<1> USE DEF IInv
<1>0. Events!Ids = AllIds  BY DEF Events!Ids, AllIds
<1>1. ASSUME NEW ip \in Ip, DiscoverKnown(ip) PROVE Events!Next
  <2>1. PICK id \in Ids : id = IdOf(cache, ip)
    BY <1>1, IdOfIsOwner DEF DiscoverKnown, OneIdPerIp
  <2>2. Events!Heard(id)  BY <1>1, <2>1 DEF DiscoverKnown, Tick, Idle, Events!Heard
  <2> QED  BY <2>2 DEF Events!Next
<1>2. ASSUME NEW ip \in Ip, DiscoverNew(ip) PROVE Events!NewClient
  BY <1>2, NoIpAssumption DEF DiscoverNew, Idle, Events!NewClient
<1>3. ASSUME GreetNew PROVE Events!Greeted
  BY <1>3 DEF GreetNew, Tick, Idle, Events!Greeted
<1>4. ASSUME NEW ip \in Ip, NEW id \in Ids, Heartbeat(ip, id)
      PROVE  [Events!Next]_(Events!vars)
  <2>1. CASE FindClient(id, ip)
    <3>1. Events!Heard(id)  BY <1>4, <2>1 DEF Heartbeat, Tick, Idle, Events!Heard
    <3> QED  BY <3>1 DEF Events!Next
  <2>2. CASE ~FindClient(id, ip)
    BY <1>4, <2>2 DEF Heartbeat, Idle, Events!vars
  <2> QED  BY <2>1, <2>2
<1>5. ASSUME DelStateCount PROVE [Events!Next]_(Events!vars)
  <2> DEFINE gone == {i \in AllIds : states[i] = 1}
  <2>1. /\ Idle /\ adding' = adding
        /\ signalled' = [i \in AllIds |-> IF i \in gone THEN "OffLine" ELSE signalled[i]]
    BY <1>5 DEF DelStateCount
  <2>2. CASE gone = {}
    <3>1. signalled' = signalled  BY <2>1, <2>2 DEF TypeOK
    <3> QED  BY <2>1, <3>1 DEF Idle, Events!vars
  <2>3. CASE gone # {}
    <3>1. \A i \in gone : signalled[i] = "OnLine"
      BY <2>1, CountMaxAssumption DEF SignalledAsCounted, DiscoveryAsCounted, AllIds
    <3>2. Events!Lost(gone)
      BY <1>0, <2>1, <2>3, <3>1 DEF Idle, Events!Lost
    <3>3. gone \in SUBSET Events!Ids  BY <1>0
    <3> QED  BY <3>2, <3>3 DEF Events!Next
  <2> QED  BY <2>2, <2>3
<1>6. ASSUME Restart PROVE Events!Reset
  BY <1>0, <1>6 DEF Restart, Idle, Events!Reset
<1>7. CASE Web \/ UNCHANGED vars
  BY <1>7
     DEF Web, WebAddClient, WebDelClient, WebEditClient, WebUnchanged, vars, Idle, Events!vars
<1> QED
  BY <1>1, <1>2, <1>3, <1>4, <1>5, <1>6, <1>7 DEF Next, Listen, Events!Next

\* For any ids and addresses the events come in the order that the pages rely on
\* (ClientBoard.cpp:108-125): what BoardProofs shows of a page it shows of one that is
\* connected to this listener.
THEOREM ImplementsEventsAlways == SafeSpec => ImplementsEvents
<1>1. Init => Events!Init /\ DiscoveryAsCounted
  BY IdsFacts DEF Init, Idle, DiscoveryAsCounted, Events!Init, Events!Ids, AllIds
<1> QED
  BY <1>1, EventsStep, DiscoveryAsCountedStep, Invariance, PTL
     DEF SafeSpec, ImplementsEvents, Events!Spec

\* A subscriber that remembers the last event of a client knows, without reading
\* _states, whether its countdown still runs.
THEOREM EventsTellTheCountdown == SafeSpec => []SignalledAsCounted
BY Invariance, PTL DEF IInv
=============================================================================
