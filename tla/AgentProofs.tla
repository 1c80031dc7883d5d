----------------------------- MODULE AgentProofs -----------------------------
(***************************************************************************)
(* Safety of the classroom agent for any number of observers, connections  *)
(* and requests.                                                           *)
(***************************************************************************)
EXTENDS Agent, TLAPS

\* The connections of the backlog and the accepted one are different open ones.
Connections ==
    /\ pc # "accept" => cur \in Conn /\ link[cur].state # "closed"
    /\ \A i \in 1..Len(backlog) :
          /\ link[backlog[i]].state # "closed"
          /\ pc # "accept" => backlog[i] # cur
          /\ \A j \in 1..Len(backlog) : backlog[i] = backlog[j] => i = j

\* The observer that HELLO or BYE is writing.
Target == link[cur].req.peer

\* A registration runs for a configured station only, and what is not in todo any
\* more has been written.
Registering ==
    /\ pc # "register" => todo = {}
    /\ pc = "register" =>
          /\ Target \in Managers
          /\ todo # {}
          /\ \A m \in Managers \ {Target} : obs[m].reg <=> obs[m].id # Anonymous
          /\ \/ /\ cmd.cmd = "HELLO"
                /\ cmd.id # Anonymous
                /\ cmd.id \in told[Target]
                /\ "reg" \notin todo => obs[Target].reg
                /\ "id" \notin todo => obs[Target].id = cmd.id
             \/ /\ cmd.cmd = "BYE"
                /\ "reg" \notin todo => ~obs[Target].reg
                /\ "id" \notin todo => obs[Target].id = Anonymous

\* Every id an observer has, and every id the report has copied, was told.
IdsAreTold ==
    /\ \A m \in Managers : obs[m].id \in told[m] \cup {Anonymous}
    /\ unread # {} => at # 0
    /\ at # 0 /\ "id" \notin unread => copy.id \in told[at] \cup {Anonymous}

IInv == TypeOK /\ Connections /\ Registering /\ RegisteredIffId /\ IdsAreTold

-----------------------------------------------------------------------------
(* The protocol *)

\* No line makes the agent register the anonymous id: the sign is dropped.
LEMMA TokenizedIdIsNatural ==
    ASSUME NEW id \in Int
    PROVE  TokenizedId(id) \in Nat /\ TokenizedId(id) # Anonymous
BY DEF TokenizedId, Anonymous

LEMMA ParsedCommand ==
    ASSUME NEW r \in Requests
    PROVE  /\ ParseCmd(r) \in [cmd : Verbs \cup {"ERROR", "none"}, id : ObsIds]
           /\ ParseCmd(r).cmd = "HELLO" => ParseCmd(r).id # Anonymous
<1>1. r.id \in Int BY RequestsAssumption
<1>2. TokenizedId(r.id) \in ObsIds /\ TokenizedId(r.id) # Anonymous
  BY <1>1, TokenizedIdIsNatural DEF ObsIds
<1>3. Anonymous \in ObsIds BY DEF ObsIds
<1>4. CASE Accepted(r)
  <2>1. r.verb \in Verbs BY <1>4 DEF Accepted, Verbs
  <2> QED BY <1>2, <1>4, <2>1 DEF ParseCmd
<1>5. CASE ~Accepted(r)
  BY <1>3, <1>5 DEF ParseCmd
<1> QED BY <1>4, <1>5

-----------------------------------------------------------------------------

LEMMA IInvInit == Init => IInv
<1> SUFFICES ASSUME Init PROVE IInv
  OBVIOUS
<1>1. TypeOK
  <2>1. Unregistered \in ObserverType BY DEF Unregistered, ObserverType, ObsIds
  <2>2. Idle \in [cmd : Verbs \cup {"ERROR", "none"}, id : ObsIds] BY DEF Idle, ObsIds
  <2>3. link \in [Conn -> LinkType] BY DEF Init, Closed, LinkType
  <2>4. backlog \in Seq(Conn) BY DEF Init
  <2>5. obs \in [Managers -> ObserverType] BY <2>1 DEF Init, NoneRegistered
  <2>6. told \in [Managers -> SUBSET ObsIds] BY DEF Init, NothingTold
  <2>7. /\ cmd \in [cmd : Verbs \cup {"ERROR", "none"}, id : ObsIds]
        /\ copy \in ObserverType
    BY <2>1, <2>2 DEF Init
  <2>8. /\ pc \in {"accept", "read", "run", "register", "reply"}
        /\ cur \in Conn \cup {NoConn}
        /\ boots \in 0..MaxBoots
        /\ at \in 0..N
    BY NAssumption, MaxBootsAssumption DEF Init
  <2>10. open \in BOOLEAN /\ vnc \in BOOLEAN /\ halting \in BOOLEAN
    BY Zenon DEF Init
  <2>9. /\ todo \in SUBSET Fields
        /\ unread \in SUBSET Fields
        /\ unreachable \in SUBSET Managers
    BY DEF Init
  <2> QED BY <2>3, <2>4, <2>5, <2>6, <2>7, <2>8, <2>9, <2>10 DEF TypeOK
<1> USE DEF Init, NoneRegistered, NothingTold, Unregistered
<1>2. Connections BY DEF Connections
<1>3. Registering BY DEF Registering
<1>4. RegisteredIffId BY DEF RegisteredIffId
<1>5. IdsAreTold BY DEF IdsAreTold
<1> QED BY <1>1, <1>2, <1>3, <1>4, <1>5 DEF IInv

LEMMA ConnectKeeps ==
    ASSUME IInv, NEW c \in Conn, NEW r \in Requests, Connect(c, r) PROVE IInv'
<1> USE DEF IInv
<1>1. /\ link[c].state = "closed"
      /\ link' = [link EXCEPT ![c] = [state |-> "silent", req |-> r]]
      /\ backlog' = Append(backlog, c)
      /\ UNCHANGED <<mainVars, hostVars, obsVars, reportVars>>
  BY DEF Connect
<1>2. TypeOK'
  <2>1. [state |-> "silent", req |-> r] \in LinkType BY DEF LinkType
  <2>2. link' \in [Conn -> LinkType] BY <1>1, <2>1 DEF TypeOK
  <2>3. backlog' \in Seq(Conn) BY <1>1 DEF TypeOK
  <2> QED BY <1>1, <2>2, <2>3 DEF TypeOK, mainVars, hostVars, obsVars, reportVars
<1>3. Connections'
  <2>1. /\ Len(backlog) \in Nat
        /\ Len(backlog') = Len(backlog) + 1
        /\ \A i \in 1..Len(backlog) : backlog'[i] = backlog[i] /\ backlog[i] \in Conn
        /\ backlog'[Len(backlog) + 1] = c
    BY <1>1 DEF TypeOK
  <2>2. \A i \in 1..Len(backlog') : i \in 1..Len(backlog) \/ i = Len(backlog) + 1
    BY <2>1
  <2>3. \A d \in Conn : link[d].state # "closed" => d # c /\ link'[d] = link[d]
    BY <1>1 DEF TypeOK
  <2>4. link'[c].state = "silent" BY <1>1 DEF TypeOK
  <2>5. pc' = pc /\ cur' = cur BY <1>1 DEF mainVars
  <2> QED BY <2>1, <2>2, <2>3, <2>4, <2>5 DEF Connections
<1>4. Registering'
  BY <1>1 DEF Registering, Connections, Target, TypeOK, mainVars, obsVars
<1>5. RegisteredIffId' BY <1>1 DEF RegisteredIffId, mainVars, obsVars
<1>6. IdsAreTold' BY <1>1 DEF IdsAreTold, obsVars, reportVars
<1> QED BY <1>2, <1>3, <1>4, <1>5, <1>6

LEMMA BacklogIsOfConnections ==
    ASSUME TypeOK PROVE \A i \in 1..Len(backlog) : backlog[i] \in Conn
<1>1. backlog \in Seq(Conn) BY DEF TypeOK
<1> QED BY <1>1

\* A client that speaks or goes away changes nothing but the state of its link,
\* and that not to "closed".
LEMMA LinkStateKeeps ==
    ASSUME IInv, NEW c \in Conn,
           NEW s \in {"silent", "spoken", "gone", "gone unspoken"},
           link' = [link EXCEPT ![c].state = s],
           UNCHANGED <<backlog, mainVars, hostVars, obsVars, reportVars>>
    PROVE  IInv'
<1> USE DEF IInv
<1>0. /\ \A d \in Conn : link'[d].req = link[d].req
      /\ \A d \in Conn \ {c} : link'[d].state = link[d].state
      /\ link'[c].state = s /\ s # "closed"
  <2>1. link[c] \in LinkType /\ link'[c] = [link[c] EXCEPT !.state = s] BY DEF TypeOK
  <2>2. link'[c].req = link[c].req /\ link'[c].state = s BY <2>1 DEF LinkType
  <2>3. \A d \in Conn \ {c} : link'[d] = link[d] BY DEF TypeOK
  <2> QED BY <2>2, <2>3
<1>1. TypeOK'
  <2>1. [link[c] EXCEPT !.state = s] \in LinkType BY DEF TypeOK, LinkType
  <2>2. link' \in [Conn -> LinkType] BY <2>1 DEF TypeOK
  <2> QED BY <2>2 DEF TypeOK, mainVars, hostVars, obsVars, reportVars
<1>2. Connections'
  <2>1. \A d \in Conn : link[d].state # "closed" => link'[d].state # "closed"
    BY <1>0
  <2>2. \A i \in 1..Len(backlog) : backlog[i] \in Conn
    BY BacklogIsOfConnections
  <2> QED BY <2>1, <2>2 DEF Connections, mainVars
<1>3. Registering'
  <2>1. pc = "register" => Target' = Target
    BY <1>0 DEF Connections, Target, mainVars
  <2> QED BY <2>1 DEF Registering, mainVars, obsVars
<1>4. RegisteredIffId' BY DEF RegisteredIffId, mainVars, obsVars
<1>5. IdsAreTold' BY DEF IdsAreTold, obsVars, reportVars
<1> QED BY <1>1, <1>2, <1>3, <1>4, <1>5

LEMMA AcceptKeeps == ASSUME IInv, Accept PROVE IInv'
<1> USE DEF IInv
<1>1. /\ pc = "accept"
      /\ backlog # <<>>
      /\ cur' = Head(backlog)
      /\ backlog' = Tail(backlog)
      /\ open' = TRUE
      /\ pc' = "read"
      /\ UNCHANGED <<link, cmd, todo, hostVars, obsVars, reportVars>>
  BY DEF Accept
<1>2. /\ Len(backlog) \in Nat \ {0}
      /\ Head(backlog) = backlog[1]
      /\ Head(backlog) \in Conn
      /\ Tail(backlog) \in Seq(Conn)
      /\ Len(Tail(backlog)) = Len(backlog) - 1
      /\ \A i \in 1..Len(Tail(backlog)) : Tail(backlog)[i] = backlog[i + 1]
  <2>1. backlog \in Seq(Conn) /\ backlog # <<>> BY <1>1 DEF TypeOK
  <2>2. Len(backlog) \in Nat \ {0} BY <2>1
  <2>3. Head(backlog) = backlog[1] /\ Head(backlog) \in Conn BY <2>1
  <2>4. Tail(backlog) \in Seq(Conn) /\ Len(Tail(backlog)) = Len(backlog) - 1
    BY <2>1
  <2>5. \A i \in 1..Len(Tail(backlog)) : Tail(backlog)[i] = backlog[i + 1]
    BY <2>1, <2>2, <2>4
  <2> QED BY <2>2, <2>3, <2>4, <2>5
<1>3. TypeOK' BY <1>1, <1>2 DEF TypeOK, hostVars, obsVars, reportVars
<1>4. Connections'
  <2>1. cur' \in Conn /\ link'[cur'].state # "closed"
    BY <1>1, <1>2 DEF Connections
  <2>2. ASSUME NEW i \in 1..Len(backlog')
        PROVE  /\ link'[backlog'[i]].state # "closed"
               /\ backlog'[i] # cur'
               /\ \A j \in 1..Len(backlog') : backlog'[i] = backlog'[j] => i = j
    <3>1. i + 1 \in 1..Len(backlog) BY <1>1, <1>2
    <3>2. \A j \in 1..Len(backlog') : j + 1 \in 1..Len(backlog)
      BY <1>1, <1>2
    <3>3. 1 \in 1..Len(backlog) BY <1>2
    <3>4. i + 1 # 1 BY <3>1
    <3> QED BY <1>1, <1>2, <3>1, <3>2, <3>3, <3>4 DEF Connections
  <2> QED BY <2>1, <2>2 DEF Connections
<1>5. Registering' BY <1>1 DEF Registering
<1>6. RegisteredIffId' BY <1>1 DEF RegisteredIffId, obsVars
<1>7. IdsAreTold' BY <1>1 DEF IdsAreTold, obsVars, reportVars
<1> QED BY <1>3, <1>4, <1>5, <1>6, <1>7

LEMMA ReadKeeps == ASSUME IInv, Read PROVE IInv'
<1> USE DEF IInv, Read, netVars, hostVars, obsVars, reportVars
<1>1. TypeOK' BY DEF TypeOK
<1>2. Connections' BY DEF Connections
<1>3. Registering' BY DEF Registering
<1>4. RegisteredIffId' BY DEF RegisteredIffId
<1>5. IdsAreTold' BY DEF IdsAreTold
<1> QED BY <1>1, <1>2, <1>3, <1>4, <1>5

LEMMA RunKeeps == ASSUME IInv, Run PROVE IInv'
<1> USE DEF IInv
<1>1. /\ pc = "run"
      /\ cmd' = CmdOf(cur)
      /\ vnc' \in VncOutcomes(cmd'.cmd)
      /\ todo' = IF cmd'.cmd \in {"HELLO", "BYE"} THEN Fields ELSE {}
      /\ pc' = IF cmd'.cmd \in {"HELLO", "BYE"} THEN "register" ELSE "reply"
      /\ told' = IF cmd'.cmd = "HELLO"
                 THEN [told EXCEPT ![link[cur].req.peer] = @ \cup {cmd'.id}]
                 ELSE told
      /\ UNCHANGED <<netVars, open, cur, halting, boots, unreachable, obs, reportVars>>
  BY DEF Run
<1>2. cur \in Conn /\ link[cur].req \in Requests \cup {NoRequest}
  BY <1>1 DEF Connections, TypeOK, LinkType
<1>3. /\ cmd' \in [cmd : Verbs \cup {"ERROR", "none"}, id : ObsIds]
      /\ cmd'.cmd \in {"HELLO", "BYE"} => Target \in Managers
      /\ cmd'.cmd = "HELLO" => cmd'.id # Anonymous
  <2>1. CASE link[cur].req.peer \in Managers
    <3>1. link[cur].req \in Requests
      BY <1>2, <2>1 DEF NoRequest, Managers
    <3>2. cmd' = ParseCmd(link[cur].req) BY <1>1, <2>1 DEF CmdOf
    <3> QED BY <2>1, <3>1, <3>2, ParsedCommand DEF Target
  <2>2. CASE link[cur].req.peer \notin Managers
    BY <1>1, <2>2 DEF CmdOf, CmdError, ObsIds
  <2> QED BY <2>1, <2>2
<1>4. told' \in [Managers -> SUBSET ObsIds]
  BY <1>1, <1>3 DEF TypeOK, Target
<1>5. \A m \in Managers : told[m] \subseteq told'[m]
  BY <1>1, <1>3 DEF TypeOK, Target
<1>6. TypeOK'
  <2>1. vnc' \in BOOLEAN
    BY <1>1, Zenon DEF VncOutcomes, TypeOK
  <2>2. todo' \in SUBSET Fields BY <1>1
  <2> QED
    BY <1>1, <1>3, <1>4, <2>1, <2>2 DEF TypeOK, netVars, reportVars
<1>7. Connections' BY <1>1 DEF Connections, netVars
<1>8. Registering'
  <2>1. CASE cmd'.cmd \in {"HELLO", "BYE"}
    <3>1. pc' = "register" /\ todo' = Fields /\ Target' = Target /\ obs' = obs
      BY <1>1, <2>1 DEF Target, netVars
    <3>2. cmd'.cmd = "HELLO" => cmd'.id \in told'[Target]
      BY <1>1, <1>3 DEF TypeOK, Target
    <3> QED BY <1>1, <1>3, <2>1, <3>1, <3>2 DEF Registering, RegisteredIffId, Fields
  <2>2. CASE cmd'.cmd \notin {"HELLO", "BYE"}
    BY <1>1, <2>2 DEF Registering
  <2> QED BY <2>1, <2>2
<1>9. RegisteredIffId' BY <1>1 DEF RegisteredIffId
<1>10. IdsAreTold'
  <2>1. at # 0 => at \in Managers BY NAssumption DEF TypeOK, Managers
  <2> QED BY <1>1, <1>5, <2>1 DEF IdsAreTold, reportVars
<1> QED BY <1>6, <1>7, <1>8, <1>9, <1>10

LEMMA WriteFieldKeeps == ASSUME IInv, NEW f \in Fields, WriteField(f) PROVE IInv'
<1> USE DEF IInv
<1>1. /\ pc = "register"
      /\ f \in todo
      /\ obs' = [obs EXCEPT ![Target] = IF cmd.cmd = "HELLO" THEN Hello(@, f)
                                                            ELSE Bye(@, f)]
      /\ todo' = todo \ {f}
      /\ pc' = IF todo' = {} THEN "reply" ELSE "register"
      /\ UNCHANGED <<netVars, open, cur, cmd, hostVars, told, reportVars>>
  BY DEF WriteField, Target
<1>2. /\ Target \in Managers
      /\ obs[Target] \in ObserverType
      /\ Target' = Target
  BY <1>1 DEF Registering, TypeOK, Target, netVars
<1>3. /\ obs' \in [Managers -> ObserverType]
      /\ \A m \in Managers \ {Target} : obs'[m] = obs[m]
      /\ obs'[Target] = IF cmd.cmd = "HELLO" THEN Hello(obs[Target], f)
                                             ELSE Bye(obs[Target], f)
  <2>1. Hello(obs[Target], f) \in ObserverType
    BY <1>2 DEF Hello, ObserverType, TypeOK
  <2>2. Bye(obs[Target], f) \in ObserverType
    BY <1>2 DEF Bye, ObserverType, ObsIds
  <2> QED BY <1>1, <1>2, <2>1, <2>2 DEF TypeOK
<1>4. /\ f = "reg" => /\ obs'[Target].reg = (cmd.cmd = "HELLO")
                      /\ obs'[Target].id = obs[Target].id
      /\ f = "id" => /\ obs'[Target].id = IF cmd.cmd = "HELLO" THEN cmd.id ELSE Anonymous
                     /\ obs'[Target].reg = obs[Target].reg
  BY <1>2, <1>3 DEF Hello, Bye, ObserverType
<1>5. TypeOK'
  <2>1. todo' \in SUBSET Fields BY <1>1 DEF TypeOK
  <2> QED BY <1>1, <1>3, <2>1 DEF TypeOK, netVars, hostVars, reportVars
<1>6. Connections' BY <1>1 DEF Connections, netVars
<1>7. f \in {"reg", "id"} BY DEF Fields
<1>8. /\ cmd.cmd = "HELLO" \/ cmd.cmd = "BYE"
      /\ cmd.cmd = "HELLO" =>
            /\ cmd.id # Anonymous
            /\ cmd.id \in told[Target]
            /\ "reg" \notin todo' => obs'[Target].reg
            /\ "id" \notin todo' => obs'[Target].id = cmd.id
      /\ cmd.cmd = "BYE" =>
            /\ "reg" \notin todo' => ~obs'[Target].reg
            /\ "id" \notin todo' => obs'[Target].id = Anonymous
  BY <1>1, <1>4, <1>7 DEF Registering
<1>9. Registering'
  <2>1. pc' # "register" => todo' = {} BY <1>1
  <2>2. pc' = "register" => todo' # {} BY <1>1
  <2>3. \A m \in Managers \ {Target} : obs'[m].reg <=> obs'[m].id # Anonymous
    BY <1>1, <1>3 DEF Registering
  <2> QED BY <1>1, <1>2, <1>8, <2>1, <2>2, <2>3 DEF Registering
<1>10. RegisteredIffId'
  <2> SUFFICES ASSUME pc' # "register", NEW m \in Managers
               PROVE  obs'[m].reg <=> obs'[m].id # Anonymous
    BY DEF RegisteredIffId
  <2>1. todo' = {} BY <1>1
  <2>2. CASE m = Target BY <1>8, <2>1, <2>2
  <2>3. CASE m # Target BY <1>1, <1>3, <2>3 DEF Registering
  <2> QED BY <2>2, <2>3
<1>11. IdsAreTold'
  <2>1. obs'[Target].id \in told[Target] \cup {Anonymous}
    BY <1>2, <1>4, <1>7, <1>8 DEF IdsAreTold
  <2> QED BY <1>1, <1>3, <2>1 DEF IdsAreTold, reportVars
<1> QED BY <1>5, <1>6, <1>9, <1>10, <1>11

LEMMA FinishKeeps ==
    ASSUME IInv, pc \in {"read", "run", "reply"}, NEW b \in BOOLEAN, Finish(b)
    PROVE  IInv'
<1> USE DEF IInv
<1>1. /\ pc' = "accept"
      /\ open' = b
      /\ link' = [link EXCEPT ![cur] = Closed]
      /\ cur' = NoConn
      /\ cmd' = Idle
      /\ halting' = (halting \/ cmd.cmd = "SHUTDOWN")
      /\ UNCHANGED <<backlog, todo, vnc, boots, unreachable, obsVars, reportVars>>
  BY DEF Finish
<1>2. cur \in Conn BY DEF Connections
<1>3. TypeOK'
  <2>1. Closed \in LinkType BY DEF Closed, LinkType
  <2>2. link' \in [Conn -> LinkType] BY <1>1, <2>1 DEF TypeOK
  <2>3. cmd' \in [cmd : Verbs \cup {"ERROR", "none"}, id : ObsIds]
    BY <1>1 DEF Idle, ObsIds
  <2>4. halting' \in BOOLEAN BY <1>1
  <2> QED BY <1>1, <2>2, <2>3, <2>4 DEF TypeOK, obsVars, reportVars
<1>4. Connections'
  <2>1. \A i \in 1..Len(backlog) : backlog[i] \in Conn /\ backlog[i] # cur
    BY DEF TypeOK, Connections
  <2>2. \A d \in Conn \ {cur} : link'[d] = link[d] BY <1>1 DEF TypeOK
  <2> QED BY <1>1, <2>1, <2>2 DEF Connections
<1>5. Registering' BY <1>1 DEF Registering
<1>6. RegisteredIffId' BY <1>1 DEF RegisteredIffId, obsVars
<1>7. IdsAreTold' BY <1>1 DEF IdsAreTold, obsVars, reportVars
<1> QED BY <1>3, <1>4, <1>5, <1>6, <1>7

LEMMA WakeKeeps == ASSUME IInv, Wake PROVE IInv'
<1> USE DEF IInv, Wake, netVars, mainVars, hostVars, obsVars
<1>1. TypeOK'
  <2>1. unread' \in SUBSET Fields OBVIOUS
  <2> QED BY <2>1, NAssumption DEF TypeOK
<1>2. Connections' BY DEF Connections
<1>3. Registering' BY DEF Registering, Target
<1>4. RegisteredIffId' BY DEF RegisteredIffId
<1>5. IdsAreTold' BY DEF IdsAreTold, Fields
<1> QED BY <1>1, <1>2, <1>3, <1>4, <1>5

LEMMA CopyFieldKeeps == ASSUME IInv, NEW f \in Fields, CopyField(f) PROVE IInv'
<1> USE DEF IInv
<1>1. /\ f \in unread
      /\ copy' = IF f = "reg" THEN [copy EXCEPT !.reg = obs[at].reg]
                              ELSE [copy EXCEPT !.id = obs[at].id]
      /\ unread' = unread \ {f}
      /\ UNCHANGED <<at, netVars, mainVars, hostVars, obsVars>>
  BY DEF CopyField
<1>2. at \in Managers
  BY <1>1, NAssumption DEF IdsAreTold, TypeOK, Managers
<1>3. obs[at] \in ObserverType BY <1>2 DEF TypeOK
<1>4. /\ copy' \in ObserverType
      /\ f = "id" => copy'.id = obs[at].id
      /\ f # "id" => copy'.id = copy.id
  BY <1>1, <1>3 DEF TypeOK, ObserverType, Fields
<1>5. TypeOK'
  <2>1. unread' \in SUBSET Fields BY <1>1 DEF TypeOK
  <2> QED BY <1>1, <1>4, <2>1 DEF TypeOK, netVars, mainVars, hostVars, obsVars
<1>6. Connections' BY <1>1 DEF Connections, netVars, mainVars
<1>7. Registering' BY <1>1 DEF Registering, Target, netVars, mainVars, obsVars
<1>8. RegisteredIffId' BY <1>1 DEF RegisteredIffId, mainVars, obsVars
<1>9. IdsAreTold' BY <1>1, <1>2, <1>4 DEF IdsAreTold, obsVars
<1> QED BY <1>5, <1>6, <1>7, <1>8, <1>9

LEMMA SendReportKeeps == ASSUME IInv, SendReport PROVE IInv'
<1> USE DEF IInv
<1>1. /\ at # 0
      /\ at' = IF at \in unreachable \/ at = N THEN 0 ELSE at + 1
      /\ unread' = IF at' = 0 THEN {} ELSE Fields
      /\ copy' = Unregistered
      /\ UNCHANGED <<netVars, mainVars, hostVars, obsVars>>
  BY DEF SendReport
<1>2. at' \in 0..N BY <1>1, NAssumption DEF TypeOK
<1>3. TypeOK'
  <2>1. unread' \in SUBSET Fields BY <1>1
  <2>2. copy' \in ObserverType BY <1>1 DEF Unregistered, ObserverType, ObsIds
  <2> QED BY <1>1, <1>2, <2>1, <2>2 DEF TypeOK, netVars, mainVars, hostVars, obsVars
<1>4. Connections' BY <1>1 DEF Connections, netVars, mainVars
<1>5. Registering' BY <1>1 DEF Registering, Target, netVars, mainVars, obsVars
<1>6. RegisteredIffId' BY <1>1 DEF RegisteredIffId, mainVars, obsVars
<1>7. IdsAreTold' BY <1>1 DEF IdsAreTold, Unregistered, obsVars
<1> QED BY <1>3, <1>4, <1>5, <1>6, <1>7

LEMMA BootKeeps == ASSUME IInv, Boot PROVE IInv'
<1> USE DEF IInv, Boot, NoneRegistered, NothingTold, Unregistered
<1>1. TypeOK'
  <2>1. link' \in [Conn -> LinkType] BY DEF Closed, LinkType
  <2>2. obs' \in [Managers -> ObserverType] BY DEF ObserverType, ObsIds
  <2>3. told' \in [Managers -> SUBSET ObsIds] OBVIOUS
  <2>4. cmd' \in [cmd : Verbs \cup {"ERROR", "none"}, id : ObsIds]
    BY DEF Idle, ObsIds
  <2>5. copy' \in ObserverType BY DEF ObserverType, ObsIds
  <2>6. boots' \in 0..MaxBoots BY MaxBootsAssumption DEF TypeOK
  <2>7. at' \in 0..N BY NAssumption
  <2>8. backlog' \in Seq(Conn) OBVIOUS
  <2>9. open' \in BOOLEAN /\ halting' \in BOOLEAN BY Zenon
  <2>10. todo' \in SUBSET Fields /\ unread' \in SUBSET Fields OBVIOUS
  <2>11. /\ pc' \in {"accept", "read", "run", "register", "reply"}
         /\ cur' \in Conn \cup {NoConn}
         /\ UNCHANGED <<vnc, unreachable>>
    OBVIOUS
  <2> QED
    BY <2>1, <2>2, <2>3, <2>4, <2>5, <2>6, <2>7, <2>8, <2>9, <2>10, <2>11 DEF TypeOK
<1>2. Connections' BY DEF Connections
<1>3. Registering' BY DEF Registering
<1>4. RegisteredIffId' BY DEF RegisteredIffId
<1>5. IdsAreTold' BY DEF IdsAreTold
<1> QED BY <1>1, <1>2, <1>3, <1>4, <1>5

LEMMA StutterKeeps == ASSUME IInv, UNCHANGED vars PROVE IInv'
<1> USE DEF IInv, vars, netVars, mainVars, hostVars, obsVars, reportVars
<1>1. TypeOK' BY DEF TypeOK
<1>2. Connections' BY DEF Connections
<1>3. Registering' BY DEF Registering, Target
<1>4. RegisteredIffId' BY DEF RegisteredIffId
<1>5. IdsAreTold' BY DEF IdsAreTold
<1> QED BY <1>1, <1>2, <1>3, <1>4, <1>5

LEMMA IInvStep == IInv /\ [Next]_vars => IInv'
<1> SUFFICES ASSUME IInv, [Next]_vars PROVE IInv'
  OBVIOUS
<1>1. ASSUME NEW c \in Conn, Client(c) PROVE IInv'
  <2>1. CASE \E r \in Requests : Connect(c, r) BY <2>1, ConnectKeeps
  <2>2. CASE Speak(c)
    BY <2>2, LinkStateKeeps DEF Speak
  <2>3. CASE Abort(c)
    <3>1. link' = [link EXCEPT ![c].state = IF link[c].state = "spoken" THEN "gone"
                                                               ELSE "gone unspoken"]
      BY <2>3 DEF Abort, IInv, TypeOK
    <3>2. CASE link[c].state = "spoken"
      BY <2>3, <3>1, <3>2, LinkStateKeeps DEF Abort
    <3>3. CASE link[c].state # "spoken"
      BY <2>3, <3>1, <3>3, LinkStateKeeps DEF Abort
    <3> QED BY <3>2, <3>3
  <2> QED BY <1>1, <2>1, <2>2, <2>3 DEF Client
<1>2. CASE Accept BY <1>2, AcceptKeeps
<1>3. CASE Read BY <1>3, ReadKeeps
<1>4. CASE Run BY <1>4, RunKeeps
<1>5. CASE \E f \in Fields : WriteField(f) BY <1>5, WriteFieldKeeps
<1>6. CASE SendReply BY <1>6, FinishKeeps DEF SendReply
<1>7. CASE ClientError BY <1>7, FinishKeeps DEF ClientError
<1>8. CASE Wake BY <1>8, WakeKeeps
<1>9. CASE \E f \in Fields : CopyField(f) BY <1>9, CopyFieldKeeps
<1>10. CASE SendReport BY <1>10, SendReportKeeps
<1>11. CASE Boot BY <1>11, BootKeeps
<1>12. CASE UNCHANGED vars BY <1>12, StutterKeeps
<1> QED
  BY <1>1, <1>2, <1>3, <1>4, <1>5, <1>6, <1>7, <1>8, <1>9, <1>10, <1>11, <1>12
     DEF Next, Main, Report

-----------------------------------------------------------------------------

\* Whatever clients come and go and however the two threads interleave, IInv holds.
THEOREM Invariance == SafeSpec => []IInv
BY IInvInit, IInvStep, PTL DEF SafeSpec

\* Type correctness of the agent.
THEOREM TypeCorrect == SafeSpec => []TypeOK
BY Invariance, PTL DEF IInv

\* Between two commands an observer is registered exactly when it has an id.
THEOREM AlwaysRegisteredIffId == SafeSpec => []RegisteredIffId
BY Invariance, PTL DEF IInv

\* No interleaving with the unlocked copy makes the agent report an id that the
\* station it reports to has not told it.
THEOREM AlwaysReportsToldIds == SafeSpec => []ReportsToldIds
<1>1. IInv => ReportsToldIds
  BY DEF IInv, IdsAreTold, ReportsToldIds, Packet
<1> QED BY <1>1, Invariance, PTL
=============================================================================
