------------------------------ MODULE Discovery ------------------------------
(***************************************************************************)
(* The listener of the web station and the agents of the classrooms        *)
(* together: an agent without an id announces itself, is answered with the *)
(* id of its row, and reports by that id; one whose id the station does    *)
(* not know is sent back to announcing.  Commands are lost and overtake    *)
(* each other, computers and the station restart, packets come late or     *)
(* twice, and web sessions edit the table all the while.                   *)
(***************************************************************************)
EXTENDS StateListener, Classroom

ASSUME ComputerAssumption == Computer \subseteq Ip

VARIABLE calm   \* history: has the last disturbance come?

discoveryVars == <<vars, roomVars, calm>>

DiscoveryTypeOK ==
    /\ TypeOK
    /\ reg \in [Computer -> Nat \cup {Anonymous}]
    /\ deaf \in [Computer -> BOOLEAN]
    /\ net \in SUBSET Commands
    /\ calm \in BOOLEAN

DiscoveryInit == Init /\ RoomInit /\ calm = FALSE

Station(A) == A /\ Put(sent') /\ UNCHANGED calm

Announce(ip) == DiscoverKnown(ip) \/ DiscoverNew(ip)

\* A packet of the agent's report thread reaches the listener.
Report(ip) ==
    \/ reg[ip] = Anonymous /\ Station(Announce(ip))
    \/ \E id \in Ids : reg[ip] = id /\ Station(Heartbeat(ip, id))

\* A packet that was delayed or doubled, of an agent that now reports another, or of a
\* computer that has gone.
LatePacket ==
    \E ip \in Ip :
        \/ (ip \in Computer => reg[ip] # Anonymous) /\ Announce(ip)
        \/ \E id \in Ids : (ip \in Computer => reg[ip] # id) /\ Heartbeat(ip, id)

Command(c) == (Deliver(c) \/ Lose(c) \/ CutOff(c)) /\ UNCHANGED <<vars, calm>>

\* What sets agents and station apart again; it ends in CalmDown.
Disturbance ==
    /\ ~calm
    /\ \/ Station(LatePacket \/ Restart \/ Web)
       \/ (\E ip \in Computer : AgentBoot(ip)) /\ UNCHANGED <<vars, calm>>

CalmDown == calm' = TRUE /\ UNCHANGED <<vars, roomVars>>

DiscoveryNext ==
    \/ \E ip \in Computer : Report(ip)
    \/ Station(GreetNew)
    \/ Station(DelStateCount)
    \/ \E c \in net : Command(c)
    \/ Disturbance
    \/ CalmDown

DiscoverySafeSpec == DiscoveryInit /\ [][DiscoveryNext]_discoveryVars

Arrives(ip) == \E c \in net : c.ip = ip /\ Deliver(c) /\ UNCHANGED <<vars, calm>>

\* The listener ends what it has begun.  An agent reports every five seconds for ever, so
\* not every packet of it is lost, nor, as long as it hears, every command that it is sent
\* again and again.
DiscoverySpec ==
    /\ DiscoverySafeSpec
    /\ WF_discoveryVars(Station(GreetNew))
    /\ \A ip \in Computer : SF_discoveryVars(Report(ip)) /\ SF_discoveryVars(Arrives(ip))

-----------------------------------------------------------------------------
(* Properties *)

\* The agent reports its row, and under it the listener watches it.
Joined(ip) == reg[ip] \in Ids /\ clients[reg[ip]] = ip /\ cache[reg[ip]] = ip

\* The listener believes in a row that the table has no more: it answers the agent from
\* its cache, and does not insert it, until it reads the table for another reason.  The
\* manual (src/README.md:81) knows it as a bug: when a client that is online has been
\* deleted, its discovery is not accepted until the station restarts.
Outdated(ip) == \E i \in Ids : cache[i] = ip /\ clients[i] # ip

\* The bound of the model keeps the table from taking another address.
TableFull(ip) == seq = MaxId /\ ~HasIp(clients, ip)

\* No agent ever reports an id that the Clients table has not handed out, not even one
\* that takes the -1 of HELLO (StateListener.cpp:175) for 1: by then the table has had a
\* row.  So a heartbeat with the id of no row is that of a deleted client, never a name
\* that the next discovery would give to another.
ReportsAreIssued == \A ip \in Computer : reg[ip] # Anonymous => reg[ip] \in 1..seq

\* The agent reports its row and no command is under way that could change its mind.
Settled(ip) ==
    /\ reg[ip] \in Ids
    /\ cache[reg[ip]] = ip /\ clients[reg[ip]] = ip
    /\ adding # ip
    /\ \A c \in net : c.ip = ip => c.cmd = "HELLO" /\ c.id = reg[ip]

\* Once nothing disturbs them, nothing that the other agents do or that is left in the
\* network parts a settled agent from its row: its heartbeats are not answered with BYE
\* (StateListener.cpp:177-185), not even when it has been counted out, and no other
\* discovery takes its id from it.
SettledForGood ==
    [][\A ip \in Computer : calm /\ Settled(ip) => Settled(ip)']_discoveryVars

\* Whatever ids the agents were left with, by HELLO with -1 (StateListener.cpp:175), by
\* commands that overtook each other and by edits of the table: once nothing disturbs
\* them, discovery and BYE (StateListener.cpp:154-186) give every agent the id of its row
\* in the table, for good.  Excepted are an agent that a command cut off has made deaf
\* (server.cpp:141-170), and one for whose address the listener's cache stays outdated;
\* nothing that calm agents do outdates it.
AgentsJoin ==
    \A ip \in Computer :
        <>[](calm /\ ~deaf[ip]) /\ <>(calm /\ ~Outdated(ip))
            => <>[](Joined(ip) \/ TableFull(ip))
=============================================================================
