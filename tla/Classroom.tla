------------------------------ MODULE Classroom ------------------------------
(***************************************************************************)
(* The agents of the classrooms as one management station sees them, and   *)
(* the commands under way to them.  The agent in full is module Agent: of  *)
(* it remains the id that its report thread sends, which HELLO sets and    *)
(* BYE and a restart take away.                                            *)
(*                                                                         *)
(* Each command goes over a connection and from a thread of its own, so    *)
(* those under way arrive in any order.  One is lost when the agent is     *)
(* away, and when the io_service that all commands share stops too soon    *)
(* (module RemoteDesktop).  When it stops after the agent has accepted the *)
(* connection and before the line is written, the agent's read fails, and  *)
(* its accept loop fails with it for ever (module Agent).                  *)
(***************************************************************************)
EXTENDS Protocol, FiniteSets

CONSTANTS
    Computer,   \* the addresses where an agent runs
    MaxNet      \* bound: the commands that are under way at once

ASSUME MaxNetAssumption == MaxNet \in Nat

VARIABLES
    reg,        \* the id each agent reports, Anonymous while it announces its name
    deaf,       \* does the accept loop of an agent fail for ever?
    net         \* the commands under way: [cmd, id, ip]

roomVars == <<reg, deaf, net>>

RoomInit ==
    /\ reg = [p \in Computer |-> Anonymous]
    /\ deaf = [p \in Computer |-> FALSE]
    /\ net = {}

\* New commands are under way; those to an address without an agent find nobody, and when
\* there are too many they are lost at once.
Put(cmds) ==
    /\ LET all == net \cup {c \in cmds : c.ip \in Computer}
       IN  net' = IF Cardinality(all) <= MaxNet THEN all ELSE net
    /\ UNCHANGED <<reg, deaf>>

Parsed(c) == ParseCmd([verb |-> c.cmd, id |-> c.id, args |-> 0])

DeliverHelloOnly(c) ==
    /\ c \in net /\ ~deaf[c.ip]
    /\ net' = net \ {c}
    /\ reg' = [reg EXCEPT ![c.ip] = IF c.cmd = "HELLO" THEN Parsed(c).id ELSE reg[c.ip]]
    /\ UNCHANGED deaf

\* The agent serves the command and reports by it from now on.
Deliver(c) ==
    /\ c \in net /\ ~deaf[c.ip]
    /\ net' = net \ {c}
    /\ reg' = [reg EXCEPT ![c.ip] = IF c.cmd = "HELLO" THEN Parsed(c).id ELSE Anonymous]
    /\ UNCHANGED deaf

\* The agent is away or deaf, or the io_service stops before the connection is made.
Lose(c) ==
    /\ c \in net
    /\ net' = net \ {c}
    /\ UNCHANGED <<reg, deaf>>

\* The io_service stops when the connection is made and the line is not yet written: the
\* agent, whose report thread goes on, hears no command any more.
CutOff(c) ==
    /\ c \in net /\ ~deaf[c.ip]
    /\ net' = net \ {c}
    /\ deaf' = [deaf EXCEPT ![c.ip] = TRUE]
    /\ UNCHANGED reg

\* The computer starts again: every observer is unregistered.
AgentBoot(p) ==
    /\ reg' = [reg EXCEPT ![p] = Anonymous]
    /\ deaf' = [deaf EXCEPT ![p] = FALSE]
    /\ UNCHANGED net
=============================================================================
