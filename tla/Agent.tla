-------------------------------- MODULE Agent --------------------------------
(***************************************************************************)
(* The classroom agent (src/server): server.exe on one classroom computer. *)
(*                                                                         *)
(* The main thread accepts one TCP connection at a time into the one       *)
(* socket object it uses for ever, reads a line, runs the command and      *)
(* replies.  The report thread sends every observer (a management station  *)
(* of the configuration) a UDP packet each five seconds, copying Observer  *)
(* objects that the main thread is writing: nothing locks them.            *)
(*                                                                         *)
(* The computer may lose its power at any moment; it then starts again     *)
(* with every observer unregistered.  UPDATE is left out: no program of    *)
(* this repository sends it.                                               *)
(***************************************************************************)
EXTENDS Protocol, Sequences

CONSTANTS
    N,          \* the number of management stations in the configuration
    Strangers,  \* peers that are not in the configuration
    Conn,       \* the TCP connections that can be open at once
    NoConn,     \* none of them
    Requests,   \* who may send which line: [peer, id, verb, args]
    MaxBoots    \* bound: how often the computer starts again

Managers == 1..N

ASSUME NAssumption == N \in Nat \ {0}
ASSUME NoConnAssumption == NoConn \notin Conn
ASSUME StrangersAssumption == Strangers \cap Managers = {}
ASSUME RequestsAssumption ==
    \A r \in Requests : r.id \in Int /\ r.peer \in Managers \cup Strangers
ASSUME MaxBootsAssumption == MaxBoots \in Nat

VARIABLES
    link,       \* the client's side of each connection: its state and request
    backlog,    \* the connections the system has taken and accept() has not
    pc,         \* where the main thread is
    open,       \* is the one socket object of main() open?
    cur,        \* the connection it holds, NoConn after an exception
    cmd,        \* the parsed command
    todo,       \* the fields of the Observer that HELLO or BYE has still to write
    obs,        \* observers: the id and is_reg of each
    told,       \* history: the ids that each observer's HELLOs carried, as parsed
    vnc,        \* does tvnserver accept connections?
    halting,    \* has `shutdown -s' been started?
    boots,      \* how often the computer has started again
    at,         \* the observer the report thread is at, 0 while it sleeps
    unread,     \* the fields of that Observer it has still to copy
    copy,       \* its copy
    unreachable \* the observers that send_to throws for

netVars == <<link, backlog>>
mainVars == <<pc, open, cur, cmd, todo>>
hostVars == <<vnc, halting, boots, unreachable>>
obsVars == <<obs, told>>
reportVars == <<at, unread, copy>>
vars == <<netVars, mainVars, hostVars, obsVars, reportVars>>

Fields == {"id", "reg"}
ObsIds == {Anonymous} \cup {TokenizedId(r.id) : r \in Requests}
ObserverType == [id : ObsIds, reg : BOOLEAN]
Unregistered == [id |-> Anonymous, reg |-> FALSE]

Idle == [cmd |-> "none", id |-> Anonymous]
CmdError == [cmd |-> "ERROR", id |-> Anonymous]
NoRequest == [peer |-> 0, id |-> Anonymous, verb |-> "none", args |-> 0]
Closed == [state |-> "closed", req |-> NoRequest]

LinkType == [state : {"closed", "silent", "spoken", "gone", "gone unspoken"},
             req : Requests \cup {NoRequest}]

TypeOK ==
    /\ link \in [Conn -> LinkType]
    /\ backlog \in Seq(Conn)
    /\ pc \in {"accept", "read", "run", "register", "reply"}
    /\ open \in BOOLEAN
    /\ cur \in Conn \cup {NoConn}
    /\ cmd \in [cmd : Verbs \cup {"ERROR", "none"}, id : ObsIds]
    /\ todo \in SUBSET Fields
    /\ obs \in [Managers -> ObserverType]
    /\ told \in [Managers -> SUBSET ObsIds]
    /\ vnc \in BOOLEAN
    /\ halting \in BOOLEAN
    /\ boots \in 0..MaxBoots
    /\ at \in 0..N
    /\ unread \in SUBSET Fields
    /\ copy \in ObserverType
    /\ unreachable \in SUBSET Managers

-----------------------------------------------------------------------------
(* The clients: Cmd objects of the stations, and strangers *)

Gone == {"gone", "gone unspoken"}

\* The system completes the connection before accept() takes it.
Connect(c, r) ==
    /\ link[c].state = "closed"
    /\ link' = [link EXCEPT ![c] = [state |-> "silent", req |-> r]]
    /\ backlog' = Append(backlog, c)
    /\ UNCHANGED <<mainVars, hostVars, obsVars, reportVars>>

Speak(c) ==
    /\ link[c].state = "silent"
    /\ link' = [link EXCEPT ![c].state = "spoken"]
    /\ UNCHANGED <<backlog, mainVars, hostVars, obsVars, reportVars>>

\* The client's process dies or gives up, before or after its line is sent.
Abort(c) ==
    /\ link[c].state \in {"silent", "spoken"}
    /\ link' = [link EXCEPT ![c].state = IF @ = "spoken" THEN "gone" ELSE "gone unspoken"]
    /\ UNCHANGED <<backlog, mainVars, hostVars, obsVars, reportVars>>

-----------------------------------------------------------------------------
(* The main thread *)

\* While the socket object is open accept() throws already_open instead, again and
\* again: nothing changes and the connection stays in the backlog.
Accept ==
    /\ pc = "accept"
    /\ ~open
    /\ backlog # <<>>
    /\ cur' = Head(backlog)
    /\ backlog' = Tail(backlog)
    /\ open' = TRUE
    /\ pc' = "read"
    /\ UNCHANGED <<link, cmd, todo, hostVars, obsVars, reportVars>>

LineIsThere == link[cur].state \in {"spoken", "gone"}

\* read_until has no timeout; it returns the line of a client since gone as well.
Read ==
    /\ pc = "read"
    /\ LineIsThere
    /\ pc' = "run"
    /\ UNCHANGED <<netVars, open, cur, cmd, todo, hostVars, obsVars, reportVars>>

\* The address is compared before the line is parsed.
CmdOf(c) == IF link[c].req.peer \in Managers THEN ParseCmd(link[c].req) ELSE CmdError

\* tvnserver is restarted before the reply; hstart may throw after stopping it.
VncOutcomes(verb) ==
    CASE verb = "OPENVNC" -> {TRUE, FALSE}
      [] verb = "CLOSEVNC" -> {FALSE}
      [] OTHER -> {vnc}

\* parse_cmd and run() up to the reply; HELLO and BYE go on in WriteField.
Run ==
    /\ pc = "run"
    /\ cmd' = CmdOf(cur)
    /\ vnc' \in VncOutcomes(cmd'.cmd)
    /\ todo' = IF cmd'.cmd \in {"HELLO", "BYE"} THEN Fields ELSE {}
    /\ pc' = IF cmd'.cmd \in {"HELLO", "BYE"} THEN "register" ELSE "reply"
    /\ told' = IF cmd'.cmd = "HELLO"
               THEN [told EXCEPT ![link[cur].req.peer] = @ \cup {cmd'.id}]
               ELSE told
    /\ UNCHANGED <<netVars, open, cur, halting, boots, unreachable, obs, reportVars>>

Hello(o, f) == IF f = "reg" THEN [o EXCEPT !.reg = TRUE] ELSE [o EXCEPT !.id = cmd.id]
ByeKeepsId(o, f) == IF f = "reg" THEN [o EXCEPT !.reg = FALSE] ELSE o
Bye(o, f) == IF f = "reg" THEN [o EXCEPT !.reg = FALSE] ELSE [o EXCEPT !.id = Anonymous]

WriteFieldOfFirst(f) ==
    /\ pc = "register"
    /\ f \in todo
    /\ obs' = [obs EXCEPT ![1] = IF cmd.cmd = "HELLO" THEN Hello(@, f) ELSE Bye(@, f)]
    /\ todo' = todo \ {f}
    /\ pc' = IF todo' = {} THEN "reply" ELSE "register"
    /\ UNCHANGED <<netVars, open, cur, cmd, hostVars, told, reportVars>>

\* reg() and set_id() store two plain fields that another thread copies: the stores
\* may become visible in either order.
WriteField(f) ==
    /\ pc = "register"
    /\ f \in todo
    /\ obs' = [obs EXCEPT ![link[cur].req.peer] = IF cmd.cmd = "HELLO" THEN Hello(@, f)
                                                                  ELSE Bye(@, f)]
    /\ todo' = todo \ {f}
    /\ pc' = IF todo' = {} THEN "reply" ELSE "register"
    /\ UNCHANGED <<netVars, open, cur, cmd, hostVars, told, reportVars>>

\* The connection is over for both sides and the main thread back at accept();
\* SHUTDOWN starts the system's shutdown whether or not its reply was written.
Finish(socketOpen) ==
    /\ pc' = "accept"
    /\ open' = socketOpen
    /\ link' = [link EXCEPT ![cur] = Closed]
    /\ cur' = NoConn
    /\ cmd' = Idle
    /\ halting' = (halting \/ cmd.cmd = "SHUTDOWN")
    /\ UNCHANGED <<backlog, todo, vnc, boots, unreachable, obsVars, reportVars>>

SendReplyNoClose == pc = "reply" /\ Finish(TRUE)
SendReply == pc = "reply" /\ Finish(FALSE)

\* read_until, remote_endpoint or the write of reply() throws at a client that is
\* gone.  Neither the handler of main() nor that of reply() closes the socket.
ClientError ==
    /\ pc \in {"read", "run", "reply"}
    /\ link[cur].state \in Gone
    /\ Finish(TRUE)

-----------------------------------------------------------------------------
(* The report thread *)

WakeUnderLock ==
    /\ pc = "accept"
    /\ at = 0
    /\ at' = 1
    /\ unread' = Fields
    /\ UNCHANGED <<copy, netVars, mainVars, hostVars, obsVars>>

\* The timer has expired: the copy of the first observer begins.
Wake ==
    /\ at = 0
    /\ at' = 1
    /\ unread' = Fields
    /\ UNCHANGED <<copy, netVars, mainVars, hostVars, obsVars>>

\* Observer o = observers[at], field by field in either order.
CopyField(f) ==
    /\ f \in unread
    /\ copy' = IF f = "reg" THEN [copy EXCEPT !.reg = obs[at].reg]
                            ELSE [copy EXCEPT !.id = obs[at].id]
    /\ unread' = unread \ {f}
    /\ UNCHANGED <<at, netVars, mainVars, hostVars, obsVars>>

\* Observer::str: "id OK" of a registered observer, "-1 name" of any other.
Packet(o) == [id |-> IF o.reg THEN o.id ELSE Anonymous, ok |-> o.reg]

SendReportPastEnd ==
    /\ at # 0
    /\ unread = {}
    /\ at' = IF at \in unreachable THEN 0 ELSE at + 1
    /\ unread' = IF at' = 0 THEN {} ELSE Fields
    /\ copy' = Unregistered
    /\ UNCHANGED <<netVars, mainVars, hostVars, obsVars>>

\* send_to either sends it or throws, and then the loop begins anew: the observers
\* after an unreachable one are not served.
SendReport ==
    /\ at # 0
    /\ unread = {}
    /\ at' = IF at \in unreachable \/ at = N THEN 0 ELSE at + 1
    /\ unread' = IF at' = 0 THEN {} ELSE Fields
    /\ copy' = Unregistered
    /\ UNCHANGED <<netVars, mainVars, hostVars, obsVars>>

-----------------------------------------------------------------------------

NoneRegistered == [m \in Managers |-> Unregistered]
NothingTold == [m \in Managers |-> {}]

Init ==
    /\ link = [c \in Conn |-> Closed]
    /\ backlog = <<>>
    /\ pc = "accept"
    /\ open = FALSE
    /\ cur = NoConn
    /\ cmd = Idle
    /\ todo = {}
    /\ obs = NoneRegistered
    /\ told = NothingTold
    /\ vnc = FALSE
    /\ halting = FALSE
    /\ boots = 0
    /\ at = 0
    /\ unread = {}
    /\ copy = Unregistered
    /\ unreachable \in SUBSET Managers

\* The computer goes down, by SHUTDOWN or by a cut of the power, and up again.
\* The registry keeps the setting of tvnserver.
Boot ==
    /\ boots < MaxBoots
    /\ boots' = boots + 1
    /\ link' = [c \in Conn |-> Closed]
    /\ backlog' = <<>>
    /\ pc' = "accept"
    /\ open' = FALSE
    /\ cur' = NoConn
    /\ cmd' = Idle
    /\ todo' = {}
    /\ obs' = NoneRegistered
    /\ told' = NothingTold
    /\ halting' = FALSE
    /\ at' = 0
    /\ unread' = {}
    /\ copy' = Unregistered
    /\ UNCHANGED <<vnc, unreachable>>

Client(c) == (\E r \in Requests : Connect(c, r)) \/ Speak(c) \/ Abort(c)

Main == Accept \/ Read \/ Run \/ (\E f \in Fields : WriteField(f)) \/ SendReply \/ ClientError

Report == Wake \/ (\E f \in Fields : CopyField(f)) \/ SendReport

Next == (\E c \in Conn : Client(c)) \/ Main \/ Report \/ Boot

SafeSpec == Init /\ [][Next]_vars

\* Both threads are scheduled: a step they can take they take in the end.
Spec == SafeSpec /\ WF_vars(Main) /\ WF_vars(Report)

-----------------------------------------------------------------------------
(* Properties *)

\* Between two commands an observer is registered exactly when it has an id: the
\* two stores of HELLO and BYE (cmd.cpp:143-144, 154-155) end in a state that
\* Observer::str can report, whatever came before them.
RegisteredIffId ==
    pc # "register" => \A m \in Managers : obs[m].reg <=> obs[m].id # Anonymous

\* However the report's copy (server.cpp:38) falls between the two stores, the
\* packet carries an id that a HELLO of this very observer carried since the
\* start, or -1.
ReportsToldIds ==
    at # 0 /\ unread = {} => Packet(copy).id \in told[at] \cup {Anonymous}

InLine(c) == \E i \in 1..Len(backlog) : backlog[i] = c

ClientsSpeak == \A c \in Conn : []<>(link[c].state # "silent")
NoClientFails == [](cur # NoConn => link[cur].state \notin Gone)
EveryoneIsServed == \A c \in Conn : InLine(c) ~> ~InLine(c)

\* The accept loop (server.cpp:138-171) gets to every waiting connection, provided
\* that each client sends its line and none goes away while it is served.
ServedIfClientsBehave == ClientsSpeak /\ NoClientFails => EveryoneIsServed

\* The comment at server.cpp:167 takes a failing client for a passing trouble after
\* which the main loop goes on serving.
ServedDespiteClientErrors == ClientsSpeak => EveryoneIsServed

\* Every observer with only reachable ones before it is reported to again and
\* again (server.cpp:29-49), whatever the main thread is doing: reading from a
\* silent client, or stuck at an open socket.
ReportsRecur ==
    \A m \in Managers :
        (\A k \in 1..(m - 1) : k \notin unreachable) => []<>(at = m)
=============================================================================
