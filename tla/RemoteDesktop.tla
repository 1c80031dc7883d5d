---------------------------- MODULE RemoteDesktop ----------------------------
(***************************************************************************)
(* The remote desktop dialogs of the web sessions for one computer         *)
(* (src/webgui/view/MainView.cpp) and the sending of their commands        *)
(* (src/webgui/model/cmd.cpp).                                             *)
(*                                                                         *)
(* A dialog sends OPENVNC when it opens and CLOSEVNC when it is left, each *)
(* from a thread and over a connection of its own.  All threads share one  *)
(* io_service: any of them that is in run() executes the handlers of all,  *)
(* and the service stops when no operation is left.  A command whose       *)
(* thread finds it stopped is destroyed with its operation under way.      *)
(*                                                                         *)
(* The agent serves one connection after the other (see Agent); it and the *)
(* network are left to what a command can see of them.                     *)
(***************************************************************************)
EXTENDS Integers, Sequences, FiniteSets

CONSTANTS
    MaxDialog,    \* bound: how many dialogs are opened
    MaxSessions   \* bound: how many of them are open at once, each in its session

ASSUME MaxDialogAssumption == MaxDialog \in Nat \ {0}
ASSUME MaxSessionsAssumption == MaxSessions \in Nat \ {0}

Dialogs == 1..MaxDialog
Cmds == {"OPENVNC", "CLOSEVNC"} \X Dialogs
Openvnc(d) == <<"OPENVNC", d>>
Closevnc(d) == <<"CLOSEVNC", d>>

VARIABLES
    view,       \* what each dialog shows
    linked,     \* does the answer to its OPENVNC reach the dialog?
    thread,     \* where the thread of each command is
    calling,    \* the commands whose callback waits for the lock of its session
    net,        \* where the connection of each command is
    stopped,    \* has the io_service stopped?
    backlog,    \* the connections that the agent has still to serve
    serving,    \* is the agent's main loop still able to accept?
    vnc,        \* is tvnserver set up, in the registry, to accept connections?
    down,       \* is the service stopped?
    closer,     \* history: while a dialog is open, the one whose command stopped it last; 0
                \* once it accepts again
    running,    \* does the web server run?
    excused,    \* history: was a CLOSEVNC lost, or did a session end in a dialog?
    overtaken   \* history: was a CLOSEVNC served before the OPENVNC of its dialog?

dialogVars == <<view, linked>>
cmdVars == <<thread, net, stopped, calling>>
vncVars == <<vnc, down, closer>>
otherAgentVars == <<backlog, serving, vnc, down, overtaken>>
agentVars == <<backlog, serving, vncVars, overtaken>>
vars == <<dialogVars, cmdVars, agentVars, running, excused>>

Open == {"asking", "ready", "failed", "main"}
Unsent == {"none", "reset", "connect"}
AnyOpen == \E d \in Dialogs : view[d] \in Open

TypeOK ==
    /\ view \in [Dialogs -> {"none", "closed", "abandoned"} \cup Open]
    /\ linked \in [Dialogs -> BOOLEAN]
    /\ thread \in [Cmds -> Unsent \cup {"enter", "run", "returned"}]
    /\ net \in [Cmds -> {"none", "connecting", "connected", "asked", "begun", "hung", "ok",
                         "error", "done", "destroyed", "gone"}]
    /\ \A c \in Cmds : net[c] = "none" <=> thread[c] \in Unsent
    /\ stopped \in BOOLEAN
    /\ calling \in SUBSET Cmds
    /\ backlog \in Seq(Cmds)
    /\ serving \in BOOLEAN
    /\ vnc \in BOOLEAN
    /\ down \in BOOLEAN
    /\ closer \in Dialogs \cup {0}
    /\ running \in BOOLEAN
    /\ excused \in BOOLEAN
    /\ overtaken \in BOOLEAN

-----------------------------------------------------------------------------
(* MainView *)

\* cmd_async_send: a new command with a thread of its own.
Send(c) == thread' = [thread EXCEPT ![c] = "reset"]

\* handleClick makes a MainView, whose constructor shows the dialog.
OpenDialog(d) ==
    /\ view[d] = "none"
    /\ \A e \in Dialogs : e < d => view[e] # "none"
    /\ Cardinality({e \in Dialogs : view[e] \in Open}) < MaxSessions
    /\ view' = [view EXCEPT ![d] = "asking"]
    /\ linked' = [linked EXCEPT ![d] = TRUE]
    /\ Send(Openvnc(d))
    /\ UNCHANGED <<net, stopped, calling, agentVars, running, excused>>

\* showMainDialog, and back.
Watch(d) ==
    /\ view[d] \in {"ready", "main"}
    /\ view' = [view EXCEPT ![d] = IF @ = "ready" THEN "main" ELSE "ready"]
    /\ UNCHANGED <<linked, cmdVars, agentVars, running, excused>>

KeepCloser == closer' = IF AnyOpen' THEN closer ELSE 0

CancelIfReady(d) ==
    /\ view[d] \in Open \ {"main"}
    /\ view' = [view EXCEPT ![d] = "closed"]
    /\ linked' = [linked EXCEPT ![d] = FALSE]
    /\ IF view[d] = "ready" THEN Send(Closevnc(d)) ELSE UNCHANGED thread
    /\ KeepCloser
    /\ UNCHANGED <<net, stopped, calling, otherAgentVars, running, excused>>

\* The button disconnects the answer and ends the dialog; then the MainView goes out
\* of scope and its destructor sends CLOSEVNC.
Cancel(d) ==
    /\ view[d] \in Open \ {"main"}
    /\ view' = [view EXCEPT ![d] = "closed"]
    /\ linked' = [linked EXCEPT ![d] = FALSE]
    /\ Send(Closevnc(d))
    /\ KeepCloser
    /\ UNCHANGED <<net, stopped, calling, otherAgentVars, running, excused>>

\* The session ends in the dialog, that is in the constructor: if Wt leaves it with an
\* exception no destructor runs, if not the object stays.  Nothing sends CLOSEVNC.
EndSession(d) ==
    /\ view[d] \in Open
    /\ \/ view' = [view EXCEPT ![d] = "closed"] /\ linked' = [linked EXCEPT ![d] = FALSE]
       \/ view' = [view EXCEPT ![d] = "abandoned"] /\ UNCHANGED linked
    /\ excused' = TRUE
    /\ KeepCloser
    /\ UNCHANGED <<cmdVars, otherAgentVars, running>>

ShowOnAnyAnswer(d, outcome) ==
    IF linked[d] /\ view[d] # "abandoned"
    THEN view' = [view EXCEPT ![d] = "ready"] /\ UNCHANGED running
    ELSE running' \in {TRUE, FALSE} /\ UNCHANGED view

\* onReceivePasswd, once it has the lock.  Without a session to lock it asserts, where
\* asserts are built in; when the MainView has gone meanwhile anything may happen.
Show(d, outcome) ==
    IF linked[d] /\ view[d] # "abandoned"
    THEN /\ view' = [view EXCEPT ![d] = IF outcome = "ok" THEN "ready" ELSE "failed"]
         /\ UNCHANGED running
    ELSE running' \in {TRUE, FALSE} /\ UNCHANGED view

-----------------------------------------------------------------------------
(* Cmd::send and the io_service *)

\* The commands with an operation of which the io_service has still to run a handler.
Work == {c \in Cmds : net[c] \notin {"none", "done", "gone"}}

\* The threads in run(): they execute the handlers, of whichever command.
Runners == {c \in Cmds : thread[c] = "run"}

ResetLate(c) ==
    /\ thread[c] = "reset"
    /\ thread' = [thread EXCEPT ![c] = "connect"]
    /\ net' = [net EXCEPT ![c] = "connecting"]
    /\ stopped' = FALSE
    /\ UNCHANGED <<calling, dialogVars, agentVars, running, excused>>

Reset(c) ==
    /\ thread[c] = "reset"
    /\ thread' = [thread EXCEPT ![c] = "connect"]
    /\ stopped' = FALSE
    /\ UNCHANGED <<net, calling, dialogVars, agentVars, running, excused>>

AsyncConnect(c) ==
    /\ thread[c] = "connect"
    /\ thread' = [thread EXCEPT ![c] = "enter"]
    /\ net' = [net EXCEPT ![c] = "connecting"]
    /\ UNCHANGED <<stopped, calling, dialogVars, agentVars, running, excused>>

\* send() returns and the last pointer to the command goes: its socket is closed, the
\* operation aborted and its handler left to whoever runs the service next.
Return(c) ==
    /\ thread' = [thread EXCEPT ![c] = "returned"]
    /\ net' = [net EXCEPT ![c] = IF c \in Work THEN "destroyed" ELSE @]
    /\ excused' = (excused \/ (c \in Work /\ c[1] = "CLOSEVNC"))
    /\ UNCHANGED <<calling, dialogVars, agentVars, running>>

\* run() returns at once from a service that has stopped or has no work.
Run(c) ==
    /\ thread[c] = "enter"
    /\ IF stopped \/ Work = {}
       THEN Return(c) /\ stopped' = TRUE
       ELSE /\ thread' = [thread EXCEPT ![c] = "run"]
            /\ UNCHANGED <<net, stopped, calling, dialogVars, agentVars, running, excused>>

LeaveRun(c) == thread[c] = "run" /\ stopped /\ Return(c) /\ UNCHANGED stopped

\* One of them is not in a callback.
CanHandle == ~stopped /\ Cardinality(calling) < Cardinality(Runners)

\* A handler of c ends that started no other operation.  The service stops with its last
\* one.
End(c, how) ==
    /\ net' = [net EXCEPT ![c] = how]
    /\ calling' = calling \ {c}
    /\ stopped' = (Work = {c})
    /\ UNCHANGED <<thread, linked, agentVars>>

FinishAndStop(c) ==
    /\ net' = [net EXCEPT ![c] = "done"]
    /\ calling' = calling \ {c}
    /\ stopped' = TRUE
    /\ UNCHANGED <<thread, linked, agentVars>>

Finish(c) == End(c, "done")

\* handle_connect without an error: the line is written.
HandleConnect(c) ==
    /\ net[c] = "connected"
    /\ CanHandle
    /\ net' = [net EXCEPT ![c] = "asked"]
    /\ UNCHANGED <<thread, stopped, calling, dialogVars, agentVars, running, excused>>

CalledBack(c) == c[1] = "OPENVNC" /\ linked[c[2]]

HandleAnswerOnly(c) ==
    /\ net[c] \in {"ok", "error"} /\ c \notin calling
    /\ CanHandle
    /\ IF CalledBack(c) /\ net[c] = "ok"
       THEN /\ calling' = calling \cup {c}
            /\ UNCHANGED <<thread, net, stopped, dialogVars, agentVars, running, excused>>
       ELSE /\ Finish(c)
            /\ UNCHANGED <<view, running>>
            /\ excused' = (excused \/ (c[1] = "CLOSEVNC" /\ net[c] = "error"))

\* handle_read, or any handler given an error: the callback is called, and that of an
\* OPENVNC waits for the session of its dialog if it is still connected to it.
HandleAnswer(c) ==
    /\ net[c] \in {"ok", "error"} /\ c \notin calling
    /\ CanHandle
    /\ IF CalledBack(c)
       THEN /\ calling' = calling \cup {c}
            /\ UNCHANGED <<thread, net, stopped, dialogVars, agentVars, running, excused>>
       ELSE /\ Finish(c)
            /\ UNCHANGED <<view, running>>
            /\ excused' = (excused \/ (c[1] = "CLOSEVNC" /\ net[c] = "error"))

\* The callback has the lock.
CallBack(c) ==
    /\ c \in calling
    /\ Finish(c)
    /\ Show(c[2], net[c])
    /\ UNCHANGED excused

\* The aborted handler of a command that no longer exists: anything may happen.
HandleDestroyed(c) ==
    /\ net[c] = "destroyed"
    /\ CanHandle
    /\ End(c, "gone")
    /\ running' \in {TRUE, FALSE}
    /\ UNCHANGED <<view, excused>>

-----------------------------------------------------------------------------
(* The network and the agent *)

\* Threads that start one after the other connect in any order.
Connected(c) ==
    /\ net[c] = "connecting"
    /\ \/ net' = [net EXCEPT ![c] = "connected"] /\ backlog' = Append(backlog, c)
       \/ net' = [net EXCEPT ![c] = "error"] /\ UNCHANGED backlog
    /\ UNCHANGED <<thread, stopped, calling, dialogVars, serving, vncVars, running, excused,
                   overtaken>>

\* Is an OPENVNC still to be served whose dialog sends this CLOSEVNC?
Overtakes(c) == c[1] = "CLOSEVNC" /\
                    net[Openvnc(c[2])] \in {"none", "connecting", "connected", "asked"}

\* The agent runs the command, whichever it is it stops tvnserver first.
Serve ==
    LET c == Head(backlog) IN
    /\ serving /\ backlog # <<>>
    /\ net[c] = "asked"
    /\ net' = [net EXCEPT ![c] = "begun"]
    /\ down' = TRUE
    /\ closer' = IF AnyOpen THEN c[2] ELSE 0
    /\ overtaken' = (overtaken \/ Overtakes(c))
    /\ UNCHANGED <<thread, stopped, calling, dialogVars, backlog, serving, vnc, running, excused>>

\* Then it is set up and started again.  An OPENVNC may fail on the way, before it is set up,
\* before it is started or after.
Served ==
    LET c == Head(backlog) IN
    /\ serving /\ backlog # <<>>
    /\ net[c] = "begun"
    /\ backlog' = Tail(backlog)
    /\ \/ vnc' = (c[1] = "OPENVNC") /\ down' = FALSE /\ net' = [net EXCEPT ![c] = "ok"]
       \/ /\ c[1] = "OPENVNC"
          /\ vnc' \in {vnc, TRUE} /\ down' \in BOOLEAN /\ (vnc' \/ down')
          /\ net' = [net EXCEPT ![c] = "error"]
    /\ closer' = IF vnc' /\ ~down' THEN 0 ELSE closer
    /\ UNCHANGED <<thread, stopped, calling, dialogVars, serving, running, excused, overtaken>>

\* Its client has gone before the line: the agent's socket object stays open.
GetStuck ==
    /\ serving /\ backlog # <<>>
    /\ net[Head(backlog)] \notin {"connected", "asked", "begun"}
    /\ backlog' = Tail(backlog)
    /\ serving' = FALSE
    /\ UNCHANGED <<cmdVars, dialogVars, vncVars, running, excused, overtaken>>

\* The computer starts again, and tvnserver with the setting in the registry.  Of the
\* connections those break that have something to send; the client that waits for an
\* answer, for which it sets no timeout, hears that its connection is gone or, when the
\* power failed, nothing ever.
Boot ==
    /\ serving' = TRUE
    /\ backlog' = <<>>
    /\ \E unheard \in SUBSET {c \in Cmds : net[c] \in {"asked", "begun"}} :
           net' = [c \in Cmds |-> IF c \in unheard THEN "hung"
                                  ELSE IF net[c] \in {"connected", "asked", "begun"} THEN "error"
                                  ELSE net[c]]
    /\ \/ UNCHANGED vnc
       \/ \E c \in Cmds : net[c] = "begun" /\ vnc' = (c[1] = "OPENVNC")
    /\ down' = FALSE
    /\ closer' = IF vnc' THEN 0 ELSE closer
    /\ UNCHANGED <<thread, stopped, calling, dialogVars, running, excused, overtaken>>

-----------------------------------------------------------------------------

Init ==
    /\ view = [d \in Dialogs |-> "none"]
    /\ linked = [d \in Dialogs |-> FALSE]
    /\ thread = [c \in Cmds |-> "none"]
    /\ net = [c \in Cmds |-> "none"]
    /\ stopped = FALSE
    /\ calling = {}
    /\ backlog = <<>>
    /\ serving = TRUE
    /\ vnc = FALSE
    /\ down = FALSE
    /\ closer = 0
    /\ running = TRUE
    /\ excused = FALSE
    /\ overtaken = FALSE

User(d) == OpenDialog(d) \/ Watch(d) \/ Cancel(d) \/ EndSession(d)

Thread(c) == Reset(c) \/ AsyncConnect(c) \/ Run(c) \/ LeaveRun(c)

Handler(c) == HandleConnect(c) \/ HandleAnswer(c) \/ CallBack(c) \/ HandleDestroyed(c)

Next ==
    /\ running
    /\ \/ \E d \in Dialogs : User(d)
       \/ \E c \in Cmds : Thread(c) \/ Handler(c) \/ Connected(c)
       \/ Serve \/ Served \/ GetStuck \/ Boot

\* What the threads, the network and the agent do by themselves.
Progress ==
    \/ \E c \in Cmds : Thread(c) \/ Handler(c) \/ Connected(c)
    \/ Serve \/ Served \/ GetStuck

\* They do not all rest while one of them can go on.  As a command takes only so many
\* steps none is passed over for ever.  Users do as they like.
Fairness == WF_vars(running /\ Progress)

Spec == Init /\ [][Next]_vars /\ Fairness

-----------------------------------------------------------------------------
(* Properties *)

Quiet ==
    /\ running
    /\ Work = {} /\ \A c \in Cmds : thread[c] \notin {"reset", "connect"}
    /\ \A d \in Dialogs : view[d] \notin Open

\* When every dialog has been left and every command is over, tvnserver is closed
\* (MainView.cpp:27-30), also when dialogs of other sessions were open in between:
\* unless a CLOSEVNC was lost or served before its own OPENVNC, or a session ended in
\* the dialog.
ClosedUnlessExcused == Quiet /\ ~excused /\ ~overtaken => ~vnc

\* "After a click on cancel the remote service of the node is closed" (README.md:45),
\* if the command is not lost.
CancelClosesService == Quiet /\ ~excused => ~vnc

\* A dialog that shows the desktop finds tvnserver closed or stopped only by a command of
\* another dialog (server/cmd.cpp:162, 174): its own CLOSEVNC leaves after it, its
\* password is that of an OPENVNC which has been served, and neither a restart of the
\* computer nor the loss or the destruction of its commands closes the service
\* (MainView.cpp:27-30, 81-100).
CutByOthersOnly ==
    \A d \in Dialogs :
        view[d] \in {"ready", "main"} /\ (~vnc \/ down) => closer \in Dialogs \ {d}

\* The io_service lets no command go whose line the agent has got (cmd.cpp:67-73): its
\* answer still finds a thread in run(), whatever commands start and end beside it.
WrittenIsAwaited ==
    \A c \in Cmds : net[c] \in {"asked", "begun", "hung"}
                        => ~stopped /\ thread[c] \in {"enter", "run"}

\* A dialog that waits for its password for ever (MainView.cpp:81-100) has lost its own
\* command: it met the stopped io_service (cmd.cpp:69-72), or the power of the computer
\* failed and the read has no timeout (cmd.cpp:91).  Neither the other dialogs nor the
\* restarts of the agent keep it waiting, if the agent serves at last.
DialogsAreAnswered ==
    <>[](serving /\ running) =>
        []<>(\A d \in Dialogs :
                view[d] = "asking" => net[Openvnc(d)] \in {"hung", "destroyed", "gone"})
=============================================================================
