------------------------- MODULE RemoteDesktopProofs -------------------------
(***************************************************************************)
(* Proofs about RemoteDesktop, for any number of dialogs and sessions: the *)
(* types, that the shared io_service never lets a command go whose line    *)
(* the agent has got, that tvnserver is closed when nobody looks and that, *)
(* while somebody does, only another dialog's command closes or stops it.  *)
(***************************************************************************)
EXTENDS RemoteDesktop, TLAPS

\* A command with an operation under way has a thread that is in send().
LiveInSend ==
    \A c \in Cmds : net[c] \in {"connecting", "connected", "asked", "begun", "hung", "ok",
                              "error"}
                        => thread[c] \in {"enter", "run"}

\* A dialog sends each of its commands once.
NotYetSent ==
    \A d \in Dialogs :
        /\ view[d] = "none" => thread[Openvnc(d)] = "none"
        /\ view[d] \in Open \cup {"none"} => thread[Closevnc(d)] = "none"

\* An answer reaches only a dialog that has not been closed.
LinkedIsThere == \A d \in Dialogs : linked[d] => view[d] \in Open \cup {"abandoned"}

\* The callback that waits for its session is that of an OPENVNC, in a service that has
\* not stopped.
CallingIsAnswered ==
    \A c \in calling : c[1] = "OPENVNC" /\ net[c] \in {"ok", "error"} /\ ~stopped

IInv ==
    TypeOK /\ LiveInSend /\ NotYetSent /\ LinkedIsThere /\ WrittenIsAwaited /\ CallingIsAnswered

\* The commands of the dialogs are all the commands there are.
LEMMA CmdFacts ==
    /\ \A d, e \in Dialogs :
           /\ Openvnc(d) \in Cmds /\ Closevnc(e) \in Cmds
           /\ Openvnc(d) # Closevnc(e)
           /\ Openvnc(d) = Openvnc(e) => d = e
           /\ Closevnc(d) = Closevnc(e) => d = e
    /\ \A c \in Cmds : c[2] \in Dialogs
<1>1. "OPENVNC" # "CLOSEVNC"  OBVIOUS
<1> QED  BY <1>1 DEF Cmds, Openvnc, Closevnc

\* In the initial state no command exists (cmd.cpp:44-55).
LEMMA InitIInv == Init => IInv
<1> SUFFICES ASSUME Init PROVE IInv  OBVIOUS
<1>1. TypeOK
  <2>1. \A c \in Cmds : net[c] = "none" <=> thread[c] \in Unsent  BY DEF Init, Unsent
  <2>2. thread \in [Cmds -> Unsent \cup {"enter", "run", "returned"}]  BY DEF Init, Unsent
  <2>3. backlog \in Seq(Cmds)  BY DEF Init
  <2> QED  BY <2>1, <2>2, <2>3 DEF Init, TypeOK
<1> QED
  BY <1>1, CmdFacts
  DEF Init, IInv, LiveInSend, NotYetSent, LinkedIsThere, WrittenIsAwaited, CallingIsAnswered

\* A user's step that starts no command leaves the invariant: the dialog it closes is
\* not opened again.
LEMMA ViewStep ==
    ASSUME IInv, NEW d \in Dialogs, NEW v \in {"closed", "abandoned"} \cup Open,
           view[d] # "none", v \in Open => view[d] \in Open,
           view' = [view EXCEPT ![d] = v],
           NEW b \in BOOLEAN, linked' = [linked EXCEPT ![d] = b], b => v # "closed",
           excused' \in BOOLEAN, closer' \in Dialogs \cup {0},
           UNCHANGED <<cmdVars, otherAgentVars, running>>
    PROVE  IInv'
<1> USE DEF IInv, cmdVars, otherAgentVars
<1>1. TypeOK'
  <2>1. view' \in [Dialogs -> {"none", "closed", "abandoned"} \cup Open]
    BY DEF TypeOK, Open
  <2>2. linked' \in [Dialogs -> BOOLEAN]  BY DEF TypeOK
  <2> QED  BY <2>1, <2>2 DEF TypeOK
<1>2. NotYetSent'  BY DEF NotYetSent, TypeOK, Open
<1>3. LinkedIsThere'  BY DEF LinkedIsThere, TypeOK, Open
<1> QED  BY <1>1, <1>2, <1>3 DEF LiveInSend, WrittenIsAwaited, CallingIsAnswered

\* So does one that starts a command for the first time.
LEMMA SendStep ==
    ASSUME IInv, NEW d \in Dialogs, NEW v \in {"closed"} \cup Open,
           NEW b \in BOOLEAN, b => v # "closed",
           NEW c \in {Openvnc(d), Closevnc(d)},
           c = Openvnc(d) => view[d] = "none" /\ v \in Open,
           c = Closevnc(d) => view[d] \in Open /\ v = "closed",
           view' = [view EXCEPT ![d] = v],
           linked' = [linked EXCEPT ![d] = b],
           Send(c),
           closer' \in Dialogs \cup {0},
           UNCHANGED <<net, stopped, calling, otherAgentVars, running, excused>>
    PROVE  IInv'
<1> USE DEF IInv, otherAgentVars
<1>1. /\ c \in Cmds
      /\ thread[c] = "none"
      /\ thread' = [thread EXCEPT ![c] = "reset"]
  BY CmdFacts DEF NotYetSent, Send
<1>2. TypeOK'
  <2>1. \A e \in Cmds : (net[e] = "none" <=> thread[e] \in Unsent)'
    BY <1>1 DEF TypeOK, Unsent
  <2>2. /\ view' \in [Dialogs -> {"none", "closed", "abandoned"} \cup Open]
        /\ linked' \in [Dialogs -> BOOLEAN]
    BY DEF TypeOK, Open
  <2>3. thread' \in [Cmds -> Unsent \cup {"enter", "run", "returned"}]
    BY <1>1 DEF TypeOK, Unsent
  <2> QED  BY <2>1, <2>2, <2>3 DEF TypeOK
<1>3. net[c] = "none"  BY <1>1 DEF TypeOK, Unsent
<1>4. LiveInSend' /\ WrittenIsAwaited'
  BY <1>1, <1>3 DEF TypeOK, LiveInSend, WrittenIsAwaited
<1>5. NotYetSent'
  <2> SUFFICES ASSUME NEW e \in Dialogs
               PROVE  /\ view'[e] = "none" => thread'[Openvnc(e)] = "none"
                      /\ view'[e] \in Open \cup {"none"} => thread'[Closevnc(e)] = "none"
    BY DEF NotYetSent
  <2>1. CASE e = d
    BY <2>1, <1>1, CmdFacts DEF NotYetSent, TypeOK, Open
  <2>2. CASE e # d
    <3>1. view'[e] = view[e]  BY <2>2 DEF TypeOK
    <3>2. c # Openvnc(e) /\ c # Closevnc(e)  BY <2>2, CmdFacts
    <3>3. thread'[Openvnc(e)] = thread[Openvnc(e)] /\ thread'[Closevnc(e)] = thread[Closevnc(e)]
      BY <3>2, <1>1, CmdFacts DEF TypeOK
    <3> QED  BY <3>1, <3>3 DEF NotYetSent
  <2> QED  BY <2>1, <2>2
<1>6. LinkedIsThere'  BY DEF LinkedIsThere, TypeOK, Open
<1> QED  BY <1>2, <1>4, <1>5, <1>6 DEF CallingIsAnswered

\* The users' steps.
LEMMA UserStep == ASSUME IInv, NEW d \in Dialogs, User(d) PROVE IInv'
<1>1. CASE OpenDialog(d)
  <2>1. view[d] = "none" /\ view' = [view EXCEPT ![d] = "asking"] /\ Send(Openvnc(d))
    BY <1>1 DEF OpenDialog
  <2>2. /\ linked' = [linked EXCEPT ![d] = TRUE] /\ closer' \in Dialogs \cup {0}
        /\ UNCHANGED <<net, stopped, calling, otherAgentVars, running, excused>>
    BY <1>1 DEF OpenDialog, agentVars, vncVars, otherAgentVars, IInv, TypeOK
  <2>3. Openvnc(d) # Closevnc(d) /\ "asking" \in Open  BY CmdFacts DEF Open
  <2> QED  BY <2>1, <2>2, <2>3, SendStep
<1>2. CASE Cancel(d)
  <2>1. view[d] \in Open /\ view' = [view EXCEPT ![d] = "closed"] /\ Send(Closevnc(d))
    BY <1>2 DEF Cancel
  <2>2. /\ linked' = [linked EXCEPT ![d] = FALSE] /\ closer' \in Dialogs \cup {0}
        /\ UNCHANGED <<net, stopped, calling, otherAgentVars, running, excused>>
    BY <1>2 DEF Cancel, KeepCloser, IInv, TypeOK
  <2>3. Openvnc(d) # Closevnc(d)  BY CmdFacts
  <2> QED  BY <2>1, <2>2, <2>3, SendStep
<1>3. CASE Watch(d)
  <2>1. PICK v \in {"ready", "main"} : view' = [view EXCEPT ![d] = v]
    BY <1>3 DEF Watch
  <2>2. /\ linked' = [linked EXCEPT ![d] = linked[d]] /\ linked[d] \in BOOLEAN
        /\ excused' \in BOOLEAN
    BY <1>3 DEF Watch, IInv, TypeOK
  <2>3. /\ view[d] # "none" /\ view[d] \in Open /\ v # "closed" /\ v \in Open
        /\ UNCHANGED <<cmdVars, otherAgentVars, running>> /\ closer' \in Dialogs \cup {0}
    BY <1>3 DEF Watch, Open, agentVars, vncVars, otherAgentVars, IInv, TypeOK
  <2> QED  BY <2>1, <2>2, <2>3, ViewStep
<1>4. CASE EndSession(d)
  <2>1. PICK v \in {"closed", "abandoned"}, b \in BOOLEAN :
           /\ view' = [view EXCEPT ![d] = v]
           /\ linked' = [linked EXCEPT ![d] = b]
           /\ b => v # "closed"
    <3>1. linked[d] \in BOOLEAN /\ linked = [linked EXCEPT ![d] = linked[d]]
      BY DEF IInv, TypeOK
    <3> QED  BY <1>4, <3>1 DEF EndSession
  <2>2. /\ view[d] # "none" /\ v \notin Open /\ excused' \in BOOLEAN
        /\ UNCHANGED <<cmdVars, otherAgentVars, running>> /\ closer' \in Dialogs \cup {0}
    BY <1>4 DEF EndSession, Open, KeepCloser, IInv, TypeOK
  <2> QED  BY <2>1, <2>2, ViewStep
<1> QED  BY <1>1, <1>2, <1>3, <1>4 DEF User

\* What the steps of threads, handlers, network and agent do to a command that has been
\* sent: it moves on, and no other command with it.
LEMMA MoveStep ==
    ASSUME IInv, NEW c \in Cmds,
           NEW t \in {"connect", "enter", "run", "returned"},
           NEW n \in {"none", "connecting", "connected", "asked", "begun", "hung", "ok", "error",
                      "done", "destroyed", "gone"},
           thread[c] # "none", n = "none" <=> t = "connect",
           n \in {"connecting", "connected", "asked", "begun", "hung", "ok", "error"}
               => t \in {"enter", "run"},
           thread' = [thread EXCEPT ![c] = t],
           net' = [net EXCEPT ![c] = n],
           stopped' \in BOOLEAN,
           stopped' => \A e \in Cmds : net'[e] \notin {"asked", "begun", "hung"},
           view' \in [Dialogs -> {"none", "closed", "abandoned"} \cup Open],
           \A d \in Dialogs : view'[d] # view[d] =>
               view'[d] \in {"ready", "failed"} /\ linked[d] /\ view[d] # "abandoned",
           UNCHANGED linked, calling' \subseteq calling \cup {c}, stopped' => calling' = {},
           c \in calling' => c[1] = "OPENVNC" /\ n \in {"ok", "error"},
           backlog' \in Seq(Cmds), serving' \in BOOLEAN, vnc' \in BOOLEAN, down' \in BOOLEAN,
           closer' \in Dialogs \cup {0},
           running' \in BOOLEAN, excused' \in BOOLEAN, overtaken' \in BOOLEAN
    PROVE  IInv'
<1> USE DEF IInv
<1>1. TypeOK'
  <2>1. \A e \in Cmds : (net[e] = "none" <=> thread[e] \in Unsent)'
    BY DEF TypeOK, Unsent
  <2>2. thread' \in [Cmds -> Unsent \cup {"enter", "run", "returned"}]
    BY DEF TypeOK, Unsent
  <2>3. net' \in [Cmds -> {"none", "connecting", "connected", "asked", "begun", "hung", "ok",
                           "error", "done", "destroyed", "gone"}]
    BY DEF TypeOK
  <2>4. calling' \in SUBSET Cmds  BY DEF TypeOK
  <2> QED  BY <2>1, <2>2, <2>3, <2>4 DEF TypeOK
<1>2. LiveInSend'  BY DEF LiveInSend, TypeOK
<1>3. NotYetSent'
  <2>1. \A e \in Cmds : thread[e] = "none" => thread'[e] = "none"  BY DEF TypeOK
  <2>2. \A d \in Dialogs : /\ view'[d] = "none" => view[d] = "none"
                          /\ view'[d] \in Open \cup {"none"} => view[d] \in Open \cup {"none"}
    BY DEF LinkedIsThere, Open
  <2> QED  BY <2>1, <2>2, CmdFacts DEF NotYetSent
<1>4. LinkedIsThere'  BY DEF LinkedIsThere, Open
<1>5. WrittenIsAwaited'  BY <1>2 DEF WrittenIsAwaited, LiveInSend
<1>6. CallingIsAnswered'
  <2> SUFFICES ASSUME NEW e \in calling'
               PROVE  e[1] = "OPENVNC" /\ net'[e] \in {"ok", "error"} /\ ~stopped'
    BY DEF CallingIsAnswered
  <2>1. CASE e = c  BY <2>1 DEF TypeOK
  <2>2. CASE e # c  BY <2>2 DEF TypeOK, CallingIsAnswered
  <2> QED  BY <2>1, <2>2
<1> QED  BY <1>1, <1>2, <1>3, <1>4, <1>5, <1>6

\* While a line waits for its answer the service has not stopped and has work.
LEMMA AskedIsWork == IInv => \A c \in Cmds : net[c] \in {"asked", "begun", "hung"}
                                     => ~stopped /\ c \in Work
BY DEF IInv, WrittenIsAwaited, Work

\* What is left alone keeps its type.
LEMMA Unmoved ==
    ASSUME IInv
    PROVE  /\ UNCHANGED <<dialogVars, agentVars, running>> =>
                /\ view' \in [Dialogs -> {"none", "closed", "abandoned"} \cup Open]
                /\ UNCHANGED <<view, linked>>
                /\ backlog' \in Seq(Cmds) /\ serving' \in BOOLEAN /\ vnc' \in BOOLEAN
                /\ down' \in BOOLEAN /\ closer' \in Dialogs \cup {0}
                /\ running' \in BOOLEAN /\ overtaken' \in BOOLEAN
           /\ UNCHANGED excused => excused' \in BOOLEAN
           /\ UNCHANGED stopped => stopped' \in BOOLEAN
           /\ UNCHANGED <<calling, stopped>> => (stopped' => calling' = {})
           /\ \A c \in calling : c[1] = "OPENVNC" /\ net[c] \in {"ok", "error"}
BY DEF IInv, TypeOK, CallingIsAnswered, dialogVars, agentVars, vncVars

\* send() returns: nothing is waiting for an answer in a service that has stopped.
LEMMA ReturnStep ==
    ASSUME IInv, NEW c \in Cmds, thread[c] \in {"enter", "run"}, Return(c),
           stopped' \in BOOLEAN, stopped \/ Work = {}
    PROVE  IInv'
<1>1. \A e \in Cmds : net[e] \notin {"asked", "begun", "hung"}  BY AskedIsWork
<1>2. PICK n \in {"done", "destroyed", "gone"} : net' = [net EXCEPT ![c] = n]
  <2>1. net[c] # "none"  BY DEF IInv, TypeOK, Unsent
  <2>2. c \in Work \/ net[c] \in {"done", "gone"}  BY <2>1 DEF Work
  <2> QED  BY <2>2 DEF Return
<1>3. stopped' => \A e \in Cmds : net'[e] \notin {"asked", "begun", "hung"}
  BY <1>1, <1>2 DEF IInv, TypeOK
<1>4. excused' \in BOOLEAN /\ thread' = [thread EXCEPT ![c] = "returned"]
      /\ UNCHANGED <<dialogVars, agentVars, running>> /\ UNCHANGED calling
  BY DEF Return, IInv, TypeOK
<1>5. calling = {}  BY DEF IInv, TypeOK, CallingIsAnswered, Work
<1> QED  BY <1>2, <1>3, <1>4, <1>5, Unmoved, MoveStep

\* The steps of a command's own thread.
LEMMA ThreadStep == ASSUME IInv, NEW c \in Cmds, Thread(c) PROVE IInv'
<1>1. CASE Reset(c)
  <2>1. net[c] = "none" /\ net' = [net EXCEPT ![c] = "none"]
    BY <1>1 DEF Reset, IInv, TypeOK, Unsent
  <2>2. /\ thread[c] = "reset" /\ thread' = [thread EXCEPT ![c] = "connect"] /\ stopped' = FALSE
        /\ UNCHANGED <<dialogVars, agentVars, running>> /\ UNCHANGED excused
        /\ UNCHANGED calling
    BY <1>1 DEF Reset
  <2> QED  BY <2>1, <2>2, Unmoved, MoveStep
<1>2. CASE AsyncConnect(c)
  <2>1. /\ thread[c] = "connect" /\ thread' = [thread EXCEPT ![c] = "enter"]
        /\ net' = [net EXCEPT ![c] = "connecting"]
        /\ UNCHANGED <<dialogVars, agentVars, running>> /\ UNCHANGED excused /\ UNCHANGED stopped
        /\ UNCHANGED calling
    BY <1>2 DEF AsyncConnect
  <2>2. stopped' => \A e \in Cmds : net'[e] \notin {"asked", "begun", "hung"}
    BY <2>1, AskedIsWork DEF IInv, TypeOK
  <2>3. net[c] = "none"  BY <2>1 DEF IInv, TypeOK, Unsent
  <2> QED  BY <2>1, <2>2, <2>3, Unmoved, MoveStep
<1>3. CASE Run(c)
  <2>1. thread[c] = "enter"  BY <1>3 DEF Run
  <2>2. CASE stopped \/ Work = {}
    BY <1>3, <2>1, <2>2, ReturnStep DEF Run
  <2>3. CASE ~(stopped \/ Work = {})
    <3>1. /\ thread' = [thread EXCEPT ![c] = "run"]
          /\ net' = [net EXCEPT ![c] = net[c]] /\ net[c] # "none"
          /\ UNCHANGED <<dialogVars, agentVars, running>> /\ UNCHANGED excused /\ UNCHANGED stopped
          /\ UNCHANGED calling
      BY <1>3, <2>1, <2>3 DEF Run, IInv, TypeOK, Unsent
    <3>2. ~stopped'  BY <2>3, <3>1
    <3>3. net[c] \in {"connecting", "connected", "asked", "begun", "hung", "ok", "error", "done",
                      "destroyed", "gone"}
      BY <3>1 DEF IInv, TypeOK
    <3>4. thread[c] # "none" /\ calling' \subseteq calling \cup {c}  BY <2>1, <3>1
    <3>5. c \in calling' => c[1] = "OPENVNC" /\ net[c] \in {"ok", "error"}  BY <3>1, Unmoved
    <3> QED  BY <3>1, <3>2, <3>3, <3>4, <3>5, Unmoved, MoveStep
  <2> QED  BY <2>2, <2>3
<1>4. CASE LeaveRun(c)
  <2>1. thread[c] = "run" /\ stopped /\ Return(c) /\ UNCHANGED stopped  BY <1>4 DEF LeaveRun
  <2> QED  BY <2>1, ReturnStep, Unmoved
<1> QED  BY <1>1, <1>2, <1>3, <1>4 DEF Thread

\* A command that is over leaves the others their answers: the service stops only with
\* the last of them.
LEMMA FinishStep ==
    ASSUME IInv, NEW c \in Work, NEW how \in {"done", "gone"}, End(c, how),
           net[c] \notin {"asked", "begun", "hung"},
           view' \in [Dialogs -> {"none", "closed", "abandoned"} \cup Open],
           \A d \in Dialogs : view'[d] # view[d] =>
               view'[d] \in {"ready", "failed"} /\ linked[d] /\ view[d] # "abandoned",
           running' \in BOOLEAN, excused' \in BOOLEAN
    PROVE  IInv'
<1>1. c \in Cmds /\ net[c] # "none"  BY DEF Work
<1>2. PICK t \in {"enter", "run", "returned"} : t = thread[c]
  BY <1>1 DEF IInv, TypeOK, Unsent
<1>3. thread' = [thread EXCEPT ![c] = t]  BY <1>1, <1>2 DEF End, IInv, TypeOK
<1>4. net' = [net EXCEPT ![c] = how] /\ stopped' = (Work = {c})  BY DEF End
<1>5. stopped' => \A e \in Cmds : net'[e] \notin {"asked", "begun", "hung"}
  <2> SUFFICES ASSUME Work = {c}, NEW e \in Cmds PROVE net'[e] \notin {"asked", "begun", "hung"}
    BY <1>4
  <2>1. e # c => net[e] \notin {"asked", "begun", "hung"}  BY AskedIsWork
  <2> QED  BY <1>4, <2>1 DEF IInv, TypeOK
<1>6. /\ UNCHANGED linked /\ backlog' \in Seq(Cmds) /\ serving' \in BOOLEAN
      /\ vnc' \in BOOLEAN /\ down' \in BOOLEAN /\ closer' \in Dialogs \cup {0}
      /\ overtaken' \in BOOLEAN /\ stopped' \in BOOLEAN /\ calling' = calling \ {c}
  BY <1>4 DEF End, IInv, TypeOK, agentVars, vncVars
<1>7. stopped' => calling' = {}
  BY <1>4, <1>6 DEF IInv, TypeOK, CallingIsAnswered, Work
<1> QED  BY <1>1, <1>2, <1>3, <1>4, <1>5, <1>6, <1>7, MoveStep

\* An answer changes at most the dialog it is for, and only while that is linked.
LEMMA ShowStep ==
    ASSUME IInv, NEW d \in Dialogs, NEW outcome, Show(d, outcome)
    PROVE  /\ view' \in [Dialogs -> {"none", "closed", "abandoned"} \cup Open]
           /\ \A e \in Dialogs : view'[e] # view[e] =>
                view'[e] \in {"ready", "failed"} /\ linked[e] /\ view[e] # "abandoned"
           /\ running' \in BOOLEAN
<1>1. view \in [Dialogs -> {"none", "closed", "abandoned"} \cup Open] /\ running \in BOOLEAN
  BY DEF IInv, TypeOK
<1>2. CASE UNCHANGED view /\ running' \in BOOLEAN  BY <1>1, <1>2
<1>3. CASE ~(UNCHANGED view /\ running' \in BOOLEAN)
  <2>1. /\ linked[d] /\ view[d] # "abandoned" /\ UNCHANGED running
        /\ view' = [view EXCEPT ![d] = IF outcome = "ok" THEN "ready" ELSE "failed"]
    BY <1>1, <1>3 DEF Show
  <2> QED  BY <1>1, <2>1 DEF Open
<1> QED  BY <1>2, <1>3

\* The handlers that the io_service runs.
LEMMA HandlerStep == ASSUME IInv, NEW c \in Cmds, Handler(c) PROVE IInv'
<1>1. CASE HandleConnect(c)
  <2>1. /\ net[c] = "connected" /\ ~stopped /\ net' = [net EXCEPT ![c] = "asked"]
        /\ UNCHANGED <<dialogVars, agentVars, running>> /\ UNCHANGED excused /\ UNCHANGED stopped
        /\ UNCHANGED calling
    BY <1>1 DEF HandleConnect, CanHandle
  <2>2. thread[c] \in {"enter", "run"} /\ thread' = [thread EXCEPT ![c] = thread[c]]
    BY <1>1, <2>1 DEF HandleConnect, IInv, TypeOK, LiveInSend
  <2> QED  BY <2>1, <2>2, Unmoved, MoveStep
<1>2. CASE HandleAnswer(c)
  <2>1. c \in Work /\ net[c] \notin {"asked", "begun", "hung"}  BY <1>2 DEF HandleAnswer, Work
  <2>2. CASE CalledBack(c)
    <3>1. /\ calling' = calling \cup {c} /\ ~stopped
          /\ UNCHANGED <<dialogVars, agentVars, running>> /\ UNCHANGED excused /\ UNCHANGED stopped
      BY <1>2, <2>2 DEF HandleAnswer, CanHandle
    <3>2. net[c] \in {"ok", "error"} /\ net' = [net EXCEPT ![c] = net[c]]
      BY <1>2, <2>2 DEF HandleAnswer, IInv, TypeOK
    <3>3. thread[c] \in {"enter", "run"} /\ thread' = [thread EXCEPT ![c] = thread[c]]
      BY <1>2, <2>2, <3>2 DEF HandleAnswer, IInv, TypeOK, LiveInSend
    <3>4. c[1] = "OPENVNC" /\ thread[c] # "none"  BY <2>2, <3>3 DEF CalledBack
    <3> QED  BY <3>1, <3>2, <3>3, <3>4, Unmoved, MoveStep
  <2>3. CASE ~CalledBack(c)
    <3>1. /\ End(c, "done") /\ UNCHANGED <<view, running>>
      BY <1>2, <2>3 DEF HandleAnswer, Finish
    <3>2. /\ view' \in [Dialogs -> {"none", "closed", "abandoned"} \cup Open]
          /\ running' \in BOOLEAN /\ excused' \in BOOLEAN
      BY <1>2, <2>3, <3>1 DEF HandleAnswer, IInv, TypeOK
    <3> QED  BY <2>1, <3>1, <3>2, FinishStep
  <2> QED  BY <2>2, <2>3
<1>3. CASE CallBack(c)
  <2>1. c \in Work /\ net[c] \in {"ok", "error"}
    BY <1>3 DEF CallBack, IInv, CallingIsAnswered, Work
  <2>2. End(c, "done") /\ Show(c[2], net[c]) /\ excused' \in BOOLEAN
    BY <1>3 DEF CallBack, Finish, IInv, TypeOK
  <2> QED  BY <2>1, <2>2, CmdFacts, ShowStep, FinishStep
<1>4. CASE HandleDestroyed(c)
  <2>1. /\ c \in Work /\ net[c] \notin {"asked", "begun", "hung"} /\ End(c, "gone")
        /\ running' \in BOOLEAN /\ UNCHANGED view
    BY <1>4 DEF HandleDestroyed, Work
  <2>2. view' \in [Dialogs -> {"none", "closed", "abandoned"} \cup Open] /\ excused' \in BOOLEAN
    BY <1>4 DEF HandleDestroyed, IInv, TypeOK
  <2> QED  BY <2>1, <2>2, FinishStep
<1> QED  BY <1>1, <1>2, <1>3, <1>4 DEF Handler

\* The network and the agent.
LEMMA OutsideStep ==
    ASSUME IInv, (\E c \in Cmds : Connected(c)) \/ Serve \/ Served \/ GetStuck \/ Boot
    PROVE  IInv'
<1>1. ASSUME NEW c \in Cmds, Connected(c) PROVE IInv'
  <2>1. PICK n \in {"connected", "error"} : net' = [net EXCEPT ![c] = n]
    BY <1>1 DEF Connected
  <2>2. thread[c] \in {"enter", "run"} /\ thread' = [thread EXCEPT ![c] = thread[c]]
    BY <1>1 DEF Connected, IInv, TypeOK, LiveInSend
  <2>3. stopped' => \A e \in Cmds : net'[e] \notin {"asked", "begun", "hung"}
    BY <1>1, <2>1, AskedIsWork DEF Connected, IInv, TypeOK
  <2>4. /\ view' \in [Dialogs -> {"none", "closed", "abandoned"} \cup Open]
        /\ UNCHANGED <<view, linked>>
        /\ serving' \in BOOLEAN /\ vnc' \in BOOLEAN /\ stopped' \in BOOLEAN
        /\ down' \in BOOLEAN /\ closer' \in Dialogs \cup {0} /\ UNCHANGED <<calling, stopped>>
        /\ running' \in BOOLEAN /\ overtaken' \in BOOLEAN /\ excused' \in BOOLEAN
    BY <1>1 DEF Connected, dialogVars, vncVars, IInv, TypeOK
  <2>5. backlog' \in Seq(Cmds)
    <3>1. backlog \in Seq(Cmds) /\ Append(backlog, c) \in Seq(Cmds)  BY DEF IInv, TypeOK
    <3> QED  BY <1>1, <3>1 DEF Connected
  <2>6. net[c] = "connecting"  BY <1>1 DEF Connected
  <2> QED  BY <2>1, <2>2, <2>3, <2>4, <2>5, <2>6, Unmoved, MoveStep
<1>2. CASE Serve \/ Served
  <2> DEFINE c == Head(backlog)
  <2>1. c \in Cmds /\ Tail(backlog) \in Seq(Cmds) /\ net[c] \in {"asked", "begun"}
    <3>1. backlog # <<>> /\ net[c] \in {"asked", "begun"}  BY <1>2 DEF Serve, Served
    <3> QED  BY <3>1 DEF IInv, TypeOK
  <2>2. PICK n \in {"begun", "ok", "error"} : net' = [net EXCEPT ![c] = n]
    BY <1>2 DEF Serve, Served
  <2>3. ~stopped /\ thread[c] \in {"enter", "run"} /\ thread' = [thread EXCEPT ![c] = thread[c]]
    BY <1>2, <2>1 DEF Serve, Served, IInv, TypeOK, WrittenIsAwaited
  <2>4. /\ view' \in [Dialogs -> {"none", "closed", "abandoned"} \cup Open]
        /\ UNCHANGED <<view, linked>> /\ UNCHANGED calling
        /\ serving' \in BOOLEAN /\ stopped' = stopped /\ stopped' \in BOOLEAN
        /\ running' \in BOOLEAN /\ excused' \in BOOLEAN
    BY <1>2 DEF Serve, Served, dialogVars, IInv, TypeOK
  <2>5. vnc' \in BOOLEAN /\ down' \in BOOLEAN /\ overtaken' \in BOOLEAN
    BY <1>2 DEF Serve, Served, IInv, TypeOK
  <2>6. closer' \in Dialogs \cup {0} /\ backlog' \in Seq(Cmds)
    BY <1>2, <2>1, CmdFacts DEF Serve, Served, IInv, TypeOK
  <2> QED  BY <2>1, <2>2, <2>3, <2>4, <2>5, <2>6, Unmoved, MoveStep
<1>3. CASE GetStuck
  <2>1. TypeOK'
    <3>1. Tail(backlog) \in Seq(Cmds)  BY <1>3 DEF GetStuck, IInv, TypeOK
    <3> QED  BY <1>3, <3>1 DEF GetStuck, IInv, TypeOK, cmdVars, dialogVars, vncVars
  <2> QED  BY <1>3, <2>1
           DEF GetStuck, IInv, LiveInSend, NotYetSent, LinkedIsThere, WrittenIsAwaited,
               CallingIsAnswered, cmdVars, dialogVars
<1>4. CASE Boot
  <2>1. /\ net' \in [Cmds -> {"none", "connecting", "connected", "asked", "begun", "hung", "ok",
                              "error", "done", "destroyed", "gone"}]
        /\ \A c \in Cmds : /\ net'[c] = "none" <=> net[c] = "none"
                           /\ net'[c] \in {"asked", "begun", "hung"}
                                => net[c] \in {"asked", "begun", "hung"}
                           /\ net'[c] # net[c] => net[c] \in {"connected", "asked", "begun"}
    BY <1>4 DEF Boot, IInv, TypeOK
  <2>2. UNCHANGED <<view, linked, thread, stopped, calling, running, excused, overtaken>>
    BY <1>4 DEF Boot, dialogVars
  <2>3. TypeOK'
    <3>1. backlog' = <<>> /\ serving' = TRUE /\ down' = FALSE  BY <1>4 DEF Boot
    <3>2. backlog' \in Seq(Cmds)  BY <3>1
    <3>3. serving' \in BOOLEAN /\ down' \in BOOLEAN  BY <3>1
    <3>4. vnc' \in BOOLEAN
      <4>1. vnc' = vnc \/ \E c \in Cmds : vnc' = (c[1] = "OPENVNC")  BY <1>4 DEF Boot
      <4> QED  BY <4>1 DEF IInv, TypeOK
    <3>5. closer' \in Dialogs \cup {0}
      <4>1. closer' = 0 \/ closer' = closer  BY <1>4 DEF Boot
      <4> QED  BY <4>1 DEF IInv, TypeOK
    <3>6. \A c \in Cmds : (net[c] = "none" <=> thread[c] \in Unsent)'
      BY <2>1, <2>2 DEF IInv, TypeOK
    <3> QED  BY <2>1, <2>2, <3>2, <3>3, <3>4, <3>5, <3>6 DEF IInv, TypeOK
  <2>4. CallingIsAnswered'  BY <2>1, <2>2 DEF IInv, TypeOK, CallingIsAnswered
  <2>5. LiveInSend' /\ WrittenIsAwaited'
    BY <2>1, <2>2 DEF IInv, TypeOK, LiveInSend, WrittenIsAwaited
  <2> QED  BY <2>2, <2>3, <2>4, <2>5 DEF IInv, NotYetSent, LinkedIsThere
<1> QED  BY <1>1, <1>2, <1>3, <1>4

\* Every step of the program, or none, keeps the inductive invariant.
LEMMA NextIInv == IInv /\ [Next]_vars => IInv'
<1> SUFFICES ASSUME IInv, [Next]_vars PROVE IInv'  OBVIOUS
<1>1. CASE UNCHANGED vars
  BY <1>1 DEF IInv, TypeOK, LiveInSend, NotYetSent, LinkedIsThere, WrittenIsAwaited,
              CallingIsAnswered, vars, dialogVars, cmdVars, agentVars, vncVars
<1>2. ASSUME NEW d \in Dialogs, User(d) PROVE IInv'  BY <1>2, UserStep
<1>3. ASSUME NEW c \in Cmds, Thread(c) \/ Handler(c) \/ Connected(c) PROVE IInv'
  BY <1>3, ThreadStep, HandlerStep, OutsideStep
<1>4. CASE Serve \/ Served \/ GetStuck \/ Boot  BY <1>4, OutsideStep
<1> QED  BY <1>1, <1>2, <1>3, <1>4 DEF Next

\* The inductive invariant of the dialogs and their commands holds for ever.
THEOREM AlwaysIInv == Spec => []IInv
BY InitIInv, NextIInv, PTL DEF Spec

\* Every variable of the dialogs, the commands and the agent keeps its type
\* (MainView.cpp:17-65, cmd.cpp:44-101).
THEOREM TypeCorrect == Spec => []TypeOK
<1>1. IInv => TypeOK  BY DEF IInv
<1> QED  BY <1>1, AlwaysIInv, PTL

\* However many commands start and end beside it, none is destroyed between its line
\* and its answer: the shared io_service has not stopped, and the command's own thread
\* is about to run it or runs it (cmd.cpp:67-73).
THEOREM WrittenIsAlwaysAwaited == Spec => []WrittenIsAwaited
<1>1. IInv => WrittenIsAwaited  BY DEF IInv
<1> QED  BY <1>1, AlwaysIInv, PTL

-----------------------------------------------------------------------------
(* How far one step goes *)

Showing(d) == view[d] \in {"ready", "main"}

\* The agent has not come to the end of such a command.
Unserved == {"none", "connecting", "connected", "asked", "begun"}

\* How far one step takes a command: what is over stays over, and only the agent begins
\* it and says ok.
Onwards(c) ==
    /\ net[c] = "done" => net'[c] = "done"
    /\ net'[c] \in Unserved => net[c] \in Unserved
    /\ net'[c] = "ok" /\ net[c] # "ok" => Served /\ c = Head(backlog)
    /\ net'[c] = "begun" /\ net[c] # "begun" => Serve /\ c = Head(backlog)

\* How one step changes what a dialog shows.
Turns(d) ==
    /\ Showing(d)' =>
          \/ Showing(d)
          \/ view[d] \in Open /\ net[Openvnc(d)] = "ok" /\ net'[Openvnc(d)] = "done"
    /\ view'[d] \in Open => view[d] \in Open \/ net'[Openvnc(d)] = "none"

\* The steps that leave tvnserver as it is, and the command that the agent has begun.
AgentRests ==
    /\ UNCHANGED <<vnc, down>>
    /\ AnyOpen' => UNCHANGED closer
    /\ backlog # <<>> /\ net[Head(backlog)] = "begun"
           => backlog' # <<>> /\ Head(backlog') = Head(backlog)

\* A dialog that is not there has not sent its OPENVNC.
LEMMA NoneHasNoNet ==
    ASSUME IInv, NEW d \in Dialogs
    PROVE  /\ view[d] = "none" => net[Openvnc(d)] = "none"
           /\ view[d] \in Open \cup {"none"} => net[Closevnc(d)] = "none"
BY CmdFacts DEF IInv, NotYetSent, TypeOK, Unsent

\* The steps that leave all dialogs as they are and take at most one command on.
LEMMA OneOnwards ==
    ASSUME IInv, UNCHANGED view, NEW c \in Cmds, NEW n, net' = [net EXCEPT ![c] = n],
           n \in Unserved => net[c] \in Unserved,
           net[c] = "done" => n = "done",
           n = "ok" /\ net[c] # "ok" => Served /\ c = Head(backlog),
           n = "begun" /\ net[c] # "begun" => Serve /\ c = Head(backlog)
    PROVE  (\A e \in Cmds : Onwards(e)) /\ (\A d \in Dialogs : Turns(d))
BY DEF IInv, TypeOK, Onwards, Turns, Showing

\* The users' steps take no command on.
LEMMA UserOnwards ==
    ASSUME IInv, NEW d \in Dialogs, User(d)
    PROVE  (\A e \in Cmds : Onwards(e)) /\ (\A f \in Dialogs : Turns(f)) /\ AgentRests
<1>1. net' = net
  BY DEF User, OpenDialog, Watch, Cancel, EndSession, cmdVars
<1>2. \E v \in {"asking", "ready", "main", "closed", "abandoned"} :
          /\ view' = [view EXCEPT ![d] = v]
          /\ v = "asking" => view[d] = "none"
          /\ v \in {"ready", "main"} => view[d] \in {"ready", "main"}
  BY DEF User, OpenDialog, Watch, Cancel, EndSession
<1>3. \A f \in Dialogs : Turns(f)
  BY <1>1, <1>2, NoneHasNoNet DEF IInv, TypeOK, Turns, Showing, Open
<1>4. AgentRests
  BY DEF AgentRests, User, OpenDialog, Watch, Cancel, EndSession, KeepCloser, agentVars,
         vncVars, otherAgentVars
<1> QED  BY <1>1, <1>3, <1>4 DEF Onwards

\* Nor does anything else but the agent's answer and its handler.
LEMMA ThreadOnwards ==
    ASSUME IInv, NEW c \in Cmds, Thread(c)
    PROVE  (\A e \in Cmds : Onwards(e)) /\ (\A f \in Dialogs : Turns(f)) /\ AgentRests
<1>1. UNCHANGED view /\ AgentRests
  BY DEF Thread, Reset, AsyncConnect, Run, LeaveRun, Return, dialogVars, agentVars, vncVars,
         AgentRests
<1>2. CASE net' = net
  BY <1>1, <1>2 DEF Onwards, Turns, Showing
<1>3. CASE AsyncConnect(c)
  <2>1. net[c] = "none"  BY <1>3 DEF AsyncConnect, IInv, TypeOK, Unsent
  <2> QED  BY <1>1, <1>3, <2>1, OneOnwards DEF AsyncConnect, Unserved
<1>4. CASE Return(c) /\ thread[c] \in {"enter", "run"}
  <2>1. net[c] # "none" /\ net' = [net EXCEPT ![c] = IF c \in Work THEN "destroyed" ELSE @]
    BY <1>4 DEF Return, IInv, TypeOK, Unsent
  <2>2. PICK n \in {"done", "destroyed", "gone"} :
           net' = [net EXCEPT ![c] = n] /\ (net[c] = "done" => n = "done")
    BY <2>1 DEF Work
  <2> QED  BY <1>1, <2>2, OneOnwards DEF Unserved
<1> QED  BY <1>1, <1>2, <1>3, <1>4 DEF Thread, Reset, Run, LeaveRun

LEMMA HandlerOnwards ==
    ASSUME IInv, NEW c \in Cmds, Handler(c)
    PROVE  (\A e \in Cmds : Onwards(e)) /\ (\A f \in Dialogs : Turns(f)) /\ AgentRests
<1>1. AgentRests
  BY DEF Handler, HandleConnect, HandleAnswer, CallBack, HandleDestroyed, Finish, End,
         agentVars, vncVars, AgentRests
<1>2. CASE HandleConnect(c)
  BY <1>1, <1>2, OneOnwards DEF HandleConnect, dialogVars, Unserved
<1>3. CASE HandleDestroyed(c)
  BY <1>1, <1>3, OneOnwards DEF HandleDestroyed, End, Unserved
<1>4. CASE HandleAnswer(c)
  <2>1. UNCHANGED view  BY <1>4 DEF HandleAnswer, dialogVars
  <2>2. CASE net' = net  BY <1>1, <2>1, <2>2 DEF Onwards, Turns, Showing
  <2>3. CASE Finish(c)
    BY <1>1, <2>1, <2>3, OneOnwards DEF Finish, End, Unserved
  <2> QED  BY <1>4, <2>2, <2>3 DEF HandleAnswer
<1>5. CASE CallBack(c)
  <2>1. /\ net[c] \in {"ok", "error"} /\ net' = [net EXCEPT ![c] = "done"] /\ c[1] = "OPENVNC"
        /\ Show(c[2], net[c])
    BY <1>5 DEF CallBack, Finish, End, IInv, CallingIsAnswered
  <2>2. PICK d \in Dialogs : c = Openvnc(d) /\ c[2] = d
    BY <2>1 DEF Cmds, Openvnc
  <2>3. \A e \in Cmds : Onwards(e)
    BY <2>1 DEF IInv, TypeOK, Onwards, Unserved
  <2>4. CASE UNCHANGED view
    BY <1>1, <2>1, <2>4, OneOnwards DEF Unserved
  <2>5. CASE ~UNCHANGED view
    <3>1. /\ linked[d] /\ view[d] # "abandoned"
          /\ view' = [view EXCEPT ![d] = IF net[c] = "ok" THEN "ready" ELSE "failed"]
      BY <2>1, <2>2, <2>5 DEF Show
    <3>2. view[d] \in Open  BY <3>1 DEF IInv, LinkedIsThere
    <3>3. \A f \in Dialogs : Turns(f)
      BY <2>1, <2>2, <3>1, <3>2 DEF IInv, TypeOK, Turns, Showing
    <3> QED  BY <1>1, <2>3, <3>3
  <2> QED  BY <2>4, <2>5
<1> QED  BY <1>2, <1>3, <1>4, <1>5 DEF Handler

LEMMA OutsideOnwards ==
    ASSUME IInv, (\E c \in Cmds : Connected(c)) \/ Serve \/ Served \/ GetStuck \/ Boot
    PROVE  /\ (\A e \in Cmds : Onwards(e)) /\ (\A f \in Dialogs : Turns(f))
           /\ AgentRests \/ Serve \/ Served \/ Boot
<1>1. UNCHANGED view
  BY DEF Connected, Serve, Served, GetStuck, Boot, dialogVars
<1>2. ASSUME NEW c \in Cmds, Connected(c)
      PROVE  (\A e \in Cmds : Onwards(e)) /\ (\A f \in Dialogs : Turns(f)) /\ AgentRests
  <2>1. UNCHANGED vncVars /\ (backlog' = backlog \/ backlog' = Append(backlog, c))
    BY <1>2 DEF Connected
  <2>2. backlog # <<>> => backlog' # <<>> /\ Head(backlog') = Head(backlog)
    BY <2>1 DEF IInv, TypeOK
  <2>3. AgentRests  BY <2>1, <2>2 DEF AgentRests, vncVars
  <2> QED  BY <1>1, <1>2, <2>3, OneOnwards DEF Connected, Unserved
<1>3. CASE Serve \/ Served
  <2> DEFINE c == Head(backlog)
  <2>1. c \in Cmds /\ net[c] \in {"asked", "begun"}
    <3>1. backlog # <<>> /\ net[c] \in {"asked", "begun"}  BY <1>3 DEF Serve, Served
    <3> QED  BY <3>1 DEF IInv, TypeOK
  <2>2. PICK n \in {"begun", "ok", "error"} :
           /\ net' = [net EXCEPT ![c] = n]
           /\ n = "begun" => Serve
           /\ n = "ok" => Served
    BY <1>3 DEF Serve, Served
  <2> QED  BY <1>1, <1>3, <2>1, <2>2, OneOnwards DEF Unserved
<1>4. CASE GetStuck
  <2>1. UNCHANGED net /\ AgentRests
    BY <1>4 DEF GetStuck, AgentRests, cmdVars, vncVars
  <2> QED  BY <1>1, <2>1 DEF Onwards, Turns, Showing
<1>5. CASE Boot
  <2>1. \A e \in Cmds : net'[e] = net[e] \/ (net[e] \in Unserved /\ net'[e] \in {"hung", "error"})
    BY <1>5 DEF Boot, Unserved
  <2> QED  BY <1>1, <1>5, <2>1, CmdFacts DEF Onwards, Turns, Showing, Unserved
<1> QED  BY <1>2, <1>3, <1>4, <1>5

\* Every step takes commands and dialogs on, and only the agent changes tvnserver.
LEMMA StepOnwards ==
    ASSUME IInv, [Next]_vars
    PROVE  /\ \A e \in Cmds : Onwards(e)
           /\ \A f \in Dialogs : Turns(f)
           /\ AgentRests \/ Serve \/ Served \/ Boot
<1>1. CASE UNCHANGED vars
  BY <1>1 DEF vars, dialogVars, cmdVars, agentVars, vncVars, Onwards, Turns, Showing, AgentRests
<1> QED
  BY <1>1, UserOnwards, ThreadOnwards, HandlerOnwards, OutsideOnwards DEF Next

\* The agent is busy with one command, for which it has stopped tvnserver.
BegunIsHead ==
    \A c \in Cmds : net[c] = "begun" => backlog # <<>> /\ c = Head(backlog) /\ down

LEMMA BegunStep == IInv /\ BegunIsHead /\ [Next]_vars => BegunIsHead'
<1> SUFFICES ASSUME IInv, BegunIsHead, [Next]_vars, NEW c \in Cmds, net'[c] = "begun"
             PROVE  backlog' # <<>> /\ c = Head(backlog') /\ down'
  BY DEF BegunIsHead
<1>1. Onwards(c) /\ (AgentRests \/ Serve \/ Served \/ Boot)  BY StepOnwards
<1>2. CASE Serve
  <2>1. UNCHANGED backlog /\ down' = TRUE /\ backlog # <<>> /\ net[Head(backlog)] = "asked"
    BY <1>2 DEF Serve
  <2>2. CASE net[c] = "begun"  BY <2>1, <2>2 DEF BegunIsHead
  <2>3. CASE net[c] # "begun"  BY <1>1, <2>1, <2>3 DEF Onwards
  <2> QED  BY <2>2, <2>3
<1>3. CASE ~Serve
  <2>1. net[c] = "begun"  BY <1>1, <1>3 DEF Onwards
  <2>2. c = Head(backlog) /\ backlog # <<>> /\ down  BY <2>1 DEF BegunIsHead
  <2>3. ~Served  BY <2>2 DEF Served, IInv, TypeOK
  <2>4. ~Boot  BY DEF Boot
  <2> QED  BY <1>1, <1>3, <2>1, <2>2, <2>3, <2>4 DEF AgentRests
<1> QED  BY <1>2, <1>3

-----------------------------------------------------------------------------
(* tvnserver is closed when nobody looks *)

\* The CLOSEVNC of d is still to come, or under way and not served, its failure not
\* yet noticed.
CloseToCome(d) ==
    \/ view[d] \in Open
    \/ thread[Closevnc(d)] # "none" /\ net[Closevnc(d)] \in Unserved \cup {"hung", "error"}

\* As long as no CLOSEVNC was lost or came too early, some dialog answers for an open
\* tvnserver, and each dialog for an OPENVNC of its own that the agent may still serve.
SomeoneCloses ==
    ~excused /\ ~overtaken =>
        /\ vnc => \E d \in Dialogs : CloseToCome(d)
        /\ \A d \in Dialogs :
              thread[Openvnc(d)] # "none" /\ net[Openvnc(d)] \in Unserved => CloseToCome(d)

\* A CLOSEVNC is the CLOSEVNC of its dialog, and an OPENVNC likewise.
LEMMA KindOfCmd ==
    ASSUME NEW c \in Cmds
    PROVE  /\ c[2] \in Dialogs
           /\ c[1] = "CLOSEVNC" => c = Closevnc(c[2])
           /\ c[1] # "CLOSEVNC" => c[1] = "OPENVNC" /\ c = Openvnc(c[2])
           /\ \A d \in Dialogs : Openvnc(d)[1] = "OPENVNC" /\ Closevnc(d)[1] = "CLOSEVNC"
           /\ \A d \in Dialogs : Openvnc(d)[2] = d /\ Closevnc(d)[2] = d
BY DEF Cmds, Openvnc, Closevnc

\* A command on its way takes nothing from the dialogs, unless it is a CLOSEVNC that
\* ends without having been served.
LEMMA MoveKeepsCloses ==
    ASSUME IInv, SomeoneCloses, NEW c \in Cmds, NEW t, NEW n,
           thread[c] # "none", t # "none",
           thread' = [thread EXCEPT ![c] = t],
           net' = [net EXCEPT ![c] = n],
           n \in Unserved => net[c] \in Unserved,
           c[1] = "CLOSEVNC" /\ net[c] \in Unserved \cup {"hung", "error"} /\ ~excused'
               => n \in Unserved \cup {"hung", "error"},
           \A d \in Dialogs : view[d] \in Open => view'[d] \in Open,
           excused => excused',
           UNCHANGED <<vnc, overtaken>>
    PROVE  SomeoneCloses'
<1> SUFFICES ASSUME ~excused', ~overtaken'
             PROVE  /\ vnc' => \E d \in Dialogs : CloseToCome(d)'
                    /\ \A d \in Dialogs :
                         thread'[Openvnc(d)] # "none" /\ net'[Openvnc(d)] \in Unserved
                             => CloseToCome(d)'
  BY DEF SomeoneCloses
<1>1. \A e \in Cmds : thread'[e] = IF e = c THEN t ELSE thread[e]
  BY DEF IInv, TypeOK
<1>2. \A e \in Cmds : net'[e] = IF e = c THEN n ELSE net[e]
  BY DEF IInv, TypeOK
<1>3. ASSUME NEW d \in Dialogs, CloseToCome(d) PROVE CloseToCome(d)'
  <2>1. CASE view[d] \in Open  BY <2>1 DEF CloseToCome
  <2>2. CASE Closevnc(d) = c
    BY <1>1, <1>2, <1>3, <2>2, KindOfCmd DEF CloseToCome
  <2>3. CASE Closevnc(d) # c
    BY <1>1, <1>2, <1>3, <2>3, CmdFacts DEF CloseToCome
  <2> QED  BY <2>1, <2>2, <2>3
<1>4. \A d \in Dialogs : thread'[Openvnc(d)] # "none" /\ net'[Openvnc(d)] \in Unserved
                             => thread[Openvnc(d)] # "none" /\ net[Openvnc(d)] \in Unserved
  BY <1>1, <1>2, CmdFacts
<1> QED  BY <1>3, <1>4 DEF SomeoneCloses

\* Dialogs: opening one starts an OPENVNC in an open dialog, and cancelling it sends its
\* CLOSEVNC; whoever leaves it otherwise has an excuse.
LEMMA UserKeepsCloses == ASSUME IInv, SomeoneCloses, NEW d \in Dialogs, User(d) PROVE SomeoneCloses'
<1> SUFFICES ASSUME ~excused', ~overtaken'
             PROVE  /\ vnc' => \E e \in Dialogs : CloseToCome(e)'
                    /\ \A e \in Dialogs :
                         thread'[Openvnc(e)] # "none" /\ net'[Openvnc(e)] \in Unserved
                             => CloseToCome(e)'
  BY DEF SomeoneCloses
<1>1. /\ UNCHANGED <<net, vnc, overtaken, excused>>
      /\ ~EndSession(d)
  BY DEF User, OpenDialog, Watch, Cancel, EndSession, agentVars, vncVars, otherAgentVars, cmdVars
<1>2. ASSUME NEW c \in Cmds, Send(c) PROVE \A e \in Cmds : thread'[e] = IF e = c THEN "reset" ELSE thread[e]
  BY <1>2 DEF Send, IInv, TypeOK
<1>3. ASSUME NEW v, view' = [view EXCEPT ![d] = v]
      PROVE  \A e \in Dialogs : view'[e] = IF e = d THEN v ELSE view[e]
  BY <1>3 DEF IInv, TypeOK
<1>4. CASE OpenDialog(d)
  <2>1. \A e \in Dialogs : view'[e] = IF e = d THEN "asking" ELSE view[e]
    BY <1>3, <1>4 DEF OpenDialog
  <2>2. \A e \in Cmds : thread'[e] = IF e = Openvnc(d) THEN "reset" ELSE thread[e]
    BY <1>2, <1>4, CmdFacts DEF OpenDialog
  <2>3. \A e \in Dialogs : CloseToCome(e) => CloseToCome(e)'
    BY <1>1, <2>1, <2>2, CmdFacts DEF CloseToCome, Open
  <2>4. CloseToCome(d)'  BY <2>1 DEF CloseToCome, Open
  <2>5. \A e \in Dialogs : e # d => thread'[Openvnc(e)] = thread[Openvnc(e)]
    BY <2>2, CmdFacts
  <2> QED  BY <1>1, <2>3, <2>4, <2>5 DEF SomeoneCloses
<1>5. CASE Cancel(d)
  <2>1. \A e \in Dialogs : view'[e] = IF e = d THEN "closed" ELSE view[e]
    BY <1>3, <1>5 DEF Cancel
  <2>2. \A e \in Cmds : thread'[e] = IF e = Closevnc(d) THEN "reset" ELSE thread[e]
    BY <1>2, <1>5, CmdFacts DEF Cancel
  <2>3. net[Closevnc(d)] = "none"
    BY <1>5, CmdFacts DEF Cancel, IInv, NotYetSent, TypeOK, Unsent
  <2>4. CloseToCome(d)'  BY <1>1, <2>2, <2>3, CmdFacts DEF CloseToCome, Unserved
  <2>5. \A e \in Dialogs : CloseToCome(e) => CloseToCome(e)'
    BY <1>1, <2>1, <2>2, <2>4, CmdFacts DEF CloseToCome
  <2>6. \A e \in Dialogs : thread'[Openvnc(e)] = thread[Openvnc(e)]
    BY <2>2, CmdFacts
  <2> QED  BY <1>1, <2>5, <2>6 DEF SomeoneCloses
<1>6. CASE Watch(d)
  <2>1. UNCHANGED thread  BY <1>6 DEF Watch, cmdVars
  <2>2. PICK v \in Open : view' = [view EXCEPT ![d] = v]  BY <1>6 DEF Watch, Open
  <2>3. \A e \in Dialogs : CloseToCome(e) => CloseToCome(e)'
    BY <1>1, <1>3, <2>1, <2>2 DEF CloseToCome
  <2> QED  BY <1>1, <2>1, <2>3 DEF SomeoneCloses
<1> QED  BY <1>1, <1>4, <1>5, <1>6 DEF User

\* send(): a CLOSEVNC that is destroyed under way is an excuse.
LEMMA ThreadKeepsCloses ==
    ASSUME IInv, SomeoneCloses, NEW c \in Cmds, Thread(c) PROVE SomeoneCloses'
<1>1. UNCHANGED <<view, vnc, overtaken>>
  BY DEF Thread, Reset, AsyncConnect, Run, LeaveRun, Return, dialogVars, agentVars, vncVars
<1>2. net = [net EXCEPT ![c] = net[c]]  BY DEF IInv, TypeOK
<1>3. ASSUME Return(c), thread[c] # "none" PROVE SomeoneCloses'
  <2>1. net' = [net EXCEPT ![c] = IF c \in Work THEN "destroyed" ELSE net[c]]
    BY <1>3 DEF Return
  <2>2. c[1] = "CLOSEVNC" /\ ~excused' => c \notin Work  BY <1>3 DEF Return
  <2>3. thread' = [thread EXCEPT ![c] = "returned"] /\ (excused => excused')
    BY <1>3 DEF Return
  <2>4. CASE c \in Work
    <3>1. net' = [net EXCEPT ![c] = "destroyed"]  BY <2>1, <2>4
    <3> QED  BY <1>1, <1>3, <2>2, <2>3, <2>4, <3>1, MoveKeepsCloses DEF Unserved
  <2>5. CASE c \notin Work
    BY <1>1, <1>2, <1>3, <2>1, <2>3, <2>5, MoveKeepsCloses
  <2> QED  BY <2>4, <2>5
<1>4. CASE Reset(c)
  BY <1>1, <1>2, <1>4, MoveKeepsCloses DEF Reset
<1>5. CASE AsyncConnect(c)
  <2>1. net[c] = "none"  BY <1>5 DEF AsyncConnect, IInv, TypeOK, Unsent
  <2> QED  BY <1>1, <1>5, <2>1, MoveKeepsCloses DEF AsyncConnect, Unserved
<1>6. CASE Run(c)
  <2>1. thread[c] = "enter"  BY <1>6 DEF Run
  <2>2. CASE Return(c)  BY <1>3, <2>1, <2>2
  <2>3. CASE ~Return(c)
    <3>1. thread' = [thread EXCEPT ![c] = "run"] /\ net' = net /\ excused' = excused
      BY <1>6, <2>3 DEF Run
    <3> QED  BY <1>1, <1>2, <2>1, <3>1, MoveKeepsCloses
  <2> QED  BY <2>2, <2>3
<1>7. CASE LeaveRun(c)
  BY <1>3, <1>7 DEF LeaveRun
<1> QED  BY <1>4, <1>5, <1>6, <1>7 DEF Thread

\* The handlers: an answer leaves an open dialog open, and the failure of a CLOSEVNC is
\* an excuse.
LEMMA HandlerKeepsCloses ==
    ASSUME IInv, SomeoneCloses, NEW c \in Cmds, Handler(c) PROVE SomeoneCloses'
<1>1. UNCHANGED <<vnc, overtaken, thread>>
  BY DEF Handler, HandleConnect, HandleAnswer, CallBack, HandleDestroyed, Finish, End,
         dialogVars, agentVars, vncVars
<1>2. thread = [thread EXCEPT ![c] = thread[c]]  BY DEF IInv, TypeOK
<1>3. net[c] # "none"
  BY DEF Handler, HandleConnect, HandleAnswer, CallBack, HandleDestroyed, IInv,
         CallingIsAnswered
<1>4. thread[c] # "none"  BY <1>3 DEF IInv, TypeOK, Unsent
<1>5. CASE HandleConnect(c)
  BY <1>1, <1>2, <1>4, <1>5, MoveKeepsCloses DEF HandleConnect, dialogVars, Unserved
<1>6. CASE HandleAnswer(c)
  <2>1. CASE UNCHANGED <<net, dialogVars, excused>>
    BY <1>1, <2>1 DEF SomeoneCloses, CloseToCome, dialogVars
  <2>2. CASE Finish(c) /\ UNCHANGED view
    <3>1. net' = [net EXCEPT ![c] = "done"] /\ (excused => excused')
      BY <1>6, <2>2 DEF HandleAnswer, Finish, End
    <3>2. c[1] = "CLOSEVNC" /\ ~excused' => net[c] = "ok"
      BY <1>6 DEF HandleAnswer, CalledBack
    <3> QED  BY <1>1, <1>2, <1>4, <2>2, <3>1, <3>2, MoveKeepsCloses DEF Unserved
  <2> QED  BY <1>6, <2>1, <2>2 DEF HandleAnswer
<1>7. CASE CallBack(c)
  <2>1. net' = [net EXCEPT ![c] = "done"] /\ excused' = excused /\ c[1] = "OPENVNC"
    BY <1>7 DEF CallBack, Finish, End, IInv, CallingIsAnswered
  <2>2. \A d \in Dialogs : view[d] \in Open => view'[d] \in Open
    <3>1. Show(c[2], net[c])  BY <1>7 DEF CallBack
    <3>2. \A e \in Dialogs : view'[e] # view[e] => view'[e] \in {"ready", "failed"}
      BY <3>1, CmdFacts, ShowStep
    <3> QED  BY <3>2 DEF Open
  <2> QED  BY <1>1, <1>2, <1>4, <2>1, <2>2, MoveKeepsCloses DEF Unserved
<1>8. CASE HandleDestroyed(c)
  BY <1>1, <1>2, <1>4, <1>8, MoveKeepsCloses DEF HandleDestroyed, End, Unserved
<1> QED  BY <1>5, <1>6, <1>7, <1>8 DEF Handler

\* The agent comes to a CLOSEVNC when the OPENVNC of its dialog is behind it.
CloseComesLast ==
    \A d \in Dialogs : net[Closevnc(d)] = "begun" /\ ~overtaken => net[Openvnc(d)] \notin Unserved

LEMMA CloseComesLastStep ==
    IInv /\ BegunIsHead /\ CloseComesLast /\ [Next]_vars => CloseComesLast'
<1> SUFFICES ASSUME IInv, BegunIsHead, CloseComesLast, [Next]_vars, NEW d \in Dialogs,
                    net'[Closevnc(d)] = "begun", ~overtaken', net'[Openvnc(d)] \in Unserved
             PROVE  FALSE
  BY DEF CloseComesLast
<1>1. Onwards(Closevnc(d)) /\ Onwards(Openvnc(d))  BY StepOnwards, CmdFacts
<1>2. net[Openvnc(d)] \in Unserved  BY <1>1 DEF Onwards
<1>3. overtaken => overtaken'
  BY DEF Next, User, OpenDialog, Watch, Cancel, EndSession, Thread, Reset, AsyncConnect, Run,
         LeaveRun, Return, Handler, HandleConnect, HandleAnswer, CallBack, HandleDestroyed,
         Finish, End, Connected, Serve, Served, GetStuck, Boot, vars, agentVars, otherAgentVars
<1>4. net[Closevnc(d)] # "begun"  BY <1>2, <1>3 DEF CloseComesLast
<1>5. Serve /\ Closevnc(d) = Head(backlog)  BY <1>1, <1>4 DEF Onwards
<1>6. net[Openvnc(d)] \notin {"none", "connecting", "connected", "asked"}
  <2>1. ~Overtakes(Closevnc(d))  BY <1>5 DEF Serve
  <2>2. Closevnc(d)[1] = "CLOSEVNC" /\ Closevnc(d)[2] = d  BY DEF Closevnc
  <2> QED  BY <2>1, <2>2 DEF Overtakes
<1>7. net[Openvnc(d)] # "begun"  BY <1>5, CmdFacts DEF BegunIsHead
<1> QED  BY <1>2, <1>6, <1>7 DEF Unserved

\* The agent begins a command, or an OPENVNC for which its dialog answers ends, or a
\* CLOSEVNC, which closes.
LEMMA ServeKeepsCloses ==
    ASSUME IInv, SomeoneCloses, CloseComesLast, Serve \/ Served PROVE SomeoneCloses'
<1> DEFINE c == Head(backlog)
<1>1. c \in Cmds /\ net[c] \in {"asked", "begun"}
  <2>1. backlog # <<>> /\ net[c] \in {"asked", "begun"}  BY DEF Serve, Served
  <2> QED  BY <2>1 DEF IInv, TypeOK
<1>2. thread[c] # "none" /\ thread = [thread EXCEPT ![c] = thread[c]]
  BY <1>1 DEF IInv, TypeOK, WrittenIsAwaited
<1>3. UNCHANGED <<view, thread, excused>>  BY DEF Serve, Served, dialogVars
<1>4. CASE Serve
  <2>1. /\ net' = [net EXCEPT ![c] = "begun"] /\ UNCHANGED vnc
        /\ overtaken => overtaken'
    BY <1>4 DEF Serve
  <2>2. \A e \in Cmds : net'[e] \in Unserved <=> net[e] \in Unserved
    BY <1>1, <2>1 DEF IInv, TypeOK, Unserved, Serve
  <2>3. \A e \in Cmds : net'[e] \in {"hung", "error"} <=> net[e] \in {"hung", "error"}
    BY <1>1, <2>1 DEF IInv, TypeOK
  <2>4. \A d \in Dialogs : CloseToCome(d)' <=> CloseToCome(d)
    BY <1>3, <2>2, <2>3, CmdFacts DEF CloseToCome
  <2> QED  BY <1>3, <2>1, <2>2, <2>4, CmdFacts DEF SomeoneCloses
<1>5. CASE Served
  <2> SUFFICES ASSUME ~excused', ~overtaken'
               PROVE  /\ vnc' => \E d \in Dialogs : CloseToCome(d)'
                      /\ \A d \in Dialogs :
                           thread'[Openvnc(d)] # "none" /\ net'[Openvnc(d)] \in Unserved
                               => CloseToCome(d)'
    BY DEF SomeoneCloses
  <2>1. ~excused /\ ~overtaken /\ net[c] = "begun"  BY <1>3, <1>5 DEF Served
  <2>2. PICK n \in {"ok", "error"} : net' = [net EXCEPT ![c] = n]  BY <1>5 DEF Served
  <2>3. \A e \in Cmds : net'[e] = IF e = c THEN n ELSE net[e]
    BY <2>2 DEF IInv, TypeOK
  <2>4. c[1] = "CLOSEVNC" => ~vnc'  BY <1>5 DEF Served
  <2> HIDE DEF c
  <2>5. \A d \in Dialogs : c # Closevnc(d) /\ CloseToCome(d) => CloseToCome(d)'
    BY <1>3, <2>3, CmdFacts DEF CloseToCome
  <2>6. \A d \in Dialogs : thread'[Openvnc(d)] # "none" /\ net'[Openvnc(d)] \in Unserved
                               => c # Openvnc(d) /\ net[Openvnc(d)] \in Unserved /\ CloseToCome(d)
    BY <1>3, <2>1, <2>3, CmdFacts DEF SomeoneCloses, Unserved
  <2>7. CASE c[1] = "CLOSEVNC"
    <3>1. c = Closevnc(c[2]) /\ c[2] \in Dialogs  BY <1>1, <2>7, KindOfCmd
    <3>2. net[Openvnc(c[2])] \notin Unserved  BY <2>1, <3>1 DEF CloseComesLast
    <3>3. \A d \in Dialogs : net[Openvnc(d)] \in Unserved => c # Closevnc(d)
      BY <3>1, <3>2, CmdFacts
    <3> QED  BY <2>4, <2>5, <2>6, <2>7, <3>3
  <2>8. CASE c[1] # "CLOSEVNC"
    <3>1. c = Openvnc(c[2]) /\ c[2] \in Dialogs /\ \A d \in Dialogs : c # Closevnc(d)
      BY <1>1, <2>8, KindOfCmd, CmdFacts
    <3>2. CloseToCome(c[2])  BY <1>2, <2>1, <3>1 DEF SomeoneCloses, Unserved
    <3> QED  BY <2>5, <2>6, <3>1, <3>2
  <2> QED  BY <2>7, <2>8
<1> QED  BY <1>4, <1>5

\* Connections that are made or fail, and the agent's failures, bring no CLOSEVNC to its
\* end; a restart may find an OPENVNC half served.
LEMMA OutsideKeepsCloses ==
    ASSUME IInv, SomeoneCloses, (\E c \in Cmds : Connected(c)) \/ GetStuck \/ Boot
    PROVE  SomeoneCloses'
<1>1. ASSUME NEW c \in Cmds, Connected(c) PROVE SomeoneCloses'
  <2>1. PICK n \in {"connected", "error"} : net' = [net EXCEPT ![c] = n]
    BY <1>1 DEF Connected
  <2>2. thread[c] # "none" /\ thread' = [thread EXCEPT ![c] = thread[c]]
    BY <1>1 DEF Connected, IInv, TypeOK, LiveInSend
  <2>3. UNCHANGED <<view, vnc, overtaken, excused>> /\ net[c] = "connecting"
    BY <1>1 DEF Connected, dialogVars, vncVars
  <2> QED  BY <2>1, <2>2, <2>3, MoveKeepsCloses DEF Unserved
<1>2. CASE GetStuck
  BY <1>2 DEF GetStuck, SomeoneCloses, CloseToCome, cmdVars, dialogVars, vncVars
<1>3. CASE Boot
  <2>1. \A c \in Cmds :
           net'[c] = net[c] \/ (net[c] \in Unserved /\ net'[c] \in {"hung", "error"})
    BY <1>3 DEF Boot, Unserved
  <2>2. UNCHANGED <<view, thread, excused, overtaken>>  BY <1>3 DEF Boot, dialogVars
  <2>3. \A d \in Dialogs : CloseToCome(d) => CloseToCome(d)'
    BY <2>1, <2>2, CmdFacts DEF CloseToCome
  <2>4. \A d \in Dialogs : net'[Openvnc(d)] \in Unserved => net[Openvnc(d)] \in Unserved
    BY <2>1, CmdFacts DEF Unserved
  <2>5. ~excused /\ ~overtaken /\ vnc' => \E d \in Dialogs : CloseToCome(d)
    <3>1. CASE vnc' = vnc  BY <3>1 DEF SomeoneCloses
    <3>2. CASE vnc' # vnc /\ vnc'
      <4>1. PICK c \in Cmds : net[c] = "begun" /\ vnc' = (c[1] = "OPENVNC")
        BY <1>3, <3>2 DEF Boot
      <4>2. c[1] = "OPENVNC"  BY <3>2, <4>1
      <4>3. c = Openvnc(c[2]) /\ c[2] \in Dialogs  BY <4>2, KindOfCmd
      <4>4. thread[c] # "none"  BY <4>1 DEF IInv, WrittenIsAwaited
      <4> QED  BY <4>1, <4>3, <4>4 DEF SomeoneCloses, Unserved
    <3> QED  BY <3>1, <3>2
  <2> QED  BY <2>2, <2>3, <2>4, <2>5 DEF SomeoneCloses
<1> QED  BY <1>1, <1>2, <1>3

LEMMA NextKeepsCloses == IInv /\ SomeoneCloses /\ CloseComesLast /\ [Next]_vars => SomeoneCloses'
<1> SUFFICES ASSUME IInv, SomeoneCloses, CloseComesLast, [Next]_vars PROVE SomeoneCloses'
  OBVIOUS
<1>1. CASE UNCHANGED vars
  BY <1>1 DEF SomeoneCloses, CloseToCome, vars, dialogVars, cmdVars, agentVars, vncVars
<1>2. ASSUME NEW d \in Dialogs, User(d) PROVE SomeoneCloses'  BY <1>2, UserKeepsCloses
<1>3. ASSUME NEW c \in Cmds, Thread(c) \/ Handler(c) \/ Connected(c) PROVE SomeoneCloses'
  BY <1>3, ThreadKeepsCloses, HandlerKeepsCloses, OutsideKeepsCloses
<1>4. CASE Serve \/ Served \/ GetStuck \/ Boot  BY <1>4, ServeKeepsCloses, OutsideKeepsCloses
<1> QED  BY <1>1, <1>2, <1>3, <1>4 DEF Next

\* Where no dialog is open and no command under way nobody answers for an open
\* tvnserver.
LEMMA QuietIsClosed == IInv /\ SomeoneCloses => ClosedUnlessExcused
<1> SUFFICES ASSUME IInv, SomeoneCloses, Quiet, ~excused, ~overtaken, vnc PROVE FALSE
  BY DEF ClosedUnlessExcused, IInv, TypeOK
<1>1. PICK d \in Dialogs : CloseToCome(d)  BY DEF SomeoneCloses
<1>2. thread[Closevnc(d)] # "none" /\ net[Closevnc(d)] \in Unserved \cup {"hung", "error"}
  BY <1>1 DEF CloseToCome, Quiet
<1>3. net[Closevnc(d)] = "none"  BY <1>2, CmdFacts DEF Quiet, Work, Unserved
<1>4. thread[Closevnc(d)] \in Unsent  BY <1>3, CmdFacts DEF IInv, TypeOK
<1> QED  BY <1>2, <1>4, CmdFacts DEF Quiet, Unsent

\* When every dialog has been left and every command is over, tvnserver is closed
\* (MainView.cpp:27-30), whatever other sessions did in between: unless a CLOSEVNC was
\* lost or came before its OPENVNC, or a session ended in the dialog.
THEOREM AlwaysClosedUnlessExcused == Spec => []ClosedUnlessExcused
<1>1. Init => SomeoneCloses /\ CloseComesLast /\ BegunIsHead
  BY CmdFacts DEF Init, SomeoneCloses, CloseComesLast, BegunIsHead
<1> QED
  BY <1>1, AlwaysIInv, BegunStep, CloseComesLastStep, NextKeepsCloses, QuietIsClosed, PTL
  DEF Spec

-----------------------------------------------------------------------------
(* Who closes tvnserver on whom *)

\* The password of a dialog that shows the desktop has come and been handled.
ReadyIsDone == \A d \in Dialogs : Showing(d) => net[Openvnc(d)] = "done"

\* From the moment its OPENVNC is served only others stop tvnserver on an open dialog.
ServedIsCutByOthers ==
    \A d \in Dialogs :
        Showing(d) \/ (view[d] \in Open /\ net[Openvnc(d)] = "ok")
            => (vnc /\ ~down) \/ closer \in Dialogs \ {d}

\* What the agent does to tvnserver it does, to an open dialog that it has served, for
\* another one.
LEMMA CutStep ==
    ASSUME IInv, BegunIsHead, ReadyIsDone, ServedIsCutByOthers, [Next]_vars
    PROVE  ReadyIsDone' /\ ServedIsCutByOthers'
<1>1. ReadyIsDone'
  BY StepOnwards, CmdFacts DEF ReadyIsDone, Onwards, Turns
<1>2. ASSUME NEW d \in Dialogs, (Showing(d) \/ (view[d] \in Open /\ net[Openvnc(d)] = "ok"))'
      PROVE  ((vnc /\ ~down) \/ closer \in Dialogs \ {d})'
  <2>1. Onwards(Openvnc(d)) /\ Turns(d)  BY StepOnwards, CmdFacts
  <2>2. AnyOpen'  BY <1>2 DEF AnyOpen, Showing, Open
  <2>3. CASE Showing(d) \/ (view[d] \in Open /\ net[Openvnc(d)] = "ok")
    <3>1. (vnc /\ ~down) \/ closer \in Dialogs \ {d}  BY <2>3 DEF ServedIsCutByOthers
    <3>2. view[d] \in Open  BY <2>3 DEF Showing, Open
    <3>3. CASE AgentRests  BY <2>2, <3>1, <3>3 DEF AgentRests
    <3>4. CASE Serve
      <4>1. backlog # <<>> /\ net[Head(backlog)] = "asked" /\ closer' = Head(backlog)[2]
        BY <3>2, <3>4 DEF Serve, AnyOpen
      <4>2. Head(backlog) \in Cmds  BY <4>1 DEF IInv, TypeOK
      <4>3. net[Closevnc(d)] = "none"  BY <3>2, NoneHasNoNet
      <4>4. net[Openvnc(d)] \in {"ok", "done"}  BY <2>3 DEF ReadyIsDone
      <4>5. Head(backlog)[2] \in Dialogs \ {d}  BY <4>1, <4>2, <4>3, <4>4, KindOfCmd
      <4> QED  BY <4>1, <4>5
    <3>5. CASE Served
      <4>1. backlog # <<>> /\ net[Head(backlog)] = "begun"  BY <3>5 DEF Served
      <4>2. Head(backlog) \in Cmds  BY <4>1 DEF IInv, TypeOK
      <4>3. down  BY <4>1, <4>2 DEF BegunIsHead
      <4> QED  BY <3>1, <3>5, <4>3 DEF Served
    <3>6. CASE Boot
      <4>1. vnc /\ ~down => vnc'
        BY <3>6 DEF Boot, BegunIsHead
      <4> QED  BY <3>1, <3>6, <4>1 DEF Boot
    <3> QED  BY <3>3, <3>4, <3>5, <3>6, StepOnwards
  <2>4. CASE ~(Showing(d) \/ (view[d] \in Open /\ net[Openvnc(d)] = "ok"))
    <3>1. net'[Openvnc(d)] = "ok" /\ net[Openvnc(d)] # "ok"
      BY <1>2, <2>1, <2>4 DEF Turns
    <3>2. Served /\ Openvnc(d) = Head(backlog)  BY <2>1, <3>1 DEF Onwards
    <3>3. Head(backlog)[1] = "OPENVNC" /\ Openvnc(d) \in Cmds
      BY <3>2, CmdFacts DEF Openvnc
    <3>4. net' # [net EXCEPT ![Head(backlog)] = "error"]
      BY <3>1, <3>2, <3>3 DEF IInv, TypeOK
    <3> QED  BY <3>2, <3>3, <3>4 DEF Served
  <2> QED  BY <2>3, <2>4
<1>3. ServedIsCutByOthers'  BY <1>2 DEF ServedIsCutByOthers, Showing
<1> QED  BY <1>1, <1>3

\* For any number of dialogs and sessions: whoever finds tvnserver closed or stopped while
\* it shows the desktop owes that to a command of another dialog (server/cmd.cpp:162, 174),
\* not to its own commands, a restart of the computer or a command that was destroyed.
THEOREM AlwaysCutByOthersOnly == Spec => []CutByOthersOnly
<1>1. Init => BegunIsHead /\ ReadyIsDone /\ ServedIsCutByOthers
  BY DEF Init, BegunIsHead, ReadyIsDone, ServedIsCutByOthers, Showing, Open
<1>2. ServedIsCutByOthers => CutByOthersOnly
  BY DEF ServedIsCutByOthers, CutByOthersOnly, Showing
<1> QED  BY <1>1, <1>2, BegunStep, CutStep, AlwaysIInv, PTL DEF Spec
=============================================================================
