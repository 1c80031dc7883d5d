--------------------------- MODULE FailureDetector ---------------------------
(***************************************************************************)
(* What the management station promises about the classroom computers it   *)
(* watches: a node is online from the moment it is heard until it has been *)
(* silent for Limit seconds.  This is the specification that the countdown *)
(* of StateListener.cpp and the signals it emits are shown to implement.   *)
(***************************************************************************)
EXTENDS Integers

CONSTANTS
    Nodes,   \* the nodes being watched
    Limit    \* seconds of silence, at least one, after which a node counts as lost

VARIABLES
    silence, \* seconds since each node was last heard, Limit when lost
    status   \* what the subscribers were last told of each node

vars == <<silence, status>>

TypeOK ==
    /\ silence \in [Nodes -> 0..Limit]
    /\ status \in [Nodes -> {"online", "offline"}]

Init ==
    /\ silence = [n \in Nodes |-> Limit]
    /\ status = [n \in Nodes |-> "offline"]

\* A node is heard: it is online and its silence starts anew.
Hear(n) ==
    /\ silence' = [silence EXCEPT ![n] = 0]
    /\ status' = [status EXCEPT ![n] = "online"]

\* A second passes for every node; those whose silence reaches Limit are lost.
Second ==
    /\ silence' = [n \in Nodes |-> IF silence[n] < Limit THEN silence[n] + 1 ELSE Limit]
    /\ status' = [n \in Nodes |-> IF silence[n] = Limit - 1 THEN "offline" ELSE status[n]]

\* The watcher itself restarts and has heard nobody yet.
Reset ==
    /\ silence' = [n \in Nodes |-> Limit]
    /\ status' = [n \in Nodes |-> "offline"]

Next == (\E n \in Nodes : Hear(n)) \/ Second \/ Reset

SafeSpec == Init /\ [][Next]_vars

\* Time passes, so a node that stays silent is eventually reported lost.
Spec == SafeSpec /\ WF_vars(Second)
=============================================================================
