---------------------------- MODULE ListenerEvents ----------------------------
(***************************************************************************)
(* What the listener's thread promises to those who are connected to its   *)
(* signal (stateChanged of StateListener.hpp), and all that the pages      *)
(* of the web sessions may take for granted: in which order the events of  *)
(* the ids come.  A NewClient is always of the id -1 and the OnLine of -1  *)
(* is the next event after it; OffLine is the end of an OnLine.  The       *)
(* module StateListener is shown to keep the promise, and Board is built   *)
(* on it.                                                                  *)
(***************************************************************************)
CONSTANTS
    Client,    \* the ids of clients
    NoId       \* the id of a discovery packet, which is signalled as well

VARIABLES
    last,      \* the last event of each id
    greeting   \* is a discovery half handled?

vars == <<last, greeting>>

Ids == Client \cup {NoId}

TypeOK ==
    /\ last \in [Ids -> {"none", "NewClient", "OnLine", "OffLine"}]
    /\ greeting \in BOOLEAN

Init ==
    /\ last = [i \in Ids |-> "none"]
    /\ greeting = FALSE

\* The first half of the discovery of a client that the cache does not hold.
NewClient ==
    /\ ~greeting
    /\ greeting' = TRUE
    /\ last' = [last EXCEPT ![NoId] = "NewClient"]

\* Its second half.
Greeted ==
    /\ greeting
    /\ greeting' = FALSE
    /\ last' = [last EXCEPT ![NoId] = "OnLine"]

\* A client is heard.
Heard(c) ==
    /\ ~greeting
    /\ last' = [last EXCEPT ![c] = "OnLine"]
    /\ UNCHANGED greeting

\* The countdowns of these ids reach 0, each after an OnLine.
Lost(ids) ==
    /\ ~greeting
    /\ ids # {} /\ \A i \in ids : last[i] = "OnLine"
    /\ last' = [i \in Ids |-> IF i \in ids THEN "OffLine" ELSE last[i]]
    /\ UNCHANGED greeting

\* The station starts again, and with it everybody who was connected.
Reset ==
    /\ last' = [i \in Ids |-> "none"]
    /\ greeting' = FALSE

Next ==
    \/ NewClient \/ Greeted \/ Reset
    \/ \E c \in Client : Heard(c)
    \/ \E ids \in SUBSET Ids : Lost(ids)

Spec == Init /\ [][Next]_vars
=============================================================================
