------------------------------- MODULE MCAgent -------------------------------
(* An agent with two stations in its configuration and two connections at once. *)
EXTENDS Agent

CONSTANT Stranger

Request(peer, id, verb, args) == [peer |-> peer, id |-> id, verb |-> verb, args |-> args]

\* A station's HELLO before and after it knows the agent's id, its BYE, the remote
\* desktop, the shutdown by another station and its misspelling by the board, and
\* a stranger's HELLO.
AllRequests == {Request(1, -1, "HELLO", 0), Request(1, 2, "HELLO", 0),
                Request(1, 2, "BYE", 0), Request(1, 2, "OPENVNC", 1),
                Request(1, 2, "CLOSEVNC", 0), Request(2, 2, "HELLO", 0),
                Request(2, 2, "SHUTDOWN", 0), Request(2, 2, "SHUTDWON", 0),
                Request(Stranger, 2, "HELLO", 0)}

\* Enough for connections to wait for each other: HELLO and the other's BYE.
FewRequests == {Request(1, 2, "HELLO", 0), Request(2, 2, "BYE", 0)}
=============================================================================
