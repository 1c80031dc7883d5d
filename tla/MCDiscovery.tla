----------------------------- MODULE MCDiscovery -----------------------------
(* Two addresses and an agent at one of them; from the other come the late *)
(* packets of a computer that has gone.  Two commands are under way at     *)
(* once, so that they overtake each other.                                 *)
EXTENDS Discovery
=============================================================================
