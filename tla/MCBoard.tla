------------------------------- MODULE MCBoard -------------------------------
(* A page with up to three tabs. *)
EXTENDS Board
=============================================================================
