--------------------------- MODULE MCStateListener ---------------------------
(* The listener with every packet, timer, restart and web action interleaved. *)
EXTENDS StateListener
=============================================================================
