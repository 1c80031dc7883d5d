--------------------------- MODULE MCDesktopClient ---------------------------
(* Two computers whose names may be swapped or repeated. *)
EXTENDS DesktopClient
=============================================================================
