--------------------------- MODULE MCRemoteDesktop ---------------------------
(* Two dialogs, one after the other or at once. *)
EXTENDS RemoteDesktop
=============================================================================
