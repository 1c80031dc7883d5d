------------------------------ MODULE MCZoneDb ------------------------------
(* Boards that edit the same clients and zones while clients are discovered. *)
EXTENDS ZoneDb, TLC

\* No definition tells one board or one address from another.
Symmetry == Permutations(Board) \cup Permutations(Ip)
=============================================================================
