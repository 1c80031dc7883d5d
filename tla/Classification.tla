---------------------------- MODULE Classification ----------------------------
(***************************************************************************)
(* What the station promises about the classification of its clients: an   *)
(* address is in zones, or in the default zone alone, or in none; a client *)
(* that enrols or loses its last zone falls back to the default zone.  The *)
(* tables and triggers of DbProxy.cpp, and the scripts that the boards and *)
(* the listener run on them, are shown to implement this.                  *)
(***************************************************************************)
CONSTANTS
    Address,  \* the addresses of clients
    Zone,     \* the zones that can ever exist
    Default   \* the zone of those that have no other

VARIABLES
    present,  \* the addresses of the clients there are
    exists,   \* the zones there are
    zonesOf   \* the zones of each address

vars == <<present, exists, zonesOf>>

\* The sets of zones an address can have.
Class == {zs \in SUBSET Zone : Default \in zs => zs = {Default}}

TypeOK ==
    /\ present \in SUBSET Address
    /\ exists \in SUBSET Zone
    /\ zonesOf \in [Address -> Class]

Init ==
    /\ present = {}
    /\ exists = {Default}
    /\ zonesOf = [a \in Address |-> {}]

\* A client appears; it keeps the zones its address has.
Enrol(a) ==
    /\ a \notin present
    /\ present' = present \cup {a}
    /\ zonesOf' = [zonesOf EXCEPT ![a] = IF @ = {} THEN {Default} ELSE @]
    /\ UNCHANGED exists

\* A client goes, and its zones with it.
Retire(a) ==
    /\ a \in present
    /\ present' = present \ {a}
    /\ zonesOf' = [zonesOf EXCEPT ![a] = {}]
    /\ UNCHANGED exists

\* The client at address a takes address b; zones stay with the addresses.
Move(a, b) ==
    /\ a \in present /\ b \notin present
    /\ present' = (present \ {a}) \cup {b}

\* What an edit may make of the zones of an address: any class, but a client that was
\* in a zone stays in one, and only such a client falls back to the default zone.
MayBecome(old, new, isPresent) ==
    /\ new \in Class
    /\ new = {} => old = {} \/ ~isPresent
    /\ new = {Default} => old = {Default} \/ (old # {} /\ isPresent)

\* One address is edited, which may be the new one of a client.
Reclassify(a) ==
    /\ zonesOf' = [zonesOf EXCEPT ![a] = zonesOf'[a]]
    /\ MayBecome(zonesOf[a], zonesOf'[a], a \in present')
    /\ UNCHANGED exists
    /\ UNCHANGED present \/ \E old \in Address : Move(old, a)

Found(z) ==
    /\ z # Default
    /\ exists' = exists \cup {z}
    /\ UNCHANGED <<present, zonesOf>>

\* A zone goes; clients that were in no other fall back to the default zone.
Dissolve(z) ==
    /\ z \in exists \ {Default}
    /\ exists' = exists \ {z}
    /\ zonesOf' = [a \in Address |-> IF zonesOf[a] = {z} /\ a \in present THEN {Default}
                                                                       ELSE zonesOf[a] \ {z}]
    /\ UNCHANGED present

Next ==
    \/ \E a \in Address : Enrol(a) \/ Retire(a) \/ Reclassify(a)
    \/ \E z \in Zone : Found(z) \/ Dissolve(z)

Spec == Init /\ [][Next]_vars
===============================================================================
