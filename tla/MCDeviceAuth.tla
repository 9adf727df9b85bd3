------------------------------ MODULE MCDeviceAuth ------------------------------
(***************************************************************************)
(* Model checking instances of DeviceAuth.                                 *)
(***************************************************************************)
EXTENDS DeviceAuth, TLC

\* Users of one group network, and users with a personal network each.
SharedNetwork == [u \in Users |-> "group"]
PersonalNetworks == [u \in Users |-> u]

Symmetry == Permutations(Users) \cup Permutations(Devices)
                \cup Permutations(Tickets) \cup Permutations(Codes)

\* Three scenarios in one instance.  Enrollments and tickets only meet in the set
\* of users.  With tickets, one key is enough, and saves fail while no device has
\* got a name or has lapsed; names are followed while saves succeed and no ticket
\* has lapsed, with one authorisation under way at a time.
Enrolling == Tickets \subseteq unissued
OneKey == \A c \in challenges \cup proofs : c.key = CHOOSE k \in Keys : TRUE
Authorising ==
    /\ persistent
    /\ \A d \in Devices : um.authedDevices[d] # None =>
            um.authedDevices[d].name = None /\ ~um.authedDevices[d].expired
Naming ==
    /\ persistent => um = stored
    /\ lapsed = {} /\ Cardinality(challenges \cup proofs) <= 1
Scenarios ==
    Enrolling \/ (Codes \subseteq unissued /\ OneKey /\ (Authorising \/ Naming))
================================================================================
