------------------------------- MODULE DeviceAuth -------------------------------
(***************************************************************************)
(* Users, device tickets, enrollments and authorised devices: UserManager  *)
(* (control/user.go), its store (control/user_store*.go) and the challenge *)
(* protocol of HandleDeviceAuthPacket and HandleDeviceAuthProofPacket      *)
(* (control/registration.go).                                              *)
(*                                                                         *)
(* Operations run under UserManager.mu and are one action each, save       *)
(* included, except AuthDevice: it validates the ticket under the lock,    *)
(* releases it, and takes it again to write the record.  A save may fail:  *)
(* the operation then reports an error with the memory already changed.    *)
(* The process may stop and restart between any two actions.               *)
(*                                                                         *)
(* One auth group is modelled.  A network key contains the group, so names *)
(* of devices of other groups never meet.                                  *)
(***************************************************************************)
EXTENDS Integers, FiniteSets

CONSTANTS
    Users,
    Devices,
    Keys,           \* device public keys
    Tickets,        \* ids newSecureTicketID may draw
    Codes,          \* enrollment codes
    Bases,          \* display names clients and admins ask for
    NetOf,          \* NewNetworkIdentity: [Users -> network key]
    MaxChallenges,  \* bound on the pending challenges
    SaveResults,    \* outcomes of saves: {TRUE}, or BOOLEAN when they may fail
    JSONStore,      \* the store is the JSON file (otherwise PostgreSQL)
    None

\* <<b, 0>> is the name b itself, <<b, i>> is "b-i".  Each of the other devices
\* holds at most one name, so the search for a free suffix ends in this range.
Names == Bases \X (0..(Cardinality(Devices) - 1))

UMAuthDevice == [user : Users, key : Keys, name : Names \cup {None}, expired : BOOLEAN]

UMSnapshot == [users : SUBSET Users,
               deviceTickets : [Tickets -> Users \cup {None}], usedTickets : SUBSET Tickets,
               enrollments : [Codes -> Users \cup {None}], usedCodes : SUBSET Codes,
               deviceByPubKey : [Keys -> Users \cup {None}],
               authedDevices : [Devices -> UMAuthDevice \cup {None}]]

Challenge == [user : Users, device : Devices, key : Keys, ticket : Tickets]

ASSUME AuthAssumption ==
    /\ DOMAIN NetOf = Users
    /\ IsFiniteSet(Devices)
    /\ MaxChallenges \in Nat
    /\ SaveResults \subseteq BOOLEAN
    /\ JSONStore \in BOOLEAN
    /\ None \notin Users \cup Names \cup UMAuthDevice

VARIABLES
    um,          \* the maps of UserManager
    stored,      \* the snapshot in the store
    persistent,  \* UserManager.store # nil
    unissued,    \* tickets and codes not drawn yet
    lapsed,      \* tickets and codes past their ExpireAt
    challenges,  \* Controller.authChallenges, unexpired
    proofs,      \* AuthDevice calls that have validated their ticket
    authAcks,    \* history: <<ticket, device>> answered with an ok DeviceAuthAck
                 \* by a process that has a store
    bindAcks     \* history: <<code, key>> BindDeviceByEnrollment reported bound

authVars == <<um, stored, persistent, unissued, lapsed, challenges, proofs, authAcks, bindAcks>>

NewUserManager ==
    [users |-> {},
     deviceTickets |-> [t \in Tickets |-> None], usedTickets |-> {},
     enrollments |-> [c \in Codes |-> None], usedCodes |-> {},
     deviceByPubKey |-> [k \in Keys |-> None],
     authedDevices |-> [d \in Devices |-> None]]

AuthInit ==
    /\ um = NewUserManager /\ stored = NewUserManager /\ persistent = TRUE
    /\ unissued = Tickets \cup Codes /\ lapsed = {}
    /\ challenges = {} /\ proofs = {}
    /\ authAcks = {} /\ bindAcks = {}

\* Mutant: with no store to write to, the save creates one.
SaveAlways(m, ok) == um' = m /\ stored' = (IF ok THEN m ELSE stored)

\* An operation has changed the maps to m and calls saveLocked; ok: no error.
Save(m, ok) ==
    /\ um' = m
    /\ persistent \/ ok
    /\ stored' = IF persistent /\ ok THEN m ELSE stored

protocolVars == <<challenges, proofs, authAcks>>
clockVars == <<persistent, unissued, lapsed>>

--------------------------------------------------------------------------------
(* Users, tickets and enrollments *)

CreateUser(u, ok) ==
    /\ u \notin um.users
    /\ Save([um EXCEPT !.users = @ \cup {u}], ok)
    /\ UNCHANGED <<clockVars, protocolVars, bindAcks>>

IssueDeviceTicket(u, t, ok) ==
    /\ u \in um.users /\ t \in unissued
    /\ Save([um EXCEPT !.deviceTickets[t] = u], ok)
    /\ unissued' = unissued \ {t}
    /\ UNCHANGED <<persistent, lapsed, protocolVars, bindAcks>>

CreateEnrollment(u, c, ok) ==
    /\ u \in um.users /\ c \in unissued
    /\ Save([um EXCEPT !.enrollments[c] = u], ok)
    /\ unissued' = unissued \ {c}
    /\ UNCHANGED <<persistent, lapsed, protocolVars, bindAcks>>

\* Mutant: the key is given to the user of the code whoever had it.
BindableAnyKey(c, k) ==
    /\ um.enrollments[c] # None /\ c \notin um.usedCodes \cup lapsed

\* The checks of BindDeviceByEnrollment.
Bindable(c, k) ==
    /\ um.enrollments[c] # None /\ c \notin um.usedCodes \cup lapsed
    /\ um.enrollments[c] \in um.users
    /\ um.deviceByPubKey[k] \in {None, um.enrollments[c]}

\* Mutant: the code is not marked used.
BoundNotUsed(c, k) == [um EXCEPT !.deviceByPubKey[k] = um.enrollments[c]]

Bound(c, k) ==
    [um EXCEPT !.deviceByPubKey[k] = um.enrollments[c], !.usedCodes = @ \cup {c}]

BindDeviceByEnrollment(c, k, ok) ==
    /\ Bindable(c, k)
    /\ Save(Bound(c, k), ok)
    /\ bindAcks' = IF ok THEN bindAcks \cup {<<c, k>>} ELSE bindAcks
    /\ UNCHANGED <<clockVars, protocolVars>>

--------------------------------------------------------------------------------
(* Authorising a device *)

\* Mutant: any ticket that is still good will do.
ValidateDeviceAuthAnyTicket(u, t) ==
    /\ um.deviceTickets[t] # None /\ t \notin um.usedTickets \cup lapsed
    /\ u \in um.users

ValidateDeviceAuth(u, t) ==
    /\ um.deviceTickets[t] # None /\ t \notin um.usedTickets \cup lapsed
    /\ u \in um.users
    /\ um.deviceTickets[t] = u

\* HandleDeviceAuthPacket: a challenge is issued for a request with a good ticket.
DeviceAuth(c) ==
    /\ ValidateDeviceAuth(c.user, c.ticket)
    /\ Cardinality(challenges) < MaxChallenges
    /\ challenges' = challenges \cup {c}
    /\ UNCHANGED <<um, stored, clockVars, proofs, authAcks, bindAcks>>

\* HandleDeviceAuthProofPacket: the challenge is consumed whatever the proof is;
\* with a good one AuthDevice validates the ticket again.
DeviceAuthProof(c, good) ==
    /\ c \in challenges
    /\ challenges' = challenges \ {c}
    /\ proofs' = IF good /\ ValidateDeviceAuth(c.user, c.ticket) THEN proofs \cup {c} ELSE proofs
    /\ UNCHANGED <<um, stored, clockVars, authAcks, bindAcks>>

\* The record written; a device that was authorised before keeps its name.
Authed(c) ==
    LET old == um.authedDevices[c.device]
    IN  [um EXCEPT
            !.authedDevices[c.device] =
                [user |-> c.user, key |-> c.key, expired |-> FALSE,
                 name |-> IF old = None THEN None ELSE old.name],
            !.usedTickets = @ \cup {c.ticket}]

\* Mutant: the error of the save is dropped.
AuthDeviceUnsaved(c, ok) ==
    /\ c \in proofs
    /\ Save(Authed(c), ok)
    /\ proofs' = proofs \ {c}
    /\ authAcks' = IF persistent THEN authAcks \cup {<<c.ticket, c.device>>} ELSE authAcks
    /\ UNCHANGED <<clockVars, challenges, bindAcks>>

\* The second half of AuthDevice, and the answer to the client.
AuthDevice(c, ok) ==
    /\ c \in proofs
    /\ Save(Authed(c), ok)
    /\ proofs' = proofs \ {c}
    /\ authAcks' = IF ok /\ persistent THEN authAcks \cup {<<c.ticket, c.device>>} ELSE authAcks
    /\ UNCHANGED <<clockVars, challenges, bindAcks>>

--------------------------------------------------------------------------------
(* The authorised devices *)

\* displayNameExistsInNetworkLocked: another device of d's network has this name.
NameTaken(d, name) ==
    \E e \in Devices \ {d} :
        /\ um.authedDevices[e] # None
        /\ NetOf[um.authedDevices[e].user] = NetOf[um.authedDevices[d].user]
        /\ um.authedDevices[e].name = name

\* Mutant: the numbering goes on from the number of devices.
UniqueDisplayNameCounted(d, b) ==
    IF ~NameTaken(d, <<b, 0>>) THEN <<b, 0>> ELSE <<b, Cardinality(Devices)>>

UniqueDisplayName(d, b) ==
    LET free == {i \in 0..(Cardinality(Devices) - 1) : ~NameTaken(d, <<b, i>>)}
    IN  <<b, CHOOSE i \in free : \A j \in free : i <= j>>

\* AssignAuthedDeviceDisplayName: a registration names a device that has no name.
AssignDisplayName(d, b, ok) ==
    /\ um.authedDevices[d] # None /\ um.authedDevices[d].name = None
    /\ Save([um EXCEPT !.authedDevices[d].name = UniqueDisplayName(d, b)], ok)
    /\ UNCHANGED <<clockVars, protocolVars, bindAcks>>

\* Mutant: only names of devices of the same user are compared.
RenamableOwn(d, name) ==
    /\ um.authedDevices[d] # None
    /\ ~\E e \in Devices \ {d} :
          /\ um.authedDevices[e] # None
          /\ um.authedDevices[e].user = um.authedDevices[d].user
          /\ um.authedDevices[e].name = name

Renamable(d, name) == um.authedDevices[d] # None /\ ~NameTaken(d, name)

\* SetAuthedDeviceDisplayName (asked by the device) and RenameAuthedDevice (by an admin).
RenameDevice(d, name, ok) ==
    /\ Renamable(d, name)
    /\ Save([um EXCEPT !.authedDevices[d].name = name], ok)
    /\ UNCHANGED <<clockVars, protocolVars, bindAcks>>

\* One device of user u, or all of them.
ExtendAuthedDeviceExpiry(u, matches, ok) ==
    LET own == {d \in Devices : um.authedDevices[d] # None /\ um.authedDevices[d].user = u}
    IN  /\ matches # {} /\ matches \subseteq own
        /\ matches = own \/ Cardinality(matches) = 1
        /\ Save([um EXCEPT !.authedDevices = [d \in Devices |->
                    IF d \in matches THEN [@[d] EXCEPT !.expired = FALSE] ELSE @[d]]], ok)
        /\ UNCHANGED <<clockVars, protocolVars, bindAcks>>

DeleteAuthedDevice(d, ok) ==
    /\ um.authedDevices[d] # None
    /\ Save([um EXCEPT !.authedDevices[d] = None], ok)
    /\ UNCHANGED <<clockVars, protocolVars, bindAcks>>

--------------------------------------------------------------------------------
(* Time, and the process *)

TicketExpires(x) ==
    /\ x \notin unissued \cup lapsed
    /\ lapsed' = lapsed \cup {x}
    /\ UNCHANGED <<um, stored, persistent, unissued, protocolVars, bindAcks>>

\* A challenge past its ExpireAt is refused and removed.
ChallengeExpires(c) ==
    /\ c \in challenges
    /\ challenges' = challenges \ {c}
    /\ UNCHANGED <<um, stored, clockVars, proofs, authAcks, bindAcks>>

\* The AuthExpireAt of d passes, in memory and in the store when the record is
\* the same, otherwise in either of them first.
AuthorisationExpires(d, where) ==
    LET live == {m \in {"um", "stored"} :
                    LET r == (IF m = "um" THEN um ELSE stored).authedDevices[d]
                    IN  r # None /\ ~r.expired}
    IN  /\ where # {} /\ where \subseteq live
        /\ um.authedDevices[d] = stored.authedDevices[d] => where = live
        /\ um' = IF "um" \in where THEN [um EXCEPT !.authedDevices[d].expired = TRUE] ELSE um
        /\ stored' = IF "stored" \in where
                     THEN [stored EXCEPT !.authedDevices[d].expired = TRUE] ELSE stored
        /\ UNCHANGED <<clockVars, protocolVars, bindAcks>>

\* The process restarts.  When the JSON file cannot be loaded, it goes on with
\* an empty UserManager that has no store; with PostgreSQL it does not start.
Restart(loaded) ==
    /\ loaded \/ JSONStore
    /\ um' = IF loaded THEN stored ELSE NewUserManager
    /\ persistent' = loaded
    /\ challenges' = {} /\ proofs' = {}
    /\ UNCHANGED <<stored, unissued, lapsed, authAcks, bindAcks>>

AuthNext ==
    \/ \E ok \in SaveResults :
        \/ \E u \in Users : CreateUser(u, ok)
        \/ \E u \in Users, t \in Tickets : IssueDeviceTicket(u, t, ok)
        \/ \E u \in Users, c \in Codes : CreateEnrollment(u, c, ok)
        \/ \E c \in Codes, k \in Keys : BindDeviceByEnrollment(c, k, ok)
        \/ \E c \in proofs : AuthDevice(c, ok)
        \/ \E d \in Devices, b \in Bases : AssignDisplayName(d, b, ok)
        \/ \E d \in Devices, name \in Names : RenameDevice(d, name, ok)
        \/ \E u \in Users, matches \in SUBSET Devices : ExtendAuthedDeviceExpiry(u, matches, ok)
        \/ \E d \in Devices : DeleteAuthedDevice(d, ok)
    \/ \E c \in Challenge : DeviceAuth(c)
    \/ \E loaded \in BOOLEAN : Restart(loaded)
    \/ \E c \in challenges, good \in BOOLEAN : DeviceAuthProof(c, good)
    \/ \E x \in Tickets \cup Codes : TicketExpires(x)
    \/ \E c \in challenges : ChallengeExpires(c)
    \/ \E d \in Devices, where \in SUBSET {"um", "stored"} : AuthorisationExpires(d, where)

AuthSpec == AuthInit /\ [][AuthNext]_authVars

--------------------------------------------------------------------------------
(* Properties *)

\* The maps in memory and in the store have the shape the code gives them; in
\* particular the numbering of display names never runs away.
AuthTypeOK ==
    /\ um \in UMSnapshot /\ stored \in UMSnapshot
    /\ persistent \in BOOLEAN
    /\ unissued \subseteq Tickets \cup Codes /\ lapsed \subseteq Tickets \cup Codes
    /\ challenges \subseteq Challenge /\ proofs \subseteq Challenge
    /\ authAcks \subseteq Tickets \X Devices /\ bindAcks \subseteq Codes \X Keys

\* A device is authorised for a user only through a ticket issued to that user
\* and spent on it, in memory and in what a restart would load, whatever saves
\* failed and whatever happened between the check of a ticket and its use
\* (ValidateDeviceAuth, AuthDevice).
AuthorisedByTicket ==
    \A m \in {um, stored}, d \in Devices :
        m.authedDevices[d] # None =>
            \E t \in m.usedTickets : m.deviceTickets[t] = m.authedDevices[d].user

\* A ticket with which the client was told that its device is authorised stays
\* spent, in the store and in every process that could load it: the answer is
\* sent after the save.
AckedTicketSpent ==
    \A ack \in authAcks :
        ack[1] \in stored.usedTickets /\ (persistent => ack[1] \in um.usedTickets)

\* An enrollment code binds one key at most, and a restart that loses a binding
\* that was reported failed, or runs without the store, does not change that.
EnrollmentSingleUse ==
    \A a, b \in bindAcks : a[1] = b[1] => a[2] = b[2]

\* Where the store is in use, a key bound to a user never becomes the key of
\* another user, not even by the restart after failed saves ("device key already
\* bound to another user").
KeyNeverRebound ==
    [][persistent /\ persistent' =>
        \A k \in Keys : {um.deviceByPubKey[k], um'.deviceByPubKey[k]} \subseteq Users
                            => um.deviceByPubKey[k] = um'.deviceByPubKey[k]]_authVars

\* A process that could not load the JSON file leaves what is in it to the next
\* one: the empty state it starts from never overwrites the users and devices.
UnreadStoreKept ==
    [][~persistent => stored'.users = stored.users /\ stored'.usedTickets = stored.usedTickets
          /\ \A d \in Devices : stored'.authedDevices[d] = None
                                    <=> stored.authedDevices[d] = None]_authVars

\* Two devices of a network never have the same display name.
DisplayNamesUnique ==
    \A d, e \in Devices :
        LET a == um.authedDevices[d]
            b == um.authedDevices[e]
            together == a # None /\ b # None /\ NetOf[a.user] = NetOf[b.user]
        IN  d # e /\ together /\ a.name # None => a.name # b.name

\* A ticket authorises one device ("ticket already used").
TicketSingleUse ==
    \A a, b \in authAcks : a[1] = b[1] => a[2] = b[2]
================================================================================
