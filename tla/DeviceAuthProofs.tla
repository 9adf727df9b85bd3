---------------------------- MODULE DeviceAuthProofs ----------------------------
(***************************************************************************)
(* Theorems about DeviceAuth, for any users, devices, keys, tickets, codes *)
(* and names, and for either store.                                        *)
(***************************************************************************)
EXTENDS DeviceAuth, FiniteSetTheorems, NaturalsInduction, TLAPS

\* Every device of the snapshot m was authorised with a ticket of its user.
Authorised(m) ==
    \A d \in Devices : m.authedDevices[d] # None =>
        \E t \in m.usedTickets : m.deviceTickets[t] = m.authedDevices[d].user

\* A ticket or a code that was not drawn is in no map, and the ticket of a request
\* under way is one of its user.
TicketsIssued ==
    /\ \A t \in Tickets : t \in unissued =>
          um.deviceTickets[t] = None /\ stored.deviceTickets[t] = None
    /\ \A c \in Codes : c \in unissued =>
          um.enrollments[c] = None /\ stored.enrollments[c] = None
    /\ \A c \in challenges \cup proofs : um.deviceTickets[c.ticket] = c.user

\* A code with which a key was bound can bind no other one: it is used, or it was
\* made by a process without a store and is unknown.
CodesSpent ==
    /\ \A a \in bindAcks :
          /\ a[1] \notin unissued
          /\ um.enrollments[a[1]] = None \/ a[1] \in um.usedCodes
          /\ stored.enrollments[a[1]] = None \/ a[1] \in stored.usedCodes
    /\ ~persistent => \A c \in Codes : um.enrollments[c] # None => stored.enrollments[c] = None

\* A restart brings no key to another user.
KeysKept ==
    persistent => \A k \in Keys : stored.deviceByPubKey[k] # None =>
                      um.deviceByPubKey[k] = stored.deviceByPubKey[k]

\* The inductive invariant.
AuthInv ==
    /\ AuthTypeOK /\ Authorised(um) /\ Authorised(stored) /\ TicketsIssued
    /\ AckedTicketSpent /\ CodesSpent /\ EnrollmentSingleUse /\ KeysKept

\* What a step does to keys, and to a store that was not read.
KeyStep ==
    persistent /\ persistent' =>
        \A k \in Keys : {um.deviceByPubKey[k], um'.deviceByPubKey[k]} \subseteq Users
                            => um.deviceByPubKey[k] = um'.deviceByPubKey[k]
UnreadStep ==
    ~persistent => /\ stored'.users = stored.users /\ stored'.usedTickets = stored.usedTickets
                   /\ \A d \in Devices : stored'.authedDevices[d] = None
                                            <=> stored.authedDevices[d] = None
StepOK == AuthInv' /\ KeyStep /\ UnreadStep

\* What the operations have in common: they add to the maps.
Grows(m) ==
    /\ \A t \in Tickets : m.deviceTickets[t] = um.deviceTickets[t] \/ t \in unissued
    /\ um.usedTickets \subseteq m.usedTickets
    /\ \A c \in Codes : m.enrollments[c] = um.enrollments[c] \/ c \in unissued
    /\ um.usedCodes \subseteq m.usedCodes
    /\ \A k \in Keys : um.deviceByPubKey[k] # None => m.deviceByPubKey[k] = um.deviceByPubKey[k]

\* NotNone: None is no user and no record.
LEMMA NotNone == None \notin Users /\ None \notin UMAuthDevice /\ None \notin Names
BY AuthAssumption

\* SnapshotTypes: the maps of a snapshot.
LEMMA SnapshotTypes ==
    ASSUME NEW m \in UMSnapshot
    PROVE  /\ m.users \subseteq Users /\ m.usedTickets \subseteq Tickets /\ m.usedCodes \subseteq Codes
           /\ m.deviceTickets \in [Tickets -> Users \cup {None}]
           /\ m.enrollments \in [Codes -> Users \cup {None}]
           /\ m.deviceByPubKey \in [Keys -> Users \cup {None}]
           /\ m.authedDevices \in [Devices -> UMAuthDevice \cup {None}]
BY DEF UMSnapshot

\* AuthInitInv: the invariant holds at the first start.
LEMMA AuthInitInv == AuthInit => AuthInv
<1> SUFFICES ASSUME AuthInit PROVE AuthInv
  OBVIOUS
<1> DEFINE m == NewUserManager
<1>1. /\ m.users = {} /\ m.usedTickets = {} /\ m.usedCodes = {}
      /\ m.deviceTickets = [t \in Tickets |-> None] /\ m.enrollments = [c \in Codes |-> None]
      /\ m.deviceByPubKey = [k \in Keys |-> None] /\ m.authedDevices = [d \in Devices |-> None]
      /\ m \in UMSnapshot
  BY DEF NewUserManager, UMSnapshot
<1> HIDE DEF m
<1>2. /\ um = m /\ stored = m /\ persistent = TRUE /\ unissued = Tickets \cup Codes /\ lapsed = {}
      /\ challenges = {} /\ proofs = {} /\ authAcks = {} /\ bindAcks = {}
  BY DEF AuthInit, m
<1>3. AuthTypeOK
  BY <1>1, <1>2 DEF AuthTypeOK
<1>4. Authorised(um) /\ Authorised(stored)
  BY <1>1, <1>2 DEF Authorised
<1>5. TicketsIssued /\ AckedTicketSpent /\ CodesSpent /\ EnrollmentSingleUse /\ KeysKept
  BY <1>1, <1>2 DEF TicketsIssued, AckedTicketSpent, CodesSpent, EnrollmentSingleUse, KeysKept
<1> QED
  BY <1>3, <1>4, <1>5 DEF AuthInv

--------------------------------------------------------------------------------
(* Operations that end with a save *)

\* Saved: the maps grow to m, and m is saved or the save fails.
LEMMA Saved ==
    ASSUME AuthInv, NEW m \in UMSnapshot, NEW ok \in BOOLEAN, Save(m, ok),
           UNCHANGED <<persistent, lapsed>>, Authorised(m), Grows(m), unissued' \subseteq unissued,
           \A t \in Tickets : t \in unissued' => m.deviceTickets[t] = None,
           \A c \in Codes : c \in unissued' => m.enrollments[c] = None,
           challenges' \subseteq challenges, proofs' \subseteq proofs
    PROVE  /\ um' = m /\ stored' \in UMSnapshot
           /\ persistent /\ ok => stored' = m
           /\ ~persistent => stored' = stored
           /\ Authorised(um)' /\ Authorised(stored)' /\ TicketsIssued' /\ KeysKept'
           /\ authAcks' = authAcks => AckedTicketSpent'
           /\ bindAcks' = bindAcks => CodesSpent' /\ EnrollmentSingleUse'
           /\ authAcks' \subseteq Tickets \X Devices /\ bindAcks' \subseteq Codes \X Keys => AuthTypeOK'
           /\ KeyStep /\ UnreadStep
<1>1. /\ AuthTypeOK /\ Authorised(um) /\ Authorised(stored) /\ TicketsIssued
      /\ AckedTicketSpent /\ CodesSpent /\ EnrollmentSingleUse /\ KeysKept
  BY DEF AuthInv
<1>2. /\ um \in UMSnapshot /\ stored \in UMSnapshot /\ persistent \in BOOLEAN
      /\ challenges \subseteq Challenge /\ proofs \subseteq Challenge /\ bindAcks \subseteq Codes \X Keys
      /\ unissued \subseteq Tickets \cup Codes /\ lapsed \subseteq Tickets \cup Codes
  BY <1>1 DEF AuthTypeOK
<1>3. um' = m /\ (stored' = m \/ stored' = stored)
  BY DEF Save
<1>4. (persistent /\ ok => stored' = m) /\ (~persistent => stored' = stored)
  BY DEF Save
<1>5. um' \in UMSnapshot /\ stored' \in UMSnapshot
  BY <1>2, <1>3
<1>6. Authorised(um)' /\ Authorised(stored)'
  BY <1>1, <1>3 DEF Authorised
<1>7. TicketsIssued'
  <2>1. \A t \in Tickets : t \in unissued' => um'.deviceTickets[t] = None /\ stored'.deviceTickets[t] = None
    BY <1>1, <1>3 DEF TicketsIssued
  <2>2. \A c \in Codes : c \in unissued' => um'.enrollments[c] = None /\ stored'.enrollments[c] = None
    BY <1>1, <1>3 DEF TicketsIssued
  <2>3. ASSUME NEW c \in challenges' \cup proofs' PROVE um'.deviceTickets[c.ticket] = c.user
    <3>1. c.ticket \in Tickets /\ c.user \in Users /\ um.deviceTickets[c.ticket] = c.user
      BY <1>1, <1>2, <2>3 DEF TicketsIssued, Challenge
    <3>2. c.ticket \notin unissued
      BY <1>1, <3>1, NotNone DEF TicketsIssued
    <3> QED
      BY <1>3, <3>1, <3>2 DEF Grows
  <2> QED
    BY <2>1, <2>2, <2>3 DEF TicketsIssued
<1>8. KeysKept'
  BY <1>1, <1>3 DEF KeysKept, Grows
<1>9. ASSUME authAcks' = authAcks PROVE AckedTicketSpent'
  BY <1>1, <1>3, <1>4, <1>9 DEF AckedTicketSpent, Grows
<1>10. ASSUME bindAcks' = bindAcks PROVE CodesSpent' /\ EnrollmentSingleUse'
  <2>1. ASSUME NEW a \in bindAcks
        PROVE  /\ a[1] \notin unissued'
               /\ um'.enrollments[a[1]] = None \/ a[1] \in um'.usedCodes
               /\ stored'.enrollments[a[1]] = None \/ a[1] \in stored'.usedCodes
    <3>1. a[1] \in Codes /\ a[1] \notin unissued
      BY <1>1, <1>2, <2>1 DEF CodesSpent
    <3>2. m.enrollments[a[1]] = None \/ a[1] \in m.usedCodes
      BY <1>1, <2>1, <3>1 DEF CodesSpent, Grows
    <3> QED
      BY <1>1, <1>3, <2>1, <3>1, <3>2 DEF CodesSpent
  <2>2. ~persistent => \A c \in Codes : um'.enrollments[c] # None => stored'.enrollments[c] = None
    BY <1>1, <1>3, <1>4 DEF CodesSpent, TicketsIssued, Grows
  <2>3. EnrollmentSingleUse'
    BY <1>1, <1>10 DEF EnrollmentSingleUse
  <2> QED
    BY <1>10, <2>1, <2>2, <2>3 DEF CodesSpent
<1>11. authAcks' \subseteq Tickets \X Devices /\ bindAcks' \subseteq Codes \X Keys => AuthTypeOK'
  BY <1>2, <1>5 DEF AuthTypeOK
<1>12. KeyStep /\ UnreadStep
  BY <1>3, <1>4, NotNone DEF KeyStep, UnreadStep, Grows
<1> QED
  BY <1>3, <1>4, <1>5, <1>6, <1>7, <1>8, <1>9, <1>10, <1>11, <1>12

\* SavedQuietly: an operation that answers nothing and ends with a save.
LEMMA SavedQuietly ==
    ASSUME AuthInv, NEW m \in UMSnapshot, NEW ok \in BOOLEAN, Save(m, ok),
           UNCHANGED <<persistent, lapsed, protocolVars, bindAcks>>,
           Authorised(m), Grows(m), unissued' \subseteq unissued,
           \A t \in Tickets : t \in unissued' => m.deviceTickets[t] = None,
           \A c \in Codes : c \in unissued' => m.enrollments[c] = None
    PROVE  StepOK
<1>1. /\ UNCHANGED <<persistent, lapsed>> /\ challenges' \subseteq challenges /\ proofs' \subseteq proofs
      /\ authAcks' = authAcks /\ bindAcks' = bindAcks
  BY DEF protocolVars
<1>2. authAcks' \subseteq Tickets \X Devices /\ bindAcks' \subseteq Codes \X Keys
  BY <1>1 DEF AuthInv, AuthTypeOK
<1>3. /\ Authorised(um)' /\ Authorised(stored)' /\ TicketsIssued' /\ KeysKept'
      /\ authAcks' = authAcks => AckedTicketSpent'
      /\ bindAcks' = bindAcks => CodesSpent' /\ EnrollmentSingleUse'
      /\ authAcks' \subseteq Tickets \X Devices /\ bindAcks' \subseteq Codes \X Keys => AuthTypeOK'
      /\ KeyStep /\ UnreadStep
  BY <1>1, Saved
<1> QED
  BY <1>1, <1>2, <1>3 DEF StepOK, AuthInv

\* CreateUserKeeps: a user is added.
LEMMA CreateUserKeeps ==
    ASSUME AuthInv, NEW u \in Users, NEW ok \in BOOLEAN, CreateUser(u, ok)
    PROVE  StepOK
<1>1. um \in UMSnapshot /\ Authorised(um) /\ TicketsIssued
  BY DEF AuthInv, AuthTypeOK
<1> DEFINE m == [um EXCEPT !.users = @ \cup {u}]
<1>2. /\ m \in UMSnapshot
      /\ m.deviceTickets = um.deviceTickets /\ m.usedTickets = um.usedTickets
      /\ m.enrollments = um.enrollments /\ m.usedCodes = um.usedCodes
      /\ m.deviceByPubKey = um.deviceByPubKey /\ m.authedDevices = um.authedDevices
  BY <1>1 DEF UMSnapshot
<1>3. Save(m, ok) /\ UNCHANGED <<clockVars, protocolVars, bindAcks>>
  BY DEF CreateUser
<1> HIDE DEF m
<1>4. Authorised(m) /\ Grows(m)
  BY <1>1, <1>2 DEF Authorised, Grows
<1>5. /\ \A t \in Tickets : t \in unissued' => m.deviceTickets[t] = None
      /\ \A c \in Codes : c \in unissued' => m.enrollments[c] = None
  BY <1>1, <1>2, <1>3 DEF TicketsIssued, clockVars
<1>6. unissued' \subseteq unissued /\ UNCHANGED <<persistent, lapsed, protocolVars, bindAcks>>
  BY <1>3 DEF clockVars
<1> QED
  BY <1>2, <1>3, <1>4, <1>5, <1>6, SavedQuietly

\* IssueTicketKeeps: a ticket is drawn.
LEMMA IssueTicketKeeps ==
    ASSUME AuthInv, NEW u \in Users, NEW t \in Tickets, NEW ok \in BOOLEAN,
           IssueDeviceTicket(u, t, ok)
    PROVE  StepOK
<1>1. um \in UMSnapshot /\ Authorised(um) /\ TicketsIssued
  BY DEF AuthInv, AuthTypeOK
<1> DEFINE m == [um EXCEPT !.deviceTickets[t] = u]
<1>2. /\ m.deviceTickets = [um.deviceTickets EXCEPT ![t] = u] /\ m.usedTickets = um.usedTickets
      /\ m.enrollments = um.enrollments /\ m.usedCodes = um.usedCodes /\ m.users = um.users
      /\ m.deviceByPubKey = um.deviceByPubKey /\ m.authedDevices = um.authedDevices
  BY <1>1 DEF UMSnapshot
<1>3. m \in UMSnapshot
  BY <1>1 DEF UMSnapshot
<1>4. /\ Save(m, ok) /\ t \in unissued /\ unissued' = unissued \ {t}
      /\ UNCHANGED <<persistent, lapsed, protocolVars, bindAcks>>
  BY DEF IssueDeviceTicket
<1> HIDE DEF m
<1>5. \A s \in Tickets \ {t} : m.deviceTickets[s] = um.deviceTickets[s]
  BY <1>1, <1>2, SnapshotTypes
<1>6. Authorised(m)
  <2>1. um.usedTickets \subseteq Tickets /\ um.deviceTickets[t] = None
    BY <1>1, <1>4, SnapshotTypes DEF TicketsIssued
  <2>2. \A d \in Devices : um.authedDevices[d] # None => um.authedDevices[d].user \in Users
    BY <1>1, SnapshotTypes DEF UMAuthDevice
  <2> QED
    BY <1>1, <1>2, <1>5, <2>1, <2>2, NotNone DEF Authorised
<1>7. Grows(m)
  BY <1>2, <1>4, <1>5 DEF Grows
<1>8. /\ \A s \in Tickets : s \in unissued' => m.deviceTickets[s] = None
      /\ \A c \in Codes : c \in unissued' => m.enrollments[c] = None
  BY <1>1, <1>2, <1>4, <1>5 DEF TicketsIssued
<1> QED
  BY <1>3, <1>4, <1>6, <1>7, <1>8, SavedQuietly

\* CreateEnrollmentKeeps: a code is drawn.
LEMMA CreateEnrollmentKeeps ==
    ASSUME AuthInv, NEW u \in Users, NEW c \in Codes, NEW ok \in BOOLEAN,
           CreateEnrollment(u, c, ok)
    PROVE  StepOK
<1>1. um \in UMSnapshot /\ Authorised(um) /\ TicketsIssued
  BY DEF AuthInv, AuthTypeOK
<1> DEFINE m == [um EXCEPT !.enrollments[c] = u]
<1>2. /\ m.deviceTickets = um.deviceTickets /\ m.usedTickets = um.usedTickets
      /\ m.enrollments = [um.enrollments EXCEPT ![c] = u] /\ m.usedCodes = um.usedCodes
      /\ m.deviceByPubKey = um.deviceByPubKey /\ m.authedDevices = um.authedDevices
  BY <1>1 DEF UMSnapshot
<1>3. m \in UMSnapshot
  BY <1>1 DEF UMSnapshot
<1>4. /\ Save(m, ok) /\ c \in unissued /\ unissued' = unissued \ {c}
      /\ UNCHANGED <<persistent, lapsed, protocolVars, bindAcks>>
  BY DEF CreateEnrollment
<1> HIDE DEF m
<1>5. \A e \in Codes \ {c} : m.enrollments[e] = um.enrollments[e]
  BY <1>1, <1>2, SnapshotTypes
<1>6. Authorised(m)
  BY <1>1, <1>2 DEF Authorised
<1>7. Grows(m)
  BY <1>2, <1>4, <1>5 DEF Grows
<1>8. /\ \A t \in Tickets : t \in unissued' => m.deviceTickets[t] = None
      /\ \A e \in Codes : e \in unissued' => m.enrollments[e] = None
  BY <1>1, <1>2, <1>4, <1>5 DEF TicketsIssued
<1> QED
  BY <1>3, <1>4, <1>6, <1>7, <1>8, SavedQuietly

\* BindKeeps: a key is bound with a code, which must not have been used.
LEMMA BindKeeps ==
    ASSUME AuthInv, NEW c \in Codes, NEW k \in Keys, NEW ok \in BOOLEAN,
           BindDeviceByEnrollment(c, k, ok)
    PROVE  StepOK
<1>1. /\ um \in UMSnapshot /\ Authorised(um) /\ TicketsIssued /\ CodesSpent /\ EnrollmentSingleUse
      /\ authAcks \subseteq Tickets \X Devices /\ bindAcks \subseteq Codes \X Keys
  BY DEF AuthInv, AuthTypeOK
<1> DEFINE m == Bound(c, k)
<1>2. /\ m.deviceTickets = um.deviceTickets /\ m.usedTickets = um.usedTickets
      /\ m.enrollments = um.enrollments /\ m.usedCodes = um.usedCodes \cup {c}
      /\ m.deviceByPubKey = [um.deviceByPubKey EXCEPT ![k] = um.enrollments[c]]
      /\ m.authedDevices = um.authedDevices
  BY <1>1 DEF UMSnapshot, Bound
<1>3. m \in UMSnapshot
  BY <1>1, Zenon DEF UMSnapshot, Bound
<1>4. Save(m, ok) /\ UNCHANGED <<clockVars, protocolVars>> /\ Bindable(c, k)
  BY DEF BindDeviceByEnrollment
<1>5. bindAcks' = IF ok THEN bindAcks \cup {<<c, k>>} ELSE bindAcks
  BY DEF BindDeviceByEnrollment
<1> HIDE DEF m
<1>6. Authorised(m)
  BY <1>1, <1>2 DEF Authorised
<1>7. Grows(m)
  <2>1. \A j \in Keys : um.deviceByPubKey[j] # None => m.deviceByPubKey[j] = um.deviceByPubKey[j]
    BY <1>1, <1>2, <1>4, SnapshotTypes DEF Bindable
  <2> QED
    BY <1>2, <2>1 DEF Grows
<1>8. /\ UNCHANGED <<persistent, lapsed>> /\ unissued' = unissued /\ authAcks' = authAcks
      /\ challenges' = challenges /\ proofs' = proofs
  BY <1>4 DEF clockVars, protocolVars
<1>9. /\ \A t \in Tickets : t \in unissued' => m.deviceTickets[t] = None
      /\ \A e \in Codes : e \in unissued' => m.enrollments[e] = None
  BY <1>1, <1>2, <1>8 DEF TicketsIssued
<1>10. /\ um' = m
       /\ persistent /\ ok => stored' = m
       /\ ~persistent => stored' = stored
       /\ Authorised(um)' /\ Authorised(stored)' /\ TicketsIssued' /\ KeysKept' /\ AckedTicketSpent'
       /\ bindAcks' = bindAcks => CodesSpent' /\ EnrollmentSingleUse'
       /\ authAcks' \subseteq Tickets \X Devices /\ bindAcks' \subseteq Codes \X Keys => AuthTypeOK'
       /\ KeyStep /\ UnreadStep
  BY <1>3, <1>4, <1>6, <1>7, <1>8, <1>9, Saved
<1>11. AuthTypeOK'
  BY <1>1, <1>5, <1>8, <1>10
<1>12. CASE ~ok
  BY <1>5, <1>10, <1>11, <1>12 DEF StepOK, AuthInv
<1>13. CASE ok
  <2>1. \A a \in bindAcks : a[1] # c
    BY <1>1, <1>4 DEF CodesSpent, Bindable
  <2>2. EnrollmentSingleUse'
    BY <1>1, <1>5, <2>1 DEF EnrollmentSingleUse
  <2>3. \A a \in bindAcks : /\ a[1] \notin unissued'
                            /\ um'.enrollments[a[1]] = None \/ a[1] \in um'.usedCodes
                            /\ stored'.enrollments[a[1]] = None \/ a[1] \in stored'.usedCodes
    BY <1>1, <1>2, <1>8, <1>10, <1>13 DEF CodesSpent, AuthInv, AuthTypeOK
  <2>4. /\ c \notin unissued' /\ c \in um'.usedCodes
        /\ stored'.enrollments[c] = None \/ c \in stored'.usedCodes
    <3>1. c \notin unissued
      BY <1>1, <1>4 DEF TicketsIssued, Bindable
    <3>2. ~persistent => stored.enrollments[c] = None
      BY <1>1, <1>4 DEF CodesSpent, Bindable
    <3>3. persistent \in BOOLEAN
      BY DEF AuthInv, AuthTypeOK
    <3> QED
      BY <1>2, <1>8, <1>10, <1>13, <3>1, <3>2, <3>3
  <2>5. ~persistent' => \A e \in Codes : um'.enrollments[e] # None => stored'.enrollments[e] = None
    BY <1>1, <1>2, <1>8, <1>10 DEF CodesSpent
  <2>6. CodesSpent'
    BY <1>5, <1>13, <2>3, <2>4, <2>5 DEF CodesSpent
  <2> QED
    BY <1>10, <1>11, <2>2, <2>6 DEF StepOK, AuthInv
<1> QED
  BY <1>12, <1>13

\* AuthDeviceKeeps: the record is written with a ticket of its user, although the
\* ticket was checked in an earlier step.
LEMMA AuthDeviceKeeps ==
    ASSUME AuthInv, NEW c \in proofs, NEW ok \in BOOLEAN, AuthDevice(c, ok)
    PROVE  StepOK
<1>1. /\ um \in UMSnapshot /\ Authorised(um) /\ TicketsIssued /\ AckedTicketSpent
      /\ authAcks \subseteq Tickets \X Devices /\ bindAcks \subseteq Codes \X Keys
      /\ proofs \subseteq Challenge
  BY DEF AuthInv, AuthTypeOK
<1>2. /\ c.user \in Users /\ c.device \in Devices /\ c.key \in Keys /\ c.ticket \in Tickets
      /\ um.deviceTickets[c.ticket] = c.user
  BY <1>1 DEF Challenge, TicketsIssued
<1> DEFINE old == um.authedDevices[c.device]
           rec == [user |-> c.user, key |-> c.key, expired |-> FALSE,
                   name |-> IF old = None THEN None ELSE old.name]
           m == Authed(c)
<1>3. rec \in UMAuthDevice /\ rec.user = c.user
  <2>1. old = None \/ old.name \in Names \cup {None}
    BY <1>1, <1>2, SnapshotTypes DEF UMAuthDevice
  <2> QED
    BY <1>2, <2>1 DEF UMAuthDevice
<1>4. m = [um EXCEPT !.authedDevices[c.device] = rec, !.usedTickets = @ \cup {c.ticket}]
  BY DEF Authed
<1> HIDE DEF rec, m
<1>5. /\ m.deviceTickets = um.deviceTickets /\ m.usedTickets = um.usedTickets \cup {c.ticket}
      /\ m.enrollments = um.enrollments /\ m.usedCodes = um.usedCodes
      /\ m.deviceByPubKey = um.deviceByPubKey
      /\ m.authedDevices = [um.authedDevices EXCEPT ![c.device] = rec]
  BY <1>1, <1>4 DEF UMSnapshot
<1>6. m \in UMSnapshot
  BY <1>1, <1>2, <1>3, <1>4, Zenon DEF UMSnapshot
<1>7. /\ Save(m, ok) /\ UNCHANGED <<clockVars, challenges, bindAcks>> /\ proofs' = proofs \ {c}
      /\ authAcks' = IF ok /\ persistent THEN authAcks \cup {<<c.ticket, c.device>>} ELSE authAcks
  BY DEF AuthDevice, m
<1>8. Authorised(m)
  <2>1. \A d \in Devices : m.authedDevices[d] = IF d = c.device THEN rec ELSE um.authedDevices[d]
    BY <1>1, <1>5, SnapshotTypes
  <2> QED
    BY <1>1, <1>2, <1>3, <1>5, <2>1 DEF Authorised
<1>9. Grows(m)
  BY <1>5 DEF Grows
<1>10. /\ UNCHANGED <<persistent, lapsed>> /\ unissued' = unissued /\ bindAcks' = bindAcks
       /\ challenges' = challenges /\ proofs' \subseteq proofs
  BY <1>7 DEF clockVars
<1>11. /\ \A t \in Tickets : t \in unissued' => m.deviceTickets[t] = None
       /\ \A e \in Codes : e \in unissued' => m.enrollments[e] = None
  BY <1>1, <1>5, <1>10 DEF TicketsIssued
<1>12. /\ um' = m
       /\ persistent /\ ok => stored' = m
       /\ Authorised(um)' /\ Authorised(stored)' /\ TicketsIssued' /\ KeysKept'
       /\ authAcks' = authAcks => AckedTicketSpent'
       /\ CodesSpent' /\ EnrollmentSingleUse'
       /\ authAcks' \subseteq Tickets \X Devices /\ bindAcks' \subseteq Codes \X Keys => AuthTypeOK'
       /\ KeyStep /\ UnreadStep
  BY <1>6, <1>7, <1>8, <1>9, <1>10, <1>11, Saved
<1>13. AuthTypeOK'
  <2>1. <<c.ticket, c.device>> \in Tickets \X Devices
    BY <1>2
  <2>2. authAcks' \subseteq Tickets \X Devices
    BY <1>1, <1>7, <2>1
  <2> QED
    BY <1>1, <1>10, <1>12, <2>2
<1>14. AckedTicketSpent'
  <2>1. CASE ok /\ persistent
    <3>1. um'.usedTickets = um.usedTickets \cup {c.ticket} /\ stored'.usedTickets = um'.usedTickets
      BY <1>5, <1>12, <2>1
    <3>2. authAcks' = authAcks \cup {<<c.ticket, c.device>>}
      BY <1>7, <2>1
    <3>3. \A a \in authAcks : a[1] \in um.usedTickets
      BY <1>1, <2>1 DEF AckedTicketSpent
    <3> QED
      BY <3>1, <3>2, <3>3 DEF AckedTicketSpent
  <2>2. CASE ~(ok /\ persistent)
    BY <1>7, <1>12, <2>2
  <2> QED
    BY <2>1, <2>2
<1> QED
  BY <1>12, <1>13, <1>14 DEF StepOK, AuthInv

--------------------------------------------------------------------------------
(* Authorised devices *)

\* DevicesKeep: an operation that changes records, and the user of none.
LEMMA DevicesKeep ==
    ASSUME AuthInv, NEW ok \in BOOLEAN, NEW f \in [Devices -> UMAuthDevice \cup {None}],
           \A d \in Devices : f[d] # None =>
              um.authedDevices[d] # None /\ f[d].user = um.authedDevices[d].user,
           Save([um EXCEPT !.authedDevices = f], ok),
           UNCHANGED <<clockVars, protocolVars, bindAcks>>
    PROVE  StepOK
<1>1. um \in UMSnapshot /\ Authorised(um) /\ TicketsIssued
  BY DEF AuthInv, AuthTypeOK
<1> DEFINE m == [um EXCEPT !.authedDevices = f]
<1>2. /\ m \in UMSnapshot
      /\ m.deviceTickets = um.deviceTickets /\ m.usedTickets = um.usedTickets
      /\ m.enrollments = um.enrollments /\ m.usedCodes = um.usedCodes
      /\ m.deviceByPubKey = um.deviceByPubKey /\ m.authedDevices = f
  BY <1>1 DEF UMSnapshot
<1>3. Save(m, ok)
  OBVIOUS
<1> HIDE DEF m
<1>4. Authorised(m) /\ Grows(m)
  BY <1>1, <1>2 DEF Authorised, Grows
<1>5. unissued' \subseteq unissued /\ UNCHANGED <<persistent, lapsed, protocolVars, bindAcks>>
  BY DEF clockVars
<1>6. /\ \A t \in Tickets : t \in unissued' => m.deviceTickets[t] = None
      /\ \A c \in Codes : c \in unissued' => m.enrollments[c] = None
  BY <1>1, <1>2, <1>5 DEF TicketsIssued
<1> QED
  BY <1>2, <1>3, <1>4, <1>5, <1>6, SavedQuietly

\* FreeSuffix: the other devices cannot hold all suffixes of a name.
LEMMA FreeSuffix ==
    ASSUME NEW d \in Devices, NEW b
    PROVE  \E i \in 0..(Cardinality(Devices) - 1) : ~NameTaken(d, <<b, i>>)
<1> DEFINE N == Cardinality(Devices)
           others == Devices \ {d}
           holder == [i \in 0..(N - 1) |-> CHOOSE e \in others : um.authedDevices[e].name = <<b, i>>]
<1>1. N \in Nat /\ IsFiniteSet(others) /\ Cardinality(others) = N - 1
  BY AuthAssumption, FS_CardinalityType, FS_RemoveElement
<1>2. N - 1 \in Nat
  BY <1>1, FS_CardinalityType
<1>3. IsFiniteSet(0..(N - 1)) /\ Cardinality(0..(N - 1)) = N
  BY <1>1, <1>2, FS_Interval
<1>4. SUFFICES ASSUME \A i \in 0..(N - 1) : NameTaken(d, <<b, i>>) PROVE FALSE
  OBVIOUS
<1>5. \A i \in 0..(N - 1) : \E e \in others : um.authedDevices[e].name = <<b, i>>
  BY <1>4, Zenon DEF NameTaken
<1>6. \A i \in 0..(N - 1) : holder[i] \in others /\ um.authedDevices[holder[i]].name = <<b, i>>
  BY <1>5, Zenon
<1> HIDE DEF holder
<1>7. holder \in [0..(N - 1) -> others]
  BY <1>6, Zenon DEF holder
<1>8. PICK i, j \in 0..(N - 1) : i # j /\ holder[i] = holder[j]
  BY <1>1, <1>3, <1>7, FS_PigeonHole
<1> QED
  BY <1>6, <1>8

\* LeastSuffix: a set of naturals that is not empty has a least element.
LEMMA LeastSuffix ==
    ASSUME NEW S, S \subseteq Nat, S # {}
    PROVE  \E i \in S : \A j \in S : i <= j
<1>1. PICK i \in S : \A j \in S : <<j, i>> \notin OpToRel(<, Nat)
  BY NatLessThanWellFounded, WFMin, Zenon
<1>2. \A j \in S : j \in Nat /\ i \in Nat /\ ~(j < i)
  BY <1>1, Zenon DEF OpToRel
<1>3. \A j \in S : i <= j
  BY <1>2
<1> QED
  BY <1>3

\* NameIsFree: the name given is one no other device of the network has.
LEMMA NameIsFree ==
    ASSUME NEW d \in Devices, NEW b \in Bases
    PROVE  UniqueDisplayName(d, b) \in Names /\ ~NameTaken(d, UniqueDisplayName(d, b))
<1> DEFINE free == {i \in 0..(Cardinality(Devices) - 1) : ~NameTaken(d, <<b, i>>)}
           least == CHOOSE i \in free : \A j \in free : i <= j
<1>1. free # {} /\ free \subseteq Nat
  BY FreeSuffix
<1>2. UniqueDisplayName(d, b) = <<b, least>>
  BY DEF UniqueDisplayName
<1> HIDE DEF free
<1>3. least \in free
  BY <1>1, LeastSuffix, Zenon
<1> HIDE DEF least
<1> QED
  BY <1>2, <1>3 DEF Names, free

\* AssignKeeps: a device gets a name, which exists whatever the others are called.
LEMMA AssignKeeps ==
    ASSUME AuthInv, NEW d \in Devices, NEW b \in Bases, NEW ok \in BOOLEAN,
           AssignDisplayName(d, b, ok)
    PROVE  StepOK
<1>1. um \in UMSnapshot /\ um.authedDevices \in [Devices -> UMAuthDevice \cup {None}]
  BY SnapshotTypes DEF AuthInv, AuthTypeOK
<1>2. um.authedDevices[d] \in UMAuthDevice
  BY <1>1 DEF AssignDisplayName
<1> DEFINE name == UniqueDisplayName(d, b)
           f == [um.authedDevices EXCEPT ![d] = [@ EXCEPT !.name = name]]
<1>3. name \in Names
  BY NameIsFree
<1>4. Save([um EXCEPT !.authedDevices = f], ok) /\ UNCHANGED <<clockVars, protocolVars, bindAcks>>
  BY DEF AssignDisplayName
<1> HIDE DEF name
<1>5. f \in [Devices -> UMAuthDevice \cup {None}]
  BY <1>1, <1>2, <1>3 DEF UMAuthDevice
<1>6. \A e \in Devices : f[e] # None => um.authedDevices[e] # None /\ f[e].user = um.authedDevices[e].user
  BY <1>1, <1>2, NotNone DEF UMAuthDevice
<1> HIDE DEF f
<1> QED
  BY <1>4, <1>5, <1>6, DevicesKeep

\* RenameKeeps: the name of a record is changed.
LEMMA RenameKeeps ==
    ASSUME AuthInv, NEW d \in Devices, NEW name \in Names, NEW ok \in BOOLEAN,
           RenameDevice(d, name, ok)
    PROVE  StepOK
<1>1. um \in UMSnapshot /\ um.authedDevices \in [Devices -> UMAuthDevice \cup {None}]
  BY SnapshotTypes DEF AuthInv, AuthTypeOK
<1>2. um.authedDevices[d] \in UMAuthDevice
  BY <1>1 DEF RenameDevice, Renamable
<1> DEFINE f == [um.authedDevices EXCEPT ![d] = [@ EXCEPT !.name = name]]
<1>4. Save([um EXCEPT !.authedDevices = f], ok) /\ UNCHANGED <<clockVars, protocolVars, bindAcks>>
  BY DEF RenameDevice
<1>5. f \in [Devices -> UMAuthDevice \cup {None}]
  BY <1>1, <1>2 DEF UMAuthDevice
<1>6. \A e \in Devices : f[e] # None => um.authedDevices[e] # None /\ f[e].user = um.authedDevices[e].user
  BY <1>1, <1>2, NotNone DEF UMAuthDevice
<1> HIDE DEF f
<1> QED
  BY <1>4, <1>5, <1>6, DevicesKeep

\* ExtendKeeps: records get a new expiry.
LEMMA ExtendKeeps ==
    ASSUME AuthInv, NEW u \in Users, NEW matches \in SUBSET Devices, NEW ok \in BOOLEAN,
           ExtendAuthedDeviceExpiry(u, matches, ok)
    PROVE  StepOK
<1>1. um \in UMSnapshot /\ um.authedDevices \in [Devices -> UMAuthDevice \cup {None}]
  BY SnapshotTypes DEF AuthInv, AuthTypeOK
<1>2. \A d \in matches : um.authedDevices[d] \in UMAuthDevice
  BY <1>1 DEF ExtendAuthedDeviceExpiry
<1> DEFINE f == [d \in Devices |-> IF d \in matches
                                   THEN [um.authedDevices[d] EXCEPT !.expired = FALSE]
                                   ELSE um.authedDevices[d]]
<1>4. Save([um EXCEPT !.authedDevices = f], ok) /\ UNCHANGED <<clockVars, protocolVars, bindAcks>>
  BY DEF ExtendAuthedDeviceExpiry
<1>5. f \in [Devices -> UMAuthDevice \cup {None}]
  BY <1>1, <1>2, Zenon DEF UMAuthDevice
<1>6. \A e \in Devices : f[e] # None => um.authedDevices[e] # None /\ f[e].user = um.authedDevices[e].user
  BY <1>1, <1>2, NotNone DEF UMAuthDevice
<1> HIDE DEF f
<1> QED
  BY <1>4, <1>5, <1>6, DevicesKeep

\* DeleteKeeps: a record is removed.
LEMMA DeleteKeeps ==
    ASSUME AuthInv, NEW d \in Devices, NEW ok \in BOOLEAN, DeleteAuthedDevice(d, ok)
    PROVE  StepOK
<1>1. um \in UMSnapshot /\ um.authedDevices \in [Devices -> UMAuthDevice \cup {None}]
  BY SnapshotTypes DEF AuthInv, AuthTypeOK
<1> DEFINE f == [um.authedDevices EXCEPT ![d] = None]
<1>4. Save([um EXCEPT !.authedDevices = f], ok) /\ UNCHANGED <<clockVars, protocolVars, bindAcks>>
  BY DEF DeleteAuthedDevice
<1>5. f \in [Devices -> UMAuthDevice \cup {None}]
  BY <1>1
<1>6. \A e \in Devices : f[e] # None => um.authedDevices[e] # None /\ f[e].user = um.authedDevices[e].user
  BY <1>1
<1> HIDE DEF f
<1> QED
  BY <1>4, <1>5, <1>6, DevicesKeep

--------------------------------------------------------------------------------
(* Requests, time and restarts *)

\* RequestsKeep: a step of requests and clocks, which leaves the maps alone.
LEMMA RequestsKeep ==
    ASSUME AuthInv, UNCHANGED <<um, stored, persistent, unissued, authAcks, bindAcks>>,
           lapsed' \subseteq Tickets \cup Codes,
           challenges' \subseteq Challenge, proofs' \subseteq Challenge,
           \A c \in challenges' \cup proofs' :
              c \in challenges \cup proofs \/ um.deviceTickets[c.ticket] = c.user
    PROVE  StepOK
<1>1. /\ AuthTypeOK /\ Authorised(um) /\ Authorised(stored) /\ TicketsIssued
      /\ AckedTicketSpent /\ CodesSpent /\ EnrollmentSingleUse /\ KeysKept
  BY DEF AuthInv
<1>2. AuthTypeOK'
  BY <1>1 DEF AuthTypeOK
<1>3. Authorised(um)' /\ Authorised(stored)'
  BY <1>1 DEF Authorised
<1>4. TicketsIssued'
  BY <1>1 DEF TicketsIssued
<1>5. AckedTicketSpent' /\ CodesSpent' /\ EnrollmentSingleUse' /\ KeysKept'
  BY <1>1 DEF AckedTicketSpent, CodesSpent, EnrollmentSingleUse, KeysKept
<1>6. KeyStep /\ UnreadStep
  BY DEF KeyStep, UnreadStep
<1> QED
  BY <1>2, <1>3, <1>4, <1>5, <1>6 DEF StepOK, AuthInv

\* SameButAge: n is m, but for authorisations that expired.
SameButAge(m, n) ==
    /\ n \in UMSnapshot /\ Authorised(n)
    /\ n.users = m.users /\ n.deviceTickets = m.deviceTickets /\ n.usedTickets = m.usedTickets
    /\ n.enrollments = m.enrollments /\ n.usedCodes = m.usedCodes
    /\ n.deviceByPubKey = m.deviceByPubKey
    /\ \A e \in Devices : n.authedDevices[e] = None <=> m.authedDevices[e] = None
    /\ \A e \in Devices : n.authedDevices[e] # None =>
          /\ n.authedDevices[e].user = m.authedDevices[e].user
          /\ n.authedDevices[e].name = m.authedDevices[e].name

\* Aged: an authorisation in the snapshot m expires.
LEMMA Aged ==
    ASSUME NEW m \in UMSnapshot, NEW d \in Devices, m.authedDevices[d] # None, Authorised(m)
    PROVE  SameButAge(m, [m EXCEPT !.authedDevices[d].expired = TRUE])
<1> DEFINE n == [m EXCEPT !.authedDevices[d].expired = TRUE]
<1>1. m.authedDevices \in [Devices -> UMAuthDevice \cup {None}] /\ m.authedDevices[d] \in UMAuthDevice
  BY SnapshotTypes
<1> DEFINE rec == [m.authedDevices[d] EXCEPT !.expired = TRUE]
           f == [m.authedDevices EXCEPT ![d] = rec]
<1>2. /\ rec \in UMAuthDevice /\ rec.user = m.authedDevices[d].user
      /\ rec.name = m.authedDevices[d].name
  BY <1>1, Zenon DEF UMAuthDevice
<1>3. n = [m EXCEPT !.authedDevices = f]
  OBVIOUS
<1> HIDE DEF rec, n
<1>4. /\ f \in [Devices -> UMAuthDevice \cup {None}]
      /\ \A e \in Devices : f[e] = IF e = d THEN rec ELSE m.authedDevices[e]
  BY <1>1, <1>2
<1> HIDE DEF f
<1>5. /\ n \in UMSnapshot /\ n.authedDevices = f
      /\ n.users = m.users /\ n.deviceTickets = m.deviceTickets /\ n.usedTickets = m.usedTickets
      /\ n.enrollments = m.enrollments /\ n.usedCodes = m.usedCodes
      /\ n.deviceByPubKey = m.deviceByPubKey
  BY <1>3, <1>4 DEF UMSnapshot
<1>6. \A e \in Devices : n.authedDevices[e] = None <=> m.authedDevices[e] = None
  BY <1>2, <1>4, <1>5, NotNone
<1>7. \A e \in Devices : n.authedDevices[e] # None =>
         /\ n.authedDevices[e].user = m.authedDevices[e].user
         /\ n.authedDevices[e].name = m.authedDevices[e].name
  BY <1>2, <1>4, <1>5
<1>8. Authorised(n)
  BY <1>5, <1>6, <1>7 DEF Authorised
<1>9. SameButAge(m, n)
  BY <1>5, <1>6, <1>7, <1>8 DEF SameButAge
<1> QED
  BY <1>9 DEF n

\* Ageing: what AuthorisationExpires does to the maps and to the store.
LEMMA Ageing ==
    ASSUME AuthInv, NEW d \in Devices, NEW where \in SUBSET {"um", "stored"},
           AuthorisationExpires(d, where)
    PROVE  SameButAge(um, um') /\ SameButAge(stored, stored')
<1>1. um \in UMSnapshot /\ stored \in UMSnapshot /\ Authorised(um) /\ Authorised(stored)
  BY DEF AuthInv, AuthTypeOK
<1>2. SameButAge(um, um')
  <2>1. CASE "um" \in where
    <3>1. um.authedDevices[d] # None /\ um' = [um EXCEPT !.authedDevices[d].expired = TRUE]
      BY <2>1 DEF AuthorisationExpires
    <3> QED
      BY <1>1, <3>1, Aged
  <2>2. CASE "um" \notin where
    BY <1>1, <2>2 DEF AuthorisationExpires, SameButAge
  <2> QED
    BY <2>1, <2>2
<1>3. SameButAge(stored, stored')
  <2>1. CASE "stored" \in where
    <3>1. stored.authedDevices[d] # None /\ stored' = [stored EXCEPT !.authedDevices[d].expired = TRUE]
      BY <2>1 DEF AuthorisationExpires
    <3> QED
      BY <1>1, <3>1, Aged
  <2>2. CASE "stored" \notin where
    BY <1>1, <2>2 DEF AuthorisationExpires, SameButAge
  <2> QED
    BY <2>1, <2>2
<1> QED
  BY <1>2, <1>3

\* AgeingKeeps: an authorisation expires.
LEMMA AgeingKeeps ==
    ASSUME AuthInv, NEW d \in Devices, NEW where \in SUBSET {"um", "stored"},
           AuthorisationExpires(d, where)
    PROVE  StepOK
<1>1. /\ AuthTypeOK /\ TicketsIssued
      /\ AckedTicketSpent /\ CodesSpent /\ EnrollmentSingleUse /\ KeysKept
  BY DEF AuthInv
<1>2. SameButAge(um, um') /\ SameButAge(stored, stored')
  BY Ageing
<1>3. UNCHANGED <<persistent, unissued, lapsed, challenges, proofs, authAcks, bindAcks>>
  BY DEF AuthorisationExpires, clockVars, protocolVars
<1>4. /\ um'.users = um.users /\ stored'.users = stored.users
      /\ um'.deviceTickets = um.deviceTickets /\ stored'.deviceTickets = stored.deviceTickets
      /\ um'.usedTickets = um.usedTickets /\ stored'.usedTickets = stored.usedTickets
      /\ um'.enrollments = um.enrollments /\ stored'.enrollments = stored.enrollments
      /\ um'.usedCodes = um.usedCodes /\ stored'.usedCodes = stored.usedCodes
      /\ um'.deviceByPubKey = um.deviceByPubKey /\ stored'.deviceByPubKey = stored.deviceByPubKey
      /\ \A e \in Devices : stored'.authedDevices[e] = None <=> stored.authedDevices[e] = None
  BY <1>2 DEF SameButAge
<1>5. AuthTypeOK' /\ Authorised(um)' /\ Authorised(stored)'
  BY <1>1, <1>2, <1>3 DEF AuthTypeOK, SameButAge, Authorised
<1>6. TicketsIssued'
  BY <1>1, <1>3, <1>4 DEF TicketsIssued
<1>7. AckedTicketSpent' /\ EnrollmentSingleUse' /\ KeysKept'
  BY <1>1, <1>3, <1>4 DEF AckedTicketSpent, EnrollmentSingleUse, KeysKept
<1>8. CodesSpent'
  BY <1>1, <1>3, <1>4 DEF CodesSpent
<1>9. KeyStep /\ UnreadStep
  BY <1>3, <1>4 DEF KeyStep, UnreadStep
<1> QED
  BY <1>5, <1>6, <1>7, <1>8, <1>9 DEF StepOK, AuthInv

\* RestartKeeps: the maps are those of the store, or empty ones with no store.
LEMMA RestartKeeps ==
    ASSUME AuthInv, NEW loaded \in BOOLEAN, Restart(loaded)
    PROVE  StepOK
<1>1. /\ AuthTypeOK /\ Authorised(stored) /\ TicketsIssued
      /\ AckedTicketSpent /\ CodesSpent /\ EnrollmentSingleUse /\ KeysKept
  BY DEF AuthInv
<1>2. /\ um' = (IF loaded THEN stored ELSE NewUserManager) /\ persistent' = loaded
      /\ challenges' = {} /\ proofs' = {}
      /\ UNCHANGED <<stored, unissued, lapsed, authAcks, bindAcks>>
  BY DEF Restart
<1> DEFINE m == NewUserManager
<1>3. /\ m.usedTickets = {} /\ m.usedCodes = {}
      /\ m.deviceTickets = [t \in Tickets |-> None] /\ m.enrollments = [c \in Codes |-> None]
      /\ m.deviceByPubKey = [k \in Keys |-> None] /\ m.authedDevices = [d \in Devices |-> None]
      /\ m \in UMSnapshot
  BY Zenon DEF NewUserManager, UMSnapshot
<1>4. um' = IF loaded THEN stored ELSE m
  BY <1>2
<1> HIDE DEF m
<1>5. AuthTypeOK'
  BY <1>1, <1>2, <1>3, <1>4 DEF AuthTypeOK
<1>6. UnreadStep
  BY <1>2 DEF UnreadStep
<1>7. EnrollmentSingleUse' /\ Authorised(stored)'
  BY <1>1, <1>2 DEF EnrollmentSingleUse, Authorised
<1>8. bindAcks \subseteq Codes \X Keys
  BY <1>1 DEF AuthTypeOK
<1>9. CASE loaded
  <2>1. um' = stored /\ persistent'
    BY <1>2, <1>9
  <2>2. Authorised(um)' /\ KeysKept'
    BY <1>1, <1>2, <2>1 DEF Authorised, KeysKept
  <2>3. TicketsIssued'
    BY <1>1, <1>2, <2>1 DEF TicketsIssued
  <2>4. AckedTicketSpent'
    BY <1>1, <1>2, <2>1 DEF AckedTicketSpent
  <2>5. CodesSpent'
    BY <1>1, <1>2, <2>1 DEF CodesSpent
  <2>6. KeyStep
    BY <1>1, <2>1, NotNone DEF KeyStep, KeysKept
  <2> QED
    BY <1>5, <1>6, <1>7, <2>2, <2>3, <2>4, <2>5, <2>6 DEF StepOK, AuthInv
<1>10. CASE ~loaded
  <2>1. um' = m /\ ~persistent'
    BY <1>2, <1>4, <1>10
  <2>2. Authorised(um)' /\ KeysKept' /\ KeyStep
    BY <1>3, <2>1 DEF Authorised, KeysKept, KeyStep
  <2>3. TicketsIssued'
    <3>1. /\ \A t \in Tickets : um'.deviceTickets[t] = None
          /\ \A c \in Codes : um'.enrollments[c] = None
      BY <1>3, <2>1
    <3> QED
      BY <1>1, <1>2, <3>1 DEF TicketsIssued
  <2>4. AckedTicketSpent'
    BY <1>1, <1>2, <2>1 DEF AckedTicketSpent
  <2>5. CodesSpent'
    <3>1. \A c \in Codes : um'.enrollments[c] = None
      BY <1>3, <2>1
    <3>2. \A a \in bindAcks : a[1] \in Codes
      BY <1>8
    <3>3. \A a \in bindAcks : a[1] \notin unissued
            /\ (stored.enrollments[a[1]] = None \/ a[1] \in stored.usedCodes)
      BY <1>1 DEF CodesSpent
    <3> QED
      BY <1>2, <3>1, <3>2, <3>3 DEF CodesSpent
  <2> QED
    BY <1>5, <1>6, <1>7, <2>2, <2>3, <2>4, <2>5 DEF StepOK, AuthInv
<1> QED
  BY <1>9, <1>10

\* AuthNextOK: every step keeps the invariant and the two action properties.
LEMMA AuthNextOK == AuthInv /\ [AuthNext]_authVars => StepOK
<1> SUFFICES ASSUME AuthInv, [AuthNext]_authVars PROVE StepOK
  OBVIOUS
<1>1. /\ challenges \subseteq Challenge /\ proofs \subseteq Challenge
      /\ lapsed \subseteq Tickets \cup Codes
  BY DEF AuthInv, AuthTypeOK
<1>2. ASSUME NEW ok \in SaveResults,
             \/ \E u \in Users : CreateUser(u, ok)
             \/ \E u \in Users, t \in Tickets : IssueDeviceTicket(u, t, ok)
             \/ \E u \in Users, c \in Codes : CreateEnrollment(u, c, ok)
             \/ \E c \in Codes, k \in Keys : BindDeviceByEnrollment(c, k, ok)
             \/ \E c \in proofs : AuthDevice(c, ok)
             \/ \E d \in Devices, b \in Bases : AssignDisplayName(d, b, ok)
             \/ \E d \in Devices, name \in Names : RenameDevice(d, name, ok)
             \/ \E u \in Users, matches \in SUBSET Devices : ExtendAuthedDeviceExpiry(u, matches, ok)
             \/ \E d \in Devices : DeleteAuthedDevice(d, ok)
      PROVE  StepOK
  <2>1. ok \in BOOLEAN
    BY AuthAssumption
  <2> QED
    BY <1>2, <2>1, CreateUserKeeps, IssueTicketKeeps, CreateEnrollmentKeeps, BindKeeps,
       AuthDeviceKeeps, AssignKeeps, RenameKeeps, ExtendKeeps, DeleteKeeps
<1>3. ASSUME NEW c \in Challenge, DeviceAuth(c) PROVE StepOK
  BY <1>1, <1>3, RequestsKeep DEF DeviceAuth, ValidateDeviceAuth, clockVars
<1>4. ASSUME NEW loaded \in BOOLEAN, Restart(loaded) PROVE StepOK
  BY <1>4, RestartKeeps
<1>5. ASSUME NEW c \in challenges, NEW good \in BOOLEAN, DeviceAuthProof(c, good) PROVE StepOK
  <2>1. challenges' \subseteq challenges /\ proofs' \subseteq proofs \cup {c}
    BY <1>5 DEF DeviceAuthProof
  <2> QED
    BY <1>1, <1>5, <2>1, RequestsKeep DEF DeviceAuthProof, clockVars
<1>6. ASSUME NEW x \in Tickets \cup Codes, TicketExpires(x) PROVE StepOK
  BY <1>1, <1>6, RequestsKeep DEF TicketExpires, protocolVars
<1>7. ASSUME NEW c \in challenges, ChallengeExpires(c) PROVE StepOK
  BY <1>1, <1>7, RequestsKeep DEF ChallengeExpires, clockVars
<1>8. ASSUME NEW d \in Devices, NEW where \in SUBSET {"um", "stored"}, AuthorisationExpires(d, where)
      PROVE  StepOK
  BY <1>8, AgeingKeeps
<1>9. CASE UNCHANGED authVars
  BY <1>1, <1>9, RequestsKeep DEF authVars
<1> QED
  BY <1>2, <1>3, <1>4, <1>5, <1>6, <1>7, <1>8, <1>9 DEF AuthNext

--------------------------------------------------------------------------------
(* Theorems *)

\* AuthInvariant: the inductive invariant holds throughout.
THEOREM AuthInvariant == AuthSpec => []AuthInv
<1>1. AuthInv /\ [AuthNext]_authVars => AuthInv'
  BY AuthNextOK DEF StepOK
<1> QED
  BY AuthInitInv, <1>1, PTL DEF AuthSpec

\* AuthTypeCorrect: the maps keep their shape; a suffix for a display name is found
\* among as many as there are devices (uniqueDisplayNameLocked).
THEOREM AuthTypeCorrect == AuthSpec => []AuthTypeOK
<1>1. AuthInv => AuthTypeOK
  BY DEF AuthInv
<1> QED
  BY AuthInvariant, <1>1, PTL

\* AuthorisedHaveTickets: a device is authorised for a user only through a ticket of
\* that user, although AuthDevice uses a ticket it checked under an earlier lock, and
\* whatever saves fail and whenever the process restarts.
THEOREM AuthorisedHaveTickets == AuthSpec => []AuthorisedByTicket
<1>1. AuthInv => AuthorisedByTicket
  BY DEF AuthInv, Authorised, AuthorisedByTicket
<1> QED
  BY AuthInvariant, <1>1, PTL

\* AnsweredTicketsSpent: a ticket for which the client got an ok DeviceAuthAck stays
\* spent in the store, and in every process that has loaded it.
THEOREM AnsweredTicketsSpent == AuthSpec => []AckedTicketSpent
<1>1. AuthInv => AckedTicketSpent
  BY DEF AuthInv
<1> QED
  BY AuthInvariant, <1>1, PTL

\* CodesBindOnce: BindDeviceByEnrollment never reports two keys bound with one code,
\* over failed saves, restarts and processes without a store.
THEOREM CodesBindOnce == AuthSpec => []EnrollmentSingleUse
<1>1. AuthInv => EnrollmentSingleUse
  BY DEF AuthInv
<1> QED
  BY AuthInvariant, <1>1, PTL

\* KeysStayBound: no step, a restart included, gives a bound key to another user while
\* the store is in use.
THEOREM KeysStayBound == AuthSpec => KeyNeverRebound
<1>1. AuthInv /\ [AuthNext]_authVars => [KeyStep]_authVars
  BY AuthNextOK DEF StepOK
<1> QED
  BY AuthInvariant, <1>1, PTL DEF AuthSpec, KeyNeverRebound, KeyStep

\* UnreadStoreSurvives: a process that could not load the JSON file does not write it.
THEOREM UnreadStoreSurvives == AuthSpec => UnreadStoreKept
<1>1. AuthInv /\ [AuthNext]_authVars => [UnreadStep]_authVars
  BY AuthNextOK DEF StepOK
<1> QED
  BY AuthInvariant, <1>1, PTL DEF AuthSpec, UnreadStoreKept, UnreadStep

--------------------------------------------------------------------------------
(* Display names, of the users of one network *)

\* No two records of the map have the same name.
UniqueNames(f) ==
    \A d, e \in Devices : d # e /\ f[d] # None /\ f[e] # None /\ f[d].name # None
                             => f[d].name # f[e].name

NamesInv == UniqueNames(um.authedDevices) /\ UniqueNames(stored.authedDevices)

\* FewerNames: names stay unique when records go, or lose their name.
LEMMA FewerNames ==
    ASSUME NEW f, NEW g, UniqueNames(f),
           \A d \in Devices : g[d] # None =>
              g[d].name = None \/ (f[d] # None /\ g[d].name = f[d].name)
    PROVE  UniqueNames(g)
BY DEF UniqueNames

\* OneMoreName: names stay unique when a device gets a name no other one has.
LEMMA OneMoreName ==
    ASSUME NEW f \in [Devices -> UMAuthDevice \cup {None}], UniqueNames(f),
           NEW d \in Devices, f[d] # None, NEW name \in Names,
           \A e \in Devices \ {d} : f[e] # None => f[e].name # name
    PROVE  UniqueNames([f EXCEPT ![d].name = name])
<1> DEFINE rec == [f[d] EXCEPT !.name = name]
           g == [f EXCEPT ![d] = rec]
<1>1. rec.name = name /\ name # None
  BY NotNone DEF UMAuthDevice
<1> HIDE DEF rec
<1>2. \A e \in Devices : g[e] = IF e = d THEN rec ELSE f[e]
  OBVIOUS
<1>3. g = [f EXCEPT ![d].name = name]
  BY DEF rec
<1> HIDE DEF g
<1>4. UniqueNames(g)
  BY <1>1, <1>2 DEF UniqueNames
<1> QED
  BY <1>3, <1>4

\* SavedNames: an operation leaves maps with unique names, and saves them or not.
LEMMA SavedNames ==
    ASSUME NEW m, NEW ok, Save(m, ok), UniqueNames(m.authedDevices), NamesInv
    PROVE  NamesInv'
<1>1. um' = m /\ (stored' = m \/ stored' = stored)
  BY DEF Save
<1> QED
  BY <1>1 DEF NamesInv, UniqueNames

\* NotTaken: in one network a name that is not taken is no other device's.
LEMMA NotTaken ==
    ASSUME \A u, v \in Users : NetOf[u] = NetOf[v], AuthTypeOK,
           NEW d \in Devices, um.authedDevices[d] # None, NEW name, ~NameTaken(d, name)
    PROVE  \A e \in Devices \ {d} : um.authedDevices[e] # None => um.authedDevices[e].name # name
<1>1. um.authedDevices \in [Devices -> UMAuthDevice \cup {None}]
  BY SnapshotTypes DEF AuthTypeOK
<1>2. \A e \in Devices : um.authedDevices[e] # None => um.authedDevices[e].user \in Users
  BY <1>1 DEF UMAuthDevice
<1> QED
  BY <1>2 DEF NameTaken

\* NamesNext: every step keeps the names unique, in memory and in the store.
LEMMA NamesNext ==
    ASSUME \A u, v \in Users : NetOf[u] = NetOf[v], AuthInv, NamesInv, [AuthNext]_authVars
    PROVE  NamesInv'
<1>1. AuthTypeOK /\ um \in UMSnapshot /\ stored \in UMSnapshot /\ proofs \subseteq Challenge
  BY DEF AuthInv, AuthTypeOK
<1>2. um.authedDevices \in [Devices -> UMAuthDevice \cup {None}]
  BY <1>1, SnapshotTypes
<1>3. UniqueNames(um.authedDevices) /\ UniqueNames(stored.authedDevices)
  BY DEF NamesInv
<1>4. ASSUME NEW m, NEW ok, Save(m, ok), m.authedDevices = um.authedDevices PROVE NamesInv'
  BY <1>3, <1>4, SavedNames
<1>5. ASSUME NEW u \in Users, NEW ok \in SaveResults, CreateUser(u, ok) PROVE NamesInv'
  <2>1. [um EXCEPT !.users = @ \cup {u}].authedDevices = um.authedDevices
    BY <1>1 DEF UMSnapshot
  <2> QED
    BY <1>4, <1>5, <2>1, Zenon DEF CreateUser
<1>6. ASSUME NEW u \in Users, NEW t \in Tickets, NEW ok \in SaveResults, IssueDeviceTicket(u, t, ok)
      PROVE  NamesInv'
  <2>1. [um EXCEPT !.deviceTickets[t] = u].authedDevices = um.authedDevices
    BY <1>1 DEF UMSnapshot
  <2> QED
    BY <1>4, <1>6, <2>1, Zenon DEF IssueDeviceTicket
<1>7. ASSUME NEW u \in Users, NEW c \in Codes, NEW ok \in SaveResults, CreateEnrollment(u, c, ok)
      PROVE  NamesInv'
  <2>1. [um EXCEPT !.enrollments[c] = u].authedDevices = um.authedDevices
    BY <1>1 DEF UMSnapshot
  <2> QED
    BY <1>4, <1>7, <2>1, Zenon DEF CreateEnrollment
<1>8. ASSUME NEW c \in Codes, NEW k \in Keys, NEW ok \in SaveResults,
             BindDeviceByEnrollment(c, k, ok)
      PROVE  NamesInv'
  <2>1. Bound(c, k).authedDevices = um.authedDevices
    BY <1>1 DEF UMSnapshot, Bound
  <2> QED
    BY <1>4, <1>8, <2>1 DEF BindDeviceByEnrollment
<1>9. ASSUME NEW c \in proofs, NEW ok \in SaveResults, AuthDevice(c, ok) PROVE NamesInv'
  <2> DEFINE old == um.authedDevices[c.device]
             rec == [user |-> c.user, key |-> c.key, expired |-> FALSE,
                     name |-> IF old = None THEN None ELSE old.name]
             g == [um.authedDevices EXCEPT ![c.device] = rec]
  <2>1. rec.name = IF old = None THEN None ELSE old.name
    OBVIOUS
  <2>2. Authed(c).authedDevices = g
    BY <1>1 DEF Authed, UMSnapshot
  <2> HIDE DEF rec
  <2>3. \A d \in Devices : g[d] = IF d = c.device THEN rec ELSE um.authedDevices[d]
    BY <1>2
  <2> HIDE DEF g
  <2>4. UniqueNames(g)
    BY <1>3, <2>1, <2>3, FewerNames
  <2> QED
    BY <1>9, <2>2, <2>4, SavedNames DEF AuthDevice
<1>10. ASSUME NEW d \in Devices, um.authedDevices[d] # None, NEW name \in Names, ~NameTaken(d, name),
              NEW ok \in SaveResults, Save([um EXCEPT !.authedDevices[d].name = name], ok)
       PROVE  NamesInv'
  <2>1. UniqueNames([um.authedDevices EXCEPT ![d].name = name])
    BY <1>1, <1>2, <1>3, <1>10, NotTaken, OneMoreName
  <2>2. [um EXCEPT !.authedDevices[d].name = name].authedDevices
           = [um.authedDevices EXCEPT ![d].name = name]
    BY <1>1 DEF UMSnapshot
  <2> QED
    BY <1>10, <2>1, <2>2, SavedNames, Zenon
<1>11. ASSUME NEW d \in Devices, NEW b \in Bases, NEW ok \in SaveResults, AssignDisplayName(d, b, ok)
       PROVE  NamesInv'
  BY <1>10, <1>11, NameIsFree, Zenon DEF AssignDisplayName
<1>12. ASSUME NEW d \in Devices, NEW name \in Names, NEW ok \in SaveResults, RenameDevice(d, name, ok)
       PROVE  NamesInv'
  BY <1>10, <1>12 DEF RenameDevice, Renamable
<1>13. ASSUME NEW u \in Users, NEW matches \in SUBSET Devices, NEW ok \in SaveResults,
              ExtendAuthedDeviceExpiry(u, matches, ok)
       PROVE  NamesInv'
  <2> DEFINE g == [d \in Devices |-> IF d \in matches
                                     THEN [um.authedDevices[d] EXCEPT !.expired = FALSE]
                                     ELSE um.authedDevices[d]]
  <2>1. \A d \in matches : um.authedDevices[d] \in UMAuthDevice
    BY <1>2, <1>13 DEF ExtendAuthedDeviceExpiry
  <2>2. Save([um EXCEPT !.authedDevices = g], ok)
    BY <1>13 DEF ExtendAuthedDeviceExpiry
  <2>3. \A d \in Devices : g[d] # None => um.authedDevices[d] # None /\ g[d].name = um.authedDevices[d].name
    BY <2>1, NotNone DEF UMAuthDevice
  <2> HIDE DEF g
  <2>4. UniqueNames(g)
    BY <1>3, <2>3, FewerNames
  <2>5. [um EXCEPT !.authedDevices = g].authedDevices = g
    BY <1>1 DEF UMSnapshot
  <2> QED
    BY <2>2, <2>4, <2>5, SavedNames, Zenon
<1>14. ASSUME NEW d \in Devices, NEW ok \in SaveResults, DeleteAuthedDevice(d, ok) PROVE NamesInv'
  <2> DEFINE g == [um.authedDevices EXCEPT ![d] = None]
  <2>1. \A e \in Devices : g[e] # None => um.authedDevices[e] # None /\ g[e].name = um.authedDevices[e].name
    BY <1>2
  <2>2. [um EXCEPT !.authedDevices[d] = None].authedDevices = g
    BY <1>1 DEF UMSnapshot
  <2> HIDE DEF g
  <2>3. UniqueNames(g)
    BY <1>3, <2>1, FewerNames
  <2> QED
    BY <1>14, <2>2, <2>3, SavedNames, Zenon DEF DeleteAuthedDevice
<1>15. ASSUME UNCHANGED <<um, stored>> PROVE NamesInv'
  BY <1>3, <1>15 DEF NamesInv, UniqueNames
<1>16. ASSUME NEW loaded \in BOOLEAN, Restart(loaded) PROVE NamesInv'
  <2>1. stored' = stored /\ um' = IF loaded THEN stored ELSE NewUserManager
    BY <1>16 DEF Restart
  <2>2. \A d \in Devices : NewUserManager.authedDevices[d] = None
    BY DEF NewUserManager
  <2>3. UniqueNames(NewUserManager.authedDevices)
    BY <2>2 DEF UniqueNames
  <2> QED
    BY <1>3, <2>1, <2>3 DEF NamesInv, UniqueNames
<1>17. ASSUME NEW d \in Devices, NEW where \in SUBSET {"um", "stored"}, AuthorisationExpires(d, where)
       PROVE  NamesInv'
  <2>1. SameButAge(um, um') /\ SameButAge(stored, stored')
    BY <1>17, Ageing
  <2>2. ASSUME NEW m, NEW n, SameButAge(m, n), UniqueNames(m.authedDevices)
        PROVE  UniqueNames(n.authedDevices)
    BY <2>2, FewerNames DEF SameButAge
  <2>3. UniqueNames(um'.authedDevices) /\ UniqueNames(stored'.authedDevices)
    BY <1>3, <2>1, <2>2
  <2> QED
    BY <2>3 DEF NamesInv, UniqueNames
<1>18. CASE UNCHANGED authVars
  BY <1>15, <1>18 DEF authVars
<1>19. \A c, good : DeviceAuth(c) \/ DeviceAuthProof(c, good) \/ TicketExpires(c) \/ ChallengeExpires(c)
                      => UNCHANGED <<um, stored>>
  BY DEF DeviceAuth, DeviceAuthProof, TicketExpires, ChallengeExpires
<1>20. CASE AuthNext
  BY <1>5, <1>6, <1>7, <1>8, <1>9, <1>11, <1>12, <1>13, <1>14, <1>15, <1>16, <1>17, <1>19, <1>20
     DEF AuthNext
<1> QED
  BY <1>18, <1>20

\* NamesAreUnique: where all users share a network, two devices never have the same
\* display name.  A device authorised again for a user of another network keeps its
\* name, which need not be free there.
THEOREM NamesAreUnique ==
    ASSUME \A u, v \in Users : NetOf[u] = NetOf[v]
    PROVE  AuthSpec => []DisplayNamesUnique
<1>1. AuthInit => NamesInv
  <2>1. \A d \in Devices : NewUserManager.authedDevices[d] = None
    BY DEF NewUserManager
  <2> QED
    BY <2>1 DEF AuthInit, NamesInv, UniqueNames
<1>2. AuthInv /\ NamesInv /\ [AuthNext]_authVars => NamesInv'
  BY NamesNext
<1>3. NamesInv => DisplayNamesUnique
  BY DEF NamesInv, UniqueNames, DisplayNamesUnique
<1> QED
  BY AuthInvariant, <1>1, <1>2, <1>3, PTL DEF AuthSpec

================================================================================
