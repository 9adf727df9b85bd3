----------------------------- MODULE GatewayControl -----------------------------
(***************************************************************************)
(* Gateways (control/gateway.go): reports, approval and delisting by an    *)
(* admin, leases, the grants clients get and the policy revision by which  *)
(* they refresh them, and the approvals in the JSON store                  *)
(* (control/gateway_store.go).                                             *)
(*                                                                         *)
(* Each step that holds gatewayMu is one action.  A gateway report, a      *)
(* command of the admin and a packet of a client take the lock several     *)
(* times and are several steps.  Every service packet begins with          *)
(* BuildPushDeviceListPacketsForGatewayChangeIfNeeded: whoever finds the   *)
(* policy changed pushes the new grants to all clients.                    *)
(*                                                                         *)
(* A report stands for an authenticated one.  The endpoint stands for all  *)
(* that the fingerprint of a node contains.                                *)
(***************************************************************************)
EXTENDS Integers, FiniteSets

CONSTANTS
    Gateways,
    Default,      \* DefaultGatewayID
    Endpoints,
    Clients,      \* registered clients
    NetOf,        \* [Clients -> network key]
    MaxIssued,    \* bound on the grants issued to a client for a gateway
    MaxRev,       \* bound on the policy revision
    MaxReports,   \* bound on the reports handled at a time
    SaveResults,  \* outcomes of saving the approvals: {TRUE}, or {TRUE, FALSE}
    LoadResults,  \* outcomes of loading the store: {TRUE}, or {TRUE, FALSE}
    None

Node == [ep : Endpoints, alive : BOOLEAN]
Grant == [ep : Endpoints, id : 1..MaxIssued]
CachedGrant == [grant : Grant, fresh : BOOLEAN]
Approvals == [Gateways -> Endpoints \cup {None}]

\* Where the handlers of a client's packet and of an admin's command are.
ClientSteps == {"idle", "register", "pull", "refresh"}
AdminSteps == {"no", "enlist", "delist"}

\* The grants and the policy revision a packet carries, by receiver.
Packet == [on : {TRUE}, rev : 0..MaxRev, grants : [Gateways -> Grant \cup {None}]]
NoPackets == [c \in Clients |-> None]
Report == [gw : Gateways, ep : Endpoints, at : {"check", "register", "sync"},
           push : [Clients -> Packet \cup {None}]]

ASSUME GatewayAssumption ==
    /\ DOMAIN NetOf = Clients
    /\ {MaxIssued, MaxRev, MaxReports} \subseteq Nat
    /\ SaveResults \subseteq BOOLEAN /\ LoadResults \subseteq BOOLEAN
    /\ None \notin Endpoints \cup Node \cup Grant \cup CachedGrant \cup Packet

VARIABLES
    gatewayAllow,   \* approved endpoint of a gateway
    gatewayNodes,   \* nodes grants may be issued for
    gatewaySeen,    \* last report of a gateway that is not active
    stored,         \* the approvals in the JSON store
    policy,         \* gatewayGrantFingerprint: endpoints of approved, alive nodes
    policyRev,      \* gatewayGrantPolicyRev
    grantCache,     \* gatewayGrantCache, by client and gateway
    issued,         \* number of grants issued so far, by client and gateway
    reports,        \* reports being handled
    admin,          \* commands of the admin being handled, by gateway
    client,         \* the packet of a client being handled
    deferred,       \* deferredPushPackets of that packet's handler
    view            \* what a connected client was last sent

approvalVars == <<gatewayAllow, gatewayNodes, gatewaySeen, stored>>
grantVars == <<policy, policyRev, grantCache, issued>>
gatewayVars == <<approvalVars, grantVars, reports, admin, client, deferred, view>>

NoGrants == [g \in Gateways |-> None]
Offline == [rev |-> 0, grants |-> NoGrants, on |-> FALSE]

GatewayInit ==
    /\ gatewayAllow = NoGrants /\ gatewayNodes = NoGrants /\ gatewaySeen = NoGrants
    /\ stored = NoGrants
    /\ policy = NoGrants /\ policyRev = 0
    /\ grantCache = [c \in Clients |-> NoGrants]
    /\ issued = [c \in Clients |-> [g \in Gateways |-> 0]]
    /\ reports = {} /\ admin = [g \in Gateways |-> "no"]
    /\ client = [c \in Clients |-> "idle"] /\ deferred = [c \in Clients |-> NoPackets]
    /\ view = [c \in Clients |-> Offline]

Online == {c \in Clients : view[c].on}

--------------------------------------------------------------------------------
(* Policy and grants *)

\* gatewayNodeApprovedLocked
Approved(g) ==
    /\ gatewayNodes[g] # None
    /\ \/ gatewayAllow[g] = gatewayNodes[g].ep
       \/ g = Default /\ gatewayAllow[g] = None

\* approvedAliveGatewayNodesLocked
AliveNodes == [g \in Gateways |-> IF Approved(g) /\ gatewayNodes[g].alive
                                  THEN gatewayNodes[g].ep ELSE None]

\* Mutant: the fingerprint has the ids of the gateways only.
PolicyChangedById == \E g \in Gateways : (AliveNodes[g] = None) # (policy[g] = None)

PolicyChanged == AliveNodes # policy

RevAfterSync == IF PolicyChanged THEN policyRev + 1 ELSE IF policyRev = 0 THEN 1 ELSE policyRev

\* syncGatewayGrantPolicyLocked
Sync ==
    /\ RevAfterSync <= MaxRev
    /\ policy' = IF PolicyChanged THEN AliveNodes ELSE policy
    /\ policyRev' = RevAfterSync

\* A cached grant that pruneGatewayGrantCacheLocked keeps.
Usable(g, cached) ==
    /\ cached # None /\ cached.fresh
    /\ Approved(g) /\ cached.grant.ep = gatewayNodes[g].ep

Pruned(c, g) == IF Usable(g, grantCache[c][g]) THEN grantCache[c][g] ELSE None

\* The gateways for which a refresh of c does not accept the cached grant.
\* last: the gateway and id of a grant the client has, None: no session named.
Reissued(c, force, last) ==
    IF force \/ (last # None /\ ~\E g \in Gateways :
                    Pruned(c, g) # None /\ last = <<g, Pruned(c, g).grant.id>>)
    THEN Gateways ELSE {}

\* gatewayAccessGrantForNodeLocked finds no cached grant to return.
Issues(c, g, again) ==
    /\ gatewayNodes[g] # None /\ gatewayNodes[g].alive /\ Approved(g)
    /\ g \in again \/ Pruned(c, g) = None

\* The grant cached for c and g after c's grants were built.
Built(c, g, again) ==
    IF Issues(c, g, again)
    THEN [grant |-> [ep |-> gatewayNodes[g].ep, id |-> issued[c][g] + 1], fresh |-> TRUE]
    ELSE Pruned(c, g)

\* buildGatewayAccessGrantsLocked for each of cs; the rest of the cache is pruned.
Build(cs, again) ==
    /\ \A c \in cs, g \in Gateways : Issues(c, g, again) => issued[c][g] < MaxIssued
    /\ grantCache' = IF cs = {} THEN grantCache
                     ELSE [c \in Clients |-> [g \in Gateways |->
                              IF c \in cs THEN Built(c, g, again) ELSE Pruned(c, g)]]
    /\ issued' = [c \in Clients |-> [g \in Gateways |->
          IF c \in cs /\ Issues(c, g, again) THEN issued[c][g] + 1 ELSE issued[c][g]]]

\* What a client is sent: its row of the cache, grants of dead nodes included.
Sent(c, again) ==
    [rev |-> RevAfterSync, on |-> TRUE,
     grants |-> [g \in Gateways |-> IF Built(c, g, again) = None THEN None
                                    ELSE Built(c, g, again).grant]]

\* The packets of cs once their grants are built.
PacketsTo(cs) == [c \in Clients |-> IF c \in cs THEN Sent(c, {}) ELSE None]

\* BuildPushDeviceListPacketsForGatewayChangeIfNeeded and the packets it builds.
ChangePackets == PacketsTo(IF PolicyChanged THEN Online ELSE {})
SyncIfNeeded == Sync /\ Build(IF PolicyChanged THEN Online ELSE {}, {})

\* Packets p are written, then the packets q; clients without a session miss them.
Dispatched(p, q) ==
    [c \in Clients |-> IF c \notin Online THEN view[c]
                       ELSE IF q[c] # None THEN q[c]
                       ELSE IF p[c] # None THEN p[c] ELSE view[c]]

\* persistGatewayApprovalLocked: a failure is logged and nothing else.
Persist == \E ok \in SaveResults : stored' = IF ok THEN gatewayAllow' ELSE stored

--------------------------------------------------------------------------------
(* Gateway reports *)

\* A gateway's report arrives: the sync every packet begins with, then
\* recordGatewaySeen.
HandleGatewayReport(g, ep) ==
    /\ Cardinality(reports) < MaxReports
    /\ SyncIfNeeded
    /\ gatewaySeen' = [gatewaySeen EXCEPT ![g] = [ep |-> ep, alive |-> TRUE]]
    /\ reports' = reports \cup {[gw |-> g, ep |-> ep, at |-> "check", push |-> ChangePackets]}
    /\ UNCHANGED <<gatewayAllow, gatewayNodes, stored, admin, client, deferred, view>>

\* isGatewayAllowed, in a critical section of its own.
IsGatewayAllowed(r) ==
    /\ r.at = "check"
    /\ reports' = (reports \ {r}) \cup
          {[r EXCEPT !.at = IF r.gw = Default \/ gatewayAllow[r.gw] = r.ep
                            THEN "register" ELSE "sync"]}
    /\ UNCHANGED <<approvalVars, grantVars, admin, client, deferred, view>>

\* RegisterGatewayNodeWithTransport.
RegisterGatewayNode(r) ==
    /\ r.at = "register"
    /\ gatewayAllow' = [gatewayAllow EXCEPT ![r.gw] = r.ep]
    /\ gatewayNodes' = [gatewayNodes EXCEPT ![r.gw] = [ep |-> r.ep, alive |-> TRUE]]
    /\ gatewaySeen' = [gatewaySeen EXCEPT ![r.gw] = None]
    /\ Persist
    /\ reports' = (reports \ {r}) \cup {[r EXCEPT !.at = "sync"]}
    /\ UNCHANGED <<grantVars, admin, client, deferred, view>>

\* The handler syncs again, answers and dispatches what it deferred; if the
\* answer cannot be written it ends before it dispatches.
ReportAnswered(r, written) ==
    /\ r.at = "sync"
    /\ SyncIfNeeded
    /\ view' = IF written THEN Dispatched(r.push, ChangePackets) ELSE view
    /\ reports' = reports \ {r}
    /\ UNCHANGED <<approvalVars, admin, client, deferred>>

--------------------------------------------------------------------------------
(* The admin *)

\* ApproveGatewayNodeByID: nothing to do for an approved gateway, whatever
\* endpoint it now reports.
ApproveGatewayNodeByID(g) ==
    /\ admin[g] = "no"
    /\ \/ /\ g = Default \/ gatewayAllow[g] # None
          /\ UNCHANGED approvalVars
       \/ /\ g # Default /\ gatewayAllow[g] = None /\ gatewaySeen[g] # None
          /\ gatewayAllow' = [gatewayAllow EXCEPT ![g] = gatewaySeen[g].ep]
          /\ gatewayNodes' = [gatewayNodes EXCEPT ![g] = gatewaySeen[g]]
          /\ Persist
          /\ UNCHANGED gatewaySeen
    /\ admin' = [admin EXCEPT ![g] = "enlist"]
    /\ UNCHANGED <<grantVars, reports, client, deferred, view>>

\* Mutant: the node and its cached grants stay.
DelistKeepsNode(g) ==
    /\ admin[g] = "no" /\ g # Default /\ gatewayAllow[g] # None
    /\ gatewayAllow' = [gatewayAllow EXCEPT ![g] = None]
    /\ Persist
    /\ admin' = [admin EXCEPT ![g] = "delist"]
    /\ UNCHANGED <<gatewayNodes, gatewaySeen, grantVars, reports, client, deferred, view>>

\* DelistGatewayNodeByID
DelistGatewayNodeByID(g) ==
    /\ admin[g] = "no" /\ g # Default
    /\ gatewayAllow[g] # None \/ gatewayNodes[g] # None \/ gatewaySeen[g] # None
    /\ gatewaySeen' = IF gatewayNodes[g] = None THEN gatewaySeen
                      ELSE [gatewaySeen EXCEPT ![g] = gatewayNodes[g]]
    /\ gatewayAllow' = [gatewayAllow EXCEPT ![g] = None]
    /\ gatewayNodes' = [gatewayNodes EXCEPT ![g] = None]
    /\ grantCache' = [c \in Clients |-> [grantCache[c] EXCEPT ![g] = None]]
    /\ Persist
    /\ admin' = [admin EXCEPT ![g] = "delist"]
    /\ UNCHANGED <<policy, policyRev, issued, reports, client, deferred, view>>

\* The command ends by pushing the change, if it is the first to see it.
AdminPushes(g) ==
    /\ admin[g] # "no"
    /\ SyncIfNeeded
    /\ view' = Dispatched(NoPackets, ChangePackets)
    /\ admin' = [admin EXCEPT ![g] = "no"]
    /\ UNCHANGED <<approvalVars, reports, client, deferred>>

--------------------------------------------------------------------------------
(* Clients *)

\* A service packet that is not about grants (a status report, a punch result, a
\* DNS query, ...): the change it finds is dispatched only after an answer.
OtherPacket(answered) ==
    /\ SyncIfNeeded
    /\ view' = IF answered THEN Dispatched(NoPackets, ChangePackets) ELSE view
    /\ UNCHANGED <<approvalVars, reports, admin, client, deferred>>

\* A packet about grants arrives: the sync it begins with.
PacketArrives(c, kind) ==
    /\ client[c] = "idle" /\ kind # "idle"
    /\ c \in Online \/ kind = "register"
    /\ SyncIfNeeded
    /\ client' = [client EXCEPT ![c] = kind]
    /\ deferred' = [deferred EXCEPT ![c] = ChangePackets]
    /\ UNCHANGED <<approvalVars, reports, admin, view>>

\* The handler of c's packet ends, and with it its deferred packets.
Ends(c) ==
    /\ client' = [client EXCEPT ![c] = "idle"]
    /\ deferred' = [deferred EXCEPT ![c] = NoPackets]

\* The handler fails, or its answer cannot be written.
PacketFails(c) ==
    /\ client[c] # "idle"
    /\ Ends(c)
    /\ UNCHANGED <<approvalVars, grantVars, reports, admin, view>>

\* HandleRegistration: grants for c, then for the clients of its network, in
\* packets that take the place of the deferred ones.
HandleRegistration(c) ==
    LET peers == {d \in Online \ {c} : NetOf[d] = NetOf[c]}
    IN  /\ client[c] = "register"
        /\ Sync
        /\ Build(peers \cup {c}, {})
        /\ view' = [Dispatched(NoPackets, PacketsTo(peers)) EXCEPT ![c] = Sent(c, {})]
        /\ Ends(c)
        /\ UNCHANGED <<approvalVars, reports, admin>>

\* HandlePullDeviceList
HandlePullDeviceList(c) ==
    /\ client[c] = "pull" /\ c \in Online
    /\ Sync
    /\ Build({c}, {})
    /\ view' = Dispatched(PacketsTo({c}), deferred[c])
    /\ Ends(c)
    /\ UNCHANGED <<approvalVars, reports, admin>>

\* The sessions a client can name in a refresh.
Sessions(c) == {<<g, view[c].grants[g].id>> : g \in {h \in Gateways : view[c].grants[h] # None}}

\* Mutant: the revision the client has is not compared.
RefreshResultAnyRev(c, force, last) ==
    LET sent == Sent(c, Reissued(c, force, last))
    IN  IF sent.grants # NoGrants
        THEN IF /\ ~force /\ last # None
                /\ ~\E g \in Gateways : Issues(c, g, Reissued(c, force, last))
             THEN "NO_CHANGE" ELSE "UPDATED"
        ELSE IF view[c].rev < sent.rev THEN "REVOKED" ELSE "TEMPORARILY_UNAVAILABLE"

\* The result of HandleRefreshGatewayGrant.
RefreshResult(c, force, last) ==
    LET sent == Sent(c, Reissued(c, force, last))
    IN  IF sent.grants # NoGrants
        THEN IF /\ ~force /\ last # None /\ view[c].rev = sent.rev
                /\ ~\E g \in Gateways : Issues(c, g, Reissued(c, force, last))
             THEN "NO_CHANGE" ELSE "UPDATED"
        ELSE IF view[c].rev < sent.rev THEN "REVOKED" ELSE "TEMPORARILY_UNAVAILABLE"

\* HandleRefreshGatewayGrant; a client told REVOKED has no grants left.
HandleRefreshGatewayGrant(c, force, last) ==
    LET result == RefreshResult(c, force, last)
        sent == Sent(c, Reissued(c, force, last))
        answer == [d \in Clients |->
                     IF d = c /\ result \in {"UPDATED", "REVOKED"} THEN sent ELSE None]
    IN  /\ client[c] = "refresh" /\ c \in Online
        /\ Sync
        /\ Build({c}, Reissued(c, force, last))
        /\ view' = Dispatched(answer, deferred[c])
        /\ Ends(c)
        /\ UNCHANGED <<approvalVars, reports, admin>>

\* The session of c ends.
Disconnect(c) ==
    /\ c \in Online
    /\ view' = [view EXCEPT ![c] = Offline]
    /\ Ends(c)
    /\ UNCHANGED <<approvalVars, grantVars, reports, admin>>

--------------------------------------------------------------------------------
(* Time and restarts *)

\* No report for gatewayNodeLease.  A report that is seen is never older than
\* the node.
LeaseExpires(g, seenToo) ==
    /\ \/ gatewayNodes[g] # None /\ gatewayNodes[g].alive
       \/ seenToo /\ gatewaySeen[g] # None /\ gatewaySeen[g].alive
    /\ gatewayNodes' = IF gatewayNodes[g] = None THEN gatewayNodes
                       ELSE [gatewayNodes EXCEPT ![g].alive = FALSE]
    /\ gatewaySeen' = IF gatewaySeen[g] = None \/ ~seenToo THEN gatewaySeen
                      ELSE [gatewaySeen EXCEPT ![g].alive = FALSE]
    /\ UNCHANGED <<gatewayAllow, stored, grantVars, reports, admin, client, deferred,
                   view>>

\* A cached grant has 30 seconds left, or less.
GrantAges(c, g) ==
    /\ grantCache[c][g] # None /\ grantCache[c][g].fresh
    /\ grantCache' = [grantCache EXCEPT ![c][g].fresh = FALSE]
    /\ UNCHANGED <<approvalVars, policy, policyRev, issued, reports, admin, client, deferred,
                   view>>

\* newGatewayApprovalStateFromStore: only the approvals survive; without them
\* when the store cannot be read.
Restart(ok) ==
    /\ gatewayAllow' = IF ok THEN stored ELSE NoGrants
    /\ gatewayNodes' = NoGrants /\ gatewaySeen' = NoGrants
    /\ policy' = NoGrants /\ policyRev' = 0
    /\ grantCache' = [c \in Clients |-> NoGrants]
    /\ issued' = [c \in Clients |-> [g \in Gateways |-> 0]]
    /\ reports' = {} /\ admin' = [g \in Gateways |-> "no"]
    /\ client' = [c \in Clients |-> "idle"] /\ deferred' = [c \in Clients |-> NoPackets]
    /\ view' = [c \in Clients |-> Offline]
    /\ UNCHANGED stored

GatewayNext ==
    \/ \E g \in Gateways, ep \in Endpoints : HandleGatewayReport(g, ep)
    \/ \E r \in reports : IsGatewayAllowed(r)
    \/ \E r \in reports : RegisterGatewayNode(r)
    \/ \E r \in reports, written \in BOOLEAN : ReportAnswered(r, written)
    \/ \E g \in Gateways : ApproveGatewayNodeByID(g)
    \/ \E g \in Gateways : DelistGatewayNodeByID(g)
    \/ \E g \in Gateways : AdminPushes(g)
    \/ \E answered \in BOOLEAN : OtherPacket(answered)
    \/ \E c \in Clients, kind \in ClientSteps : PacketArrives(c, kind)
    \/ \E c \in Clients : PacketFails(c)
    \/ \E c \in Clients : HandleRegistration(c)
    \/ \E c \in Clients : HandlePullDeviceList(c)
    \/ \E c \in Clients, force \in BOOLEAN : \E last \in Sessions(c) \cup {None} :
          HandleRefreshGatewayGrant(c, force, last)
    \/ \E c \in Clients : Disconnect(c)
    \/ \E g \in Gateways, seenToo \in BOOLEAN : LeaseExpires(g, seenToo)
    \/ \E c \in Clients, g \in Gateways : GrantAges(c, g)
    \/ \E ok \in LoadResults : Restart(ok)

GatewaySpec == GatewayInit /\ [][GatewayNext]_gatewayVars

--------------------------------------------------------------------------------
(* Properties *)

GatewayTypeOK ==
    /\ gatewayAllow \in Approvals /\ stored \in Approvals /\ policy \in Approvals
    /\ gatewayNodes \in [Gateways -> Node \cup {None}]
    /\ gatewaySeen \in [Gateways -> Node \cup {None}]
    /\ policyRev \in 0..MaxRev
    /\ \A c \in Clients, g \in Gateways :
          /\ grantCache[c][g] \in CachedGrant \cup {None}
          /\ issued[c][g] \in 0..MaxIssued
    /\ \A r \in reports :
          /\ r.gw \in Gateways /\ r.ep \in Endpoints /\ r.at \in {"check", "register", "sync"}
          /\ \A c \in Clients : r.push[c] = None \/ r.push[c].rev \in 1..MaxRev
    /\ admin \in [Gateways -> AdminSteps] /\ client \in [Clients -> ClientSteps]
    /\ \A c \in Clients : view[c] = Offline \/ (view[c].on /\ view[c].rev \in 1..MaxRev)

(* Grants are cached only for gateways that are approved at the endpoint of   *)
(* their node: DelistGatewayNodeByID removes all three, and no interleaving   *)
(* of reports, commands and packets brings a grant back without an approval.  *)
GrantsApproved ==
    \A c \in Clients, g \in Gateways :
        grantCache[c][g] # None =>
            gatewayNodes[g] # None /\ gatewayAllow[g] = gatewayNodes[g].ep

(* A client whose last packet has the current policy revision was sent a      *)
(* grant for every gateway of the policy, at its endpoint, whichever packets  *)
(* were dropped or came late: what a refresh relies on when it compares       *)
(* revisions only.                                                            *)
RevisionComplete ==
    \A c \in Online, g \in Gateways :
        view[c].rev = policyRev /\ policy[g] # None =>
            view[c].grants[g] # None /\ view[c].grants[g].ep = policy[g]

(* "gateway grant unchanged" (NO_CHANGE) is answered only to a client that    *)
(* has a grant for every approved gateway with a lease, at the endpoint of    *)
(* its last report.                                                           *)
NoChangeCurrent ==
    \A c \in Online : \A last \in Sessions(c) :
        RefreshResult(c, FALSE, last) = "NO_CHANGE" =>
            \A g \in Gateways : AliveNodes[g] # None =>
                view[c].grants[g] # None /\ view[c].grants[g].ep = AliveNodes[g]

================================================================================
