-------------------------- MODULE GatewayControlProofs --------------------------
(***************************************************************************)
(* Theorems about GatewayControl, for any gateways, endpoints, clients and *)
(* networks, and any bounds.                                               *)
(***************************************************************************)
EXTENDS GatewayControl, TLAPS

\* A packet for a client, under the policy pol with revision rev: one that has this
\* revision has a grant for every gateway of the policy.
Good(p, pol, rev) ==
    /\ p \in Packet /\ 1 <= p.rev /\ p.rev <= rev
    /\ p.rev = rev => \A g \in Gateways : pol[g] # None =>
                          p.grants[g] # None /\ p.grants[g].ep = pol[g]

GoodPackets(f, pol, rev) ==
    /\ f \in [Clients -> Packet \cup {None}]
    /\ \A c \in Clients : f[c] = None \/ Good(f[c], pol, rev)

GoodViews(v, pol, rev) ==
    /\ v \in [Clients -> Packet \cup {Offline}]
    /\ \A c \in Clients : v[c] = Offline \/ Good(v[c], pol, rev)

\* A node is where its gateway is approved.
ApprovalsKept ==
    /\ gatewayAllow \in Approvals /\ stored \in Approvals
    /\ gatewayNodes \in [Gateways -> Node \cup {None}]
    /\ gatewaySeen \in [Gateways -> Node \cup {None}]
    /\ \A g \in Gateways : gatewayNodes[g] # None => gatewayAllow[g] = gatewayNodes[g].ep

\* A grant is cached for a gateway that has a node.
GrantsKept ==
    /\ policy \in Approvals /\ policyRev \in 0..MaxRev
    /\ grantCache \in [Clients -> [Gateways -> CachedGrant \cup {None}]]
    /\ issued \in [Clients -> [Gateways -> 0..MaxIssued]]
    /\ \A c \in Clients, g \in Gateways : grantCache[c][g] # None => gatewayNodes[g] # None

\* Every packet sent, or held back by a handler, is good under the policy.
PacketsKept ==
    /\ reports \subseteq Report
    /\ admin \in [Gateways -> AdminSteps] /\ client \in [Clients -> ClientSteps]
    /\ \A r \in reports : GoodPackets(r.push, policy, policyRev)
    /\ DOMAIN deferred = Clients
    /\ \A c \in Clients : GoodPackets(deferred[c], policy, policyRev)
    /\ GoodViews(view, policy, policyRev)

\* The inductive invariant.
GatewayInv == ApprovalsKept /\ GrantsKept /\ PacketsKept

\* GatewayNotNone: None is no endpoint, node, grant or packet.
LEMMA GatewayNotNone ==
    /\ None \notin Endpoints /\ None \notin Node /\ None \notin Grant
    /\ None \notin CachedGrant /\ None \notin Packet
BY GatewayAssumption

\* BoundsNat: the bounds are naturals.
LEMMA BoundsNat == MaxIssued \in Nat /\ MaxRev \in Nat
BY GatewayAssumption

\* OfflineIsOff: a client without a session was sent no packet.
LEMMA OfflineIsOff == Offline.on = FALSE /\ Offline \notin Packet /\ \A p \in Packet : p.on
BY Zenon DEF Offline, Packet

\* PacketTypes: the parts of a packet.
LEMMA PacketTypes ==
    ASSUME NEW p \in Packet
    PROVE  p.rev \in Nat /\ p.rev \in 0..MaxRev /\ p.grants \in [Gateways -> Grant \cup {None}]
<1>1. p.rev \in 0..MaxRev /\ p.grants \in [Gateways -> Grant \cup {None}]
  BY DEF Packet
<1> QED
  BY <1>1, BoundsNat

\* GatewayInitInv: the invariant holds at the start.
LEMMA GatewayInitInv == GatewayInit => GatewayInv
<1> SUFFICES ASSUME GatewayInit PROVE GatewayInv
  OBVIOUS
<1>1. NoGrants \in [Gateways -> {None}] /\ \A g \in Gateways : NoGrants[g] = None
  BY DEF NoGrants
<1>2. NoPackets \in [Clients -> {None}] /\ \A c \in Clients : NoPackets[c] = None
  BY DEF NoPackets
<1>3. ApprovalsKept
  BY <1>1 DEF GatewayInit, ApprovalsKept, Approvals
<1>4. GrantsKept
  BY <1>1, BoundsNat DEF GatewayInit, GrantsKept, Approvals
<1>5. GoodPackets(NoPackets, policy, policyRev)
  BY <1>2 DEF GoodPackets
<1>6. GoodViews(view, policy, policyRev)
  BY DEF GatewayInit, GoodViews
<1>7. PacketsKept
  BY <1>5, <1>6 DEF GatewayInit, PacketsKept, AdminSteps, ClientSteps
<1> QED
  BY <1>3, <1>4, <1>7 DEF GatewayInv

--------------------------------------------------------------------------------
(* Policy and grants *)

\* AliveTypes: what the policy is made of.
LEMMA AliveTypes ==
    ASSUME ApprovalsKept
    PROVE  /\ AliveNodes \in Approvals
           /\ \A g \in Gateways : AliveNodes[g] # None =>
                 /\ Approved(g) /\ gatewayNodes[g] # None /\ gatewayNodes[g].alive
                 /\ AliveNodes[g] = gatewayNodes[g].ep
<1>1. \A g \in Gateways : gatewayNodes[g] # None => gatewayNodes[g].ep \in Endpoints
  BY DEF ApprovalsKept, Node
<1>2. \A g \in Gateways : Approved(g) => gatewayNodes[g] # None
  BY DEF Approved
<1>3. \A g \in Gateways : AliveNodes[g] = IF Approved(g) /\ gatewayNodes[g].alive
                                          THEN gatewayNodes[g].ep ELSE None
  BY DEF AliveNodes
<1>4. AliveNodes \in Approvals
  BY <1>1, <1>2 DEF AliveNodes, Approvals
<1> QED
  BY <1>2, <1>3, <1>4

\* SyncedPolicy: the policy after syncGatewayGrantPolicyLocked, and what packets of
\* the old one are under the new one.
LEMMA SyncedPolicy ==
    ASSUME ApprovalsKept, GrantsKept, Sync
    PROVE  /\ policy' = AliveNodes /\ policy' \in Approvals
           /\ policyRev' = RevAfterSync /\ policyRev' \in 1..MaxRev
           /\ \A p : Good(p, policy, policyRev) => Good(p, policy', policyRev')
<1>1. policyRev \in Nat /\ policyRev' = RevAfterSync /\ RevAfterSync <= MaxRev
  BY DEF GrantsKept, Sync
<1>2. policy' = AliveNodes
  BY DEF Sync, PolicyChanged
<1>3. policy' \in Approvals
  BY <1>2, AliveTypes
<1>4. policyRev' \in 1..MaxRev
  BY <1>1, BoundsNat DEF RevAfterSync
<1>5. ASSUME NEW p, Good(p, policy, policyRev) PROVE Good(p, policy', policyRev')
  <2>1. p \in Packet /\ p.rev \in Nat /\ 1 <= p.rev /\ p.rev <= policyRev
    BY <1>5, PacketTypes DEF Good
  <2>2. CASE PolicyChanged
    <3>1. policyRev' = policyRev + 1
      BY <1>1, <2>2 DEF RevAfterSync
    <3>2. p.rev <= policyRev' /\ p.rev # policyRev'
      BY <1>1, <2>1, <3>1
    <3> QED
      BY <2>1, <3>2 DEF Good
  <2>3. CASE ~PolicyChanged
    <3>1. policy' = policy
      BY <2>3 DEF Sync
    <3>2. policyRev' = policyRev
      BY <1>1, <2>1, <2>3 DEF RevAfterSync
    <3> QED
      BY <1>5, <3>1, <3>2
  <2> QED
    BY <2>2, <2>3
<1> QED
  BY <1>1, <1>2, <1>3, <1>4, <1>5

\* BuiltTypes: a cached grant after a build is for the node as it is now, and there
\* is one for every gateway of the policy.
LEMMA BuiltTypes ==
    ASSUME ApprovalsKept, GrantsKept, NEW c \in Clients, NEW g \in Gateways, NEW again,
           Issues(c, g, again) => issued[c][g] < MaxIssued
    PROVE  /\ Built(c, g, again) \in CachedGrant \cup {None}
           /\ Built(c, g, again) # None => gatewayNodes[g] # None
           /\ AliveNodes[g] # None =>
                 Built(c, g, again) # None /\ Built(c, g, again).grant.ep = AliveNodes[g]
<1>1. grantCache[c][g] \in CachedGrant \cup {None} /\ issued[c][g] \in 0..MaxIssued
  BY DEF GrantsKept
<1>2. AliveNodes[g] # None =>
         /\ Approved(g) /\ gatewayNodes[g] # None /\ gatewayNodes[g].alive
         /\ AliveNodes[g] = gatewayNodes[g].ep
  BY AliveTypes
<1>3. Approved(g) => gatewayNodes[g] # None /\ gatewayNodes[g].ep \in Endpoints
  BY DEF Approved, ApprovalsKept, Node
<1>4. CASE Issues(c, g, again)
  <2> DEFINE id == issued[c][g] + 1
             ep == gatewayNodes[g].ep
             new == [grant |-> [ep |-> ep, id |-> id], fresh |-> TRUE]
  <2>1. id \in 1..MaxIssued
    BY <1>1, <1>4, BoundsNat
  <2>2. Approved(g)
    BY <1>4 DEF Issues
  <2>3. Built(c, g, again) = new
    BY <1>4 DEF Built
  <2>4. ep \in Endpoints
    BY <1>3, <2>2
  <2> HIDE DEF id, ep
  <2>5. new \in CachedGrant /\ new.grant.ep = ep
    BY <2>1, <2>4 DEF CachedGrant, Grant
  <2> HIDE DEF new
  <2> QED
    BY <1>2, <1>3, <2>2, <2>3, <2>5, GatewayNotNone DEF ep
<1>5. CASE ~Issues(c, g, again)
  <2>1. Built(c, g, again) = Pruned(c, g)
    BY <1>5 DEF Built
  <2>2. Pruned(c, g) = IF Usable(g, grantCache[c][g]) THEN grantCache[c][g] ELSE None
    BY DEF Pruned
  <2>3. AliveNodes[g] # None => Pruned(c, g) # None
    BY <1>2, <1>5 DEF Issues
  <2>4. Pruned(c, g) # None => /\ Approved(g) /\ Pruned(c, g) = grantCache[c][g]
                               /\ Pruned(c, g).grant.ep = gatewayNodes[g].ep
    BY <2>2 DEF Usable
  <2> QED
    BY <1>1, <1>2, <1>3, <2>1, <2>3, <2>4
<1> QED
  BY <1>4, <1>5

\* BuiltCache: the cache after buildGatewayAccessGrantsLocked.
LEMMA BuiltCache ==
    ASSUME ApprovalsKept, GrantsKept, NEW cs \in SUBSET Clients, NEW again, Build(cs, again)
    PROVE  /\ grantCache' \in [Clients -> [Gateways -> CachedGrant \cup {None}]]
           /\ issued' \in [Clients -> [Gateways -> 0..MaxIssued]]
           /\ \A c \in Clients, g \in Gateways : grantCache'[c][g] # None => gatewayNodes[g] # None
<1>1. \A c \in cs, g \in Gateways : Issues(c, g, again) => issued[c][g] < MaxIssued
  BY DEF Build
<1>2. \A c \in cs, g \in Gateways : /\ Built(c, g, again) \in CachedGrant \cup {None}
                                    /\ Built(c, g, again) # None => gatewayNodes[g] # None
  BY <1>1, BuiltTypes
<1>3. \A c \in Clients, g \in Gateways : /\ Pruned(c, g) \in CachedGrant \cup {None}
                                         /\ Pruned(c, g) # None => gatewayNodes[g] # None
  BY DEF Pruned, GrantsKept
<1>4. issued' \in [Clients -> [Gateways -> 0..MaxIssued]]
  <2> DEFINE n(c, g) == IF c \in cs /\ Issues(c, g, again) THEN issued[c][g] + 1 ELSE issued[c][g]
  <2>1. ASSUME NEW c \in Clients, NEW g \in Gateways PROVE n(c, g) \in 0..MaxIssued
    <3>1. issued[c][g] \in 0..MaxIssued
      BY DEF GrantsKept
    <3> QED
      BY <1>1, <3>1, BoundsNat
  <2>2. issued' = [c \in Clients |-> [g \in Gateways |-> n(c, g)]]
    BY DEF Build
  <2> HIDE DEF n
  <2> QED
    BY <2>1, <2>2
<1>5. CASE cs = {}
  BY <1>4, <1>5 DEF Build, GrantsKept
<1>6. CASE cs # {}
  <2> DEFINE x(c, g) == IF c \in cs THEN Built(c, g, again) ELSE Pruned(c, g)
  <2>1. grantCache' = [c \in Clients |-> [g \in Gateways |-> x(c, g)]]
    BY <1>6 DEF Build
  <2>2. \A c \in Clients, g \in Gateways : /\ x(c, g) \in CachedGrant \cup {None}
                                           /\ x(c, g) # None => gatewayNodes[g] # None
    BY <1>2, <1>3
  <2> HIDE DEF x
  <2> QED
    BY <1>4, <2>1, <2>2
<1> QED
  BY <1>5, <1>6

\* Synced: a critical section that syncs the policy and builds the grants of cs.
LEMMA Synced ==
    ASSUME ApprovalsKept, GrantsKept, NEW cs \in SUBSET Clients, NEW again,
           Sync, Build(cs, again), gatewayNodes' = gatewayNodes
    PROVE  /\ GrantsKept'
           /\ \A p : Good(p, policy, policyRev) => Good(p, policy', policyRev')
           /\ \A c \in cs : Good(Sent(c, again), policy', policyRev')
<1>1. /\ policy' = AliveNodes /\ policy' \in Approvals
      /\ policyRev' = RevAfterSync /\ policyRev' \in 1..MaxRev
      /\ \A p : Good(p, policy, policyRev) => Good(p, policy', policyRev')
  BY SyncedPolicy
<1>2. GrantsKept'
  <2>1. /\ grantCache' \in [Clients -> [Gateways -> CachedGrant \cup {None}]]
        /\ issued' \in [Clients -> [Gateways -> 0..MaxIssued]]
        /\ \A c \in Clients, g \in Gateways : grantCache'[c][g] # None => gatewayNodes[g] # None
    BY BuiltCache, Zenon
  <2>2. policyRev' \in 0..MaxRev
    BY <1>1, BoundsNat
  <2> QED
    BY <1>1, <2>1, <2>2 DEF GrantsKept
<1>3. ASSUME NEW c \in cs PROVE Good(Sent(c, again), policy', policyRev')
  <2> DEFINE grants == [g \in Gateways |-> IF Built(c, g, again) = None THEN None
                                           ELSE Built(c, g, again).grant]
             p == [rev |-> RevAfterSync, on |-> TRUE, grants |-> grants]
  <2>1. \A g \in Gateways :
           /\ Built(c, g, again) \in CachedGrant \cup {None}
           /\ AliveNodes[g] # None =>
                 Built(c, g, again) # None /\ Built(c, g, again).grant.ep = AliveNodes[g]
    BY BuiltTypes DEF Build
  <2>2. \A g \in Gateways : Built(c, g, again) # None => Built(c, g, again).grant \in Grant
    BY <2>1 DEF CachedGrant
  <2>3. grants \in [Gateways -> Grant \cup {None}]
    BY <2>2
  <2>4. \A g \in Gateways : AliveNodes[g] # None => grants[g] # None /\ grants[g].ep = AliveNodes[g]
    BY <2>1, <2>2, GatewayNotNone
  <2> HIDE DEF grants
  <2>5. RevAfterSync \in 0..MaxRev /\ 1 <= RevAfterSync /\ RevAfterSync <= policyRev'
    BY <1>1, BoundsNat
  <2>6. p \in Packet /\ p.rev = RevAfterSync /\ p.grants = grants
    BY <2>3, <2>5 DEF Packet
  <2>7. Sent(c, again) = p
    BY DEF Sent, grants
  <2> HIDE DEF p
  <2> QED
    BY <1>1, <2>4, <2>5, <2>6, <2>7 DEF Good
<1> QED
  BY <1>1, <1>2, <1>3

--------------------------------------------------------------------------------
(* Packets *)

\* PacketsGood: the packets built for cs.
LEMMA PacketsGood ==
    ASSUME NEW cs \in SUBSET Clients,
           \A c \in cs : Good(Sent(c, {}), policy', policyRev')
    PROVE  GoodPackets(PacketsTo(cs), policy', policyRev')
<1>1. \A c \in Clients : PacketsTo(cs)[c] = IF c \in cs THEN Sent(c, {}) ELSE None
  BY DEF PacketsTo
<1>2. \A c \in cs : Sent(c, {}) \in Packet
  BY DEF Good
<1>3. PacketsTo(cs) \in [Clients -> Packet \cup {None}]
  BY <1>2 DEF PacketsTo
<1> QED
  BY <1>1, <1>3 DEF GoodPackets

\* NoPacketsGood: nothing is sent.
LEMMA NoPacketsGood == ASSUME NEW pol, NEW rev PROVE GoodPackets(NoPackets, pol, rev)
BY DEF GoodPackets, NoPackets

\* StillGood: good packets and views are good after a sync.
LEMMA StillGood ==
    ASSUME \A p : Good(p, policy, policyRev) => Good(p, policy', policyRev')
    PROVE  /\ \A f : GoodPackets(f, policy, policyRev) => GoodPackets(f, policy', policyRev')
           /\ \A v : GoodViews(v, policy, policyRev) => GoodViews(v, policy', policyRev')
BY DEF GoodPackets, GoodViews

\* DispatchedGood: connected clients get good packets, in whatever order.
LEMMA DispatchedGood ==
    ASSUME NEW pol, NEW rev, NEW p, NEW q,
           GoodPackets(p, pol, rev), GoodPackets(q, pol, rev), GoodViews(view, pol, rev)
    PROVE  GoodViews(Dispatched(p, q), pol, rev)
<1>1. \A c \in Clients : \/ Dispatched(p, q)[c] = view[c]
                         \/ Dispatched(p, q)[c] = q[c] /\ q[c] # None
                         \/ Dispatched(p, q)[c] = p[c] /\ p[c] # None
  BY DEF Dispatched
<1>2. \A c \in Clients : /\ Dispatched(p, q)[c] \in Packet \cup {Offline}
                         /\ Dispatched(p, q)[c] = Offline \/ Good(Dispatched(p, q)[c], pol, rev)
  BY <1>1 DEF GoodPackets, GoodViews
<1>3. Dispatched(p, q) \in [Clients -> Packet \cup {Offline}]
  BY <1>2 DEF Dispatched
<1> QED
  BY <1>2, <1>3 DEF GoodViews

\* ChangeSynced: what every service packet begins with.
LEMMA ChangeSynced ==
    ASSUME ApprovalsKept, GrantsKept, SyncIfNeeded, gatewayNodes' = gatewayNodes
    PROVE  /\ GrantsKept'
           /\ \A p : Good(p, policy, policyRev) => Good(p, policy', policyRev')
           /\ GoodPackets(ChangePackets, policy', policyRev')
<1> DEFINE cs == IF PolicyChanged THEN Online ELSE {}
<1>1. cs \in SUBSET Clients
  BY DEF Online
<1>2. Sync /\ Build(cs, {})
  BY DEF SyncIfNeeded
<1>3. ChangePackets = PacketsTo(cs)
  BY DEF ChangePackets
<1> HIDE DEF cs
<1>4. /\ GrantsKept'
      /\ \A p : Good(p, policy, policyRev) => Good(p, policy', policyRev')
      /\ \A c \in cs : Good(Sent(c, {}), policy', policyRev')
  BY <1>1, <1>2, Synced
<1>5. GoodPackets(PacketsTo(cs), policy', policyRev')
  BY <1>1, <1>4, PacketsGood
<1> QED
  BY <1>3, <1>4, <1>5

\* ApprovalsSame: a step that leaves the approvals alone.
LEMMA ApprovalsSame == ASSUME ApprovalsKept, UNCHANGED approvalVars PROVE ApprovalsKept'
BY DEF ApprovalsKept, approvalVars

\* GrantsSame: a step that leaves the grants alone, and takes away no node.
LEMMA GrantsSame ==
    ASSUME GrantsKept, UNCHANGED grantVars,
           \A g \in Gateways : gatewayNodes[g] # None => gatewayNodes'[g] # None
    PROVE  GrantsKept' /\ policy' = policy /\ policyRev' = policyRev
BY DEF GrantsKept, grantVars

\* PacketsSame: the handlers hold what they held, under the policy after a sync.
LEMMA PacketsSame ==
    ASSUME PacketsKept, UNCHANGED <<reports, admin, client, deferred>>,
           \A p : Good(p, policy, policyRev) => Good(p, policy', policyRev'),
           GoodViews(view', policy', policyRev')
    PROVE  PacketsKept'
BY StillGood DEF PacketsKept

--------------------------------------------------------------------------------
(* Steps *)

\* ReportArrives: a report is taken, with the packets of the change it found.
LEMMA ReportArrives ==
    ASSUME GatewayInv, NEW g \in Gateways, NEW ep \in Endpoints, HandleGatewayReport(g, ep)
    PROVE  GatewayInv'
<1>1. ApprovalsKept /\ GrantsKept /\ PacketsKept
  BY DEF GatewayInv
<1>2. /\ SyncIfNeeded /\ gatewayNodes' = gatewayNodes /\ gatewayAllow' = gatewayAllow
      /\ UNCHANGED <<stored, admin, client, deferred, view>>
      /\ gatewaySeen' = [gatewaySeen EXCEPT ![g] = [ep |-> ep, alive |-> TRUE]]
      /\ reports' = reports \cup {[gw |-> g, ep |-> ep, at |-> "check", push |-> ChangePackets]}
  BY DEF HandleGatewayReport
<1>3. /\ GrantsKept'
      /\ \A p : Good(p, policy, policyRev) => Good(p, policy', policyRev')
      /\ GoodPackets(ChangePackets, policy', policyRev')
  BY <1>1, <1>2, ChangeSynced
<1>4. ApprovalsKept'
  BY <1>1, <1>2 DEF ApprovalsKept, Node
<1>5. PacketsKept'
  <2> DEFINE new == [gw |-> g, ep |-> ep, at |-> "check", push |-> ChangePackets]
  <2>1. ChangePackets \in [Clients -> Packet \cup {None}]
    BY <1>3 DEF GoodPackets
  <2>2. new \in Report /\ new.push = ChangePackets
    BY <2>1 DEF Report
  <2>3. reports' = reports \cup {new}
    BY <1>2
  <2> HIDE DEF new
  <2>4. reports' \subseteq Report /\ \A r \in reports' : GoodPackets(r.push, policy', policyRev')
    BY <1>1, <1>3, <2>2, <2>3, StillGood DEF PacketsKept
  <2> QED
    BY <1>1, <1>2, <1>3, <2>4, StillGood DEF PacketsKept
<1> QED
  BY <1>3, <1>4, <1>5 DEF GatewayInv

\* ReportMoves: a report at its next step keeps its packets.
LEMMA ReportMoves ==
    ASSUME PacketsKept, NEW r \in reports, NEW at \in {"check", "register", "sync"},
           reports' = (reports \ {r}) \cup {[r EXCEPT !.at = at]},
           UNCHANGED <<admin, client, deferred, view, policy, policyRev>>
    PROVE  PacketsKept'
<1> DEFINE new == [r EXCEPT !.at = at]
<1>1. r \in Report
  BY DEF PacketsKept
<1>2. new \in Report /\ new.push = r.push
  BY <1>1 DEF Report
<1>3. reports' = (reports \ {r}) \cup {new}
  OBVIOUS
<1> HIDE DEF new
<1>4. reports' \subseteq Report /\ \A x \in reports' : GoodPackets(x.push, policy, policyRev)
  BY <1>2, <1>3 DEF PacketsKept
<1> QED
  BY <1>4 DEF PacketsKept

\* ReportChecked: isGatewayAllowed.
LEMMA ReportChecked ==
    ASSUME GatewayInv, NEW r \in reports, IsGatewayAllowed(r)
    PROVE  GatewayInv'
<1> DEFINE at == IF r.gw = Default \/ gatewayAllow[r.gw] = r.ep THEN "register" ELSE "sync"
<1>1. ApprovalsKept /\ GrantsKept /\ PacketsKept
  BY DEF GatewayInv
<1>2. /\ at \in {"check", "register", "sync"}
      /\ reports' = (reports \ {r}) \cup {[r EXCEPT !.at = at]}
      /\ UNCHANGED <<approvalVars, grantVars, admin, client, deferred, view>>
  BY DEF IsGatewayAllowed
<1> HIDE DEF at
<1>3. ApprovalsKept'
  BY <1>1, <1>2, ApprovalsSame
<1>4. GrantsKept' /\ policy' = policy /\ policyRev' = policyRev
  BY <1>1, <1>2, GrantsSame DEF approvalVars
<1>5. PacketsKept'
  BY <1>1, <1>2, <1>4, ReportMoves
<1> QED
  BY <1>3, <1>4, <1>5 DEF GatewayInv

\* ReportRegistered: approval and node change together.
LEMMA ReportRegistered ==
    ASSUME GatewayInv, NEW r \in reports, RegisterGatewayNode(r)
    PROVE  GatewayInv'
<1>1. ApprovalsKept /\ GrantsKept /\ PacketsKept
  BY DEF GatewayInv
<1>2. r.gw \in Gateways /\ r.ep \in Endpoints
  BY <1>1 DEF PacketsKept, Report
<1> DEFINE node == [ep |-> r.ep, alive |-> TRUE]
<1>3. node \in Node /\ node.ep = r.ep
  BY <1>2 DEF Node
<1>4. /\ gatewayAllow' = [gatewayAllow EXCEPT ![r.gw] = r.ep]
      /\ gatewayNodes' = [gatewayNodes EXCEPT ![r.gw] = node]
      /\ gatewaySeen' = [gatewaySeen EXCEPT ![r.gw] = None]
      /\ reports' = (reports \ {r}) \cup {[r EXCEPT !.at = "sync"]}
      /\ UNCHANGED <<grantVars, admin, client, deferred, view>>
  BY DEF RegisterGatewayNode
<1>5. stored' = gatewayAllow' \/ stored' = stored
  BY DEF RegisterGatewayNode, Persist
<1> HIDE DEF node
<1>6. ApprovalsKept'
  BY <1>1, <1>2, <1>3, <1>4, <1>5 DEF ApprovalsKept, Approvals
<1>7. \A g \in Gateways : gatewayNodes[g] # None => gatewayNodes'[g] # None
  BY <1>1, <1>3, <1>4, GatewayNotNone DEF ApprovalsKept
<1>8. GrantsKept' /\ policy' = policy /\ policyRev' = policyRev
  BY <1>1, <1>4, <1>7, GrantsSame
<1>9. PacketsKept'
  BY <1>1, <1>4, <1>8, ReportMoves
<1> QED
  BY <1>6, <1>8, <1>9 DEF GatewayInv

\* ReportEnds: a report is answered; what it held back is sent, late as it may be.
LEMMA ReportEnds ==
    ASSUME GatewayInv, NEW r \in reports, NEW written \in BOOLEAN, ReportAnswered(r, written)
    PROVE  GatewayInv'
<1>1. ApprovalsKept /\ GrantsKept /\ PacketsKept
  BY DEF GatewayInv
<1>2. /\ SyncIfNeeded /\ UNCHANGED <<approvalVars, admin, client, deferred>>
      /\ view' = IF written THEN Dispatched(r.push, ChangePackets) ELSE view
      /\ reports' = reports \ {r}
  BY DEF ReportAnswered
<1>3. gatewayNodes' = gatewayNodes
  BY <1>2 DEF approvalVars
<1>4. /\ GrantsKept'
      /\ \A p : Good(p, policy, policyRev) => Good(p, policy', policyRev')
      /\ GoodPackets(ChangePackets, policy', policyRev')
  BY <1>1, <1>2, <1>3, ChangeSynced
<1>5. GoodPackets(r.push, policy', policyRev') /\ GoodViews(view, policy', policyRev')
  BY <1>1, <1>4, StillGood DEF PacketsKept
<1>6. GoodViews(view', policy', policyRev')
  BY <1>2, <1>4, <1>5, DispatchedGood
<1>7. PacketsKept'
  BY <1>1, <1>2, <1>4, <1>6, StillGood DEF PacketsKept
<1>8. ApprovalsKept'
  BY <1>1, <1>2, ApprovalsSame
<1> QED
  BY <1>4, <1>7, <1>8 DEF GatewayInv

\* CommandStep: a command of the admin has changed the approvals.
LEMMA CommandStep ==
    ASSUME PacketsKept, NEW g \in Gateways, NEW s \in AdminSteps, admin' = [admin EXCEPT ![g] = s],
           UNCHANGED <<policy, policyRev, reports, client, deferred, view>>
    PROVE  PacketsKept'
BY DEF PacketsKept

\* ApproveKeeps: an approved gateway stays as it is, another one is approved with its
\* node.
LEMMA ApproveKeeps ==
    ASSUME GatewayInv, NEW g \in Gateways, ApproveGatewayNodeByID(g)
    PROVE  GatewayInv'
<1>1. ApprovalsKept /\ GrantsKept /\ PacketsKept
  BY DEF GatewayInv
<1>2. /\ admin' = [admin EXCEPT ![g] = "enlist"]
      /\ UNCHANGED <<grantVars, reports, client, deferred, view>>
  BY DEF ApproveGatewayNodeByID
<1>3. ApprovalsKept' /\ \A h \in Gateways : gatewayNodes[h] # None => gatewayNodes'[h] # None
  <2>1. CASE UNCHANGED approvalVars
    BY <1>1, <2>1, ApprovalsSame DEF approvalVars
  <2>2. CASE ~UNCHANGED approvalVars
    <3>1. /\ gatewaySeen[g] # None
          /\ gatewayAllow' = [gatewayAllow EXCEPT ![g] = gatewaySeen[g].ep]
          /\ gatewayNodes' = [gatewayNodes EXCEPT ![g] = gatewaySeen[g]]
          /\ gatewaySeen' = gatewaySeen
          /\ stored' = gatewayAllow' \/ stored' = stored
      BY <2>2 DEF ApproveGatewayNodeByID, Persist
    <3>2. gatewaySeen[g] \in Node /\ gatewaySeen[g].ep \in Endpoints
      BY <1>1, <3>1 DEF ApprovalsKept, Node
    <3> QED
      BY <1>1, <3>1, <3>2, GatewayNotNone DEF ApprovalsKept, Approvals
  <2> QED
    BY <2>1, <2>2
<1>4. GrantsKept' /\ policy' = policy /\ policyRev' = policyRev
  BY <1>1, <1>2, <1>3, GrantsSame
<1>5. PacketsKept'
  BY <1>1, <1>2, <1>4, CommandStep, Zenon DEF AdminSteps
<1> QED
  BY <1>3, <1>4, <1>5 DEF GatewayInv

\* DelistKeeps: approval, node and cached grants go together.
LEMMA DelistKeeps ==
    ASSUME GatewayInv, NEW g \in Gateways, DelistGatewayNodeByID(g)
    PROVE  GatewayInv'
<1>1. ApprovalsKept /\ GrantsKept /\ PacketsKept
  BY DEF GatewayInv
<1>2. /\ gatewaySeen' = IF gatewayNodes[g] = None THEN gatewaySeen
                        ELSE [gatewaySeen EXCEPT ![g] = gatewayNodes[g]]
      /\ gatewayAllow' = [gatewayAllow EXCEPT ![g] = None]
      /\ gatewayNodes' = [gatewayNodes EXCEPT ![g] = None]
      /\ grantCache' = [c \in Clients |-> [grantCache[c] EXCEPT ![g] = None]]
      /\ stored' = gatewayAllow' \/ stored' = stored
      /\ admin' = [admin EXCEPT ![g] = "delist"]
      /\ UNCHANGED <<policy, policyRev, issued, reports, client, deferred, view>>
  BY DEF DelistGatewayNodeByID, Persist
<1>3. ApprovalsKept'
  <2>1. gatewayAllow' \in Approvals /\ stored' \in Approvals
    BY <1>1, <1>2 DEF ApprovalsKept, Approvals
  <2>2. gatewayNodes' \in [Gateways -> Node \cup {None}] /\ gatewaySeen' \in [Gateways -> Node \cup {None}]
    BY <1>1, <1>2 DEF ApprovalsKept
  <2>3. \A h \in Gateways : gatewayNodes'[h] # None => gatewayAllow'[h] = gatewayNodes'[h].ep
    BY <1>1, <1>2 DEF ApprovalsKept, Approvals
  <2> QED
    BY <2>1, <2>2, <2>3 DEF ApprovalsKept
<1>4. GrantsKept'
  <2>1. \A c \in Clients : grantCache'[c] \in [Gateways -> CachedGrant \cup {None}]
    BY <1>1, <1>2 DEF GrantsKept
  <2>2. \A c \in Clients, h \in Gateways : grantCache'[c][h] # None => h # g /\ grantCache[c][h] # None
    BY <1>1, <1>2 DEF GrantsKept
  <2>3. \A c \in Clients, h \in Gateways : grantCache'[c][h] # None => gatewayNodes'[h] # None
    BY <1>1, <1>2, <2>2 DEF GrantsKept, ApprovalsKept
  <2>4. grantCache' \in [Clients -> [Gateways -> CachedGrant \cup {None}]]
    BY <1>2, <2>1
  <2> QED
    BY <1>1, <1>2, <2>3, <2>4 DEF GrantsKept
<1>5. PacketsKept'
  BY <1>1, <1>2, CommandStep, Zenon DEF AdminSteps
<1> QED
  BY <1>3, <1>4, <1>5 DEF GatewayInv

\* AdminPushKeeps: a command ends, and sends the change if it found it.
LEMMA AdminPushKeeps ==
    ASSUME GatewayInv, NEW g \in Gateways, AdminPushes(g)
    PROVE  GatewayInv'
<1>1. ApprovalsKept /\ GrantsKept /\ PacketsKept
  BY DEF GatewayInv
<1>2. /\ SyncIfNeeded /\ view' = Dispatched(NoPackets, ChangePackets)
      /\ admin' = [admin EXCEPT ![g] = "no"] /\ UNCHANGED <<approvalVars, reports, client, deferred>>
  BY DEF AdminPushes
<1>3. ApprovalsKept' /\ gatewayNodes' = gatewayNodes
  BY <1>1, <1>2, ApprovalsSame DEF approvalVars
<1>4. /\ GrantsKept'
      /\ \A p : Good(p, policy, policyRev) => Good(p, policy', policyRev')
      /\ GoodPackets(ChangePackets, policy', policyRev')
  BY <1>1, <1>2, <1>3, ChangeSynced
<1>5. GoodViews(view, policy', policyRev')
  BY <1>1, <1>4, StillGood DEF PacketsKept
<1>6. GoodViews(view', policy', policyRev')
  BY <1>2, <1>4, <1>5, DispatchedGood, NoPacketsGood
<1>7. PacketsKept'
  BY <1>1, <1>2, <1>4, <1>6, StillGood DEF PacketsKept, AdminSteps
<1> QED
  BY <1>3, <1>4, <1>7 DEF GatewayInv

\* OtherKeeps: a packet that is not about grants.
LEMMA OtherKeeps ==
    ASSUME GatewayInv, NEW answered \in BOOLEAN, OtherPacket(answered)
    PROVE  GatewayInv'
<1>1. ApprovalsKept /\ GrantsKept /\ PacketsKept
  BY DEF GatewayInv
<1>2. /\ SyncIfNeeded /\ view' = IF answered THEN Dispatched(NoPackets, ChangePackets) ELSE view
      /\ UNCHANGED <<approvalVars, reports, admin, client, deferred>>
  BY DEF OtherPacket
<1>3. ApprovalsKept' /\ gatewayNodes' = gatewayNodes
  BY <1>1, <1>2, ApprovalsSame DEF approvalVars
<1>4. /\ GrantsKept'
      /\ \A p : Good(p, policy, policyRev) => Good(p, policy', policyRev')
      /\ GoodPackets(ChangePackets, policy', policyRev')
  BY <1>1, <1>2, <1>3, ChangeSynced
<1>5. GoodViews(view, policy', policyRev')
  BY <1>1, <1>4, StillGood DEF PacketsKept
<1>6. GoodViews(view', policy', policyRev')
  BY <1>2, <1>4, <1>5, DispatchedGood, NoPacketsGood
<1>7. PacketsKept'
  BY <1>1, <1>2, <1>4, <1>6, PacketsSame
<1> QED
  BY <1>3, <1>4, <1>7 DEF GatewayInv

\* ArrivalKeeps: a packet about grants arrives.
LEMMA ArrivalKeeps ==
    ASSUME GatewayInv, NEW c \in Clients, NEW kind \in ClientSteps, PacketArrives(c, kind)
    PROVE  GatewayInv'
<1>1. ApprovalsKept /\ GrantsKept /\ PacketsKept
  BY DEF GatewayInv
<1>2. /\ SyncIfNeeded /\ client' = [client EXCEPT ![c] = kind]
      /\ deferred' = [deferred EXCEPT ![c] = ChangePackets]
      /\ UNCHANGED <<approvalVars, reports, admin, view>>
  BY DEF PacketArrives
<1>3. ApprovalsKept' /\ gatewayNodes' = gatewayNodes
  BY <1>1, <1>2, ApprovalsSame DEF approvalVars
<1>4. /\ GrantsKept'
      /\ \A p : Good(p, policy, policyRev) => Good(p, policy', policyRev')
      /\ GoodPackets(ChangePackets, policy', policyRev')
  BY <1>1, <1>2, <1>3, ChangeSynced
<1>5. DOMAIN deferred' = Clients /\ \A d \in Clients : GoodPackets(deferred'[d], policy', policyRev')
  BY <1>1, <1>2, <1>4, StillGood DEF PacketsKept
<1>6. PacketsKept'
  BY <1>1, <1>2, <1>4, <1>5, StillGood DEF PacketsKept
<1> QED
  BY <1>3, <1>4, <1>6 DEF GatewayInv

\* Ended: the handler of a packet of c is done, after a sync or not.
LEMMA Ended ==
    ASSUME PacketsKept, NEW c \in Clients, Ends(c), UNCHANGED <<reports, admin>>,
           \A p : Good(p, policy, policyRev) => Good(p, policy', policyRev'),
           GoodViews(view', policy', policyRev')
    PROVE  PacketsKept'
<1>1. /\ client' = [client EXCEPT ![c] = "idle"]
      /\ deferred' = [deferred EXCEPT ![c] = NoPackets]
  BY DEF Ends
<1>2. GoodPackets(NoPackets, policy', policyRev')
  BY NoPacketsGood
<1>3. DOMAIN deferred' = Clients /\ \A d \in Clients : GoodPackets(deferred'[d], policy', policyRev')
  BY <1>1, <1>2, StillGood DEF PacketsKept
<1>4. client' \in [Clients -> ClientSteps]
  BY <1>1 DEF PacketsKept, ClientSteps
<1> QED
  BY <1>3, <1>4, StillGood DEF PacketsKept

\* FailureKeeps: a handler gives up.
LEMMA FailureKeeps ==
    ASSUME GatewayInv, NEW c \in Clients, PacketFails(c)
    PROVE  GatewayInv'
<1>1. ApprovalsKept /\ GrantsKept /\ PacketsKept
  BY DEF GatewayInv
<1>2. Ends(c) /\ UNCHANGED <<approvalVars, grantVars, reports, admin, view>>
  BY DEF PacketFails
<1>3. ApprovalsKept' /\ gatewayNodes' = gatewayNodes
  BY <1>1, <1>2, ApprovalsSame DEF approvalVars
<1>4. GrantsKept' /\ policy' = policy /\ policyRev' = policyRev
  BY <1>1, <1>2, <1>3, GrantsSame
<1>5. GoodViews(view', policy', policyRev')
  BY <1>1, <1>2, <1>4 DEF PacketsKept
<1>6. PacketsKept'
  BY <1>1, <1>2, <1>4, <1>5, Ended
<1> QED
  BY <1>3, <1>4, <1>6 DEF GatewayInv

\* DisconnectKeeps: a session ends.
LEMMA DisconnectKeeps ==
    ASSUME GatewayInv, NEW c \in Clients, Disconnect(c)
    PROVE  GatewayInv'
<1>1. ApprovalsKept /\ GrantsKept /\ PacketsKept
  BY DEF GatewayInv
<1>2. /\ Ends(c) /\ view' = [view EXCEPT ![c] = Offline]
      /\ UNCHANGED <<approvalVars, grantVars, reports, admin>>
  BY DEF Disconnect
<1>3. ApprovalsKept' /\ gatewayNodes' = gatewayNodes
  BY <1>1, <1>2, ApprovalsSame DEF approvalVars
<1>4. GrantsKept' /\ policy' = policy /\ policyRev' = policyRev
  BY <1>1, <1>2, <1>3, GrantsSame
<1>5. GoodViews(view', policy', policyRev')
  BY <1>1, <1>2, <1>4 DEF PacketsKept, GoodViews
<1>6. PacketsKept'
  BY <1>1, <1>2, <1>4, <1>5, Ended, Zenon
<1> QED
  BY <1>3, <1>4, <1>6 DEF GatewayInv

\* RegistrationKeeps: c gets its grants, and the clients of its network get theirs.
LEMMA RegistrationKeeps ==
    ASSUME GatewayInv, NEW c \in Clients, HandleRegistration(c)
    PROVE  GatewayInv'
<1> DEFINE peers == {d \in Online \ {c} : NetOf[d] = NetOf[c]}
<1>1. ApprovalsKept /\ GrantsKept /\ PacketsKept
  BY DEF GatewayInv
<1>2. /\ Sync /\ Build(peers \cup {c}, {}) /\ Ends(c)
      /\ view' = [Dispatched(NoPackets, PacketsTo(peers)) EXCEPT ![c] = Sent(c, {})]
      /\ UNCHANGED <<approvalVars, reports, admin>>
  BY DEF HandleRegistration
<1>3. peers \in SUBSET Clients /\ peers \cup {c} \in SUBSET Clients
  BY DEF Online
<1> HIDE DEF peers
<1>4. ApprovalsKept' /\ gatewayNodes' = gatewayNodes
  BY <1>1, <1>2, ApprovalsSame DEF approvalVars
<1>5. /\ GrantsKept'
      /\ \A p : Good(p, policy, policyRev) => Good(p, policy', policyRev')
      /\ \A d \in peers \cup {c} : Good(Sent(d, {}), policy', policyRev')
  BY <1>1, <1>2, <1>3, <1>4, Synced
<1>6. GoodPackets(PacketsTo(peers), policy', policyRev') /\ GoodViews(view, policy', policyRev')
  BY <1>1, <1>3, <1>5, PacketsGood, StillGood DEF PacketsKept
<1>7. GoodViews(Dispatched(NoPackets, PacketsTo(peers)), policy', policyRev')
  BY <1>6, DispatchedGood, NoPacketsGood
<1>8. GoodViews(view', policy', policyRev')
  <2>1. Good(Sent(c, {}), policy', policyRev') /\ Sent(c, {}) \in Packet
    BY <1>5 DEF Good
  <2> QED
    BY <1>2, <1>7, <2>1 DEF GoodViews
<1>9. PacketsKept'
  BY <1>1, <1>2, <1>5, <1>8, Ended, Zenon
<1> QED
  BY <1>4, <1>5, <1>9 DEF GatewayInv

\* PullKeeps: a pulled device list, and after it what the packet had found.
LEMMA PullKeeps ==
    ASSUME GatewayInv, NEW c \in Clients, HandlePullDeviceList(c)
    PROVE  GatewayInv'
<1>1. ApprovalsKept /\ GrantsKept /\ PacketsKept
  BY DEF GatewayInv
<1>2. /\ Sync /\ Build({c}, {}) /\ Ends(c)
      /\ view' = Dispatched(PacketsTo({c}), deferred[c])
      /\ UNCHANGED <<approvalVars, reports, admin>>
  BY DEF HandlePullDeviceList
<1>3. {c} \in SUBSET Clients
  OBVIOUS
<1>4. ApprovalsKept' /\ gatewayNodes' = gatewayNodes
  BY <1>1, <1>2, ApprovalsSame DEF approvalVars
<1>5. /\ GrantsKept'
      /\ \A p : Good(p, policy, policyRev) => Good(p, policy', policyRev')
      /\ \A d \in {c} : Good(Sent(d, {}), policy', policyRev')
  BY <1>1, <1>2, <1>3, <1>4, Synced
<1>6. GoodPackets(PacketsTo({c}), policy', policyRev')
  BY <1>3, <1>5, PacketsGood
<1>7. GoodPackets(deferred[c], policy', policyRev') /\ GoodViews(view, policy', policyRev')
  BY <1>1, <1>5, StillGood DEF PacketsKept
<1>8. GoodViews(view', policy', policyRev')
  BY <1>2, <1>6, <1>7, DispatchedGood
<1>9. PacketsKept'
  BY <1>1, <1>2, <1>5, <1>8, Ended
<1> QED
  BY <1>4, <1>5, <1>9 DEF GatewayInv

\* RefreshKeeps: a refresh, whatever its result.
LEMMA RefreshKeeps ==
    ASSUME GatewayInv, NEW c \in Clients, NEW force \in BOOLEAN, NEW last,
           HandleRefreshGatewayGrant(c, force, last)
    PROVE  GatewayInv'
<1> DEFINE again == Reissued(c, force, last)
           result == RefreshResult(c, force, last)
           answer == [d \in Clients |-> IF d = c /\ result \in {"UPDATED", "REVOKED"}
                                        THEN Sent(c, again) ELSE None]
<1>1. ApprovalsKept /\ GrantsKept /\ PacketsKept
  BY DEF GatewayInv
<1>2. /\ Sync /\ Build({c}, again) /\ Ends(c)
      /\ view' = Dispatched(answer, deferred[c])
      /\ UNCHANGED <<approvalVars, reports, admin>>
  BY DEF HandleRefreshGatewayGrant
<1> HIDE DEF again, result
<1>3. {c} \in SUBSET Clients
  OBVIOUS
<1>4. ApprovalsKept' /\ gatewayNodes' = gatewayNodes
  BY <1>1, <1>2, ApprovalsSame DEF approvalVars
<1>5. /\ GrantsKept'
      /\ \A p : Good(p, policy, policyRev) => Good(p, policy', policyRev')
      /\ \A d \in {c} : Good(Sent(d, again), policy', policyRev')
  BY <1>1, <1>2, <1>3, <1>4, Synced
<1>6. GoodPackets(answer, policy', policyRev')
  <2>1. Good(Sent(c, again), policy', policyRev') /\ Sent(c, again) \in Packet
    BY <1>5 DEF Good
  <2> QED
    BY <2>1 DEF GoodPackets
<1> HIDE DEF answer
<1>7. GoodPackets(deferred[c], policy', policyRev') /\ GoodViews(view, policy', policyRev')
  BY <1>1, <1>5, StillGood DEF PacketsKept
<1>8. GoodViews(view', policy', policyRev')
  BY <1>2, <1>6, <1>7, DispatchedGood
<1>9. PacketsKept'
  BY <1>1, <1>2, <1>5, <1>8, Ended
<1> QED
  BY <1>4, <1>5, <1>9 DEF GatewayInv

\* LeaseKeeps: a lease ends, the endpoint stays.
LEMMA LeaseKeeps ==
    ASSUME GatewayInv, NEW g \in Gateways, NEW seenToo \in BOOLEAN, LeaseExpires(g, seenToo)
    PROVE  GatewayInv'
<1>1. ApprovalsKept /\ GrantsKept /\ PacketsKept
  BY DEF GatewayInv
<1>2. /\ gatewayNodes' = IF gatewayNodes[g] = None THEN gatewayNodes
                         ELSE [gatewayNodes EXCEPT ![g].alive = FALSE]
      /\ gatewaySeen' = IF gatewaySeen[g] = None \/ ~seenToo THEN gatewaySeen
                        ELSE [gatewaySeen EXCEPT ![g].alive = FALSE]
      /\ UNCHANGED <<gatewayAllow, stored, grantVars, reports, admin, client, deferred, view>>
  BY DEF LeaseExpires
<1>3. ASSUME NEW f \in [Gateways -> Node \cup {None}], f[g] # None
      PROVE  /\ [f EXCEPT ![g].alive = FALSE] \in [Gateways -> Node \cup {None}]
             /\ \A h \in Gateways : /\ [f EXCEPT ![g].alive = FALSE][h] # None <=> f[h] # None
                                    /\ f[h] # None => [f EXCEPT ![g].alive = FALSE][h].ep = f[h].ep
  <2> DEFINE n == [f[g] EXCEPT !.alive = FALSE]
  <2>1. n \in Node /\ n.ep = f[g].ep
    BY <1>3, Zenon DEF Node
  <2>2. [f EXCEPT ![g].alive = FALSE] = [f EXCEPT ![g] = n]
    OBVIOUS
  <2> HIDE DEF n
  <2> QED
    BY <1>3, <2>1, <2>2, GatewayNotNone, Zenon
<1>4. /\ gatewayNodes' \in [Gateways -> Node \cup {None}]
      /\ \A h \in Gateways : /\ gatewayNodes'[h] # None <=> gatewayNodes[h] # None
                             /\ gatewayNodes[h] # None => gatewayNodes'[h].ep = gatewayNodes[h].ep
  BY <1>1, <1>2, <1>3 DEF ApprovalsKept
<1>5. gatewaySeen' \in [Gateways -> Node \cup {None}]
  BY <1>1, <1>2, <1>3 DEF ApprovalsKept
<1>6. ApprovalsKept'
  BY <1>1, <1>2, <1>4, <1>5 DEF ApprovalsKept
<1>7. GrantsKept' /\ policy' = policy /\ policyRev' = policyRev
  BY <1>1, <1>2, <1>4, GrantsSame
<1>8. PacketsKept'
  BY <1>1, <1>2, <1>7 DEF PacketsKept
<1> QED
  BY <1>6, <1>7, <1>8 DEF GatewayInv

\* AgeKeeps: a cached grant gets old.
LEMMA AgeKeeps ==
    ASSUME GatewayInv, NEW c \in Clients, NEW g \in Gateways, GrantAges(c, g)
    PROVE  GatewayInv'
<1>1. ApprovalsKept /\ GrantsKept /\ PacketsKept
  BY DEF GatewayInv
<1>2. /\ grantCache[c][g] # None /\ grantCache' = [grantCache EXCEPT ![c][g].fresh = FALSE]
      /\ UNCHANGED <<approvalVars, policy, policyRev, issued, reports, admin, client, deferred, view>>
  BY DEF GrantAges
<1>3. grantCache[c] \in [Gateways -> CachedGrant \cup {None}] /\ grantCache[c][g] \in CachedGrant
  BY <1>1, <1>2 DEF GrantsKept
<1> DEFINE old == [grantCache[c][g] EXCEPT !.fresh = FALSE]
           row == [grantCache[c] EXCEPT ![g] = old]
<1>4. old \in CachedGrant
  BY <1>3, Zenon DEF CachedGrant
<1>5. grantCache' = [grantCache EXCEPT ![c] = row]
  BY <1>2
<1> HIDE DEF old
<1>6. /\ row \in [Gateways -> CachedGrant \cup {None}]
      /\ \A h \in Gateways : row[h] # None => grantCache[c][h] # None
  BY <1>2, <1>3, <1>4
<1> HIDE DEF row
<1>7. ApprovalsKept' /\ gatewayNodes' = gatewayNodes
  BY <1>1, <1>2, ApprovalsSame DEF approvalVars
<1>8. GrantsKept'
  BY <1>1, <1>2, <1>5, <1>6, <1>7, Zenon DEF GrantsKept
<1>9. PacketsKept'
  BY <1>1, <1>2 DEF PacketsKept
<1> QED
  BY <1>7, <1>8, <1>9 DEF GatewayInv

\* GatewayRestartKeeps: only the approvals survive.
LEMMA GatewayRestartKeeps ==
    ASSUME GatewayInv, NEW ok \in LoadResults, Restart(ok)
    PROVE  GatewayInv'
<1>1. ApprovalsKept
  BY DEF GatewayInv
<1>2. \A g \in Gateways : NoGrants[g] = None
  BY DEF NoGrants
<1>3. NoGrants \in [Gateways -> {None}]
  BY DEF NoGrants
<1>4. ApprovalsKept'
  BY <1>1, <1>2, <1>3 DEF Restart, ApprovalsKept, Approvals
<1>5. GrantsKept'
  BY <1>2, <1>3, BoundsNat DEF Restart, GrantsKept, Approvals
<1>6. GoodPackets(NoPackets, policy', policyRev')
  BY NoPacketsGood
<1>7. GoodViews(view', policy', policyRev')
  BY DEF Restart, GoodViews
<1>8. PacketsKept'
  BY <1>6, <1>7 DEF Restart, PacketsKept, AdminSteps, ClientSteps
<1> QED
  BY <1>4, <1>5, <1>8 DEF GatewayInv

\* GatewayNextInv: every step keeps the invariant.
LEMMA GatewayNextInv == GatewayInv /\ [GatewayNext]_gatewayVars => GatewayInv'
<1> SUFFICES ASSUME GatewayInv, [GatewayNext]_gatewayVars PROVE GatewayInv'
  OBVIOUS
<1>1. CASE UNCHANGED gatewayVars
  <2>1. UNCHANGED <<approvalVars, grantVars, reports, admin, client, deferred, view>>
    BY <1>1 DEF gatewayVars
  <2>2. ApprovalsKept /\ GrantsKept /\ PacketsKept
    BY DEF GatewayInv
  <2>3. ApprovalsKept' /\ gatewayNodes' = gatewayNodes
    BY <2>1, <2>2, ApprovalsSame DEF approvalVars
  <2>4. GrantsKept' /\ policy' = policy /\ policyRev' = policyRev
    BY <2>1, <2>2, <2>3, GrantsSame
  <2>5. PacketsKept'
    BY <2>1, <2>2, <2>4 DEF PacketsKept
  <2> QED
    BY <2>3, <2>4, <2>5 DEF GatewayInv
<1>2. CASE GatewayNext
  BY <1>2, ReportArrives, ReportChecked, ReportRegistered, ReportEnds, ApproveKeeps, DelistKeeps,
     AdminPushKeeps, OtherKeeps, ArrivalKeeps, FailureKeeps, RegistrationKeeps, PullKeeps,
     RefreshKeeps, DisconnectKeeps, LeaseKeeps, AgeKeeps, GatewayRestartKeeps DEF GatewayNext
<1> QED
  BY <1>1, <1>2

--------------------------------------------------------------------------------
(* Theorems *)

\* GatewayInvariant: the inductive invariant holds throughout.
THEOREM GatewayInvariant == GatewaySpec => []GatewayInv
BY GatewayInitInv, GatewayNextInv, PTL DEF GatewaySpec

\* GatewayTypeCorrect: the maps of the gateways, the grants, the packets in flight and
\* the views keep their shape, whichever handlers interleave.
THEOREM GatewayTypeCorrect == GatewaySpec => []GatewayTypeOK
<1>1. ASSUME GatewayInv PROVE GatewayTypeOK
  <2>1. ApprovalsKept /\ GrantsKept /\ PacketsKept
    BY <1>1 DEF GatewayInv
  <2>2. ASSUME NEW r \in reports
        PROVE  /\ r.gw \in Gateways /\ r.ep \in Endpoints /\ r.at \in {"check", "register", "sync"}
               /\ \A c \in Clients : r.push[c] = None \/ r.push[c].rev \in 1..MaxRev
    <3>1. r \in Report /\ GoodPackets(r.push, policy, policyRev)
      BY <2>1 DEF PacketsKept
    <3>2. \A c \in Clients : r.push[c] = None \/ r.push[c].rev \in 1..MaxRev
      BY <3>1, PacketTypes, BoundsNat DEF GoodPackets, Good
    <3> QED
      BY <3>1, <3>2 DEF Report
  <2>3. \A c \in Clients : view[c] = Offline \/ (view[c].on /\ view[c].rev \in 1..MaxRev)
    <3>1. \A c \in Clients : view[c] = Offline \/ (view[c] \in Packet /\ 1 <= view[c].rev)
      BY <2>1 DEF PacketsKept, GoodViews, Good
    <3>2. \A p \in Packet : p.on /\ (1 <= p.rev => p.rev \in 1..MaxRev)
      BY PacketTypes, BoundsNat, OfflineIsOff
    <3> QED
      BY <3>1, <3>2
  <2>4. \A c \in Clients, g \in Gateways :
          grantCache[c][g] \in CachedGrant \cup {None} /\ issued[c][g] \in 0..MaxIssued
    BY <2>1 DEF GrantsKept
  <2>5. /\ gatewayAllow \in Approvals /\ stored \in Approvals
        /\ gatewayNodes \in [Gateways -> Node \cup {None}]
        /\ gatewaySeen \in [Gateways -> Node \cup {None}]
    BY <2>1 DEF ApprovalsKept
  <2>6. policy \in Approvals /\ policyRev \in 0..MaxRev
    BY <2>1 DEF GrantsKept
  <2>7. admin \in [Gateways -> AdminSteps] /\ client \in [Clients -> ClientSteps]
    BY <2>1 DEF PacketsKept
  <2> QED
    BY <2>2, <2>3, <2>4, <2>5, <2>6, <2>7, Zenon DEF GatewayTypeOK
<1> QED
  BY <1>1, GatewayInvariant, PTL

\* CachedGrantsApproved: no interleaving of reports, commands, leases and packets leaves
\* a cached grant for a gateway that is not approved where its node is.
THEOREM CachedGrantsApproved == GatewaySpec => []GrantsApproved
<1>1. GatewayInv => GrantsApproved
  BY DEF GatewayInv, ApprovalsKept, GrantsKept, GrantsApproved
<1> QED
  BY <1>1, GatewayInvariant, PTL

\* RevisionsComplete: a client that was last sent the current policy revision has a
\* grant for every gateway of the policy, although pushes are deferred and dropped.
THEOREM RevisionsComplete == GatewaySpec => []RevisionComplete
<1>1. GatewayInv => RevisionComplete
  BY OfflineIsOff DEF GatewayInv, PacketsKept, GoodViews, Good, Online, RevisionComplete
<1> QED
  BY <1>1, GatewayInvariant, PTL

\* UnchangedIsCurrent: a refresh answers NO_CHANGE only to a client whose grants cover
\* every approved gateway with a lease.
THEOREM UnchangedIsCurrent == GatewaySpec => []NoChangeCurrent
<1>1. ASSUME GatewayInv, NEW c \in Online, NEW last \in Sessions(c),
             RefreshResult(c, FALSE, last) = "NO_CHANGE", NEW g \in Gateways, AliveNodes[g] # None
      PROVE  view[c].grants[g] # None /\ view[c].grants[g].ep = AliveNodes[g]
  <2>1. view[c].rev = RevAfterSync
    BY <1>1, Zenon DEF RefreshResult, Sent
  <2>2. c \in Clients /\ Good(view[c], policy, policyRev)
    BY <1>1, OfflineIsOff, Zenon DEF GatewayInv, PacketsKept, GoodViews, Online
  <2>3. view[c].rev \in Nat /\ 1 <= view[c].rev /\ view[c].rev <= policyRev /\ policyRev \in Nat
    <3>1. policyRev \in Nat
      BY <1>1, BoundsNat DEF GatewayInv, GrantsKept
    <3>2. view[c] \in Packet /\ 1 <= view[c].rev /\ view[c].rev <= policyRev
      BY <2>2 DEF Good
    <3> QED
      BY <3>1, <3>2, PacketTypes
  <2>4. ~PolicyChanged /\ view[c].rev = policyRev
    BY <2>1, <2>3 DEF RevAfterSync
  <2>5. policy[g] = AliveNodes[g]
    BY <2>4 DEF PolicyChanged
  <2> QED
    BY <1>1, <2>2, <2>4, <2>5 DEF Good
<1>2. GatewayInv => NoChangeCurrent
  BY <1>1, Zenon DEF NoChangeCurrent
<1> QED
  BY <1>2, GatewayInvariant, PTL

================================================================================
