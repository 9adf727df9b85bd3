-------------------------- MODULE ControlSessionProofs --------------------------
(***************************************************************************)
(* TLAPS proofs about ControlSession, for any number of sessions, devices, *)
(* remote addresses, networks and registrations.                           *)
(*                                                                         *)
(* A step of the sessions or of the admin is a step of the registry or     *)
(* leaves it alone, so the invariant of the registry carries over, and     *)
(* with it the fact that a registration is given an address of the pool.   *)
(* The invariant of the hub adds that its two maps agree, from which a     *)
(* session that ends finds every route it has.                             *)
(***************************************************************************)
EXTENDS ControlSession, NetworkRegistryProofs

\* The types of the variables that ControlSession adds.
HubTypeOK ==
    /\ sess \in [Sessions -> Session]
    /\ closed \subseteq Sessions
    /\ byRoute \in [Routes -> Sessions \cup {NoSession}]
    /\ ipsByAddr \in [Addrs -> [Routes -> Sessions \cup {NoSession}]]
    /\ authed \in [Devices -> Networks \cup {NoNetwork}]
    /\ deleting \in [Devices -> {"no", "runtime", "push"}]

\* A session knows its network and address where it uses them.
Placed ==
    \A s \in Sessions :
        /\ sess[s].pc = "assign" => sess[s].pending \in Networks
        /\ sess[s].ip # 0 => sess[s].net \in Networks
        /\ sess[s].pc \in {"route", "respond", "push"} => sess[s].ip # 0
        /\ sess[s].pc = "idle" => sess[s].ip = 0

\* The session has told the hub of its last registration.
Settled == {"loop", "denied", "assign", "respond", "push"}

\* OpenSessionRouted, also while a session is inside a handler that has not
\* touched its route.
Routed ==
    \A s \in Sessions :
        sess[s].pc \in Settled /\ sess[s].ip # 0 /\ s \notin closed
            => byRoute[<<sess[s].net, sess[s].ip>>] = s

HubInv == HubTypeOK /\ Placed /\ HubConsistent /\ EndedUnrouted /\ Routed

SessionInv == IInv /\ HubInv

--------------------------------------------------------------------------------
(* The registry below the sessions *)

\* SessionStepsRegistry: what a session, the admin or a clock does to the registry
\* is an operation of the registry.
LEMMA SessionStepsRegistry ==
    ASSUME HubTypeOK, Placed, SessionNext
    PROVE  [RegistryNext]_registryVars
<1>1. ASSUME NEW s \in Sessions, Serve(s) PROVE [RegistryNext]_registryVars
  <2>1. sess[s] \in Session
    BY DEF HubTypeOK
  <2>2. sess[s].device \in Devices /\ sess[s].addr \in Addrs
    BY <2>1 DEF Session
  <2>3. ASSUME NEW g \in Groups, RegistrationDenied(s, g) PROVE RegistryNext
    BY <2>2, <2>3 DEF RegistrationDenied, RegistryNext
  <2>4. ASSUME NEW requested \in Requests, NEW allow \in BOOLEAN,
               RegistrationAssign(s, requested, allow)
        PROVE  [RegistryNext]_registryVars
    <3>1. sess[s].pending \in Networks
      BY <2>4 DEF RegistrationAssign, Placed
    <3>2. requested \in 0..(LastHost + 1)
      BY SessionAssumption
    <3>3. \/ RegisterClient(sess[s].pending, sess[s].device, sess[s].addr, requested, allow)
          \/ UNCHANGED registryVars
      BY <2>4 DEF RegistrationAssign
    <3> QED
      BY <3>1, <3>2, <3>3, <2>2 DEF RegistryNext
  <2>5. CASE Leave(s)
    BY <2>2, <2>5 DEF Leave, RegistryNext
  <2>6. CASE RegistrationRoute(s) \/ RegistrationRespond(s) \/ PushToPeers(s) \/ EndLoop(s)
               \/ Unregister(s)
    BY <2>6 DEF RegistrationRoute, RegistrationRespond, PushToPeers, EndLoop, Unregister
  <2> QED
    BY <1>1, <2>3, <2>4, <2>5, <2>6 DEF Serve
<1>2. ASSUME NEW s \in Sessions,
             Accept(s) \/ Registration(s) \/ Ping(s) \/ ConnectionLost(s)
      PROVE  [RegistryNext]_registryVars
  <2>1. CASE Ping(s)
    <3>1. sess[s].ip \in Hosts /\ sess[s].net \in Networks
      BY <2>1 DEF Ping, HubTypeOK, Placed, Session
    <3> QED
      BY <2>1, <3>1 DEF Ping, RegistryNext
  <2> QED
    BY <1>2, <2>1 DEF Accept, Registration, ConnectionLost
<1>3. ASSUME NEW s \in Sessions, NEW p2p \in Reports, NEW changed \in BOOLEAN,
             Status(s, p2p, changed)
      PROVE  RegistryNext
  <2>1. sess[s].ip \in Hosts /\ sess[s].net \in Networks /\ p2p \in BOOLEAN
    BY <1>3, SessionAssumption DEF Status, HubTypeOK, Placed, Session
  <2> QED
    BY <1>3, <2>1 DEF Status, RegistryNext
<1>4. ASSUME NEW d \in Devices, NEW n \in Networks, Authorize(d, n)
      PROVE  UNCHANGED registryVars
  BY <1>4 DEF Authorize
<1>5. ASSUME NEW d \in Deletable, NEW g \in Groups,
             DeleteRecord(d) \/ DeleteRuntime(d, g) \/ DeletePush(d)
      PROVE  [RegistryNext]_registryVars
  <2>1. d \in Devices
    BY SessionAssumption
  <2> QED
    BY <1>5, <2>1 DEF DeleteRecord, DeleteRuntime, DeletePush, RegistryNext
<1>6. CASE GatewayPush
  BY <1>6 DEF GatewayPush
<1>7. ASSUME NEW n \in Networks, NEW ip \in Hosts, Expire(n, ip) PROVE RegistryNext
  BY <1>7 DEF Expire, RegistryNext
<1> QED
  BY <1>1, <1>2, <1>3, <1>4, <1>5, <1>6, <1>7 DEF SessionNext

--------------------------------------------------------------------------------
(* The sessions *)

\* AddressFromPool: the address of a registration that succeeds is one of the pool.
LEMMA AddressFromPool ==
    ASSUME IInv, NEW n \in Networks, NEW d \in Devices, NEW addr,
           NEW requested \in 0..(LastHost + 1), NEW allow \in BOOLEAN,
           RegisterClient(n, d, addr, requested, allow)
    PROVE  GenerateIP(n, requested, d, allow) \in Hosts
<1>1. GenerateIP(n, requested, d, allow) # 0
  BY DEF RegisterClient
<1> QED
  BY <1>1, GenerateIPSound, Zenon DEF IInv

\* PeersAreHosts: pushes are for addresses of the pool.
LEMMA PeersAreHosts ==
    ASSUME NEW n, NEW ip
    PROVE  PeersOf(n, ip) \subseteq Hosts /\ OnlineIPs(n) \ {ip} \subseteq Hosts
BY DEF PeersOf, OnlineIPs

\* SessionMoves: sessions keep their type, know where they are, and stay the same
\* device at the same remote address.
LEMMA SessionMoves ==
    ASSUME IInv, HubTypeOK, Placed, SessionNext
    PROVE  /\ sess' \in [Sessions -> Session]
           /\ Placed'
           /\ \A s \in Sessions : sess'[s].addr = sess[s].addr
<1> DEFINE OK == /\ sess' \in [Sessions -> Session]
                 /\ Placed'
                 /\ \A s \in Sessions : sess'[s].addr = sess[s].addr
<1>1. ASSUME UNCHANGED sess PROVE OK
  BY <1>1 DEF HubTypeOK, Placed
<1>2. ASSUME NEW s \in Sessions, NEW r \in Session, sess' = [sess EXCEPT ![s] = r],
             r.addr = sess[s].addr,
             r.pc = "assign" => r.pending \in Networks,
             r.ip # 0 => r.net \in Networks,
             r.pc \in {"route", "respond", "push"} => r.ip # 0,
             r.pc # "idle"
      PROVE  OK
  BY <1>2 DEF HubTypeOK, Placed
<1> HIDE DEF OK
<1>3. ASSUME NEW s \in Sessions, NEW pc \in Places, Goto(s, pc),
             pc \notin {"idle", "assign", "route", "push"},
             pc = "respond" => sess[s].pc = "route"
      PROVE  OK
  <2> DEFINE r == [sess[s] EXCEPT !.pc = pc]
  <2>1. sess[s] \in Session
    BY DEF HubTypeOK
  <2>2. r \in Session /\ r.pc = pc /\ r.ip = sess[s].ip /\ r.net = sess[s].net
          /\ r.addr = sess[s].addr
    BY <2>1, <1>3 DEF Session
  <2>3. sess' = [sess EXCEPT ![s] = r]
    BY <1>3 DEF Goto
  <2>4. (r.ip # 0 => r.net \in Networks) /\ (pc = "respond" => r.ip # 0)
    BY <2>2, <1>3 DEF Placed
  <2> HIDE DEF r
  <2> QED
    BY <1>2, <1>3, <2>2, <2>3, <2>4, Zenon
<1>4. ASSUME NEW s \in Sessions, Serve(s) PROVE OK
  <2>1. sess[s] \in Session
    BY DEF HubTypeOK
  <2>2. AfterWrite(s) \in {"leave", "loop"}
    BY DEF AfterWrite
  <2>3. ASSUME NEW g \in Groups, RegistrationDenied(s, g) PROVE OK
    BY <1>3, <2>2, <2>3 DEF RegistrationDenied, Go, Places
  <2>4. ASSUME NEW requested \in Requests, NEW allow \in BOOLEAN,
               RegistrationAssign(s, requested, allow)
        PROVE  OK
    <3> DEFINE n == sess[s].pending
               d == sess[s].device
               ip == GenerateIP(n, requested, d, allow)
               r == [sess[s] EXCEPT !.pc = "route", !.net = n, !.ip = ip, !.pending = NoNetwork]
               q == [sess[s] EXCEPT !.pc = AfterWrite(s), !.pending = NoNetwork]
    <3>1. n \in Networks /\ d \in Devices /\ requested \in 0..(LastHost + 1)
      BY <2>1, <2>4, SessionAssumption DEF RegistrationAssign, Placed, Session
    <3>2. CASE RegisterClient(n, d, sess[s].addr, requested, allow) /\ sess' = [sess EXCEPT ![s] = r]
      <4>1. ip \in Hosts
        BY <3>1, <3>2, AddressFromPool
      <4> HIDE DEF ip
      <4>2. /\ r \in Session /\ r.pc = "route" /\ r.ip = ip /\ r.net = n
            /\ r.addr = sess[s].addr
        BY <2>1, <3>1, <4>1, Zenon DEF Session, Places
      <4>3. ip # 0
        BY <4>1, HostsNat
      <4> HIDE DEF r, n
      <4> QED
        BY <1>2, <3>1, <3>2, <4>2, <4>3, Zenon
    <3>3. CASE sess' = [sess EXCEPT ![s] = q]
      <4>1. /\ q \in Session /\ q.pc \in {"leave", "loop"} /\ q.ip = sess[s].ip
            /\ q.net = sess[s].net /\ q.addr = sess[s].addr
        BY <2>1, <2>2, Zenon DEF Session, Places
      <4>2. q.ip # 0 => q.net \in Networks
        BY <4>1 DEF Placed
      <4> HIDE DEF q
      <4> QED
        BY <1>2, <3>3, <4>1, <4>2, Zenon
    <3> QED
      BY <2>4, <3>2, <3>3, Zenon DEF RegistrationAssign
  <2>5. CASE RegistrationRoute(s)
    BY <1>3, <2>5 DEF RegistrationRoute, Go, Places
  <2>6. CASE RegistrationRespond(s)
    <3> DEFINE p == IF s \in closed THEN {} ELSE PeersOf(sess[s].net, sess[s].ip)
               pc == IF s \in closed THEN "leave" ELSE "push"
               r == [sess[s] EXCEPT !.pc = pc, !.push = p]
    <3>1. p \subseteq Hosts /\ pc \in {"leave", "push"}
      BY PeersAreHosts
    <3>2. sess[s].ip # 0 /\ sess[s].net \in Networks
      BY <2>6 DEF RegistrationRespond, Placed
    <3>3. sess' = [sess EXCEPT ![s] = r]
      BY <2>6, Zenon DEF RegistrationRespond
    <3> HIDE DEF p, pc
    <3>4. /\ r \in Session /\ r.pc = pc /\ r.ip = sess[s].ip
          /\ r.net = sess[s].net /\ r.addr = sess[s].addr
      BY <2>1, <3>1, Zenon DEF Session, Places
    <3> HIDE DEF r
    <3> QED
      BY <1>2, <3>1, <3>2, <3>3, <3>4, Zenon
  <2>7. CASE PushToPeers(s)
    <3> DEFINE r == [sess[s] EXCEPT !.pc = "loop", !.push = {}]
    <3>1. sess' = [sess EXCEPT ![s] = r]
      BY <2>7, Zenon DEF PushToPeers
    <3>2. /\ r \in Session /\ r.pc = "loop" /\ r.ip = sess[s].ip
          /\ r.net = sess[s].net /\ r.addr = sess[s].addr
      BY <2>1, Zenon DEF Session, Places
    <3>3. sess[s].ip # 0 => sess[s].net \in Networks
      BY DEF Placed
    <3> HIDE DEF r
    <3> QED
      BY <1>2, <3>1, <3>2, <3>3, Zenon
  <2>8. CASE EndLoop(s)
    BY <1>3, <2>8 DEF EndLoop, Go, Places
  <2>9. CASE Leave(s)
    BY <1>3, <2>9 DEF Leave, Go, Places
  <2>10. CASE Unregister(s)
    BY <1>3, <2>10 DEF Unregister, Go, Places
  <2> QED
    BY <1>4, <2>3, <2>4, <2>5, <2>6, <2>7, <2>8, <2>9, <2>10 DEF Serve
<1>5. ASSUME NEW s \in Sessions, Registration(s) PROVE OK
  <2> DEFINE n == authed[sess[s].device]
             pc == IF n = NoNetwork THEN "denied" ELSE "assign"
             r == [sess[s] EXCEPT !.regs = @ - 1, !.pending = n, !.pc = pc]
  <2>1. sess[s] \in Session
    BY DEF HubTypeOK
  <2>2. n \in Networks \cup {NoNetwork} /\ sess[s].regs > 0 /\ pc \in {"denied", "assign"}
    BY <2>1, <1>5 DEF Registration, HubTypeOK, Session
  <2>3. sess' = [sess EXCEPT ![s] = r]
    BY <1>5, Zenon DEF Registration
  <2>4. pc = "assign" => n \in Networks
    BY <2>2
  <2> HIDE DEF n, pc
  <2>5. sess[s].regs - 1 \in 0..MaxRegs
    BY <2>1, <2>2, SessionAssumption DEF Session
  <2>6. /\ r \in Session /\ r.pc = pc /\ r.pending = n /\ r.ip = sess[s].ip
        /\ r.net = sess[s].net /\ r.addr = sess[s].addr
    BY <2>1, <2>2, <2>5, Zenon DEF Session, Places
  <2>7. sess[s].ip # 0 => sess[s].net \in Networks
    BY DEF Placed
  <2> HIDE DEF r
  <2> QED
    BY <1>2, <2>2, <2>3, <2>4, <2>6, <2>7, Zenon
<1>6. ASSUME NEW s \in Sessions, Accept(s) \/ Ping(s) PROVE OK
  <2>1. AfterWrite(s) \in {"leave", "loop"}
    BY DEF AfterWrite
  <2> QED
    BY <1>3, <1>6, <2>1 DEF Accept, Ping, Go, Places
<1>7. ASSUME NEW s \in Sessions, NEW p2p \in Reports, NEW changed \in BOOLEAN,
             Status(s, p2p, changed)
      PROVE  OK
  <2> DEFINE p == IF changed THEN OnlineIPs(sess[s].net) \ {sess[s].ip} ELSE {}
             pc == IF changed THEN "push" ELSE "loop"
             r == [sess[s] EXCEPT !.pc = pc, !.push = p]
  <2>1. sess[s] \in Session
    BY DEF HubTypeOK
  <2>2. p \subseteq Hosts /\ pc \in {"loop", "push"}
    BY PeersAreHosts
  <2>3. sess[s].ip # 0 /\ sess[s].net \in Networks
    BY <1>7 DEF Status, Placed
  <2>4. sess' = [sess EXCEPT ![s] = r]
    BY <1>7, Zenon DEF Status
  <2> HIDE DEF p, pc
  <2>5. /\ r \in Session /\ r.pc = pc /\ r.ip = sess[s].ip
        /\ r.net = sess[s].net /\ r.addr = sess[s].addr
    BY <2>1, <2>2, Zenon DEF Session, Places
  <2> HIDE DEF r
  <2> QED
    BY <1>2, <2>2, <2>3, <2>4, <2>5, Zenon
<1>8. ASSUME NEW s \in Sessions, ConnectionLost(s) PROVE OK
  BY <1>1, <1>8 DEF ConnectionLost
<1>9. ASSUME NEW d \in Devices, NEW n \in Networks, Authorize(d, n) PROVE OK
  BY <1>1, <1>9 DEF Authorize
<1>10. ASSUME NEW d \in Deletable, NEW g \in Groups,
              DeleteRecord(d) \/ DeleteRuntime(d, g) \/ DeletePush(d)
       PROVE  OK
  BY <1>1, <1>10 DEF DeleteRecord, DeleteRuntime, DeletePush
<1>11. ASSUME GatewayPush PROVE OK
  BY <1>1, <1>11 DEF GatewayPush
<1>12. ASSUME NEW n \in Networks, NEW ip \in Hosts, Expire(n, ip) PROVE OK
  BY <1>1, <1>12 DEF Expire
<1>13. OK
  BY <1>4, <1>5, <1>6, <1>7, <1>8, <1>9, <1>10, <1>11, <1>12 DEF SessionNext
<1> QED
  BY <1>13 DEF OK

--------------------------------------------------------------------------------
(* The hub *)

\* What the steps below keep of the hub.
HubOK ==
    /\ closed' \subseteq Sessions
    /\ byRoute' \in [Routes -> Sessions \cup {NoSession}]
    /\ ipsByAddr' \in [Addrs -> [Routes -> Sessions \cup {NoSession}]]
    /\ HubConsistent'

\* RegisterKeepsHub: a session that takes a route, from itself, from nobody or from
\* another session, leaves the two maps in agreement.
LEMMA RegisterKeepsHub ==
    ASSUME HubTypeOK, HubConsistent, NEW s \in Sessions, NEW k \in Routes,
           RegisterSession(s, k), \A t \in Sessions : sess'[t].addr = sess[t].addr
    PROVE  HubOK
<1>1. closed' \subseteq Sessions
  BY DEF RegisterSession, Replaced, HubTypeOK
<1>2. byRoute' = [byRoute EXCEPT ![k] = s]
  BY DEF RegisterSession
<1>3. byRoute' \in [Routes -> Sessions \cup {NoSession}]
  BY <1>2 DEF HubTypeOK
<1>4. \A a \in Addrs : AddrEntry(a, k, s) \in Sessions \cup {NoSession}
  BY DEF AddrEntry, HubTypeOK
<1>5. ipsByAddr' = [a \in Addrs |-> [ipsByAddr[a] EXCEPT ![k] = AddrEntry(a, k, s)]]
  BY DEF RegisterSession
<1>6. ipsByAddr' \in [Addrs -> [Routes -> Sessions \cup {NoSession}]]
  BY <1>4, <1>5 DEF HubTypeOK
<1>7. ASSUME NEW a \in Addrs, NEW j \in Routes, NEW t \in Sessions
      PROVE  ipsByAddr'[a][j] = t <=> byRoute'[j] = t /\ sess[t].addr = a
  <2>1. ipsByAddr[a] \in [Routes -> Sessions \cup {NoSession}]
    BY DEF HubTypeOK
  <2>2. ipsByAddr'[a][j] = IF j = k THEN AddrEntry(a, k, s) ELSE ipsByAddr[a][j]
    BY <1>5, <2>1
  <2>3. byRoute'[j] = IF j = k THEN s ELSE byRoute[j]
    BY <1>2 DEF HubTypeOK
  <2>4. CASE j # k
    <3>1. ipsByAddr'[a][j] = ipsByAddr[a][j] /\ byRoute'[j] = byRoute[j]
      BY <2>2, <2>3, <2>4
    <3>2. ipsByAddr[a][j] = t <=> byRoute[j] = t /\ sess[t].addr = a
      BY DEF HubConsistent
    <3> QED
      BY <3>1, <3>2
  <2>5. CASE j = k /\ a = sess[s].addr
    BY <2>2, <2>3, <2>5 DEF AddrEntry
  <2>6. CASE j = k /\ a # sess[s].addr
    <3>1. AddrEntry(a, k, s) \notin Sessions
      <4>1. ASSUME NEW u \in Sessions, AddrEntry(a, k, s) = u PROVE FALSE
        <5>1. NoSession # u
          BY SessionAssumption
        <5>2. ipsByAddr[a][k] = u
          BY <4>1, <5>1, <2>6 DEF AddrEntry
        <5>3. byRoute[k] = u /\ sess[u].addr = a
          BY <5>2 DEF HubConsistent
        <5>4. u \in Replaced(byRoute[k], s)
          BY <5>1, <5>3, <2>6 DEF Replaced
        <5> QED
          BY <4>1, <5>1, <5>2, <5>3, <5>4, <2>6 DEF AddrEntry
      <4> QED
        BY <4>1
    <3> QED
      BY <2>2, <2>3, <2>6, <3>1
  <2> QED
    BY <2>4, <2>5, <2>6
<1>8. HubConsistent'
  BY <1>7 DEF HubConsistent
<1> QED
  BY <1>1, <1>3, <1>6, <1>8 DEF HubOK

\* UnregisterFindsAll: unregistering sessions takes away all their routes, and only
\* theirs, although it looks only under their remote addresses.
LEMMA UnregisterFindsAll ==
    ASSUME HubTypeOK, HubConsistent, NEW gone \in SUBSET Sessions,
           UnregisterSessions(gone), closed' \subseteq Sessions,
           \A t \in Sessions : sess'[t].addr = sess[t].addr
    PROVE  /\ HubOK
           /\ \A k \in Routes : byRoute'[k] = IF byRoute[k] \in gone THEN NoSession ELSE byRoute[k]
<1>1. ASSUME NEW k \in Routes
      PROVE  byRoute'[k] = IF byRoute[k] \in gone THEN NoSession ELSE byRoute[k]
  <2>1. ASSUME NEW t \in Sessions, byRoute[k] = t
        PROVE  ipsByAddr[sess[t].addr][k] = t
    <3>1. PICK a \in Addrs : a = sess[t].addr
      BY DEF HubTypeOK, Session
    <3>2. ipsByAddr[a][k] = t <=> byRoute[k] = t /\ sess[t].addr = a
      BY DEF HubConsistent
    <3> QED
      BY <2>1, <3>1, <3>2
  <2>2. byRoute[k] \in gone => ipsByAddr[sess[byRoute[k]].addr][k] = byRoute[k]
    BY <2>1
  <2> QED
    BY <2>2 DEF UnregisterSessions
<1>2. byRoute' \in [Routes -> Sessions \cup {NoSession}]
  BY <1>1 DEF UnregisterSessions, HubTypeOK
<1>3. ASSUME NEW a \in Addrs, NEW k \in Routes
      PROVE  ipsByAddr'[a][k] = IF ipsByAddr[a][k] \in gone /\ sess[ipsByAddr[a][k]].addr = a
                                THEN NoSession ELSE ipsByAddr[a][k]
  BY DEF UnregisterSessions
<1>4. ASSUME NEW a \in Addrs, NEW k \in Routes
      PROVE  ipsByAddr'[a][k] \in Sessions \cup {NoSession}
  <2>1. ipsByAddr[a][k] \in Sessions \cup {NoSession}
    BY DEF HubTypeOK
  <2>2. ipsByAddr'[a][k] = NoSession \/ ipsByAddr'[a][k] = ipsByAddr[a][k]
    BY <1>3
  <2> QED
    BY <2>1, <2>2
<1>5. ipsByAddr' \in [Addrs -> [Routes -> Sessions \cup {NoSession}]]
  BY <1>4 DEF UnregisterSessions
<1>6. ASSUME NEW a \in Addrs, NEW k \in Routes, NEW t \in Sessions
      PROVE  ipsByAddr'[a][k] = t <=> byRoute'[k] = t /\ sess[t].addr = a
  <2>1. NoSession # t
    BY SessionAssumption
  <2>2. ipsByAddr[a][k] = t <=> byRoute[k] = t /\ sess[t].addr = a
    BY DEF HubConsistent
  <2>3. byRoute'[k] = IF byRoute[k] \in gone THEN NoSession ELSE byRoute[k]
    BY <1>1
  <2>4. ipsByAddr'[a][k] = IF ipsByAddr[a][k] \in gone /\ sess[ipsByAddr[a][k]].addr = a
                           THEN NoSession ELSE ipsByAddr[a][k]
    BY <1>3
  <2> QED
    BY <2>1, <2>2, <2>3, <2>4
<1>7. HubConsistent'
  BY <1>6 DEF HubConsistent
<1> QED
  BY <1>1, <1>2, <1>5, <1>7 DEF HubOK

\* The session goes on serving, and is not settled at another route than before.
Steady(t) ==
    /\ Serving(t) => sess'[t].pc \notin {"idle", "done"}
    /\ sess'[t].pc \in Settled /\ sess'[t].ip # 0 /\ t \notin closed
         => sess[t].pc \in Settled /\ sess'[t].net = sess[t].net /\ sess'[t].ip = sess[t].ip

\* SteadySteps: in every step but these a session is steady.
LEMMA SteadySteps ==
    ASSUME SessionInv, SessionNext, NEW t \in Sessions
    PROVE  \/ Steady(t)
           \/ RegistrationRoute(t)
           \/ Unregister(t)
<1> USE DEF SessionInv, HubInv, HubTypeOK
<1>0. sess[t] \in Session /\ \A s \in Sessions : AfterWrite(s) = "loop" => s \notin closed
  BY DEF AfterWrite
<1>1. ASSUME sess'[t] = sess[t] PROVE Steady(t)
  BY <1>1 DEF Steady, Serving
<1>2. ASSUME NEW s \in Sessions, NEW pc, Go(s, pc, AfterWrite(s)), pc \in Settled PROVE Steady(t)
  <2>1. AfterWrite(s) \in {"leave", "loop"}
    BY DEF AfterWrite
  <2>2. sess' = [sess EXCEPT ![s] = [sess[s] EXCEPT !.pc = AfterWrite(s)]]
    BY <1>2 DEF Go, Goto
  <2>3. CASE t = s
    <3>1. sess'[t] = [sess[t] EXCEPT !.pc = AfterWrite(s)]
      BY <2>2, <2>3
    <3>2. /\ sess'[t].pc = AfterWrite(s) /\ sess'[t].net = sess[t].net
          /\ sess'[t].ip = sess[t].ip /\ sess[t].pc \in Settled
      BY <1>0, <2>3, <3>1, <1>2 DEF Session, Go
    <3> QED
      BY <2>1, <3>2 DEF Steady
  <2> QED
    BY <1>1, <2>2, <2>3
<1>3. ASSUME NEW s \in Sessions, Serve(s), ~RegistrationRoute(s), ~Unregister(s)
      PROVE  Steady(t)
  <2>1. CASE t # s
    <3>1. sess'[t] = sess[t]
      BY <1>3, <2>1, Zenon DEF Serve, RegistrationDenied, RegistrationAssign, RegistrationRespond,
        PushToPeers, EndLoop, Leave, Go, Goto
    <3> QED
      BY <1>1, <3>1
  <2>2. CASE t = s
    <3>1. ASSUME NEW g \in Groups, RegistrationDenied(t, g) PROVE Steady(t)
      BY <1>2, <3>1 DEF RegistrationDenied, Settled
    <3>2. ASSUME NEW requested \in Requests, NEW allow \in BOOLEAN,
                 RegistrationAssign(t, requested, allow)
          PROVE  Steady(t)
      <4>1. CASE sess'[t].pc = "route"
        BY <4>1 DEF Steady, Settled
      <4>2. CASE sess' = [sess EXCEPT ![t].pc = AfterWrite(t), ![t].pending = NoNetwork]
        <5>1. /\ sess'[t].pc = AfterWrite(t) /\ sess'[t].ip = sess[t].ip
              /\ sess'[t].net = sess[t].net
          BY <1>0, <4>2 DEF Session
        <5>2. sess[t].pc = "assign" /\ AfterWrite(t) \in {"leave", "loop"}
          BY <3>2 DEF RegistrationAssign, AfterWrite
        <5> QED
          BY <5>1, <5>2 DEF Steady, Settled
      <4>3. ASSUME NEW n, NEW ip,
                   sess' = [sess EXCEPT ![t].pc = "route", ![t].net = n, ![t].ip = ip,
                                        ![t].pending = NoNetwork]
            PROVE  sess'[t].pc = "route"
        BY <1>0, <4>3 DEF Session
      <4> QED
        BY <3>2, <4>1, <4>2, <4>3, Zenon DEF RegistrationAssign
    <3>3. CASE RegistrationRespond(t)
      <4>1. /\ sess'[t].pc \in {"leave", "push"} /\ sess'[t].ip = sess[t].ip
            /\ sess'[t].net = sess[t].net /\ sess[t].pc = "respond"
        BY <1>0, <3>3 DEF RegistrationRespond, Session
      <4> QED
        BY <4>1 DEF Steady, Settled
    <3>4. CASE PushToPeers(t)
      <4>1. /\ sess'[t].pc = "loop" /\ sess'[t].ip = sess[t].ip
            /\ sess'[t].net = sess[t].net /\ sess[t].pc = "push"
        BY <1>0, <3>4 DEF PushToPeers, Session
      <4> QED
        BY <4>1 DEF Steady, Settled
    <3>5. CASE EndLoop(t) \/ Leave(t)
      <4>1. sess'[t].pc \in {"leave", "unregister"}
        BY <1>0, <3>5 DEF EndLoop, Leave, Go, Goto, Session
      <4> QED
        BY <4>1 DEF Steady, Settled
    <3> QED
      BY <1>3, <2>2, <3>1, <3>2, <3>3, <3>4, <3>5 DEF Serve
  <2> QED
    BY <2>1, <2>2
<1>4. ASSUME NEW s \in Sessions, Registration(s) PROVE Steady(t)
  <2>1. CASE t = s
    <3>1. /\ sess'[t].pc \in {"denied", "assign"} /\ sess'[t].ip = sess[t].ip
          /\ sess'[t].net = sess[t].net /\ sess[t].pc = "loop"
      BY <1>0, <1>4, <2>1 DEF Registration, Session
    <3> QED
      BY <3>1 DEF Steady, Settled
  <2>2. CASE t # s
    <3>1. sess'[t] = sess[t]
      BY <1>4, <2>2 DEF Registration
    <3> QED
      BY <1>1, <3>1
  <2> QED
    BY <2>1, <2>2
<1>5. ASSUME NEW s \in Sessions, Accept(s) PROVE Steady(t)
  <2>1. CASE t = s
    <3>1. sess'[t].pc = "loop" /\ sess'[t].ip = sess[t].ip /\ sess[t].pc = "idle"
      BY <1>0, <1>5, <2>1 DEF Accept, Go, Goto, Session
    <3>2. sess[t].ip = 0
      BY <3>1 DEF Placed
    <3> QED
      BY <3>1, <3>2 DEF Steady
  <2>2. CASE t # s
    <3>1. sess'[t] = sess[t]
      BY <1>5, <2>2 DEF Accept, Go, Goto
    <3> QED
      BY <1>1, <3>1
  <2> QED
    BY <2>1, <2>2
<1>6. ASSUME NEW s \in Sessions, Ping(s) PROVE Steady(t)
  BY <1>2, <1>6 DEF Ping, Settled
<1>7. ASSUME NEW s \in Sessions, NEW p2p \in Reports, NEW changed \in BOOLEAN,
             Status(s, p2p, changed)
      PROVE  Steady(t)
  <2>1. CASE t = s
    <3>1. /\ sess'[t].pc \in {"loop", "push"} /\ sess'[t].ip = sess[t].ip
          /\ sess'[t].net = sess[t].net /\ sess[t].pc = "loop"
      BY <1>0, <1>7, <2>1 DEF Status, Session
    <3> QED
      BY <3>1 DEF Steady, Settled
  <2>2. CASE t # s
    <3>1. sess'[t] = sess[t]
      BY <1>7, <2>2 DEF Status
    <3> QED
      BY <1>1, <3>1
  <2> QED
    BY <2>1, <2>2
<1>8. ASSUME NEW s \in Sessions, ConnectionLost(s) PROVE Steady(t)
  BY <1>1, <1>8 DEF ConnectionLost
<1>9. ASSUME \/ \E d \in Devices, n \in Networks : Authorize(d, n)
             \/ \E d \in Deletable, g \in Groups :
                   DeleteRecord(d) \/ DeleteRuntime(d, g) \/ DeletePush(d)
             \/ GatewayPush
             \/ \E n \in Networks, ip \in Hosts : Expire(n, ip)
      PROVE  Steady(t)
  BY <1>1, <1>9 DEF Authorize, DeleteRecord, DeleteRuntime, DeletePush, GatewayPush, Expire
<1>10. ASSUME NEW s \in Sessions, t # s, RegistrationRoute(s) \/ Unregister(s)
       PROVE  Steady(t)
  <2>1. sess'[t] = sess[t]
    BY <1>10 DEF RegistrationRoute, Unregister, Go, Goto
  <2> QED
    BY <1>1, <2>1
<1> QED
  BY <1>3, <1>4, <1>5, <1>6, <1>7, <1>8, <1>9, <1>10 DEF SessionNext

\* Everything the hub promises, after a step.
HubStepOK == HubOK /\ EndedUnrouted' /\ Routed'

\* RouteStep: a session takes the route of its registration.
LEMMA RouteStep ==
    ASSUME SessionInv, NEW s \in Sessions, RegistrationRoute(s)
    PROVE  HubStepOK
<1> USE DEF SessionInv, HubInv
<1> DEFINE k == <<sess[s].net, sess[s].ip>>
<1>1. sess[s] \in Session /\ sess[s].pc = "route"
  BY DEF RegistrationRoute, Go, HubTypeOK
<1>2. k \in Routes
  BY <1>1 DEF Placed, Session, Routes
<1>3. /\ sess' = [sess EXCEPT ![s] = [sess[s] EXCEPT !.pc = "respond"]]
      /\ RegisterSession(s, k)
  BY DEF RegistrationRoute, Go, Goto
<1>4. /\ sess'[s].pc = "respond" /\ sess'[s].net = sess[s].net /\ sess'[s].ip = sess[s].ip
      /\ sess'[s].addr = sess[s].addr
      /\ \A t \in Sessions \ {s} : sess'[t] = sess[t]
  BY <1>1, <1>3 DEF HubTypeOK, Session
<1>5. byRoute' = [byRoute EXCEPT ![k] = s] /\ closed' = closed \cup Replaced(byRoute[k], s)
  BY <1>3 DEF RegisterSession
<1> HIDE DEF k
<1>6. HubOK
  BY <1>2, <1>3, <1>4, RegisterKeepsHub
<1>7. EndedUnrouted'
  <2>1. ASSUME NEW j \in Routes, NEW t \in Sessions, byRoute'[j] = t
        PROVE  sess'[t].pc \notin {"idle", "done"}
    BY <1>4, <1>5, <2>1 DEF EndedUnrouted, Serving, HubTypeOK
  <2> QED
    BY <2>1 DEF EndedUnrouted, Serving
<1>8. Routed'
  <2>1. ASSUME NEW t \in Sessions, sess'[t].pc \in Settled, sess'[t].ip # 0, t \notin closed'
        PROVE  byRoute'[<<sess'[t].net, sess'[t].ip>>] = t
    <3>1. CASE t = s
      BY <1>2, <1>4, <1>5, <3>1 DEF k, HubTypeOK
    <3>2. CASE t # s
      <4> DEFINE j == <<sess[t].net, sess[t].ip>>
      <4>1. sess'[t] = sess[t] /\ t \notin closed
        BY <1>4, <1>5, <2>1, <3>2
      <4>2. byRoute[j] = t /\ j \in Routes
        BY <2>1, <4>1 DEF Routed, Placed, HubTypeOK, Session, Routes
      <4>3. t # NoSession
        BY SessionAssumption
      <4>4. j # k
        BY <1>5, <2>1, <3>2, <4>2, <4>3 DEF Replaced
      <4> QED
        BY <1>5, <4>1, <4>2, <4>4 DEF HubTypeOK
    <3> QED
      BY <3>1, <3>2
  <2> QED
    BY <2>1 DEF Routed
<1> QED
  BY <1>6, <1>7, <1>8 DEF HubStepOK

\* UnregisterStep: a session ends.
LEMMA UnregisterStep ==
    ASSUME SessionInv, NEW s \in Sessions, Unregister(s)
    PROVE  HubStepOK
<1> USE DEF SessionInv, HubInv
<1>1. sess[s] \in Session
  BY DEF HubTypeOK
<1>2. /\ sess' = [sess EXCEPT ![s] = [sess[s] EXCEPT !.pc = "done"]]
      /\ UnregisterSessions({s}) /\ closed' = closed
  BY DEF Unregister, Go, Goto
<1>3. /\ sess'[s].pc = "done" /\ sess'[s].addr = sess[s].addr
      /\ \A t \in Sessions \ {s} : sess'[t] = sess[t]
  BY <1>1, <1>2 DEF HubTypeOK, Session
<1>4. HubOK /\ \A k \in Routes : byRoute'[k] = IF byRoute[k] = s THEN NoSession ELSE byRoute[k]
  <2>1. closed' \subseteq Sessions /\ \A t \in Sessions : sess'[t].addr = sess[t].addr
    BY <1>2, <1>3 DEF HubTypeOK
  <2>2. {s} \in SUBSET Sessions
    OBVIOUS
  <2>3. /\ HubOK
        /\ \A k \in Routes : byRoute'[k] = IF byRoute[k] \in {s} THEN NoSession ELSE byRoute[k]
    BY <1>2, <2>1, <2>2, UnregisterFindsAll
  <2> QED
    BY <2>3
<1>5. EndedUnrouted'
  <2>1. ASSUME NEW j \in Routes, NEW t \in Sessions, byRoute'[j] = t
        PROVE  sess'[t].pc \notin {"idle", "done"}
    <3>1. t # NoSession
      BY SessionAssumption
    <3> QED
      BY <1>3, <1>4, <2>1, <3>1 DEF EndedUnrouted, Serving
  <2> QED
    BY <2>1 DEF EndedUnrouted, Serving
<1>6. Routed'
  <2>1. ASSUME NEW t \in Sessions, sess'[t].pc \in Settled, sess'[t].ip # 0, t \notin closed'
        PROVE  byRoute'[<<sess'[t].net, sess'[t].ip>>] = t
    <3>1. t # s
      BY <1>3, <2>1 DEF Settled
    <3>2. sess'[t] = sess[t] /\ t \notin closed
      BY <1>2, <1>3, <2>1, <3>1
    <3>3. byRoute[<<sess[t].net, sess[t].ip>>] = t /\ <<sess[t].net, sess[t].ip>> \in Routes
      BY <2>1, <3>2 DEF Routed, Placed, HubTypeOK, Session, Routes
    <3> QED
      BY <1>4, <3>1, <3>2, <3>3
  <2> QED
    BY <2>1 DEF Routed
<1> QED
  BY <1>4, <1>5, <1>6 DEF HubStepOK

\* OtherStep: in any other step a closed session may be dropped from the hub, or a
\* stream may be closed.
LEMMA OtherStep ==
    ASSUME SessionInv, \A t \in Sessions : Steady(t) /\ sess'[t].addr = sess[t].addr,
           closed \subseteq closed', closed' \subseteq Sessions,
           \/ UNCHANGED <<byRoute, ipsByAddr>>
           \/ \E gone \in SUBSET closed : UnregisterSessions(gone)
    PROVE  HubStepOK
<1> USE DEF SessionInv, HubInv
<1>1. HubOK /\ \A k \in Routes : byRoute'[k] = byRoute[k] \/ (byRoute[k] \in closed /\ byRoute'[k] = NoSession)
  <2>1. CASE UNCHANGED <<byRoute, ipsByAddr>>
    <3>1. /\ byRoute' \in [Routes -> Sessions \cup {NoSession}]
          /\ ipsByAddr' \in [Addrs -> [Routes -> Sessions \cup {NoSession}]]
      BY <2>1 DEF HubTypeOK
    <3>2. ASSUME NEW a \in Addrs, NEW k \in Routes, NEW t \in Sessions
          PROVE  ipsByAddr'[a][k] = t <=> byRoute'[k] = t /\ sess'[t].addr = a
      <4>1. ipsByAddr[a][k] = t <=> byRoute[k] = t /\ sess[t].addr = a
        BY DEF HubConsistent
      <4> QED
        BY <2>1, <4>1
    <3>3. HubConsistent'
      BY <3>2 DEF HubConsistent
    <3> QED
      BY <2>1, <3>1, <3>3 DEF HubOK
  <2>2. ASSUME NEW gone \in SUBSET closed, UnregisterSessions(gone)
        PROVE  /\ HubOK
               /\ \A k \in Routes : byRoute'[k] = IF byRoute[k] \in gone THEN NoSession ELSE byRoute[k]
    <3>1. gone \in SUBSET Sessions
      BY DEF HubTypeOK
    <3> QED
      BY <2>2, <3>1, UnregisterFindsAll
  <2> QED
    BY <2>1, <2>2
<1>2. EndedUnrouted'
  <2>1. ASSUME NEW j \in Routes, NEW t \in Sessions, byRoute'[j] = t
        PROVE  sess'[t].pc \notin {"idle", "done"}
    <3>1. t # NoSession
      BY SessionAssumption
    <3> QED
      BY <1>1, <2>1, <3>1 DEF EndedUnrouted, Serving, Steady
  <2> QED
    BY <2>1 DEF EndedUnrouted, Serving
<1>3. Routed'
  <2>1. ASSUME NEW t \in Sessions, sess'[t].pc \in Settled, sess'[t].ip # 0, t \notin closed'
        PROVE  byRoute'[<<sess'[t].net, sess'[t].ip>>] = t
    <3>1. /\ t \notin closed /\ sess[t].pc \in Settled
          /\ sess'[t].net = sess[t].net /\ sess'[t].ip = sess[t].ip
      BY <2>1 DEF Steady
    <3>2. byRoute[<<sess[t].net, sess[t].ip>>] = t /\ <<sess[t].net, sess[t].ip>> \in Routes
      BY <2>1, <3>1 DEF Routed, Placed, HubTypeOK, Session, Routes
    <3> QED
      BY <1>1, <3>1, <3>2
  <2> QED
    BY <2>1 DEF Routed
<1> QED
  BY <1>1, <1>2, <1>3 DEF HubStepOK

\* HubStep: every step keeps what the hub promises.
LEMMA HubStep ==
    ASSUME SessionInv, SessionNext
    PROVE  HubStepOK
<1> USE DEF SessionInv, HubInv
<1>1. CASE \E s \in Sessions : RegistrationRoute(s)
  BY <1>1, RouteStep
<1>2. CASE \E s \in Sessions : Unregister(s)
  BY <1>2, UnregisterStep
<1>3. ASSUME \A s \in Sessions : ~RegistrationRoute(s) /\ ~Unregister(s)
      PROVE  HubStepOK
  <2>1. \A t \in Sessions : Steady(t) /\ sess'[t].addr = sess[t].addr
    BY <1>3, SteadySteps, SessionMoves
  <2>2. ASSUME NEW routes, WriteToRoutes(routes)
        PROVE  \E gone \in SUBSET closed : UnregisterSessions(gone)
    BY <2>2 DEF WriteToRoutes
  <2>3. ASSUME NEW s \in Sessions, Serve(s)
        PROVE  /\ closed' = closed
               /\ \/ UNCHANGED <<byRoute, ipsByAddr>>
                  \/ \E gone \in SUBSET closed : UnregisterSessions(gone)
    <3>1. CASE PushToPeers(s)
      BY <2>2, <3>1 DEF PushToPeers
    <3> QED
      BY <1>3, <2>3, <3>1, Zenon DEF Serve, RegistrationDenied, RegistrationAssign,
        RegistrationRespond, EndLoop, Leave, hubVars
  <2>4. ASSUME NEW s \in Sessions,
               Accept(s) \/ Registration(s) \/ Ping(s) \/ ConnectionLost(s)
        PROVE  /\ closed \subseteq closed' /\ closed' \subseteq Sessions
               /\ UNCHANGED <<byRoute, ipsByAddr>>
    BY <2>4 DEF Accept, Registration, Ping, ConnectionLost, hubVars, HubTypeOK
  <2>5. ASSUME NEW s \in Sessions, NEW p2p \in Reports, NEW changed \in BOOLEAN,
               Status(s, p2p, changed)
        PROVE  UNCHANGED hubVars
    BY <2>5 DEF Status
  <2>6. ASSUME \/ \E d \in Devices, n \in Networks : Authorize(d, n)
               \/ \E n \in Networks, ip \in Hosts : Expire(n, ip)
        PROVE  UNCHANGED hubVars
    BY <2>6 DEF Authorize, Expire
  <2>7. ASSUME NEW d \in Deletable, NEW g \in Groups,
               DeleteRecord(d) \/ DeleteRuntime(d, g) \/ DeletePush(d)
        PROVE  /\ closed' = closed
               /\ \/ UNCHANGED <<byRoute, ipsByAddr>>
                  \/ \E gone \in SUBSET closed : UnregisterSessions(gone)
    BY <2>2, <2>7 DEF DeleteRecord, DeleteRuntime, DeletePush, PushToAll, hubVars
  <2>8. ASSUME GatewayPush
        PROVE  closed' = closed /\ \E gone \in SUBSET closed : UnregisterSessions(gone)
    BY <2>2, <2>8 DEF GatewayPush, PushToAll
  <2>9. /\ closed \subseteq closed' /\ closed' \subseteq Sessions
        /\ \/ UNCHANGED <<byRoute, ipsByAddr>>
           \/ \E gone \in SUBSET closed : UnregisterSessions(gone)
    BY <2>3, <2>4, <2>5, <2>6, <2>7, <2>8 DEF SessionNext, hubVars, HubTypeOK
  <2> QED
    BY <2>1, <2>9, OtherStep
<1> QED
  BY <1>1, <1>2, <1>3

--------------------------------------------------------------------------------
(* The invariant and the theorems *)

\* AdminTypes: the device records and the deletions keep their types.
LEMMA AdminTypes ==
    ASSUME HubTypeOK, SessionNext
    PROVE  /\ authed' \in [Devices -> Networks \cup {NoNetwork}]
           /\ deleting' \in [Devices -> {"no", "runtime", "push"}]
<1> USE DEF HubTypeOK
<1>1. ASSUME NEW s \in Sessions,
             \/ Serve(s) \/ Accept(s) \/ Registration(s) \/ Ping(s) \/ ConnectionLost(s)
             \/ \E p2p \in Reports, changed \in BOOLEAN : Status(s, p2p, changed)
      PROVE  UNCHANGED adminVars
  BY <1>1, Zenon DEF Serve, RegistrationDenied, RegistrationAssign, RegistrationRoute,
    RegistrationRespond, PushToPeers, EndLoop, Leave, Unregister, Accept, Registration, Ping,
    ConnectionLost, Status
<1>2. ASSUME NEW d \in Devices, NEW n \in Networks, Authorize(d, n)
      PROVE  authed' \in [Devices -> Networks \cup {NoNetwork}] /\ deleting' = deleting
  BY <1>2 DEF Authorize
<1>3. ASSUME NEW d \in Deletable, NEW g \in Groups,
             DeleteRecord(d) \/ DeleteRuntime(d, g) \/ DeletePush(d)
      PROVE  /\ authed' \in [Devices -> Networks \cup {NoNetwork}]
             /\ deleting' \in [Devices -> {"no", "runtime", "push"}]
  BY <1>3 DEF DeleteRecord, DeleteRuntime, DeletePush
<1>4. ASSUME GatewayPush \/ \E n \in Networks, ip \in Hosts : Expire(n, ip)
      PROVE  UNCHANGED adminVars
  BY <1>4 DEF GatewayPush, Expire
<1> QED
  BY <1>1, <1>2, <1>3, <1>4 DEF SessionNext, adminVars

\* SessionInitInv: nobody is connected yet, and the hub is empty.
LEMMA SessionInitInv == SessionInit => SessionInv
<1> SUFFICES ASSUME SessionInit PROVE SessionInv
  OBVIOUS
<1>1. IInv
  BY InitInv DEF SessionInit
<1>2. ASSUME NEW s \in Sessions
      PROVE  sess[s] \in Session /\ sess[s].pc = "idle" /\ sess[s].ip = 0
  <2>1. PICK d \in Devices, a \in Addrs : sess[s] = NewSession(d, a)
    BY DEF SessionInit
  <2>2. NewSession(d, a) \in Session
    <3>1. MaxRegs \in 0..MaxRegs /\ "idle" \in Places /\ {} \in SUBSET Hosts
      BY SessionAssumption DEF Places
    <3> QED
      BY <3>1 DEF NewSession, Session
  <2>3. NewSession(d, a).pc = "idle" /\ NewSession(d, a).ip = 0
    BY DEF NewSession
  <2> QED
    BY <2>1, <2>2, <2>3
<1>3. HubTypeOK
  BY <1>2 DEF SessionInit, HubTypeOK
<1>4. Placed
  BY <1>2 DEF Placed
<1>5. HubConsistent
  BY SessionAssumption DEF SessionInit, HubConsistent
<1>6. EndedUnrouted
  BY SessionAssumption DEF SessionInit, EndedUnrouted
<1>7. Routed
  BY <1>2 DEF Routed
<1> QED
  BY <1>1, <1>3, <1>4, <1>5, <1>6, <1>7 DEF SessionInv, HubInv

\* SessionNextInv: every step keeps the invariant.
LEMMA SessionNextInv == SessionInv /\ [SessionNext]_sessionVars => SessionInv'
<1> SUFFICES ASSUME SessionInv, [SessionNext]_sessionVars PROVE SessionInv'
  OBVIOUS
<1>1. CASE SessionNext
  <2>1. IInv'
    BY <1>1, SessionStepsRegistry, NextInv DEF SessionInv, HubInv
  <2>2. sess' \in [Sessions -> Session] /\ Placed'
    BY <1>1, SessionMoves DEF SessionInv, HubInv
  <2>3. HubStepOK
    BY <1>1, HubStep
  <2>4. /\ authed' \in [Devices -> Networks \cup {NoNetwork}]
        /\ deleting' \in [Devices -> {"no", "runtime", "push"}]
    BY <1>1, AdminTypes DEF SessionInv, HubInv
  <2>5. HubTypeOK'
    BY <2>2, <2>3, <2>4 DEF HubStepOK, HubOK, HubTypeOK
  <2> QED
    BY <2>1, <2>2, <2>3, <2>5 DEF SessionInv, HubInv, HubStepOK, HubOK
<1>2. CASE UNCHANGED sessionVars
  <2>1. IInv'
    BY <1>2, NextInv DEF sessionVars, SessionInv
  <2>2. /\ UNCHANGED <<sess, closed, byRoute, ipsByAddr, authed, deleting>>
        /\ HubTypeOK /\ Placed /\ HubConsistent /\ EndedUnrouted /\ Routed
    BY <1>2 DEF sessionVars, SessionInv, HubInv
  <2>3. HubTypeOK'
    BY <2>2 DEF HubTypeOK
  <2>4. Placed'
    BY <2>2 DEF Placed
  <2>5. HubConsistent'
    BY <2>2 DEF HubConsistent
  <2>6. EndedUnrouted'
    BY <2>2 DEF EndedUnrouted, Serving
  <2>7. Routed'
    BY <2>2 DEF Routed
  <2> QED
    BY <2>1, <2>3, <2>4, <2>5, <2>6, <2>7 DEF SessionInv, HubInv
<1> QED
  BY <1>1, <1>2

\* The invariant of the sessions, the hub and the registry together.
THEOREM SessionInvariant == SessionSpec => []SessionInv
BY SessionInitInv, SessionNextInv, PTL DEF SessionSpec

\* Sessions, hub and records keep their shape, for any number of sessions, devices
\* and registrations (serveControlSession, streamHub).
THEOREM SessionTypeCorrect == SessionSpec => []SessionTypeOK
<1>1. SessionInv => SessionTypeOK
  BY DEF SessionInv, IInv, HubInv, HubTypeOK, SessionTypeOK
<1> QED
  BY <1>1, SessionInvariant, PTL

\* The two maps of streamHub always agree.
THEOREM HubMapsAgree == SessionSpec => []HubConsistent
<1>1. SessionInv => HubConsistent
  BY DEF SessionInv, HubInv
<1> QED
  BY <1>1, SessionInvariant, PTL

\* A session that has ended has no route.
THEOREM EndedSessionsUnrouted == SessionSpec => []EndedUnrouted
<1>1. SessionInv => EndedUnrouted
  BY DEF SessionInv, HubInv
<1> QED
  BY <1>1, SessionInvariant, PTL

\* An open, registered session is the one its address is routed to.
THEOREM OpenSessionsRouted == SessionSpec => []OpenSessionRouted
<1>1. SessionInv => OpenSessionRouted
  BY DEF SessionInv, HubInv, Routed, Settled, OpenSessionRouted
<1> QED
  BY <1>1, SessionInvariant, PTL

\* The sessions and the admin use the registry only through its operations, so that
\* what is proved of the registry holds of the composition.
THEOREM SessionsImplementRegistry == SessionSpec => RegistrySpec
<1>1. SessionInit => RegistryInit
  BY DEF SessionInit
<1>2. SessionInv /\ [SessionNext]_sessionVars => [RegistryNext]_registryVars
  BY SessionStepsRegistry DEF SessionInv, HubInv, sessionVars
<1> QED
  BY <1>1, <1>2, SessionInvariant, PTL DEF SessionSpec, RegistrySpec

\* SessionsProtectAddresses: whatever sessions, the admin and the clocks do in
\* between, no address of an online or reserved device goes to another one.
THEOREM SessionsProtectAddresses == SessionSpec => AddressProtected
BY SessionsImplementRegistry, AddressesProtected

\* SessionsCoverRoster: no handler of a session changes a roster without advancing
\* the epoch that clients poll.
THEOREM SessionsCoverRoster == SessionSpec => EpochCoversRoster
BY SessionsImplementRegistry, EpochCovers

================================================================================
