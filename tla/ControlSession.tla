----------------------------- MODULE ControlSession -----------------------------
(***************************************************************************)
(* Control sessions (serveControlSession and streamHub, handlers/quic.go)  *)
(* composed with the registry and with the deletion of devices by an       *)
(* admin.  A session is the goroutine that reads one control stream.  The  *)
(* registry and the hub have separate locks, so one registration is        *)
(* several steps, which those of other sessions and of the admin may       *)
(* separate: the auth check, the registry, the hub, the pushes to peers.   *)
(*                                                                         *)
(* A stream that is closed (by its peer, by a replacement or after a       *)
(* failed write) may still have frames in frameBuf, so its session may     *)
(* handle more packets before it sees the end of the stream.               *)
(***************************************************************************)
EXTENDS NetworkRegistry

CONSTANTS
    Sessions,   \* control streams, each with one client process behind it
    NoSession,
    NoNetwork,
    MaxRegs,    \* bound on the registration requests of one session
    Requests,   \* the addresses clients ask for (0: any)
    Reports,    \* the status reports clients send (TRUE: with P2P peers)
    Deletable   \* the devices an admin may delete

VARIABLES
    sess,       \* the state of each session
    closed,     \* sessions whose stream is closed
    byRoute,    \* streamHub.byRoute
    ipsByAddr,  \* streamHub.ipsByAddr
    authed,     \* the network in which a device is authorised (UserManager)
    deleting    \* progress of DeleteAuthedDevice for a device

sessionVars == <<registryVars, sess, closed, byRoute, ipsByAddr, authed, deleting>>

Routes == Networks \X Hosts
Places == {"idle", "loop", "denied", "assign", "route", "respond", "push",
           "leave", "unregister", "done"}

\* device, addr: who is at the other end.  net: sessionNetworkKey, ip: the
\* address of the last response; pending: the network of the registration under
\* way; push: the addresses the packets to dispatch are for; regs: requests left.
Session == [pc : Places, device : Devices, addr : Addrs,
            net : Networks \cup {NoNetwork}, ip : Hosts \cup {0},
            pending : Networks \cup {NoNetwork}, push : SUBSET Hosts, regs : 0..MaxRegs]

ASSUME SessionAssumption ==
    /\ NoSession \notin Sessions
    /\ NoNetwork \notin Networks
    /\ MaxRegs \in Nat
    /\ Requests \subseteq 0..(LastHost + 1)
    /\ Reports \subseteq BOOLEAN
    /\ Deletable \subseteq Devices

NewSession(d, a) ==
    [pc |-> "idle", device |-> d, addr |-> a, net |-> NoNetwork, ip |-> 0,
     pending |-> NoNetwork, push |-> {}, regs |-> MaxRegs]

SessionInit ==
    /\ RegistryInit
    /\ sess \in [Sessions -> {NewSession(d, a) : d \in Devices, a \in Addrs}]
    /\ closed = {}
    /\ byRoute = [k \in Routes |-> NoSession]
    /\ ipsByAddr = [a \in Addrs |-> [k \in Routes |-> NoSession]]
    /\ authed = [d \in Devices |-> NoNetwork]
    /\ deleting = [d \in Devices |-> "no"]

Goto(s, pc) == sess' = [sess EXCEPT ![s].pc = pc]
Go(s, from, to) == sess[s].pc = from /\ Goto(s, to)

\* Where a session goes on after a write to its own stream.
AfterWrite(s) == IF s \in closed THEN "leave" ELSE "loop"

hubVars == <<closed, byRoute, ipsByAddr>>
adminVars == <<authed, deleting>>

--------------------------------------------------------------------------------
(* streamHub *)

\* Mutant: the replaced session is not closed.
ReplacedKeptOpen(previous, s) == {}

\* The session that loses the route to s and is closed, if any.
Replaced(previous, s) == {previous} \ {s, NoSession}

\* Mutant: the entry of the replaced session is only overwritten in byRoute.
AddrEntryOverwritten(a, k, s) == IF a = sess[s].addr THEN s ELSE ipsByAddr[a][k]

\* The entry of address a after s has taken route k (unregisterLocked).
AddrEntry(a, k, s) ==
    IF a = sess[s].addr THEN s
    ELSE IF \E t \in Replaced(byRoute[k], s) : ipsByAddr[a][k] = t /\ sess[t].addr = a
         THEN NoSession ELSE ipsByAddr[a][k]

\* registerSession: s takes the route; another session found there is closed.
RegisterSession(s, k) ==
    /\ byRoute' = [byRoute EXCEPT ![k] = s]
    /\ ipsByAddr' = [a \in Addrs |-> [ipsByAddr[a] EXCEPT ![k] = AddrEntry(a, k, s)]]
    /\ closed' = closed \cup Replaced(byRoute[k], s)

\* unregisterSession for each of a set of sessions: the routes found through
\* the address of a session that are still its own.
UnregisterSessions(gone) ==
    /\ byRoute' = [k \in Routes |->
          IF byRoute[k] \in gone /\ ipsByAddr[sess[byRoute[k]].addr][k] = byRoute[k]
          THEN NoSession ELSE byRoute[k]]
    /\ ipsByAddr' = [a \in Addrs |-> [k \in Routes |->
          IF ipsByAddr[a][k] \in gone /\ sess[ipsByAddr[a][k]].addr = a
          THEN NoSession ELSE ipsByAddr[a][k]]]

\* writeToRoute to a set of routes: a write to a closed stream fails, and the
\* hub forgets that session.
WriteToRoutes(routes) == UnregisterSessions({byRoute[k] : k \in routes} \cap closed)

--------------------------------------------------------------------------------
(* serveControlSession *)

Accept(s) == Go(s, "idle", "loop") /\ UNCHANGED <<registryVars, hubVars, adminVars>>

\* A registration request: UMCheckAuthedDevice and UMGetAuthedDevice.
Registration(s) ==
    /\ sess[s].pc = "loop" /\ sess[s].regs > 0
    /\ sess' = [sess EXCEPT ![s].regs = @ - 1,
                            ![s].pending = authed[sess[s].device],
                            ![s].pc = IF authed[sess[s].device] = NoNetwork
                                      THEN "denied" ELSE "assign"]
    /\ UNCHANGED <<registryVars, hubVars, adminVars>>

\* The failed check clears the runtime state, then the error is written.
RegistrationDenied(s, g) ==
    /\ Go(s, "denied", AfterWrite(s))
    /\ ClearStaleClientState(g, sess[s].device)
    /\ UNCHANGED <<hubVars, adminVars>>

\* The rest of the handler, under the lock of the registry.  It fails when there
\* is no address, or when the record was deleted since the check.
RegistrationAssign(s, requested, allow) ==
    LET n  == sess[s].pending
        d  == sess[s].device
        ip == GenerateIP(n, requested, d, allow)
    IN  /\ sess[s].pc = "assign"
        /\ \/ /\ RegisterClient(n, d, sess[s].addr, requested, allow)
              /\ sess' = [sess EXCEPT ![s].pc = "route", ![s].net = n, ![s].ip = ip,
                                      ![s].pending = NoNetwork]
           \/ /\ ip = 0 \/ authed[d] = NoNetwork
              /\ UNCHANGED registryVars
              /\ sess' = [sess EXCEPT ![s].pc = AfterWrite(s), ![s].pending = NoNetwork]
        /\ UNCHANGED <<hubVars, adminVars>>

\* The peers told of a change of the client at ip (BuildPush...PeerChange).
OnlineIPs(n) == {j \in Hosts : Occupied(vnet[n], j) /\ vnet[n].Clients[j].online}
PeersOf(n, ip) == IF ip \in OnlineIPs(n) THEN OnlineIPs(n) \ {ip} ELSE {}

RegistrationRoute(s) ==
    /\ Go(s, "route", "respond")
    /\ RegisterSession(s, <<sess[s].net, sess[s].ip>>)
    /\ UNCHANGED <<registryVars, adminVars>>

\* The pushes are built, the response is written; a failed write ends the session.
RegistrationRespond(s) ==
    /\ sess[s].pc = "respond"
    /\ sess' = [sess EXCEPT ![s].pc = IF s \in closed THEN "leave" ELSE "push",
                            ![s].push = IF s \in closed THEN {}
                                        ELSE PeersOf(sess[s].net, sess[s].ip)]
    /\ UNCHANGED <<registryVars, hubVars, adminVars>>

PushToPeers(s) ==
    /\ sess[s].pc = "push"
    /\ sess' = [sess EXCEPT ![s].pc = "loop", ![s].push = {}]
    /\ WriteToRoutes({sess[s].net} \X sess[s].push)
    /\ UNCHANGED <<closed, registryVars, adminVars>>

\* A ping with the address of the last registration; a client that is no longer
\* registered is answered with a disconnect.
Ping(s) ==
    /\ sess[s].ip # 0
    /\ Go(s, "loop", AfterWrite(s))
    /\ IF Occupied(vnet[sess[s].net], sess[s].ip)
       THEN TouchClient(sess[s].net, sess[s].ip) ELSE UNCHANGED registryVars
    /\ UNCHANGED <<hubVars, adminVars>>

\* A status report; peers are told when it changed what they see of the client.
Status(s, p2p, changed) ==
    /\ sess[s].pc = "loop" /\ sess[s].ip # 0
    /\ ClientStatusInfo(sess[s].net, sess[s].ip, p2p)
    /\ sess' = [sess EXCEPT
          ![s].pc = IF changed THEN "push" ELSE "loop",
          ![s].push = IF changed THEN OnlineIPs(sess[s].net) \ {sess[s].ip} ELSE {}]
    /\ UNCHANGED <<hubVars, adminVars>>

\* The peer goes away, or the connection breaks.
ConnectionLost(s) ==
    /\ sess[s].pc \notin {"idle", "done"} /\ s \notin closed
    /\ closed' = closed \cup {s}
    /\ UNCHANGED <<registryVars, sess, byRoute, ipsByAddr, adminVars>>

\* Mutant: the end of the stream is only noticed after a registration.
EndLoopRegistered(s) ==
    /\ s \in closed /\ sess[s].ip # 0
    /\ Go(s, "loop", "leave")
    /\ UNCHANGED <<registryVars, hubVars, adminVars>>

\* The read fails: the loop ends and the deferred calls run, last one first.
EndLoop(s) ==
    /\ s \in closed
    /\ Go(s, "loop", "leave")
    /\ UNCHANGED <<registryVars, hubVars, adminVars>>

Leave(s) ==
    /\ Go(s, "leave", "unregister")
    /\ LeaveByRemoteAddr(sess[s].addr)
    /\ UNCHANGED <<hubVars, adminVars>>

\* Mutant: the session ends without unregistering.
UnregisterForgotten(s) ==
    Go(s, "unregister", "done") /\ UNCHANGED <<hubVars, registryVars, adminVars>>

Unregister(s) ==
    /\ Go(s, "unregister", "done")
    /\ UnregisterSessions({s})
    /\ UNCHANGED <<closed, registryVars, adminVars>>

--------------------------------------------------------------------------------
(* The device records and the admin API *)

\* AuthDevice: device d is (re)authorised by the owner of network n.
Authorize(d, n) ==
    /\ authed[d] # n
    /\ authed' = [authed EXCEPT ![d] = n]
    /\ UNCHANGED <<registryVars, sess, hubVars, deleting>>

\* DeleteAuthedDevice: the record, then the runtime state, then the pushes.
DeleteRecord(d) ==
    /\ deleting[d] = "no" /\ authed[d] # NoNetwork
    /\ authed' = [authed EXCEPT ![d] = NoNetwork]
    /\ deleting' = [deleting EXCEPT ![d] = "runtime"]
    /\ UNCHANGED <<registryVars, sess, hubVars>>

DeleteRuntime(d, g) ==
    /\ deleting[d] = "runtime"
    /\ RemoveRuntimeState(g, d)
    /\ deleting' = [deleting EXCEPT ![d] = "push"]
    /\ UNCHANGED <<sess, hubVars, authed>>

\* BuildPushDeviceListPacketsForGatewayChange: every online client is told.
PushToAll == WriteToRoutes({k \in Routes : k[2] \in OnlineIPs(k[1])})

DeletePush(d) ==
    /\ deleting[d] = "push"
    /\ PushToAll
    /\ deleting' = [deleting EXCEPT ![d] = "no"]
    /\ UNCHANGED <<registryVars, sess, closed, authed>>

\* A change of the gateways is pushed (by the admin or by any session).
GatewayPush == PushToAll /\ UNCHANGED <<registryVars, sess, closed, adminVars>>

Expire(n, ip) == ExpireIPSession(n, ip) /\ UNCHANGED <<sess, hubVars, adminVars>>

Serve(s) ==
    \/ \E g \in Groups : RegistrationDenied(s, g)
    \/ \E requested \in Requests, allow \in BOOLEAN :
          RegistrationAssign(s, requested, allow)
    \/ RegistrationRoute(s)
    \/ RegistrationRespond(s)
    \/ PushToPeers(s)
    \/ EndLoop(s)
    \/ Leave(s)
    \/ Unregister(s)

SessionNext ==
    \/ \E s \in Sessions : Serve(s)
    \/ \E s \in Sessions : Accept(s) \/ Registration(s) \/ Ping(s) \/ ConnectionLost(s)
    \/ \E s \in Sessions, p2p \in Reports, changed \in BOOLEAN : Status(s, p2p, changed)
    \/ \E d \in Devices, n \in Networks : Authorize(d, n)
    \/ \E d \in Deletable, g \in Groups : DeleteRecord(d) \/ DeleteRuntime(d, g) \/ DeletePush(d)
    \/ GatewayPush
    \/ \E n \in Networks, ip \in Hosts : Expire(n, ip)

\* A goroutine that can go on does; clients, admins and clocks need not.  A closed
\* stream has a limited number of packets left, so the read that fails comes.
SessionSpec ==
    /\ SessionInit /\ [][SessionNext]_sessionVars
    /\ \A s \in Sessions : WF_sessionVars(Serve(s)) /\ SF_sessionVars(EndLoop(s))

--------------------------------------------------------------------------------
(* Properties *)

Serving(s) == sess[s].pc \notin {"idle", "done"}

\* Sessions, hub and device records have the shape the code gives them.
SessionTypeOK ==
    /\ TypeOK
    /\ sess \in [Sessions -> Session]
    /\ closed \subseteq Sessions
    /\ byRoute \in [Routes -> Sessions \cup {NoSession}]
    /\ ipsByAddr \in [Addrs -> [Routes -> Sessions \cup {NoSession}]]
    /\ authed \in [Devices -> Networks \cup {NoNetwork}]
    /\ deleting \in [Devices -> {"no", "runtime", "push"}]

\* The two maps of the hub agree, so unregisterSession, which finds the routes
\* of a session through its remote address only, finds every one of them, also
\* after replacements by sessions from the same or from another address.
HubConsistent ==
    \A a \in Addrs, k \in Routes, s \in Sessions :
        ipsByAddr[a][k] = s <=> byRoute[k] = s /\ sess[s].addr = a

\* No push is ever written to a session that has ended.
EndedUnrouted ==
    \A k \in Routes, s \in Sessions : byRoute[k] = s => Serving(s)

\* A registered session that is still open is the one pushes to its address
\* reach: it loses its route only by being closed, so that its client notices.
OpenSessionRouted ==
    \A s \in Sessions :
        sess[s].pc \in {"loop", "respond", "push"} /\ sess[s].ip # 0 /\ s \notin closed
            => byRoute[<<sess[s].net, sess[s].ip>>] = s

\* A session whose stream is closed ends, and leaves the hub.  (A stream that is
\* closed stays closed.)
ClosedSessionEnds ==
    \A s \in Sessions :
        []<>(s \in closed => sess[s].pc = "done" /\ \A k \in Routes : byRoute[k] # s)

================================================================================
