---------------------------- MODULE NetworkRegistry ----------------------------
(***************************************************************************)
(* The virtual networks kept by NetworkControl (control/network.go,        *)
(* control/ip.go): which device holds which virtual IP, whether it is      *)
(* online, and the reservations (IPSessions) that keep the address of a    *)
(* device that went offline.  Every operation below runs under             *)
(* VirtualNetwork.mutex in the code, so it is one atomic action here.      *)
(*                                                                         *)
(* An address is its offset in the network: 0 is the network address (and, *)
(* as in the code, "no address"), 1..LastHost are usable, LastHost + 1 is  *)
(* the broadcast address.                                                  *)
(***************************************************************************)
EXTENDS Integers, FiniteSets

CONSTANTS
    Networks,   \* network keys (NetworkIdentity.Key)
    Devices,    \* device ids
    Addrs,      \* remote addresses of control connections
    GroupOf,    \* the auth group of a network: [Networks -> group]
    LastHost,   \* last usable address
    Gateway,    \* the virtual gateway's address
    Reserved,   \* service addresses never allocated automatically
    EpochMod,   \* 2^16: the width of the epoch carried by a pong
    MaxEpoch,   \* bound on the epoch of a network
    NoClient    \* no client at an address

Hosts == 1..LastHost
Groups == {GroupOf[n] : n \in Networks}

\* What the properties distinguish of a ClientInfo.  status: ClientStatus # nil.
Client == [device : Devices, addr : Addrs, online : BOOLEAN,
           reachable : BOOLEAN, status : BOOLEAN]

NetworkInfo == [Clients : [Hosts -> Client \cup {NoClient}],
                ClientIPsByDeviceID : [Devices -> Hosts \cup {0}],
                Epoch : 0..MaxEpoch]

ASSUME RegistryAssumption ==
    /\ LastHost \in Nat
    /\ Gateway \in 0..(LastHost + 1)
    /\ Reserved \subseteq 0..(LastHost + 1)
    /\ EpochMod \in Nat \ {0}
    /\ MaxEpoch \in Nat
    /\ DOMAIN GroupOf = Networks
    /\ NoClient \notin Client

VARIABLES
    vnet,       \* VirtualNetwork.data; a network not created yet is the empty one
    ipSessions  \* the unexpired keys of IPSessions

registryVars == <<vnet, ipSessions>>

NewNetworkInfo ==
    [Clients |-> [ip \in Hosts |-> NoClient],
     ClientIPsByDeviceID |-> [d \in Devices |-> 0],
     Epoch |-> 0]

RegistryInit ==
    /\ vnet = [n \in Networks |-> NewNetworkInfo]
    /\ ipSessions = {}

--------------------------------------------------------------------------------
(* NetworkInfo: the client table and its index by device id. *)

Occupied(net, ip) == net.Clients[ip] # NoClient

\* Mutant: the index entry of the client that is overwritten is left behind.
UpsertClientStaleIndex(net, ip, client) ==
    [net EXCEPT !.Clients[ip] = client, !.ClientIPsByDeviceID[client.device] = ip]

UpsertClient(net, ip, client) ==
    [net EXCEPT
        !.Clients[ip] = client,
        !.ClientIPsByDeviceID =
            [d \in Devices |->
                IF d = client.device THEN ip
                ELSE IF Occupied(net, ip) /\ net.Clients[ip].device = d /\ @[d] = ip
                     THEN 0 ELSE @[d]]]

DeleteClient(net, ip) ==
    [net EXCEPT
        !.Clients[ip] = NoClient,
        !.ClientIPsByDeviceID =
            [d \in Devices |->
                IF Occupied(net, ip) /\ net.Clients[ip].device = d /\ @[d] = ip
                THEN 0 ELSE @[d]]]

\* Mutant: ClientStatus is not reset.
MarkOfflineKeepStatus(client) ==
    [client EXCEPT !.online = FALSE, !.reachable = FALSE]

\* The effect of LeaveByRemoteAddr and clearStaleClientStateByDeviceID on one client.
MarkOffline(client) ==
    [client EXCEPT !.online = FALSE, !.reachable = FALSE, !.status = FALSE]

--------------------------------------------------------------------------------
(* generateIP *)

ValidRequestedIP(ip) == ip \in Hosts /\ ip # Gateway

\* Mutant: the loop does not look at IPSessions.
FreeIgnoringSessions(n, ip) ==
    /\ ip # Gateway
    /\ ip \notin Reserved
    /\ Occupied(vnet[n], ip) => ~vnet[n].Clients[ip].online

\* An address the allocation loop may hand out: neither the gateway nor a
\* service address, not held by an online client, not reserved.
Free(n, ip) ==
    /\ ip # Gateway
    /\ ip \notin Reserved
    /\ Occupied(vnet[n], ip) => ~vnet[n].Clients[ip].online
    /\ <<n, ip>> \notin ipSessions

\* The loop takes the first free address; 0 when the pool is exhausted.
FirstFree(n) ==
    LET free == {ip \in Hosts : Free(n, ip)}
    IN  IF free = {} THEN 0 ELSE CHOOSE ip \in free : \A j \in free : ip <= j

TakenByOther(n, ip, d) == Occupied(vnet[n], ip) /\ vnet[n].Clients[ip].device # d

\* The address granted to device d, 0 for an error.
GenerateIP(n, requested, d, allowIPChange) ==
    LET oldIP == vnet[n].ClientIPsByDeviceID[d]
        keepOrAllocate == IF oldIP # 0 THEN oldIP ELSE FirstFree(n)
    IN  IF requested = 0 THEN keepOrAllocate
        ELSE IF ~ValidRequestedIP(requested) THEN 0
        ELSE IF ~TakenByOther(n, requested, d) THEN requested
        ELSE IF allowIPChange THEN keepOrAllocate
        ELSE 0

--------------------------------------------------------------------------------
(* Operations *)

\* Mutant: only the reservation of the new address is dropped.
ReleasedKeysNewOnly(n, oldIP, ip) == {<<n, ip>>}

\* The reservations a registration drops.
ReleasedKeys(n, oldIP, ip) == {<<n, ip>>, <<n, oldIP>>}

\* The part of a successful registration done under the lock: the client moves
\* from its old address, if any, and takes over the entry at the new one (whose
\* ClientStatus survives when it was its own), losing the reservation of both.
RegisterClient(n, d, addr, requested, allowIPChange) ==
    LET oldIP == vnet[n].ClientIPsByDeviceID[d]
        ip    == GenerateIP(n, requested, d, allowIPChange)
        \* the client found at an address the allocation loop reclaims is deleted
        own   == Occupied(vnet[n], ip) /\ ~TakenByOther(n, ip, d)
        moved == IF oldIP \notin {0, ip} THEN DeleteClient(vnet[n], oldIP) ELSE vnet[n]
        client == [device |-> d, addr |-> addr, online |-> TRUE, reachable |-> FALSE,
                   status |-> own /\ vnet[n].Clients[ip].status]
    IN  /\ ip # 0
        /\ vnet[n].Epoch < MaxEpoch
        /\ vnet' = [vnet EXCEPT ![n] =
                       [UpsertClient(moved, ip, client) EXCEPT !.Epoch = @ + 1]]
        /\ ipSessions' = ipSessions \ ReleasedKeys(n, oldIP, ip)

\* TouchClientByIPInNetwork: a ping of a registered client.
TouchClient(n, ip) ==
    /\ Occupied(vnet[n], ip)
    /\ vnet' = [vnet EXCEPT ![n] =
                   UpsertClient(@, ip, [@.Clients[ip] EXCEPT !.online = TRUE])]
    /\ UNCHANGED ipSessions

\* The epoch a ping is answered with; 0 makes the caller send a disconnect.
TouchResult(n, ip) == IF Occupied(vnet[n], ip) THEN vnet[n].Epoch % EpochMod ELSE 0

\* HandleClientStatusInfoPacketInNetwork; p2p: the reported P2P list is not empty.
ClientStatusInfo(n, ip, p2p) ==
    /\ Occupied(vnet[n], ip)
    /\ vnet' = [vnet EXCEPT ![n] =
                   UpsertClient(@, ip, [@.Clients[ip] EXCEPT
                       !.online = TRUE, !.reachable = p2p, !.status = TRUE])]
    /\ UNCHANGED ipSessions

\* Mutant: the epoch only advances in networks that lose their last online client.
EpochAfterLeaveLast(n, gone) ==
    IF /\ \E ip \in Hosts : <<n, ip>> \in gone
       /\ \A ip \in Hosts : Occupied(vnet[n], ip) /\ vnet[n].Clients[ip].online
                               => <<n, ip>> \in gone
    THEN vnet[n].Epoch + 1 ELSE vnet[n].Epoch

EpochAfterLeave(n, gone) ==
    IF \E ip \in Hosts : <<n, ip>> \in gone THEN vnet[n].Epoch + 1 ELSE vnet[n].Epoch

\* A set of clients (given by network and address) goes offline and gets its
\* addresses reserved; the epoch of every network concerned advances.
TakeOffline(gone) ==
    /\ \A n \in Networks : (\E ip \in Hosts : <<n, ip>> \in gone) => vnet[n].Epoch < MaxEpoch
    /\ vnet' = [n \in Networks |->
          [vnet[n] EXCEPT
             !.Clients = [ip \in Hosts |->
                 IF <<n, ip>> \in gone THEN MarkOffline(@[ip]) ELSE @[ip]],
             !.Epoch = EpochAfterLeave(n, gone)]]
    /\ ipSessions' = ipSessions \cup gone

\* LeaveByRemoteAddr: the control connection from addr ended.
LeaveByRemoteAddr(addr) ==
    TakeOffline({na \in Networks \X Hosts :
        /\ Occupied(vnet[na[1]], na[2])
        /\ vnet[na[1]].Clients[na[2]].addr = addr
        /\ vnet[na[1]].Clients[na[2]].online})

\* clearStaleClientStateByDeviceID: device d failed the auth check of group g.
ClearStaleClientState(g, d) ==
    TakeOffline({na \in Networks \X Hosts :
        /\ GroupOf[na[1]] = g
        /\ Occupied(vnet[na[1]], na[2])
        /\ LET c == vnet[na[1]].Clients[na[2]]
           IN  c.device = d /\ (c.online \/ c.status \/ c.reachable)})

\* removeAuthedDeviceRuntimeState: an admin deleted device d of group g.
RemoveRuntimeState(g, d) ==
    LET held == {na \in Networks \X Hosts :
                    /\ GroupOf[na[1]] = g
                    /\ Occupied(vnet[na[1]], na[2])
                    /\ vnet[na[1]].Clients[na[2]].device = d}
        changed == {n \in Networks : \E ip \in Hosts : <<n, ip>> \in held}
    IN  /\ \A n \in changed : vnet[n].Epoch < MaxEpoch
        /\ vnet' = [n \in Networks |->
              [vnet[n] EXCEPT
                 !.Clients = [ip \in Hosts |-> IF <<n, ip>> \in held THEN NoClient ELSE @[ip]],
                 !.ClientIPsByDeviceID[d] = IF <<n, @>> \in held THEN 0 ELSE @,
                 !.Epoch = IF n \in changed THEN @ + 1 ELSE @]]
        /\ ipSessions' = ipSessions \ held

\* updateAuthedDeviceRuntimeName: names are abstracted, the epoch of each
\* network where the device has a client under another name advances.
RenameRuntime(g, d) ==
    \E renamed \in SUBSET {n \in Networks :
            GroupOf[n] = g /\ vnet[n].ClientIPsByDeviceID[d] # 0} :
        /\ \A n \in renamed : vnet[n].Epoch < MaxEpoch
        /\ vnet' = [n \in Networks |->
              IF n \in renamed THEN [vnet[n] EXCEPT !.Epoch = @ + 1] ELSE vnet[n]]
        /\ UNCHANGED ipSessions

\* The TTL of a reservation (24 hours) ends.
ExpireIPSession(n, ip) ==
    /\ <<n, ip>> \in ipSessions
    /\ ipSessions' = ipSessions \ {<<n, ip>>}
    /\ UNCHANGED vnet

RegistryNext ==
    \/ \E n \in Networks, d \in Devices, addr \in Addrs,
          requested \in 0..(LastHost + 1), allow \in BOOLEAN :
             RegisterClient(n, d, addr, requested, allow)
    \/ \E n \in Networks, ip \in Hosts : TouchClient(n, ip)
    \/ \E n \in Networks, ip \in Hosts, p2p \in BOOLEAN : ClientStatusInfo(n, ip, p2p)
    \/ \E addr \in Addrs : LeaveByRemoteAddr(addr)
    \/ \E g \in Groups, d \in Devices : ClearStaleClientState(g, d)
    \/ \E g \in Groups, d \in Devices : RemoveRuntimeState(g, d)
    \/ \E g \in Groups, d \in Devices : RenameRuntime(g, d)
    \/ \E n \in Networks, ip \in Hosts : ExpireIPSession(n, ip)

RegistrySpec == RegistryInit /\ [][RegistryNext]_registryVars

--------------------------------------------------------------------------------
(* Properties *)

\* The client tables, indexes and reservations have the shape the code gives them.
TypeOK ==
    /\ vnet \in [Networks -> NetworkInfo]
    /\ ipSessions \subseteq Networks \X Hosts

\* ClientIPsByDeviceID is exactly the inverse of Clients: in a network a device
\* holds at most one address, an address has at most one device, and the index
\* that generateIP trusts for "the address this device already has" never
\* points to an entry of another device, through every sequence of address
\* changes, evictions and removals.
IndexConsistent ==
    \A n \in Networks, d \in Devices, ip \in Hosts :
        vnet[n].ClientIPsByDeviceID[d] = ip
            <=> Occupied(vnet[n], ip) /\ vnet[n].Clients[ip].device = d

\* No reservation outlives its client: whoever removes or moves a client also
\* drops the key of IPSessions, otherwise the address would be unusable for 24
\* hours with nobody to come back for it.
ReservationHeld ==
    \A na \in ipSessions : Occupied(vnet[na[1]], na[2])

\* A client that is offline carries no data plane state of its last session, so
\* it is never taken for a punch candidate or a ready exit node.
OfflineClean ==
    \A n \in Networks, ip \in Hosts :
        Occupied(vnet[n], ip) /\ ~vnet[n].Clients[ip].online
            => ~vnet[n].Clients[ip].reachable /\ ~vnet[n].Clients[ip].status

\* One step of AddressProtected.
AddressKept ==
    \A n \in Networks, ip \in Hosts :
        Occupied(vnet[n], ip) /\ Occupied(vnet'[n], ip) =>
            LET c == vnet[n].Clients[ip]
                e == vnet'[n].Clients[ip]
            IN  /\ c.device # e.device => ~c.online /\ <<n, ip>> \notin ipSessions
                /\ c.device = e.device /\ c.online /\ ~e.online => <<n, ip>> \in ipSessions'

\* An address passes from one device to another only when its holder is offline
\* and its reservation has lapsed, and a holder that goes offline is reserved:
\* whatever the others ask for, a device comes back to its address (generateIP,
\* LeaveByRemoteAddr, clearStaleClientStateByDeviceID).
AddressProtected == [][AddressKept]_registryVars

\* One step of EpochCoversRoster.
RosterChangeSeen ==
    \A n \in Networks :
        \/ vnet'[n].Epoch > vnet[n].Epoch
        \/ \A ip \in Hosts :
             LET c == vnet[n].Clients[ip]
                 e == vnet'[n].Clients[ip]
             IN  \/ c = e
                 \/ /\ Occupied(vnet[n], ip) /\ Occupied(vnet'[n], ip)
                    /\ c.device = e.device
                    /\ c.online => e.online

\* Clients poll the epoch with their pings and pull the device list when it
\* moved: a step that adds, removes, moves or takes offline a client of a
\* network advances its epoch.
EpochCoversRoster == [][RosterChangeSeen]_registryVars
================================================================================
