------------------------- MODULE NetworkRegistryProofs -------------------------
(***************************************************************************)
(* TLAPS proofs about the registry of the virtual networks, for any number *)
(* of networks, devices and remote addresses, any pool size, gateway and   *)
(* service addresses, and about the expiring map that keeps its            *)
(* reservations (IPSessions), for every number of goroutines, every TTL    *)
(* and every run of the clock.                                             *)
(*                                                                         *)
(* The invariants of the registry are proved together: each operation      *)
(* trusts the device index to find a client, and only an exact index makes *)
(* the client tables, the reservations and the online flags stay in step.  *)
(***************************************************************************)
EXTENDS NetworkRegistry, ExpireMap, WellFoundedInduction, TLAPS

--------------------------------------------------------------------------------
(* One network. *)

\* IndexConsistent for one network.
NetIndex(net) ==
    \A d \in Devices, ip \in Hosts :
        net.ClientIPsByDeviceID[d] = ip <=> Occupied(net, ip) /\ net.Clients[ip].device = d

\* HostsNat: addresses are positive naturals, so 0 is none of them.
LEMMA HostsNat == Hosts \subseteq Nat /\ 0 \notin Hosts
BY RegistryAssumption DEF Hosts

\* UpsertShape: what UpsertClient writes, entry by entry.
LEMMA UpsertShape ==
    ASSUME NEW net \in NetworkInfo, NEW ip \in Hosts, NEW client \in Client
    PROVE  LET r == UpsertClient(net, ip, client) IN
           /\ r \in NetworkInfo
           /\ r.Epoch = net.Epoch
           /\ r.Clients = [net.Clients EXCEPT ![ip] = client]
           /\ \A d \in Devices : r.ClientIPsByDeviceID[d] =
                 IF d = client.device THEN ip
                 ELSE IF Occupied(net, ip) /\ net.Clients[ip].device = d
                         /\ net.ClientIPsByDeviceID[d] = ip
                      THEN 0 ELSE net.ClientIPsByDeviceID[d]
BY Zenon DEF UpsertClient, NetworkInfo

\* DeleteShape: what DeleteClient removes, entry by entry.
LEMMA DeleteShape ==
    ASSUME NEW net \in NetworkInfo, NEW ip \in Hosts
    PROVE  LET r == DeleteClient(net, ip) IN
           /\ r \in NetworkInfo
           /\ r.Epoch = net.Epoch
           /\ r.Clients = [net.Clients EXCEPT ![ip] = NoClient]
           /\ \A d \in Devices : r.ClientIPsByDeviceID[d] =
                 IF Occupied(net, ip) /\ net.Clients[ip].device = d
                    /\ net.ClientIPsByDeviceID[d] = ip
                 THEN 0 ELSE net.ClientIPsByDeviceID[d]
BY Zenon DEF DeleteClient, NetworkInfo

\* UpsertIndex: UpsertClient keeps the index exact provided the client has no
\* entry elsewhere, which is why a registration deletes the old entry first.
LEMMA UpsertIndex ==
    ASSUME NEW net \in NetworkInfo, NEW ip \in Hosts, NEW client \in Client,
           NetIndex(net), net.ClientIPsByDeviceID[client.device] \in {0, ip}
    PROVE  NetIndex(UpsertClient(net, ip, client))
<1> DEFINE r == UpsertClient(net, ip, client)
<1>1. /\ r.Clients = [net.Clients EXCEPT ![ip] = client]
      /\ \A d \in Devices : r.ClientIPsByDeviceID[d] =
             IF d = client.device THEN ip
             ELSE IF Occupied(net, ip) /\ net.Clients[ip].device = d
                     /\ net.ClientIPsByDeviceID[d] = ip
                  THEN 0 ELSE net.ClientIPsByDeviceID[d]
  BY UpsertShape
<1>2. net.Clients \in [Hosts -> Client \cup {NoClient}] /\ client # NoClient
  BY RegistryAssumption DEF NetworkInfo
<1>3. client.device \in Devices
  BY DEF Client
<1> QED
  BY <1>1, <1>2, <1>3, HostsNat DEF NetIndex, Occupied

\* DeleteIndex: DeleteClient keeps the index exact and frees its device.
LEMMA DeleteIndex ==
    ASSUME NEW net \in NetworkInfo, NEW ip \in Hosts, NetIndex(net)
    PROVE  /\ NetIndex(DeleteClient(net, ip))
           /\ \A d \in Devices : net.ClientIPsByDeviceID[d] = ip
                  => DeleteClient(net, ip).ClientIPsByDeviceID[d] = 0
<1> DEFINE r == DeleteClient(net, ip)
<1>1. /\ r.Clients = [net.Clients EXCEPT ![ip] = NoClient]
      /\ \A d \in Devices : r.ClientIPsByDeviceID[d] =
             IF Occupied(net, ip) /\ net.Clients[ip].device = d
                /\ net.ClientIPsByDeviceID[d] = ip
             THEN 0 ELSE net.ClientIPsByDeviceID[d]
  BY DeleteShape
<1>2. net.Clients \in [Hosts -> Client \cup {NoClient}]
  BY DEF NetworkInfo
<1> HIDE DEF r
<1>3. NetIndex(r) /\ \A d \in Devices : net.ClientIPsByDeviceID[d] = ip
                                            => r.ClientIPsByDeviceID[d] = 0
  BY <1>1, <1>2, HostsNat DEF NetIndex, Occupied
<1> QED
  BY <1>3 DEF r

--------------------------------------------------------------------------------
(* generateIP *)

\* FirstFreeFree: the allocation loop answers 0 or an address it may hand out.
LEMMA FirstFreeFree ==
    ASSUME NEW n \in Networks, FirstFree(n) # 0
    PROVE  FirstFree(n) \in Hosts /\ Free(n, FirstFree(n))
<1> DEFINE free == {ip \in Hosts : Free(n, ip)}
<1>1. free # {} /\ FirstFree(n) = CHOOSE ip \in free : \A j \in free : ip <= j
  BY DEF FirstFree
<1>2. free \subseteq Nat
  BY HostsNat, Zenon
<1> HIDE DEF free
<1>3. PICK m \in free : \A j \in free : ~(<<j, m>> \in OpToRel(<, Nat))
  BY <1>1, <1>2, NatLessThanWellFounded, WFMin, Zenon
<1>4. \A j \in free : ~(j < m)
  <2>1. \A i, j \in Nat : i < j => <<i, j>> \in OpToRel(<, Nat)
    BY Zenon DEF OpToRel
  <2> QED
    BY <1>2, <1>3, <2>1, Zenon
<1>5. FirstFree(n) \in free
  BY <1>1, <1>2, <1>4
<1> QED
  BY <1>5 DEF free

\* GenerateIPSound: the address granted to d is usable, and if another device
\* has an entry there, that device is offline and has no reservation.
LEMMA GenerateIPSound ==
    ASSUME TypeOK, IndexConsistent, NEW n \in Networks, NEW d \in Devices,
           NEW requested \in 0..(LastHost + 1), NEW allow \in BOOLEAN,
           GenerateIP(n, requested, d, allow) # 0
    PROVE  LET ip == GenerateIP(n, requested, d, allow) IN
           /\ ip \in Hosts
           /\ TakenByOther(n, ip, d)
                => /\ ~vnet[n].Clients[ip].online
                   /\ <<n, ip>> \notin ipSessions
                   /\ vnet[n].ClientIPsByDeviceID[d] = 0
<1> DEFINE ip == GenerateIP(n, requested, d, allow)
           oldIP == vnet[n].ClientIPsByDeviceID[d]
<1>1. oldIP \in Hosts \cup {0}
  BY DEF TypeOK, NetworkInfo
<1>2. CASE ip = requested /\ ValidRequestedIP(requested) /\ ~TakenByOther(n, requested, d)
  BY <1>2 DEF ValidRequestedIP
<1>3. CASE ip = oldIP /\ oldIP # 0
  BY <1>1, <1>3 DEF IndexConsistent, TakenByOther
<1>4. CASE ip = FirstFree(n) /\ oldIP = 0
  BY <1>4, FirstFreeFree DEF Free, TakenByOther
<1> QED
  BY <1>2, <1>3, <1>4, Zenon DEF GenerateIP

--------------------------------------------------------------------------------
(* The inductive invariant, operation by operation. *)

IInv == TypeOK /\ IndexConsistent /\ ReservationHeld /\ OfflineClean

\* What every step from a state of the invariant is shown to do.
StepOK == IInv' /\ AddressKept /\ RosterChangeSeen

\* RegisterClientEffect: the client table after a registration: the device sits
\* at the granted address, its old entry is gone, everything else is as before.
LEMMA RegisterClientEffect ==
    ASSUME IInv, NEW n \in Networks, NEW d \in Devices, NEW addr \in Addrs,
           NEW requested \in 0..(LastHost + 1), NEW allow \in BOOLEAN,
           RegisterClient(n, d, addr, requested, allow)
    PROVE  \E ip \in Hosts, client \in Client :
           LET oldIP == vnet[n].ClientIPsByDeviceID[d] IN
           /\ ip = GenerateIP(n, requested, d, allow)
           /\ client.online /\ client.device = d
           /\ vnet' \in [Networks -> NetworkInfo]
           /\ \A m \in Networks \ {n} : vnet'[m] = vnet[m]
           /\ NetIndex(vnet'[n])
           /\ vnet'[n].Epoch = vnet[n].Epoch + 1
           /\ \A j \in Hosts : vnet'[n].Clients[j] =
                 IF j = ip THEN client ELSE IF j = oldIP THEN NoClient ELSE vnet[n].Clients[j]
           /\ ipSessions' = ipSessions \ {<<n, ip>>, <<n, oldIP>>}
<1> DEFINE oldIP == vnet[n].ClientIPsByDeviceID[d]
           ip == GenerateIP(n, requested, d, allow)
           own == Occupied(vnet[n], ip) /\ ~TakenByOther(n, ip, d)
           moved == IF oldIP \notin {0, ip} THEN DeleteClient(vnet[n], oldIP) ELSE vnet[n]
           client == [device |-> d, addr |-> addr, online |-> TRUE, reachable |-> FALSE,
                      status |-> own /\ vnet[n].Clients[ip].status]
           r == UpsertClient(moved, ip, client)
<1>1. /\ ip # 0
      /\ vnet[n].Epoch < MaxEpoch
      /\ vnet' = [vnet EXCEPT ![n] = [r EXCEPT !.Epoch = @ + 1]]
      /\ ipSessions' = ipSessions \ {<<n, ip>>, <<n, oldIP>>}
  BY DEF RegisterClient, ReleasedKeys
<1>2. /\ vnet \in [Networks -> NetworkInfo]
      /\ vnet[n] \in NetworkInfo
      /\ oldIP \in Hosts \cup {0}
      /\ vnet[n].Clients \in [Hosts -> Client \cup {NoClient}]
  BY DEF IInv, TypeOK, NetworkInfo
<1>3. ip \in Hosts
  BY <1>1, GenerateIPSound, Zenon DEF IInv
<1>4. client \in Client
  <2>1. (own /\ vnet[n].Clients[ip].status) \in BOOLEAN
    OBVIOUS
  <2> QED
    BY <2>1 DEF Client
<1>5. NetIndex(vnet[n])
  BY DEF IInv, IndexConsistent, NetIndex
<1>6. /\ moved \in NetworkInfo
      /\ moved.Epoch = vnet[n].Epoch
      /\ NetIndex(moved)
      /\ moved.ClientIPsByDeviceID[d] \in {0, ip}
      /\ \A j \in Hosts : j # ip =>
            moved.Clients[j] = IF j = oldIP THEN NoClient ELSE vnet[n].Clients[j]
  <2>1. CASE oldIP \in {0, ip}
    BY <1>2, <1>5, <2>1, HostsNat
  <2>2. CASE oldIP \notin {0, ip}
    <3>1. oldIP \in Hosts /\ moved = DeleteClient(vnet[n], oldIP)
      BY <1>2, <2>2
    <3> HIDE DEF oldIP, ip
    <3>2. /\ DeleteClient(vnet[n], oldIP) \in NetworkInfo
          /\ DeleteClient(vnet[n], oldIP).Epoch = vnet[n].Epoch
          /\ DeleteClient(vnet[n], oldIP).Clients = [vnet[n].Clients EXCEPT ![oldIP] = NoClient]
      BY <1>2, <3>1, DeleteShape
    <3>3. /\ NetIndex(DeleteClient(vnet[n], oldIP))
          /\ DeleteClient(vnet[n], oldIP).ClientIPsByDeviceID[d] = 0
      BY <1>2, <1>5, <3>1, DeleteIndex DEF oldIP
    <3> QED
      BY <1>2, <3>1, <3>2, <3>3
  <2> QED
    BY <2>1, <2>2
<1>7. client.device = d /\ client.online
  OBVIOUS
<1> HIDE DEF moved, client, ip, oldIP
<1>8. /\ r \in NetworkInfo
      /\ r.Epoch = vnet[n].Epoch
      /\ r.Clients = [moved.Clients EXCEPT ![ip] = client]
  BY <1>3, <1>4, <1>6, UpsertShape
<1>9. NetIndex(r)
  BY <1>3, <1>4, <1>6, <1>7, UpsertIndex
<1> HIDE DEF r
<1>10. /\ vnet'[n] = [r EXCEPT !.Epoch = @ + 1]
       /\ vnet'[n] \in NetworkInfo
       /\ vnet'[n].Clients = r.Clients
       /\ vnet'[n].ClientIPsByDeviceID = r.ClientIPsByDeviceID
       /\ vnet'[n].Epoch = vnet[n].Epoch + 1
       /\ \A m \in Networks \ {n} : vnet'[m] = vnet[m]
       /\ vnet' \in [Networks -> NetworkInfo]
  BY <1>1, <1>2, <1>8, RegistryAssumption DEF NetworkInfo
<1>11. NetIndex(vnet'[n])
  BY <1>9, <1>10 DEF NetIndex, Occupied
<1>12. \A j \in Hosts : vnet'[n].Clients[j] =
            IF j = ip THEN client ELSE IF j = oldIP THEN NoClient ELSE vnet[n].Clients[j]
  <2>1. moved.Clients \in [Hosts -> Client \cup {NoClient}]
    BY <1>6 DEF NetworkInfo
  <2> QED
    BY <1>3, <1>6, <1>8, <1>10, <2>1
<1> QED
  <2>1. ip = GenerateIP(n, requested, d, allow) /\ oldIP = vnet[n].ClientIPsByDeviceID[d]
    BY DEF ip, oldIP
  <2> QED
    BY <1>1, <1>3, <1>4, <1>7, <1>10, <1>11, <1>12, <2>1

\* RegisterClientInv: a registration preserves the invariant.
LEMMA RegisterClientInv ==
    ASSUME IInv, NEW n \in Networks, NEW d \in Devices, NEW addr \in Addrs,
           NEW requested \in 0..(LastHost + 1), NEW allow \in BOOLEAN,
           RegisterClient(n, d, addr, requested, allow)
    PROVE  StepOK
<1> DEFINE oldIP == vnet[n].ClientIPsByDeviceID[d]
<1>1. PICK ip \in Hosts, client \in Client :
           /\ ip = GenerateIP(n, requested, d, allow)
           /\ client.online /\ client.device = d
           /\ vnet'[n].Epoch = vnet[n].Epoch + 1
           /\ vnet' \in [Networks -> NetworkInfo]
           /\ \A m \in Networks \ {n} : vnet'[m] = vnet[m]
           /\ NetIndex(vnet'[n])
           /\ \A j \in Hosts : vnet'[n].Clients[j] =
                 IF j = ip THEN client ELSE IF j = oldIP THEN NoClient ELSE vnet[n].Clients[j]
           /\ ipSessions' = ipSessions \ {<<n, ip>>, <<n, oldIP>>}
  BY RegisterClientEffect
<1>2. TypeOK'
  BY <1>1 DEF IInv, TypeOK
<1>3. IndexConsistent'
  BY <1>1 DEF IInv, IndexConsistent, NetIndex, Occupied
<1>4. ReservationHeld'
  <2> SUFFICES ASSUME NEW m \in Networks, NEW j \in Hosts, <<m, j>> \in ipSessions'
               PROVE  Occupied(vnet'[m], j)
    BY <1>2 DEF ReservationHeld, TypeOK, Occupied
  <2>1. <<m, j>> \in ipSessions /\ Occupied(vnet[m], j)
    BY <1>1 DEF IInv, ReservationHeld
  <2>2. CASE m # n
    BY <1>1, <2>1, <2>2 DEF Occupied
  <2>3. CASE m = n
    BY <1>1, <2>1, <2>3 DEF Occupied
  <2> QED
    BY <2>2, <2>3
<1>5. OfflineClean'
  <2> SUFFICES ASSUME NEW m \in Networks, NEW j \in Hosts,
                      Occupied(vnet'[m], j), ~vnet'[m].Clients[j].online
               PROVE  ~vnet'[m].Clients[j].reachable /\ ~vnet'[m].Clients[j].status
    BY DEF OfflineClean
  <2>1. vnet'[m].Clients[j] = vnet[m].Clients[j]
    <3>1. CASE m # n
      BY <1>1, <3>1
    <3>2. CASE m = n
      <4>1. j # ip
        BY <1>1, <3>2
      <4>2. vnet'[n].Clients[j] = IF j = oldIP THEN NoClient ELSE vnet[n].Clients[j]
        BY <1>1, <4>1
      <4> QED
        BY <3>2, <4>2 DEF Occupied
    <3> QED
      BY <3>1, <3>2
  <2>2. Occupied(vnet[m], j) /\ ~vnet[m].Clients[j].online
    BY <2>1 DEF Occupied
  <2> QED
    BY <2>1, <2>2 DEF IInv, OfflineClean
<1>6. AddressKept
  <2> SUFFICES ASSUME NEW m \in Networks, NEW j \in Hosts,
                      Occupied(vnet[m], j), Occupied(vnet'[m], j),
                      vnet'[m].Clients[j] # vnet[m].Clients[j]
               PROVE  /\ vnet[m].Clients[j].device # vnet'[m].Clients[j].device
                           => ~vnet[m].Clients[j].online /\ <<m, j>> \notin ipSessions
                      /\ vnet'[m].Clients[j].online
    BY DEF AddressKept
  <2>1. m = n /\ j = ip /\ vnet'[m].Clients[j] = client
    BY <1>1 DEF Occupied
  <2>2. ip # 0
    BY HostsNat
  <2>3. TakenByOther(n, ip, d) => ~vnet[n].Clients[ip].online /\ <<n, ip>> \notin ipSessions
    <3>1. TypeOK /\ IndexConsistent
      BY DEF IInv
    <3>2. ip = GenerateIP(n, requested, d, allow)
      BY <1>1
    <3>3. GenerateIP(n, requested, d, allow) # 0
      BY <2>2, <3>2
    <3>4. TakenByOther(n, GenerateIP(n, requested, d, allow), d)
             => /\ ~vnet[n].Clients[GenerateIP(n, requested, d, allow)].online
                /\ <<n, GenerateIP(n, requested, d, allow)>> \notin ipSessions
      BY <3>1, <3>3, GenerateIPSound
    <3> QED
      BY <3>2, <3>4
  <2> QED
    BY <1>1, <2>1, <2>3 DEF TakenByOther
<1>7. RosterChangeSeen
  <2>1. vnet[n].Epoch \in Nat
    BY DEF IInv, TypeOK, NetworkInfo
  <2> QED
    BY <1>1, <2>1 DEF RosterChangeSeen
<1> QED
  BY <1>2, <1>3, <1>4, <1>5, <1>6, <1>7 DEF IInv, StepOK

\* RefreshInv: rewriting a client in place, online, preserves the invariant;
\* this is what a ping and a status report do.
LEMMA RefreshInv ==
    ASSUME IInv, NEW n \in Networks, NEW ip \in Hosts, NEW client \in Client,
           Occupied(vnet[n], ip), client.device = vnet[n].Clients[ip].device, client.online,
           vnet' = [vnet EXCEPT ![n] = UpsertClient(vnet[n], ip, client)],
           UNCHANGED ipSessions
    PROVE  StepOK
<1> DEFINE r == UpsertClient(vnet[n], ip, client)
<1>1. vnet \in [Networks -> NetworkInfo] /\ vnet[n] \in NetworkInfo
  BY DEF IInv, TypeOK
<1>2. NetIndex(vnet[n]) /\ client.device \in Devices
  BY DEF IInv, IndexConsistent, NetIndex, Client
<1>3. vnet[n].ClientIPsByDeviceID[client.device] = ip
  BY <1>2 DEF NetIndex
<1>4. r \in NetworkInfo /\ r.Clients = [vnet[n].Clients EXCEPT ![ip] = client] /\ NetIndex(r)
  BY <1>1, <1>2, <1>3, UpsertShape, UpsertIndex
<1> HIDE DEF r
<1>5. /\ vnet' \in [Networks -> NetworkInfo]
      /\ vnet'[n] = r
      /\ \A m \in Networks \ {n} : vnet'[m] = vnet[m]
  BY <1>1, <1>4 DEF r
<1>6. vnet[n].Clients \in [Hosts -> Client \cup {NoClient}] /\ client # NoClient
  BY <1>1, RegistryAssumption DEF NetworkInfo
<1>7. \A j \in Hosts : r.Clients[j] = IF j = ip THEN client ELSE vnet[n].Clients[j]
  BY <1>4, <1>6
<1>8. TypeOK'
  BY <1>5 DEF IInv, TypeOK
<1>9. IndexConsistent'
  <2>1. \A m \in Networks : NetIndex(vnet[m])
    BY DEF IInv, IndexConsistent, NetIndex
  <2>2. \A m \in Networks : NetIndex(vnet'[m])
    BY <1>4, <1>5, <2>1
  <2> QED
    BY <2>2 DEF IndexConsistent, NetIndex, Occupied
<1>10. ReservationHeld'
  BY <1>5, <1>6, <1>7 DEF IInv, ReservationHeld, TypeOK, Occupied
<1>11. OfflineClean'
  BY <1>5, <1>7 DEF IInv, OfflineClean, Occupied
<1>12. AddressKept /\ RosterChangeSeen
  <2>0. ASSUME NEW m \in Networks, NEW j \in Hosts
        PROVE  \/ vnet'[m].Clients[j] = vnet[m].Clients[j]
               \/ /\ Occupied(vnet[m], j) /\ Occupied(vnet'[m], j)
                  /\ vnet'[m].Clients[j].device = vnet[m].Clients[j].device
                  /\ vnet'[m].Clients[j].online
    <3>1. CASE m # n
      BY <1>5, <3>1
    <3>2. CASE m = n /\ j # ip
      BY <1>5, <1>7, <3>2
    <3>3. CASE m = n /\ j = ip
      <4>1. vnet'[m].Clients[j] = client
        BY <1>5, <1>7, <3>3
      <4> QED
        BY <1>6, <3>3, <4>1 DEF Occupied
    <3> QED
      BY <3>1, <3>2, <3>3
  <2>1. AddressKept
    BY <2>0 DEF AddressKept
  <2>2. RosterChangeSeen
    BY <2>0 DEF RosterChangeSeen
  <2> QED
    BY <2>1, <2>2
<1> QED
  BY <1>8, <1>9, <1>10, <1>11, <1>12 DEF IInv, StepOK

\* TouchClientInv: a ping preserves the invariant.
LEMMA TouchClientInv ==
    ASSUME IInv, NEW n \in Networks, NEW ip \in Hosts, TouchClient(n, ip)
    PROVE  StepOK
<1> DEFINE client == [vnet[n].Clients[ip] EXCEPT !.online = TRUE]
<1>1. vnet[n].Clients[ip] \in Client
  BY DEF IInv, TypeOK, NetworkInfo, TouchClient, Occupied
<1>2. client \in Client /\ client.device = vnet[n].Clients[ip].device /\ client.online
  BY <1>1, Zenon DEF Client
<1>3. vnet' = [vnet EXCEPT ![n] = UpsertClient(vnet[n], ip, client)]
  BY DEF TouchClient
<1> HIDE DEF client
<1> QED
  BY <1>2, <1>3, RefreshInv, Zenon DEF TouchClient

\* ClientStatusInfoInv: a status report preserves the invariant.
LEMMA ClientStatusInfoInv ==
    ASSUME IInv, NEW n \in Networks, NEW ip \in Hosts, NEW p2p \in BOOLEAN,
           ClientStatusInfo(n, ip, p2p)
    PROVE  StepOK
<1> DEFINE client == [vnet[n].Clients[ip] EXCEPT
                         !.online = TRUE, !.reachable = p2p, !.status = TRUE]
<1>1. vnet[n].Clients[ip] \in Client
  BY DEF IInv, TypeOK, NetworkInfo, ClientStatusInfo, Occupied
<1>2. client \in Client /\ client.device = vnet[n].Clients[ip].device /\ client.online
  BY <1>1, Zenon DEF Client
<1>3. vnet' = [vnet EXCEPT ![n] = UpsertClient(vnet[n], ip, client)]
  BY DEF ClientStatusInfo
<1> HIDE DEF client
<1> QED
  BY <1>2, <1>3, RefreshInv, Zenon DEF ClientStatusInfo

\* TakeOfflineInv: taking a set of existing clients offline preserves the
\* invariant; their reservations are held by the clients just taken offline.
LEMMA TakeOfflineInv ==
    ASSUME IInv, NEW gone \in SUBSET (Networks \X Hosts),
           \A n \in Networks, ip \in Hosts : <<n, ip>> \in gone => Occupied(vnet[n], ip),
           TakeOffline(gone)
    PROVE  StepOK
<1>1. \A n \in Networks :
        /\ vnet[n] \in NetworkInfo
        /\ vnet[n].Clients \in [Hosts -> Client \cup {NoClient}]
        /\ vnet[n].Epoch \in 0..MaxEpoch
  BY DEF IInv, TypeOK, NetworkInfo
<1>2. \A n \in Networks :
        /\ vnet'[n] = [vnet[n] EXCEPT
             !.Clients = [ip \in Hosts |-> IF <<n, ip>> \in gone
                             THEN MarkOffline(vnet[n].Clients[ip]) ELSE vnet[n].Clients[ip]],
             !.Epoch = EpochAfterLeave(n, gone)]
        /\ EpochAfterLeave(n, gone) \in 0..MaxEpoch
  <2> TAKE n \in Networks
  <2>1. vnet'[n] = [vnet[n] EXCEPT
             !.Clients = [ip \in Hosts |-> IF <<n, ip>> \in gone
                             THEN MarkOffline(vnet[n].Clients[ip]) ELSE vnet[n].Clients[ip]],
             !.Epoch = EpochAfterLeave(n, gone)]
    BY Zenon DEF TakeOffline
  <2>2. (\E ip \in Hosts : <<n, ip>> \in gone) => vnet[n].Epoch < MaxEpoch
    BY Zenon DEF TakeOffline
  <2>3. EpochAfterLeave(n, gone) \in 0..MaxEpoch
    <3>1. CASE \E ip \in Hosts : <<n, ip>> \in gone
      <4>1. EpochAfterLeave(n, gone) = vnet[n].Epoch + 1
        BY <3>1, Zenon DEF EpochAfterLeave
      <4>2. vnet[n].Epoch < MaxEpoch
        BY <2>2, <3>1, Zenon
      <4>3. vnet[n].Epoch \in 0..MaxEpoch /\ MaxEpoch \in Nat
        BY <1>1, RegistryAssumption
      <4> QED
        BY <4>1, <4>2, <4>3
    <3>2. CASE ~\E ip \in Hosts : <<n, ip>> \in gone
      <4>1. EpochAfterLeave(n, gone) = vnet[n].Epoch
        BY <3>2, Zenon DEF EpochAfterLeave
      <4> QED
        BY <1>1, <4>1
    <3> QED
      BY <3>1, <3>2
  <2> QED
    BY <2>1, <2>3
<1>3. \A c \in Client : /\ MarkOffline(c) \in Client
                        /\ MarkOffline(c).device = c.device
                        /\ ~MarkOffline(c).online /\ ~MarkOffline(c).reachable
                        /\ ~MarkOffline(c).status
  BY Zenon DEF MarkOffline, Client
<1>4. \A n \in Networks, ip \in Hosts : <<n, ip>> \in gone => vnet[n].Clients[ip] \in Client
  BY <1>1 DEF Occupied
<1>5. \A n \in Networks :
        /\ vnet'[n].ClientIPsByDeviceID = vnet[n].ClientIPsByDeviceID
        /\ vnet'[n].Clients = [ip \in Hosts |-> IF <<n, ip>> \in gone
                             THEN MarkOffline(vnet[n].Clients[ip]) ELSE vnet[n].Clients[ip]]
        /\ vnet'[n] \in NetworkInfo
  <2> TAKE n \in Networks
  <2> DEFINE C == [ip \in Hosts |-> IF <<n, ip>> \in gone
                      THEN MarkOffline(vnet[n].Clients[ip]) ELSE vnet[n].Clients[ip]]
  <2>1. C \in [Hosts -> Client \cup {NoClient}]
    BY <1>1, <1>3, <1>4
  <2>2. vnet'[n] = [vnet[n] EXCEPT !.Clients = C, !.Epoch = EpochAfterLeave(n, gone)]
    BY <1>2, Zenon
  <2> HIDE DEF C
  <2>3. vnet'[n].ClientIPsByDeviceID = vnet[n].ClientIPsByDeviceID /\ vnet'[n].Clients = C
        /\ vnet'[n] \in NetworkInfo
    BY <1>1, <1>2, <2>1, <2>2, Zenon DEF NetworkInfo
  <2> QED
    BY <2>3 DEF C
<1>6. \A n \in Networks, ip \in Hosts :
        /\ Occupied(vnet'[n], ip) <=> Occupied(vnet[n], ip)
        /\ Occupied(vnet[n], ip) => vnet'[n].Clients[ip].device = vnet[n].Clients[ip].device
        /\ <<n, ip>> \notin gone => vnet'[n].Clients[ip] = vnet[n].Clients[ip]
        /\ <<n, ip>> \in gone => /\ ~vnet'[n].Clients[ip].reachable
                                  /\ ~vnet'[n].Clients[ip].status
  <2> TAKE n \in Networks, ip \in Hosts
  <2>1. vnet'[n].Clients[ip] = IF <<n, ip>> \in gone
            THEN MarkOffline(vnet[n].Clients[ip]) ELSE vnet[n].Clients[ip]
    BY <1>5, Zenon
  <2> QED
    BY <1>3, <1>4, <2>1, RegistryAssumption DEF Occupied
<1>7. vnet' = [n \in Networks |-> vnet'[n]] /\ ipSessions' = ipSessions \cup gone
  BY Zenon DEF TakeOffline
<1>8. TypeOK'
  BY <1>5, <1>7, Zenon DEF IInv, TypeOK
<1>9. IndexConsistent'
  <2> SUFFICES ASSUME NEW n \in Networks, NEW d \in Devices, NEW ip \in Hosts
               PROVE  vnet'[n].ClientIPsByDeviceID[d] = ip
                        <=> Occupied(vnet'[n], ip) /\ vnet'[n].Clients[ip].device = d
    BY DEF IndexConsistent, Occupied
  <2>1. vnet[n].ClientIPsByDeviceID[d] = ip
           <=> Occupied(vnet[n], ip) /\ vnet[n].Clients[ip].device = d
    BY DEF IInv, IndexConsistent
  <2>2. vnet'[n].ClientIPsByDeviceID = vnet[n].ClientIPsByDeviceID
    BY <1>5, Zenon
  <2> QED
    BY <1>6, <2>1, <2>2, Zenon
<1>10. ReservationHeld'
  <2> SUFFICES ASSUME NEW n \in Networks, NEW ip \in Hosts, <<n, ip>> \in ipSessions'
               PROVE  Occupied(vnet'[n], ip)
    BY <1>8 DEF ReservationHeld, TypeOK, Occupied
  <2>1. CASE <<n, ip>> \in gone
    BY <1>6, <2>1
  <2>2. CASE <<n, ip>> \in ipSessions
    BY <1>6, <2>2 DEF IInv, ReservationHeld
  <2> QED
    BY <1>7, <2>1, <2>2
<1>11. OfflineClean'
  BY <1>6, Zenon DEF IInv, OfflineClean, Occupied
<1>12. AddressKept
  BY <1>6, <1>7 DEF AddressKept
<1>13. RosterChangeSeen
  <2> SUFFICES ASSUME NEW n \in Networks, NEW ip \in Hosts, <<n, ip>> \in gone
               PROVE  vnet'[n].Epoch > vnet[n].Epoch
    BY <1>6, Zenon DEF RosterChangeSeen
  <2>1. vnet'[n].Epoch = EpochAfterLeave(n, gone)
    BY <1>1, <1>2, Zenon DEF NetworkInfo
  <2>2. EpochAfterLeave(n, gone) = vnet[n].Epoch + 1
    BY Zenon DEF EpochAfterLeave
  <2>3. vnet[n].Epoch \in Nat
    BY <1>1
  <2> QED
    BY <2>1, <2>2, <2>3
<1> QED
  BY <1>8, <1>9, <1>10, <1>11, <1>12, <1>13 DEF IInv, StepOK

\* LeaveInv: the end of a control connection preserves the invariant.
LEMMA LeaveInv ==
    ASSUME IInv, NEW addr \in Addrs, LeaveByRemoteAddr(addr)
    PROVE  StepOK
BY TakeOfflineInv DEF LeaveByRemoteAddr

\* ClearStaleInv: a failed auth check preserves the invariant.
LEMMA ClearStaleInv ==
    ASSUME IInv, NEW g \in Groups, NEW d \in Devices, ClearStaleClientState(g, d)
    PROVE  StepOK
BY TakeOfflineInv, Zenon DEF ClearStaleClientState

\* RemoveRuntimeInv: deleting a device preserves the invariant.  The index
\* leads to its only entry, so clearing that one leaves none behind.
LEMMA RemoveRuntimeInv ==
    ASSUME IInv, NEW g \in Groups, NEW d \in Devices, RemoveRuntimeState(g, d)
    PROVE  StepOK
<1> DEFINE held == {na \in Networks \X Hosts :
                      /\ GroupOf[na[1]] = g
                      /\ Occupied(vnet[na[1]], na[2])
                      /\ vnet[na[1]].Clients[na[2]].device = d}
           changed == {n \in Networks : \E ip \in Hosts : <<n, ip>> \in held}
           C(n) == [ip \in Hosts |-> IF <<n, ip>> \in held THEN NoClient ELSE vnet[n].Clients[ip]]
           I(n) == [vnet[n].ClientIPsByDeviceID EXCEPT ![d] = IF <<n, @>> \in held THEN 0 ELSE @]
           E(n) == IF n \in changed THEN vnet[n].Epoch + 1 ELSE vnet[n].Epoch
<1>1. \A n \in Networks : /\ vnet[n] \in NetworkInfo
                          /\ vnet[n].Clients \in [Hosts -> Client \cup {NoClient}]
                          /\ vnet[n].ClientIPsByDeviceID \in [Devices -> Hosts \cup {0}]
                          /\ vnet[n].Epoch \in 0..MaxEpoch
  BY DEF IInv, TypeOK, NetworkInfo
<1>2. /\ \A n \in changed : vnet[n].Epoch < MaxEpoch
      /\ vnet' = [n \in Networks |->
            [vnet[n] EXCEPT !.Clients = C(n), !.ClientIPsByDeviceID = I(n), !.Epoch = E(n)]]
      /\ ipSessions' = ipSessions \ held
  BY Zenon DEF RemoveRuntimeState
<1>3. \A n \in Networks, ip \in Hosts :
        <<n, ip>> \in held <=> /\ GroupOf[n] = g
                               /\ Occupied(vnet[n], ip)
                               /\ vnet[n].Clients[ip].device = d
  OBVIOUS
<1> HIDE DEF held
<1>4. \A n \in Networks : /\ C(n) \in [Hosts -> Client \cup {NoClient}]
                          /\ I(n) \in [Devices -> Hosts \cup {0}]
  BY <1>1
<1>5. \A n \in Networks : E(n) \in 0..MaxEpoch
  <2> TAKE n \in Networks
  <2>1. vnet[n].Epoch \in 0..MaxEpoch /\ MaxEpoch \in Nat
    BY <1>1, RegistryAssumption
  <2>2. n \in changed => vnet[n].Epoch < MaxEpoch
    BY <1>2, Zenon
  <2> HIDE DEF changed
  <2> QED
    BY <2>1, <2>2
<1> HIDE DEF C, I, E
<1>6. \A n \in Networks : /\ vnet'[n] \in NetworkInfo
                          /\ vnet'[n].Clients = C(n)
                          /\ vnet'[n].ClientIPsByDeviceID = I(n)
  <2> TAKE n \in Networks
  <2>1. vnet'[n] = [vnet[n] EXCEPT !.Clients = C(n), !.ClientIPsByDeviceID = I(n), !.Epoch = E(n)]
    BY <1>2, Zenon
  <2>2. /\ vnet[n] \in NetworkInfo /\ E(n) \in 0..MaxEpoch
        /\ C(n) \in [Hosts -> Client \cup {NoClient}]
        /\ I(n) \in [Devices -> Hosts \cup {0}]
    BY <1>1, <1>4, <1>5
  <2> QED
    BY <2>1, <2>2, Zenon DEF NetworkInfo
<1>7. TypeOK'
  <2>1. vnet' = [n \in Networks |-> vnet'[n]]
    BY <1>2, Zenon
  <2> QED
    BY <1>2, <1>6, <2>1, Zenon DEF IInv, TypeOK
<1>8. \A n \in Networks, ip \in Hosts :
        vnet'[n].Clients[ip] = IF <<n, ip>> \in held THEN NoClient ELSE vnet[n].Clients[ip]
  BY <1>6, Zenon DEF C
<1>9. IndexConsistent'
  <2> SUFFICES ASSUME NEW n \in Networks, NEW e \in Devices, NEW ip \in Hosts
               PROVE  vnet'[n].ClientIPsByDeviceID[e] = ip
                        <=> Occupied(vnet'[n], ip) /\ vnet'[n].Clients[ip].device = e
    BY DEF IndexConsistent, Occupied
  <2> DEFINE old == vnet[n].ClientIPsByDeviceID[d]
  <2>1. \A j \in Hosts, f \in Devices : vnet[n].ClientIPsByDeviceID[f] = j
           <=> Occupied(vnet[n], j) /\ vnet[n].Clients[j].device = f
    BY DEF IInv, IndexConsistent
  <2>2. vnet'[n].ClientIPsByDeviceID[e] =
           IF e = d THEN IF <<n, old>> \in held THEN 0 ELSE old
           ELSE vnet[n].ClientIPsByDeviceID[e]
    BY <1>1, <1>6, Zenon DEF I
  <2>3. CASE e # d
    <3>1. vnet'[n].ClientIPsByDeviceID[e] = ip
             <=> Occupied(vnet[n], ip) /\ vnet[n].Clients[ip].device = e
      BY <2>1, <2>2, <2>3
    <3>2. CASE <<n, ip>> \in held
      BY <1>3, <1>8, <2>3, <3>1, <3>2 DEF Occupied
    <3>3. CASE <<n, ip>> \notin held
      BY <1>8, <3>1, <3>3 DEF Occupied
    <3> QED
      BY <3>2, <3>3
  <2>4. CASE e = d
    <3>1. CASE <<n, ip>> \in held
      <4>1. ~Occupied(vnet'[n], ip)
        BY <1>8, <3>1 DEF Occupied
      <4>2. vnet'[n].ClientIPsByDeviceID[e] = IF <<n, old>> \in held THEN 0 ELSE old
        BY <2>2, <2>4
      <4>3. 0 # ip
        BY HostsNat
      <4> QED
        BY <3>1, <4>1, <4>2, <4>3
    <3>2. CASE <<n, ip>> \notin held
      <4>1. vnet'[n].Clients[ip] = vnet[n].Clients[ip]
        BY <1>8, <3>2
      <4>2. CASE <<n, old>> \in held
        <5>1. vnet'[n].ClientIPsByDeviceID[e] = 0 /\ 0 \notin Hosts
          BY <2>2, <2>4, <4>2, HostsNat
        <5>2. old # ip
          BY <3>2, <4>2
        <5> QED
          BY <2>1, <2>4, <4>1, <5>1, <5>2 DEF Occupied
      <4>3. CASE <<n, old>> \notin held
        BY <2>1, <2>2, <2>4, <4>1, <4>3 DEF Occupied
      <4> QED
        BY <4>2, <4>3
    <3> QED
      BY <3>1, <3>2
  <2> QED
    BY <2>3, <2>4
<1>10. ReservationHeld'
  <2> SUFFICES ASSUME NEW n \in Networks, NEW ip \in Hosts, <<n, ip>> \in ipSessions'
               PROVE  Occupied(vnet'[n], ip)
    BY <1>7 DEF ReservationHeld, TypeOK, Occupied
  <2>1. <<n, ip>> \in ipSessions /\ <<n, ip>> \notin held
    BY <1>2, Zenon
  <2>2. vnet'[n].Clients[ip] = vnet[n].Clients[ip]
    BY <1>8, <2>1
  <2> QED
    BY <2>1, <2>2 DEF IInv, ReservationHeld, Occupied
<1>11. OfflineClean'
  BY <1>8, Zenon DEF IInv, OfflineClean, Occupied
<1>12. AddressKept
  BY <1>8 DEF AddressKept, Occupied
<1>13. RosterChangeSeen
  <2> SUFFICES ASSUME NEW n \in Networks, NEW ip \in Hosts, <<n, ip>> \in held
               PROVE  vnet'[n].Epoch > vnet[n].Epoch
    BY <1>8, Zenon DEF RosterChangeSeen
  <2>1. E(n) = vnet[n].Epoch + 1 /\ vnet[n].Epoch \in Nat
    BY <1>1 DEF E
  <2>2. vnet'[n].Epoch = E(n)
    BY <1>1, <1>2, Zenon DEF NetworkInfo
  <2> QED
    BY <2>1, <2>2
<1> QED
  BY <1>7, <1>9, <1>10, <1>11, <1>12, <1>13 DEF IInv, StepOK

\* RenameInv: a rename only moves epochs.
LEMMA RenameInv ==
    ASSUME IInv, NEW g \in Groups, NEW d \in Devices, RenameRuntime(g, d)
    PROVE  StepOK
<1>1. PICK renamed \in SUBSET Networks :
        /\ \A n \in renamed : vnet[n].Epoch < MaxEpoch
        /\ vnet' = [n \in Networks |->
              IF n \in renamed THEN [vnet[n] EXCEPT !.Epoch = @ + 1] ELSE vnet[n]]
        /\ UNCHANGED ipSessions
  BY Zenon DEF RenameRuntime
<1>2. \A n \in Networks : /\ vnet'[n] \in NetworkInfo
                          /\ vnet'[n].Clients = vnet[n].Clients
                          /\ vnet'[n].ClientIPsByDeviceID = vnet[n].ClientIPsByDeviceID
  <2> TAKE n \in Networks
  <2>1. vnet[n] \in NetworkInfo /\ MaxEpoch \in Nat
    BY RegistryAssumption DEF IInv, TypeOK
  <2>2. CASE n \in renamed
    BY <1>1, <2>1, <2>2 DEF NetworkInfo
  <2>3. CASE n \notin renamed
    BY <1>1, <2>1, <2>3
  <2> QED
    BY <2>2, <2>3
<1>3. TypeOK'
  <2>1. vnet' = [n \in Networks |-> vnet'[n]]
    BY <1>1
  <2> QED
    BY <1>1, <1>2, <2>1 DEF IInv, TypeOK
<1>4. ReservationHeld'
  BY <1>1, <1>2 DEF IInv, TypeOK, ReservationHeld, Occupied
<1>5. AddressKept /\ RosterChangeSeen
  BY <1>2 DEF AddressKept, RosterChangeSeen
<1>6. \A n \in Networks, ip \in Hosts : Occupied(vnet'[n], ip) <=> Occupied(vnet[n], ip)
  BY <1>2 DEF Occupied
<1>7. IndexConsistent'
  <2> SUFFICES ASSUME NEW n \in Networks, NEW e \in Devices, NEW ip \in Hosts
               PROVE  vnet'[n].ClientIPsByDeviceID[e] = ip
                        <=> Occupied(vnet'[n], ip) /\ vnet'[n].Clients[ip].device = e
    BY DEF IndexConsistent, Occupied
  <2>1. vnet[n].ClientIPsByDeviceID[e] = ip
           <=> Occupied(vnet[n], ip) /\ vnet[n].Clients[ip].device = e
    BY DEF IInv, IndexConsistent
  <2>2. /\ vnet'[n].ClientIPsByDeviceID = vnet[n].ClientIPsByDeviceID
        /\ vnet'[n].Clients = vnet[n].Clients
    BY <1>2
  <2>3. Occupied(vnet'[n], ip) <=> Occupied(vnet[n], ip)
    BY <1>6
  <2> QED
    BY <2>1, <2>2, <2>3
<1>8. OfflineClean'
  BY <1>2, <1>6 DEF IInv, OfflineClean, Occupied
<1> QED
  BY <1>3, <1>4, <1>5, <1>7, <1>8 DEF IInv, StepOK

\* ExpireInv: the end of a reservation preserves the invariant.
LEMMA ExpireInv ==
    ASSUME IInv, NEW n \in Networks, NEW ip \in Hosts, ExpireIPSession(n, ip)
    PROVE  StepOK
<1>1. IInv'
  <2>1. TypeOK' /\ ReservationHeld'
    BY DEF ExpireIPSession, IInv, TypeOK, ReservationHeld
  <2>2. IndexConsistent'
    BY DEF ExpireIPSession, IInv, IndexConsistent
  <2>3. OfflineClean'
    BY DEF ExpireIPSession, IInv, OfflineClean
  <2> QED
    BY <2>1, <2>2, <2>3 DEF IInv
<1>2. AddressKept /\ RosterChangeSeen
  BY DEF ExpireIPSession, AddressKept, RosterChangeSeen
<1> QED
  BY <1>1, <1>2 DEF StepOK

\* InitInv: the empty registry satisfies the invariant.
LEMMA InitInv == RegistryInit => IInv
<1> SUFFICES ASSUME RegistryInit PROVE IInv
  OBVIOUS
<1>1. NewNetworkInfo \in NetworkInfo
  BY RegistryAssumption DEF NewNetworkInfo, NetworkInfo
<1>2. \A n \in Networks : vnet[n] = NewNetworkInfo
  BY DEF RegistryInit
<1>3. TypeOK
  BY <1>1 DEF RegistryInit, TypeOK
<1>4. \A n \in Networks, ip \in Hosts : ~Occupied(vnet[n], ip)
  BY <1>2 DEF NewNetworkInfo, Occupied
<1>5. \A n \in Networks, d \in Devices : vnet[n].ClientIPsByDeviceID[d] = 0
  BY <1>2 DEF NewNetworkInfo
<1>6. IndexConsistent
  BY <1>4, <1>5, HostsNat, Zenon DEF IndexConsistent
<1>7. ReservationHeld /\ OfflineClean
  BY <1>4 DEF ReservationHeld, OfflineClean, RegistryInit
<1> QED
  BY <1>3, <1>6, <1>7 DEF IInv

\* NextStep: every operation preserves the invariant, protects the addresses of
\* the other devices and advances the epoch when the roster changes.
LEMMA NextStep == IInv /\ RegistryNext => StepOK
<1> SUFFICES ASSUME IInv, RegistryNext PROVE StepOK
  OBVIOUS
<1>2. ASSUME NEW n \in Networks, NEW d \in Devices, NEW addr \in Addrs,
             NEW requested \in 0..(LastHost + 1), NEW allow \in BOOLEAN,
             RegisterClient(n, d, addr, requested, allow)
      PROVE  StepOK
  BY <1>2, RegisterClientInv
<1>3. ASSUME NEW n \in Networks, NEW ip \in Hosts,
             \/ TouchClient(n, ip)
             \/ \E p2p \in BOOLEAN : ClientStatusInfo(n, ip, p2p)
             \/ ExpireIPSession(n, ip)
      PROVE  StepOK
  BY <1>3, TouchClientInv, ClientStatusInfoInv, ExpireInv
<1>4. ASSUME NEW addr \in Addrs, LeaveByRemoteAddr(addr) PROVE StepOK
  BY <1>4, LeaveInv
<1>5. ASSUME NEW g \in Groups, NEW d \in Devices,
             ClearStaleClientState(g, d) \/ RemoveRuntimeState(g, d) \/ RenameRuntime(g, d)
      PROVE  StepOK
  BY <1>5, ClearStaleInv, RemoveRuntimeInv, RenameInv
<1> QED
  BY <1>2, <1>3, <1>4, <1>5 DEF RegistryNext

\* NextInv: every step preserves the invariant.
LEMMA NextInv == IInv /\ [RegistryNext]_registryVars => IInv'
<1>1. ASSUME IInv, UNCHANGED registryVars PROVE IInv'
  <2>1. /\ vnet' = vnet /\ ipSessions' = ipSessions
        /\ TypeOK /\ IndexConsistent /\ ReservationHeld /\ OfflineClean
    BY <1>1 DEF registryVars, IInv
  <2>2. TypeOK' /\ ReservationHeld'
    BY <2>1 DEF TypeOK, ReservationHeld
  <2>3. IndexConsistent'
    BY <2>1 DEF IndexConsistent
  <2>4. OfflineClean'
    BY <2>1 DEF OfflineClean
  <2> QED
    BY <2>2, <2>3, <2>4 DEF IInv
<1> QED
  BY <1>1, NextStep DEF StepOK

\* RegistryInvariant: in every reachable state the registry is well formed, the
\* device index is exact, reservations have their client, and offline clients
\* carry no data plane state (control/network.go, control/ip.go).
THEOREM RegistryInvariant == RegistrySpec => []IInv
BY InitInv, NextInv, PTL DEF RegistrySpec

\* TypeCorrect: the registry keeps its types.
THEOREM TypeCorrect == RegistrySpec => []TypeOK
<1>1. IInv => TypeOK
  BY DEF IInv
<1> QED
  BY <1>1, RegistryInvariant, PTL

\* IndexIsInverse: ClientIPsByDeviceID is the exact inverse of Clients.
THEOREM IndexIsInverse == RegistrySpec => []IndexConsistent
<1>1. IInv => IndexConsistent
  BY DEF IInv
<1> QED
  BY <1>1, RegistryInvariant, PTL

\* ReservationsHeld: an address is reserved only for a client the table holds.
THEOREM ReservationsHeld == RegistrySpec => []ReservationHeld
<1>1. IInv => ReservationHeld
  BY DEF IInv
<1> QED
  BY <1>1, RegistryInvariant, PTL

\* OfflineIsClean: an offline client carries no data plane state.
THEOREM OfflineIsClean == RegistrySpec => []OfflineClean
<1>1. IInv => OfflineClean
  BY DEF IInv
<1> QED
  BY <1>1, RegistryInvariant, PTL

\* AddressesProtected: no sequence of registrations, departures, deletions and
\* expiries hands the address of an online or reserved device to another one.
THEOREM AddressesProtected == RegistrySpec => AddressProtected
<1>1. IInv /\ [RegistryNext]_registryVars => [AddressKept]_registryVars
  BY NextStep DEF StepOK
<1> QED
  BY <1>1, RegistryInvariant, PTL DEF RegistrySpec, AddressProtected

\* EpochCovers: a roster change always advances the epoch that clients poll.
THEOREM EpochCovers == RegistrySpec => EpochCoversRoster
<1>1. IInv /\ [RegistryNext]_registryVars => [RosterChangeSeen]_registryVars
  BY NextStep DEF StepOK
<1> QED
  BY <1>1, RegistryInvariant, PTL DEF RegistrySpec, EpochCoversRoster

--------------------------------------------------------------------------------
(* The expiring map *)

\* Nobody holds a time that the clock has not reached.
ClocksRead ==
    /\ \A c \in Callers : call[c].op \in {"set", "try"} => call[c].time <= now
    /\ janitor # None => janitor <= now

MapInv == MapTypeOK /\ MapsAgree /\ ClocksRead

(* The map starts empty, with no operation under way. *)
LEMMA MapInitInv == MapInit => MapInv
<1> SUFFICES ASSUME MapInit PROVE MapInv
  OBVIOUS
<1>1. MapTypeOK
  <2>1. Returned \in [op : {"none", "set", "try", "get", "remove"}, time : 0..MaxTime + TTL]
    BY ExpireMapAssumption DEF Returned
  <2>2. call \in [Callers -> [op : {"none", "set", "try", "get", "remove"}, time : 0..MaxTime + TTL]]
    BY <2>1 DEF MapInit
  <2>3. 0 \in 0..MaxTime
    BY ExpireMapAssumption
  <2> QED BY <2>2, <2>3, Zenon DEF MapInit, MapTypeOK
<1>2. MapsAgree
  BY DEF MapInit, MapsAgree
<1>3. ClocksRead
  BY DEF MapInit, ClocksRead, Returned
<1> QED BY <1>1, <1>2, <1>3 DEF MapInv

(* Every step of Set, TrySetIfAbsent, Get, Delete and the janitor keeps the   *)
(* two maps in agreement and the times it holds in the past.                  *)
LEMMA MapStepInv == MapInv /\ [MapNext]_mapVars => MapInv'
<1> SUFFICES ASSUME MapInv, [MapNext]_mapVars PROVE MapInv'
  OBVIOUS
<1> USE ExpireMapAssumption DEF MapInv, MapTypeOK, MapsAgree, ClocksRead, Returned, Return
<1>1. ASSUME NEW c \in Callers, NEW op \in {"set", "try"}, ReadClock(c, op) PROVE MapInv'
  BY <1>1 DEF ReadClock
<1>2. ASSUME NEW c \in Callers, Set(c) PROVE MapInv'
  <2>1. call[c].time \in Nat /\ call[c].time <= now
    BY <1>2 DEF Set
  <2> QED BY <1>2, <2>1 DEF Set
<1>3. ASSUME NEW c \in Callers, TrySetIfAbsent(c) PROVE MapInv'
  <2>1. call[c].time \in Nat /\ call[c].time <= now
    BY <1>3 DEF TrySetIfAbsent
  <2>2. CASE data /\ ~Expired(call[c].time)
    BY <1>3, <2>2 DEF TrySetIfAbsent
  <2>3. CASE ~(data /\ ~Expired(call[c].time))
    <3>1. /\ data' = TRUE /\ expiration' = call[c].time + TTL /\ lastClaim' = call[c].time
          /\ call' = [call EXCEPT ![c] = Returned] /\ now' = now /\ janitor' = janitor
      BY <1>3, <2>3 DEF TrySetIfAbsent
    <3>2. MapTypeOK'
      BY <2>1, <3>1
    <3>3. MapsAgree'
      BY <2>1, <3>1
    <3>4. ClocksRead'
      BY <3>1
    <3> QED BY <3>2, <3>3, <3>4
  <2> QED BY <2>2, <2>3
<1>4. ASSUME NEW c \in Callers, GetReads(c) PROVE MapInv'
  BY <1>4 DEF GetReads
<1>5. ASSUME NEW c \in Callers, GetCompares(c) PROVE MapInv'
  <2>1. CASE now > call[c].time
    BY <1>5, <2>1 DEF GetCompares
  <2>2. CASE ~(now > call[c].time)
    BY <1>5, <2>2 DEF GetCompares
  <2> QED BY <2>1, <2>2
<1>6. ASSUME NEW c \in Callers, GetRemoves(c) PROVE MapInv'
  <2>1. /\ data' = FALSE /\ expiration' = None /\ call' = [call EXCEPT ![c] = Returned]
        /\ now' = now /\ janitor' = janitor /\ lastClaim' = None
    BY <1>6 DEF GetRemoves
  <2>2. MapTypeOK'
    <3>1. call' \in [Callers -> [op : {"none", "set", "try", "get", "remove"}, time : 0..MaxTime + TTL]]
      BY <2>1
    <3>2. data' \in BOOLEAN /\ expiration' \in (0..MaxTime + TTL) \cup {None}
      BY <2>1, Zenon
    <3> QED BY <2>1, <3>1, <3>2
  <2>3. MapsAgree'
    BY <2>1
  <2>4. ClocksRead'
    BY <2>1
  <2> QED BY <2>2, <2>3, <2>4
<1>7. ASSUME NEW c \in Callers, Delete(c) PROVE MapInv'
  BY <1>7, Zenon DEF Delete
<1>8. CASE JanitorTick
  BY <1>8 DEF JanitorTick
<1>9. CASE JanitorSweeps
  <2>1. CASE Expired(janitor)
    BY <1>9, <2>1, Zenon DEF JanitorSweeps
  <2>2. CASE ~Expired(janitor)
    BY <1>9, <2>2 DEF JanitorSweeps
  <2> QED BY <2>1, <2>2
<1>10. CASE Tick
  BY <1>10 DEF Tick
<1>11. CASE UNCHANGED mapVars
  BY <1>11 DEF mapVars
<1> QED
  BY <1>1, <1>2, <1>3, <1>4, <1>5, <1>6, <1>7, <1>8, <1>9, <1>10, <1>11, Zenon DEF MapNext

(* No interleaving of the operations on a key leaves a value without a        *)
(* deadline or a deadline without a value.                                    *)
THEOREM MapsAgreeAlways == MapSpec => [](MapTypeOK /\ MapsAgree)
<1>1. MapInv => MapTypeOK /\ MapsAgree
  BY DEF MapInv
<1> QED BY MapInitInv, MapStepInv, <1>1, PTL DEF MapSpec

--------------------------------------------------------------------------------
(* Claims *)

\* The deadline of the last claim is the key's, or the clock has passed it.
ClaimInv ==
    /\ MapInv
    /\ lastClaim # None /\ data => expiration = lastClaim + TTL
    /\ lastClaim # None /\ ~data => now > lastClaim + TTL

(* Nothing was claimed at the start. *)
LEMMA ClaimInitInv == MapInit => ClaimInv
BY MapInitInv DEF MapInit, ClaimInv, Returned

(* A claim ends only by its deadline: neither the janitor nor a caller with a *)
(* time read long ago ends it earlier.                                        *)
LEMMA ClaimStepInv ==
    ASSUME ClaimInv, [MapNext]_mapVars
    PROVE  ClaimInv'
<1>1. MapInv'
  BY MapStepInv DEF ClaimInv
<1> USE ExpireMapAssumption, <1>1
    DEF ClaimInv, MapInv, MapTypeOK, MapsAgree, ClocksRead, Returned, Return
<1>2. ASSUME NEW c \in Callers, NEW op \in {"set", "try"}, ReadClock(c, op) PROVE ClaimInv'
  BY <1>2 DEF ReadClock
<1>3. ASSUME NEW c \in Callers, TrySetIfAbsent(c) PROVE ClaimInv'
  <2>1. CASE data /\ ~Expired(call[c].time)
    BY <1>3, <2>1 DEF TrySetIfAbsent
  <2>2. CASE ~(data /\ ~Expired(call[c].time))
    <3>1. /\ data' = TRUE /\ expiration' = call[c].time + TTL /\ lastClaim' = call[c].time
          /\ call' = [call EXCEPT ![c] = Returned]
      BY <1>3, <2>2 DEF TrySetIfAbsent
    <3>2. call[c].time \in Nat
      OBVIOUS
    <3> QED BY <3>1, <3>2
  <2> QED BY <2>1, <2>2, Zenon
<1>4. ASSUME NEW c \in Callers, Set(c) \/ GetRemoves(c) \/ Delete(c) PROVE ClaimInv'
  BY <1>4, Zenon DEF Set, GetRemoves, Delete
<1>9. ASSUME NEW c \in Callers, GetReads(c) \/ GetCompares(c) PROVE ClaimInv'
  BY <1>9 DEF GetReads, GetCompares
<1>5. CASE JanitorTick
  BY <1>5 DEF JanitorTick
<1>6. CASE JanitorSweeps
  <2>1. CASE Expired(janitor)
    BY <1>6, <2>1 DEF JanitorSweeps, Expired
  <2>2. CASE ~Expired(janitor)
    BY <1>6, <2>2 DEF JanitorSweeps
  <2> QED BY <2>1, <2>2, Zenon
<1>7. CASE Tick
  <2>1. now' = now + 1 /\ UNCHANGED <<data, expiration, lastClaim>>
    BY <1>7 DEF Tick
  <2>2. now \in Int /\ TTL \in Int /\ (lastClaim # None => lastClaim \in Int)
    OBVIOUS
  <2>3. lastClaim' # None /\ data' => expiration' = lastClaim' + TTL
    BY <2>1
  <2>4. lastClaim' # None /\ ~data' => now' > lastClaim' + TTL
    BY <2>1, <2>2
  <2> QED BY <2>3, <2>4, Zenon
<1>8. CASE UNCHANGED mapVars
  BY <1>8 DEF mapVars
<1> QED
  BY <1>2, <1>3, <1>4, <1>5, <1>6, <1>7, <1>8, <1>9, Zenon DEF MapNext

(* A step that wins the key comes after the deadline of the last claim. *)
LEMMA ClaimStepApart ==
    ASSUME ClaimInv, [MapNext]_mapVars,
           NEW c \in Callers, call[c].op = "try", call'[c] = Returned,
           ~data \/ expiration' # expiration, lastClaim # None
    PROVE  now > lastClaim + TTL
<1> USE ExpireMapAssumption
    DEF ClaimInv, MapInv, MapTypeOK, MapsAgree, ClocksRead, Returned, Return
<1>1. CASE ~data
  BY <1>1
<1>2. CASE data
  <2>1. ASSUME NEW d \in Callers, NEW op \in {"set", "try"}, ReadClock(d, op) PROVE FALSE
    BY <2>1 DEF ReadClock
  <2>2. ASSUME NEW d \in Callers, Set(d) \/ GetRemoves(d) PROVE FALSE
    BY <2>2 DEF Set, GetRemoves
  <2>3. ASSUME NEW d \in Callers, GetReads(d) \/ GetCompares(d) \/ Delete(d) PROVE FALSE
    BY <2>3 DEF GetReads, GetCompares, Delete
  <2>4. call' # call
    OBVIOUS
  <2>5. PICK d \in Callers : TrySetIfAbsent(d)
    BY <2>1, <2>2, <2>3, <2>4 DEF MapNext, JanitorTick, JanitorSweeps, Tick, mapVars
  <2>6. d = c
    BY <2>5 DEF TrySetIfAbsent
  <2>7. Expired(call[c].time)
    BY <1>2, <2>5, <2>6, Zenon DEF TrySetIfAbsent
  <2>8. call[c].time > lastClaim + TTL /\ call[c].time <= now
    BY <1>2, <2>7 DEF Expired
  <2> QED BY <2>8
<1> QED BY <1>1, <1>2

(* No two callers of TrySetIfAbsent hold the key at the same time, unless Set, *)
(* Delete or Get took it from the first.                                       *)
THEOREM ClaimsApartAlways == MapSpec => ClaimsApart
<1>1. ClaimInv /\ [MapNext]_mapVars => ClaimInv'
  BY ClaimStepInv
<1>2. ClaimInv /\ [MapNext]_mapVars =>
        [\A c \in Callers :
            LET won == call[c].op = "try" /\ call'[c] = Returned
                       /\ (~data \/ expiration' # expiration)
            IN  won /\ lastClaim # None => now > lastClaim + TTL]_mapVars
  BY ClaimStepApart
<1> QED BY ClaimInitInv, <1>1, <1>2, PTL DEF MapSpec, ClaimsApart

================================================================================
