------------------------------- MODULE ExitNodes -------------------------------
(***************************************************************************)
(* Approval of exit nodes (control/exit_node.go, control/store/postgres.go, *)
(* the exit_node commands of handlers/admin_api.go) and the device lists   *)
(* that announce them (control/registration.go).  An approval lives twice: *)
(* in a row of the database and in the map exitNodeApproved, which is      *)
(* loaded from the rows when the controller starts.                        *)
(*                                                                         *)
(* A node is a device of a user, a slot an address in a network.  The      *)
(* database is configured (without it approvals are refused); a statement  *)
(* may fail, or be carried out while its reply is lost.                    *)
(***************************************************************************)
EXTENDS Integers, FiniteSets

CONSTANTS
    Nodes,
    Candidates,    \* nodes that report a status, and that admins approve, revoke and delete
    Slots,
    NetOf, IpOf,   \* the network and the address of a slot
    Workers,       \* goroutines that serve admins and control streams
    NoNode, NoSlot

Nets == {NetOf[x] : x \in Slots}

ASSUME ExitAssumption ==
    /\ Candidates \subseteq Nodes
    /\ DOMAIN NetOf = Slots /\ IpOf \in [Slots -> Nat]
    /\ NoNode \notin Nodes /\ NoSlot \notin Slots

VARIABLES
    authed,    \* nodes that are authorised (UserManager)
    rows,      \* control_exit_node_approvals
    approved,  \* exitNodeApproved
    doubt,     \* history: nodes whose last statement returned an error
    entry,     \* the registry's client in a slot
    work       \* what a goroutine is doing

exitVars == <<authed, rows, approved, doubt, entry, work>>

\* status: what the client last reported, "ready" for an exit node that is both
\* advertised and ready.
Absent == [node |-> NoNode, online |-> FALSE, status |-> "none"]
Client == [node : Nodes, online : BOOLEAN, status : {"none", "unready", "ready"}]

\* op: what comes next, and then: what follows it; node, ip, nets, slot: what it is
\* about; todo: clients whose lists are still to be built; items: what a list names,
\* before it is completed; lists: what is to be written, each with the slot it is for
\* (NoSlot: the admin) and the nodes it announces as usable.
Idle == [op |-> "idle", then |-> "idle", node |-> NoNode, ip |-> 0, nets |-> {},
         slot |-> NoSlot, todo |-> {}, items |-> {}, lists |-> {}]

ExitInit ==
    /\ authed = {} /\ rows = [n \in Nodes |-> "none"]
    /\ approved = {} /\ doubt = {}
    /\ entry = [x \in Slots |-> Absent]
    /\ work = [g \in Workers |-> Idle]

Becomes(g, w) == work' = [work EXCEPT ![g] = w]
Starts(g, w) == work[g] = Idle /\ Becomes(g, w)
GoesOn(g) == Becomes(g, [Idle EXCEPT !.op = work[g].then])

--------------------------------------------------------------------------------
(* Approval and revocation *)

\* An admin command that succeeded looks for the device, pushes lists and returns
\* the list of exit nodes.
Acknowledged(n) == [Idle EXCEPT !.op = "find", !.node = n, !.then = "list"]

\* resolveExitNodeApprovalTarget and isAuthedDeviceForUser: any other target is
\* refused.  Nothing is held between this check and the statement.
ApproveExitNodeTarget(g, n) ==
    /\ n \in authed
    /\ Starts(g, [Idle EXCEPT !.op = "approve", !.node = n])
    /\ UNCHANGED <<authed, rows, approved, doubt, entry>>

\* The map after the statement of ApproveExitNode.
ApprovedAfter(n, reply) == IF reply = "ok" THEN approved \cup {n} ELSE approved

\* ApproveExitNode, under exitNodeMu: the row is inserted or made active again, then
\* the map is written.
ApproveExitNode(g) ==
    LET n == work[g].node
    IN  /\ work[g].op = "approve"
        /\ \E reply \in {"ok", "failed", "lost"} :
              /\ rows' = IF reply = "failed" THEN rows ELSE [rows EXCEPT ![n] = "active"]
              /\ approved' = ApprovedAfter(n, reply)
              /\ doubt' = IF reply = "ok" THEN doubt \ {n} ELSE doubt \cup {n}
              /\ Becomes(g, IF reply = "ok" THEN Acknowledged(n) ELSE Idle)
        /\ UNCHANGED <<authed, entry>>

\* Mutant: a revocation leaves the map alone.
RevokedKept(n, reply) == approved

\* The map after the statement of RevokeExitNode.
RevokedAfter(n, reply) == IF reply = "ok" THEN approved \ {n} ELSE approved

\* RevokeExitNode, under exitNodeMu.  A node that is not in the map is refused, and
\* so is one without an active row (sql.ErrNoRows), which stays in the map.
RevokeExitNode(g, n) ==
    /\ work[g] = Idle /\ n \in approved
    /\ \E reply \in IF rows[n] = "active" THEN {"ok", "failed", "lost"} ELSE {"failed"} :
          /\ rows' = IF reply = "failed" THEN rows ELSE [rows EXCEPT ![n] = "revoked"]
          /\ approved' = RevokedAfter(n, reply)
          /\ doubt' = IF reply = "ok" THEN doubt \ {n} ELSE doubt \cup {n}
          /\ Becomes(g, IF reply = "ok" THEN Acknowledged(n) ELSE Idle)
    /\ UNCHANGED <<authed, entry>>

\* loadExitNodeApprovalStateFromPostgres: the active rows.
Loaded == {n \in Nodes : rows[n] = "active"}

\* The controller starts again; a failure to load would stop it.
Restart ==
    /\ approved' = Loaded /\ doubt' = {}
    /\ entry' = [x \in Slots |-> Absent]
    /\ work' = [g \in Workers |-> Idle]
    /\ UNCHANGED <<authed, rows>>

--------------------------------------------------------------------------------
(* Device lists *)

\* Mutant: what the client reports is enough.
UsableUnapproved(c) == c.online /\ c.status = "ready"

\* clientExitNodeUsable, enrichDeviceInfoListExitNodesFromClients.
Usable(c) == c.node \in approved /\ c.online /\ c.status = "ready"

\* The clients in the network of slot x, but for its own.
Peers(clients, x) == {y \in Slots \ {x} : NetOf[y] = NetOf[x] /\ clients[y] # Absent}

\* buildDeviceInfoList for the client in slot x, completed: the usable nodes.
ListFor(clients, x) ==
    [to |-> x, usable |-> {clients[y].node : y \in {z \in Peers(clients, x) : Usable(clients[z])}}]

\* BuildPushDeviceListPacketsForAuthedDeviceChange: some online client of the node;
\* its address goes on without its network.
FindClient(g) ==
    LET online == {x \in Slots : entry[x].node = work[g].node /\ entry[x].online}
    IN  /\ work[g].op = "find"
        /\ IF online = {} THEN GoesOn(g)
           ELSE \E x \in online :
                   Becomes(g, [work[g] EXCEPT !.op = "peers", !.ip = IpOf[x], !.nets = Nets])
        /\ UNCHANGED <<authed, rows, approved, doubt, entry>>

\* The registry's read lock is held while lists are built.
Reading == \E g \in Workers : work[g].op = "build"

BuildFor(g, targets) ==
    IF targets = {} THEN GoesOn(g)
    ELSE Becomes(g, [Idle EXCEPT !.op = "build", !.then = work[g].then, !.todo = targets])

\* BuildPushDeviceListPacketsForPeerChangeInNetwork: lists for the online peers of
\* the client at the address, in the first of the networks that has one.
BuildForPeers(g) ==
    LET changed == {x \in Slots : NetOf[x] \in work[g].nets /\ IpOf[x] = work[g].ip
                                    /\ entry[x] # Absent}
    IN  /\ work[g].op = "peers"
        /\ \/ changed = {} /\ GoesOn(g)
           \/ \E x \in changed :
                 BuildFor(g, {y \in Peers(entry, x) : entry[x].online /\ entry[y].online})
        /\ UNCHANGED <<authed, rows, approved, doubt, entry>>

\* BuildPushDeviceListPacketsForGatewayChange: lists for every online client.
BuildForAll(g) ==
    /\ work[g].op = "all" /\ BuildFor(g, {x \in Slots : entry[x].online})
    /\ UNCHANGED <<authed, rows, approved, doubt, entry>>

\* One list: the approvals are read anew for each, while the lock of the registry
\* stays held.
BuildList(g) ==
    /\ work[g].op = "build"
    /\ \E x \in work[g].todo :
          Becomes(g, [work[g] EXCEPT !.todo = @ \ {x}, !.lists = @ \cup {ListFor(entry, x)},
                                     !.op = IF work[g].todo = {x} THEN "write" ELSE "build"])
    /\ UNCHANGED <<authed, rows, approved, doubt, entry>>

\* One of the lists is written; a failure is only logged.
WriteList(g) ==
    /\ work[g].op = "write"
    /\ \E l \in work[g].lists :
          IF work[g].lists # {l} THEN Becomes(g, [work[g] EXCEPT !.lists = @ \ {l}])
          ELSE IF work[g].then = "peers"
          THEN Becomes(g, [work[g] EXCEPT !.lists = {}, !.op = "peers", !.then = "idle"])
          ELSE GoesOn(g)
    /\ UNCHANGED <<authed, rows, approved, doubt, entry>>

\* HandlePullDeviceListPacketInNetwork reads the list of slot x; the clients at its
\* addresses and the approvals are read again, later.
PullList(g, x) ==
    /\ entry[x] # Absent
    /\ Starts(g, [Idle EXCEPT !.op = "enrich", !.slot = x,
           !.items = {[at |-> y, node |-> entry[y].node] : y \in Peers(entry, x)}])
    /\ UNCHANGED <<authed, rows, approved, doubt, entry>>

\* enrichDeviceInfoListExitNodes: an item takes the state of whoever has its address
\* now.  The list stays as it was read when the client itself is gone.
EnrichList(g) ==
    LET now == {i \in work[g].items : entry[work[g].slot] # Absent /\ Usable(entry[i.at])}
    IN  /\ work[g].op = "enrich"
        /\ Becomes(g, [Idle EXCEPT !.op = "write",
              !.lists = {[to |-> work[g].slot, usable |-> {i.node : i \in now}]}])
        /\ UNCHANGED <<authed, rows, approved, doubt, entry>>

\* ListExitNodes: a first look at the approvals names nodes that may have no client.
ListExitNodes(g) ==
    /\ work[g].op = "list"
    /\ Becomes(g, [Idle EXCEPT !.op = "merge",
                               !.items = {[at |-> NoSlot, node |-> n] : n \in approved}])
    /\ UNCHANGED <<authed, rows, approved, doubt, entry>>

\* mergeExitNodeRuntimeViews: approvals and clients are read again; a node with
\* several clients is shown as the last one visited.
MergeRuntimeViews(g) ==
    LET running == {entry[x].node : x \in {y \in Slots : entry[y] # Absent}}
    IN  /\ work[g].op = "merge"
        /\ \E shown \in [running -> Slots] :
              /\ \A n \in running : entry[shown[n]].node = n
              /\ Becomes(g, [Idle EXCEPT !.op = "write",
                    !.lists = {[to |-> NoSlot, usable |-> {n \in running : Usable(entry[shown[n]])}]}])
        /\ UNCHANGED <<authed, rows, approved, doubt, entry>>

--------------------------------------------------------------------------------
(* Devices and clients *)

\* A device is authorised.
AuthDevice(n) ==
    /\ n \notin authed /\ authed' = authed \cup {n}
    /\ UNCHANGED <<rows, approved, doubt, entry, work>>

\* DeleteAuthedDevice: the record first; the approval is not touched.
DeleteDevice(g, n) ==
    /\ n \in authed /\ authed' = authed \ {n}
    /\ Starts(g, [Idle EXCEPT !.op = "unregister", !.node = n])
    /\ UNCHANGED <<rows, approved, doubt, entry>>

\* Then the clients of the device; the admin's goroutine goes on to push lists.
Unregister(g) ==
    /\ work[g].op = "unregister" /\ ~Reading
    /\ entry' = [x \in Slots |-> IF entry[x].node = work[g].node THEN Absent ELSE entry[x]]
    /\ Becomes(g, [Idle EXCEPT !.op = "all"])
    /\ UNCHANGED <<authed, rows, approved, doubt>>

\* HandleRegistrationPacket: the client takes a slot that is free, offline or its own,
\* and leaves the one it had in the network; what was reported in the slot stays.  The
\* response has a list; peers are told afterwards.
Register(g, x, n) ==
    LET clients == [y \in Slots |->
            IF y = x THEN [node |-> n, online |-> TRUE, status |-> entry[x].status]
            ELSE IF NetOf[y] = NetOf[x] /\ entry[y].node = n THEN Absent ELSE entry[y]]
    IN  /\ n \in authed /\ ~Reading
        /\ ~entry[x].online \/ entry[x].node = n
        /\ entry' = clients
        /\ Starts(g, [Idle EXCEPT !.op = "write", !.lists = {ListFor(clients, x)},
                                  !.then = "peers", !.ip = IpOf[x], !.nets = {NetOf[x]}])
        /\ UNCHANGED <<authed, rows, approved, doubt>>

\* HandleClientStatusInfoPacketInNetwork: a change (of the readiness, or of the channel
\* mode, which is left out) is pushed to the peers.
StatusReport(g, x, st) ==
    /\ entry[x].node \in Candidates /\ ~Reading
    /\ entry' = [entry EXCEPT ![x].online = TRUE, ![x].status = st]
    /\ \/ Starts(g, [Idle EXCEPT !.op = "peers", !.ip = IpOf[x], !.nets = {NetOf[x]}])
       \/ st = entry[x].status /\ work[g] = Idle /\ UNCHANGED work
    /\ UNCHANGED <<authed, rows, approved, doubt>>

\* Mutant: what the client reported outlives its connection.
LeaveKeepsStatus(x) ==
    /\ entry[x].online /\ ~Reading
    /\ entry' = [entry EXCEPT ![x].online = FALSE]
    /\ UNCHANGED <<authed, rows, approved, doubt, work>>

\* LeaveByRemoteAddr: the client is offline and its status is forgotten; its peers are
\* not told.
LeaveControl(x) ==
    /\ entry[x].online /\ ~Reading
    /\ entry' = [entry EXCEPT ![x].online = FALSE, ![x].status = "none"]
    /\ UNCHANGED <<authed, rows, approved, doubt, work>>

--------------------------------------------------------------------------------

ExitStep(g) ==
    \/ ApproveExitNode(g) \/ FindClient(g) \/ BuildForPeers(g) \/ BuildForAll(g)
    \/ BuildList(g) \/ WriteList(g) \/ EnrichList(g) \/ ListExitNodes(g)
    \/ MergeRuntimeViews(g) \/ Unregister(g)

ExitNext ==
    \/ \E g \in Workers : ExitStep(g)
    \/ \E g \in Workers, n \in Candidates :
          ApproveExitNodeTarget(g, n) \/ RevokeExitNode(g, n) \/ DeleteDevice(g, n)
    \/ \E g \in Workers, x \in Slots : PullList(g, x)
    \/ \E g \in Workers, x \in Slots, n \in Nodes : Register(g, x, n)
    \/ \E g \in Workers, x \in Slots, st \in {"unready", "ready"} : StatusReport(g, x, st)
    \/ \E x \in Slots : LeaveControl(x)
    \/ \E n \in Nodes : AuthDevice(n)
    \/ Restart

ExitSpec == ExitInit /\ [][ExitNext]_exitVars

--------------------------------------------------------------------------------
(* Properties *)

Lists == [to : Slots \cup {NoSlot}, usable : SUBSET Nodes]
Work == [op : {"idle", "approve", "find", "peers", "all", "build", "write", "enrich",
               "list", "merge", "unregister"},
         then : {"idle", "list", "peers"},
         node : Nodes \cup {NoNode}, ip : Nat, nets : SUBSET Nets,
         slot : Slots \cup {NoSlot}, todo : SUBSET Slots,
         items : SUBSET [at : Slots \cup {NoSlot}, node : Nodes],
         lists : SUBSET Lists]

\* The state has its type.
ExitTypeOK ==
    /\ authed \subseteq Nodes /\ approved \subseteq Nodes /\ doubt \subseteq Nodes
    /\ rows \in [Nodes -> {"none", "active", "revoked"}]
    /\ entry \in [Slots -> Client \cup {Absent}]
    /\ work \in [Workers -> Work]

\* The map and the rows agree on every node whose last statement was acknowledged, so
\* a restart changes the approval of no other: neither ApproveExitNode nor
\* RevokeExitNode can leave them apart without having reported an error.
ApprovalsAgree ==
    \A n \in Nodes \ doubt : n \in approved <=> rows[n] = "active"

\* A pushed list, the list in a registration response and the list returned to an
\* admin are made with a look at the approvals after which nothing is taken over: they
\* name only nodes with an active row as usable (or with a row in doubt), however the
\* approval, the push and the registration of the client interleave.
AnnouncedApproved ==
    [][\A g \in Workers : work[g].op # "enrich" =>
          \A l \in work'[g].lists \ work[g].lists :
              \A n \in l.usable : rows[n] = "active" \/ n \in doubt]_exitVars

\* A device that takes over the address of another does not inherit its readiness to be
\* an exit node, though a registration keeps what was last reported at the address.
ReadinessNotInherited ==
    [][\A x \in Slots : entry'[x].node # entry[x].node => entry'[x].status = "none"]_exitVars

================================================================================
