---------------------------- MODULE ExitNodesProofs ----------------------------
(***************************************************************************)
(* TLAPS proofs about ExitNodes, for any devices, networks, addresses and  *)
(* goroutines.  The approval of a node is changed in the map only in the   *)
(* step that sees the reply of the database, so map and rows part only on  *)
(* nodes whose statement was answered with an error.  That an address does *)
(* not pass on the readiness of its last holder rests on the invariant     *)
(* that an offline client has no status.                                   *)
(***************************************************************************)
EXTENDS ExitNodes, TLAPS

\* A client that is not online has reported nothing that still counts.
OfflineForgotten == \A x \in Slots : ~entry[x].online => entry[x].status = "none"

\* A goroutine about to approve has a node to approve.
ApprovesNode == \A g \in Workers : work[g].op = "approve" => work[g].node \in Nodes

ExitInv == ExitTypeOK /\ ApprovalsAgree /\ OfflineForgotten /\ ApprovesNode

\* One step of AnnouncedApproved.
AnnouncedStep ==
    \A g \in Workers : work[g].op # "enrich" =>
        \A l \in work'[g].lists \ work[g].lists :
            \A n \in l.usable : rows[n] = "active" \/ n \in doubt

\* One step of ReadinessNotInherited.
NotInheritedStep ==
    \A x \in Slots : entry'[x].node # entry[x].node => entry'[x].status = "none"

\* The lists that AnnouncedApproved allows.
Announceable == {l \in Lists : \A n \in l.usable : rows[n] = "active" \/ n \in doubt}

\* What a step does to the goroutines.
WorkOK == work' \in [Workers -> Work] /\ ApprovesNode' /\ AnnouncedStep

--------------------------------------------------------------------------------
(* The goroutines *)

\* IdleWork: an idle goroutine is well-formed.
LEMMA IdleWork == Idle \in Work
BY ExitAssumption DEF Idle, Work

\* BecomesOK: a goroutine that drops lists, or adds ones that may be announced.
LEMMA BecomesOK ==
    ASSUME ExitInv, NEW g \in Workers, NEW w \in Work, Becomes(g, w),
           w.op = "approve" => w.node \in Nodes,
           work[g].op = "enrich" \/ w.lists \subseteq work[g].lists \cup Announceable
    PROVE  WorkOK
<1>1. work' = [work EXCEPT ![g] = w] /\ work \in [Workers -> Work]
  BY DEF Becomes, ExitInv, ExitTypeOK
<1>2. work' \in [Workers -> Work] /\ work'[g] = w /\ \A h \in Workers \ {g} : work'[h] = work[h]
  BY <1>1
<1>3. ApprovesNode'
  BY <1>2 DEF ExitInv, ApprovesNode
<1>4. AnnouncedStep
  BY <1>2 DEF AnnouncedStep, Announceable
<1> QED
  BY <1>2, <1>3, <1>4 DEF WorkOK

\* WorkUnchanged: nothing happens to the goroutines.
LEMMA WorkUnchanged ==
    ASSUME ExitInv, work' = work
    PROVE  WorkOK
BY DEF WorkOK, ExitInv, ExitTypeOK, ApprovesNode, AnnouncedStep

\* GoesOnOK: a goroutine takes up what follows.
LEMMA GoesOnOK ==
    ASSUME ExitInv, NEW g \in Workers, GoesOn(g)
    PROVE  WorkOK
<1> DEFINE w == [Idle EXCEPT !.op = work[g].then]
<1>1. work[g].then \in {"idle", "list", "peers"}
  BY DEF ExitInv, ExitTypeOK, Work
<1>2. w \in Work /\ w.lists = {} /\ w.op # "approve"
  BY <1>1, IdleWork DEF Idle, Work
<1>3. Becomes(g, w)
  BY DEF GoesOn
<1> HIDE DEF w
<1> QED
  BY <1>2, <1>3, BecomesOK

\* UsableApproved: a client shown as usable has an approval that is in the map, and
\* therefore an active row, or one in doubt.
LEMMA UsableApproved ==
    ASSUME ExitInv, NEW c, Usable(c)
    PROVE  c.node \in Nodes /\ (rows[c.node] = "active" \/ c.node \in doubt)
BY DEF Usable, ExitInv, ExitTypeOK, ApprovalsAgree

\* ListAnnounceable: the list made for a client may be announced.
LEMMA ListAnnounceable ==
    ASSUME ExitInv, NEW clients, NEW x \in Slots
    PROVE  ListFor(clients, x) \in Announceable
<1> DEFINE u == {clients[y].node : y \in {z \in Peers(clients, x) : Usable(clients[z])}}
<1>1. \A n \in u : n \in Nodes /\ (rows[n] = "active" \/ n \in doubt)
  BY UsableApproved
<1>2. ListFor(clients, x) = [to |-> x, usable |-> u]
  BY DEF ListFor
<1> HIDE DEF u
<1> QED
  BY <1>1, <1>2 DEF Announceable, Lists

\* BuildForOK: lists are to be built for a set of clients.
LEMMA BuildForOK ==
    ASSUME ExitInv, NEW g \in Workers, NEW targets \in SUBSET Slots, BuildFor(g, targets)
    PROVE  WorkOK
<1> DEFINE w == [Idle EXCEPT !.op = "build", !.then = work[g].then, !.todo = targets]
<1>1. work[g].then \in {"idle", "list", "peers"}
  BY DEF ExitInv, ExitTypeOK, Work
<1>2. w \in Work /\ w.lists = {} /\ w.op # "approve"
  BY <1>1, IdleWork, Zenon DEF Idle, Work
<1>3. GoesOn(g) \/ Becomes(g, w)
  BY DEF BuildFor
<1> HIDE DEF w
<1> QED
  BY <1>2, <1>3, BecomesOK, GoesOnOK

\* StepWork: the steps of a goroutine that is under way.
LEMMA StepWork ==
    ASSUME ExitInv, NEW g \in Workers, ExitStep(g)
    PROVE  WorkOK
<1>0. work[g] \in Work /\ work[g].lists \subseteq Lists
  BY DEF ExitInv, ExitTypeOK, Work
<1>1. CASE ApproveExitNode(g)
  <2> DEFINE n == work[g].node
             w == Acknowledged(n)
  <2>1. n \in Nodes
    BY <1>1 DEF ApproveExitNode, ExitInv, ApprovesNode
  <2>2. w \in Work /\ w.lists = {} /\ w.op # "approve"
    BY <2>1, IdleWork, Zenon DEF Acknowledged, Idle, Work
  <2>3. Idle.lists = {} /\ Idle.op # "approve"
    BY DEF Idle
  <2>4. Becomes(g, w) \/ Becomes(g, Idle)
    BY <1>1 DEF ApproveExitNode
  <2> HIDE DEF w
  <2> QED
    BY <2>2, <2>3, <2>4, BecomesOK, IdleWork
<1>2. CASE FindClient(g)
  <2>1. ASSUME NEW x \in Slots,
               Becomes(g, [work[g] EXCEPT !.op = "peers", !.ip = IpOf[x], !.nets = Nets])
        PROVE  WorkOK
    <3> DEFINE w == [work[g] EXCEPT !.op = "peers", !.ip = IpOf[x], !.nets = Nets]
    <3>1. IpOf[x] \in Nat
      BY ExitAssumption
    <3>2. w \in Work /\ w.lists = work[g].lists /\ w.op # "approve"
      BY <1>0, <3>1, Zenon DEF Work
    <3>3. Becomes(g, w)
      BY <2>1
    <3> HIDE DEF w
    <3> QED
      BY <3>2, <3>3, BecomesOK
  <2> QED
    BY <1>2, <2>1, GoesOnOK, Zenon DEF FindClient
<1>3. CASE BuildForPeers(g)
  <2>1. ASSUME NEW x \in Slots,
               BuildFor(g, {y \in Peers(entry, x) : entry[x].online /\ entry[y].online})
        PROVE  WorkOK
    <3>1. {y \in Peers(entry, x) : entry[x].online /\ entry[y].online} \in SUBSET Slots
      BY DEF Peers
    <3> QED
      BY <2>1, <3>1, BuildForOK
  <2> QED
    BY <1>3, <2>1, GoesOnOK, Zenon DEF BuildForPeers
<1>4. CASE BuildForAll(g)
  BY <1>4, BuildForOK DEF BuildForAll
<1>5. CASE BuildList(g)
  <2>1. PICK x \in work[g].todo :
          Becomes(g, [work[g] EXCEPT !.todo = @ \ {x}, !.lists = @ \cup {ListFor(entry, x)},
                                     !.op = IF work[g].todo = {x} THEN "write" ELSE "build"])
    BY <1>5, Zenon DEF BuildList
  <2> DEFINE w == [work[g] EXCEPT !.todo = @ \ {x}, !.lists = @ \cup {ListFor(entry, x)},
                                  !.op = IF work[g].todo = {x} THEN "write" ELSE "build"]
  <2>2. x \in Slots
    BY <1>0 DEF Work
  <2>3. ListFor(entry, x) \in Announceable /\ Announceable \subseteq Lists
    BY <2>2, ListAnnounceable DEF Announceable
  <2>4. /\ w \in Work /\ w.lists = work[g].lists \cup {ListFor(entry, x)}
        /\ w.op # "approve"
    BY <1>0, <2>3, Zenon DEF Work
  <2>5. Becomes(g, w)
    BY <2>1
  <2> HIDE DEF w
  <2> QED
    BY <2>3, <2>4, <2>5, BecomesOK
<1>6. CASE WriteList(g)
  <2>1. PICK l \in work[g].lists :
          \/ Becomes(g, [work[g] EXCEPT !.lists = @ \ {l}])
          \/ Becomes(g, [work[g] EXCEPT !.lists = {}, !.op = "peers", !.then = "idle"])
          \/ GoesOn(g)
    BY <1>6 DEF WriteList
  <2>2. work[g].op = "write"
    BY <1>6 DEF WriteList
  <2> DEFINE v == [work[g] EXCEPT !.lists = @ \ {l}]
             w == [work[g] EXCEPT !.lists = {}, !.op = "peers", !.then = "idle"]
  <2>3. v \in Work /\ v.lists \subseteq work[g].lists /\ v.op # "approve"
    BY <1>0, <2>2 DEF Work
  <2>4. w \in Work /\ w.lists = {} /\ w.op # "approve"
    BY <1>0, Zenon DEF Work
  <2>5. Becomes(g, v) \/ Becomes(g, w) \/ GoesOn(g)
    BY <2>1
  <2> HIDE DEF v, w
  <2> QED
    BY <2>3, <2>4, <2>5, BecomesOK, GoesOnOK
<1>7. CASE EnrichList(g)
  <2> DEFINE now == {i \in work[g].items : entry[work[g].slot] # Absent /\ Usable(entry[i.at])}
             new == [to |-> work[g].slot, usable |-> {i.node : i \in now}]
             w == [Idle EXCEPT !.op = "write", !.lists = {new}]
  <2>1. new \in Lists
    BY <1>0 DEF Work, Lists
  <2>2. Becomes(g, w) /\ work[g].op = "enrich"
    BY <1>7 DEF EnrichList
  <2> HIDE DEF new
  <2>3. w \in Work /\ w.op # "approve"
    BY <2>1, IdleWork, Zenon DEF Idle, Work
  <2> HIDE DEF w
  <2> QED
    BY <2>2, <2>3, BecomesOK
<1>8. CASE ListExitNodes(g)
  <2> DEFINE found == {[at |-> NoSlot, node |-> n] : n \in approved}
             w == [Idle EXCEPT !.op = "merge", !.items = found]
  <2>1. found \in SUBSET [at : Slots \cup {NoSlot}, node : Nodes]
    BY DEF ExitInv, ExitTypeOK
  <2>2. Becomes(g, w)
    BY <1>8 DEF ListExitNodes
  <2> HIDE DEF found
  <2>3. w \in Work /\ w.lists = {} /\ w.op # "approve"
    BY <2>1, IdleWork, Zenon DEF Idle, Work
  <2> HIDE DEF w
  <2> QED
    BY <2>2, <2>3, BecomesOK
<1>9. CASE MergeRuntimeViews(g)
  <2> DEFINE running == {entry[x].node : x \in {y \in Slots : entry[y] # Absent}}
  <2>1. PICK shown \in [running -> Slots] :
          /\ \A n \in running : entry[shown[n]].node = n
          /\ Becomes(g, [Idle EXCEPT !.op = "write",
                !.lists = {[to |-> NoSlot, usable |-> {n \in running : Usable(entry[shown[n]])}]}])
    BY <1>9, Zenon DEF MergeRuntimeViews
  <2> DEFINE u == {n \in running : Usable(entry[shown[n]])}
             new == [to |-> NoSlot, usable |-> u]
             w == [Idle EXCEPT !.op = "write", !.lists = {new}]
  <2>2. \A n \in u : n \in Nodes /\ (rows[n] = "active" \/ n \in doubt)
    BY <2>1, UsableApproved
  <2>3. Becomes(g, w)
    BY <2>1
  <2> HIDE DEF u
  <2>4. new \in Announceable
    BY <2>2 DEF Announceable, Lists
  <2> HIDE DEF new
  <2>5. w \in Work /\ w.lists = {new} /\ w.op # "approve"
    BY <2>4, IdleWork, Zenon DEF Idle, Work, Announceable
  <2> HIDE DEF w
  <2> QED
    BY <2>3, <2>4, <2>5, BecomesOK
<1>10. CASE Unregister(g)
  <2> DEFINE w == [Idle EXCEPT !.op = "all"]
  <2>1. Becomes(g, w)
    BY <1>10 DEF Unregister
  <2>2. w \in Work /\ w.lists = {} /\ w.op # "approve"
    BY IdleWork DEF Idle, Work
  <2> HIDE DEF w
  <2> QED
    BY <2>1, <2>2, BecomesOK
<1> QED
  BY <1>1, <1>2, <1>3, <1>4, <1>5, <1>6, <1>7, <1>8, <1>9, <1>10 DEF ExitStep

\* StartWork: the steps that give a goroutine something to do.
LEMMA StartWork ==
    ASSUME ExitInv, NEW g \in Workers, NEW w \in Work, Starts(g, w),
           w.op = "approve" => w.node \in Nodes, w.lists \subseteq Announceable
    PROVE  WorkOK
BY BecomesOK DEF Starts

--------------------------------------------------------------------------------
(* Approvals *)

\* ApprovalStep: a statement and its reply keep the map and the rows together, but for
\* nodes in doubt.
LEMMA ApprovalStep ==
    ASSUME ExitInv, NEW n \in Nodes, NEW reply \in {"ok", "failed", "lost"},
           NEW st \in {"active", "revoked"},
           rows' = IF reply = "failed" THEN rows ELSE [rows EXCEPT ![n] = st],
           approved' = IF st = "active" THEN ApprovedAfter(n, reply) ELSE RevokedAfter(n, reply),
           doubt' = IF reply = "ok" THEN doubt \ {n} ELSE doubt \cup {n},
           authed' = authed
    PROVE  /\ ApprovalsAgree'
           /\ rows' \in [Nodes -> {"none", "active", "revoked"}]
           /\ authed' \subseteq Nodes /\ approved' \subseteq Nodes /\ doubt' \subseteq Nodes
<1>1. rows \in [Nodes -> {"none", "active", "revoked"}] /\ authed \subseteq Nodes
      /\ approved \subseteq Nodes /\ doubt \subseteq Nodes
  BY DEF ExitInv, ExitTypeOK
<1>2. \A m \in Nodes \ {n} : /\ rows'[m] = rows[m]
                             /\ m \in approved' <=> m \in approved
                             /\ m \in doubt' <=> m \in doubt
  BY <1>1 DEF ApprovedAfter, RevokedAfter
<1>3. n \notin doubt' => (n \in approved' <=> rows'[n] = "active")
  BY <1>1 DEF ApprovedAfter, RevokedAfter
<1>4. ApprovalsAgree'
  BY <1>2, <1>3 DEF ApprovalsAgree, ExitInv
<1> QED
  BY <1>1, <1>4 DEF ApprovedAfter, RevokedAfter

\* Records: everything but the goroutines after a step.
Records ==
    /\ authed' \subseteq Nodes /\ approved' \subseteq Nodes /\ doubt' \subseteq Nodes
    /\ rows' \in [Nodes -> {"none", "active", "revoked"}]
    /\ entry' \in [Slots -> Client \cup {Absent}]
    /\ ApprovalsAgree' /\ OfflineForgotten' /\ NotInheritedStep

\* RecordsUnchanged: approvals and clients stay as they are.
LEMMA RecordsUnchanged ==
    ASSUME ExitInv, authed' \subseteq Nodes, UNCHANGED <<rows, approved, doubt, entry>>
    PROVE  Records
BY DEF Records, ExitInv, ExitTypeOK, ApprovalsAgree, OfflineForgotten, NotInheritedStep

\* ApprovalRecords: a statement leaves the clients alone.
LEMMA ApprovalRecords ==
    ASSUME ExitInv, NEW n \in Nodes, NEW reply \in {"ok", "failed", "lost"},
           NEW st \in {"active", "revoked"},
           rows' = IF reply = "failed" THEN rows ELSE [rows EXCEPT ![n] = st],
           approved' = IF st = "active" THEN ApprovedAfter(n, reply) ELSE RevokedAfter(n, reply),
           doubt' = IF reply = "ok" THEN doubt \ {n} ELSE doubt \cup {n},
           UNCHANGED <<authed, entry>>
    PROVE  Records
<1>1. entry' \in [Slots -> Client \cup {Absent}] /\ OfflineForgotten' /\ NotInheritedStep
  BY DEF ExitInv, ExitTypeOK, OfflineForgotten, NotInheritedStep
<1> QED
  BY <1>1, ApprovalStep, Zenon DEF Records

\* EntryRecords: a step that changes clients only.
LEMMA EntryRecords ==
    ASSUME ExitInv, UNCHANGED <<authed, rows, approved, doubt>>,
           entry' \in [Slots -> Client \cup {Absent}],
           \A x \in Slots : /\ ~entry'[x].online => entry'[x].status = "none"
                            /\ entry'[x].node # entry[x].node => entry'[x].status = "none"
    PROVE  Records
BY DEF Records, ExitInv, ExitTypeOK, ApprovalsAgree, OfflineForgotten, NotInheritedStep

--------------------------------------------------------------------------------
(* Steps *)

StepOK == WorkOK /\ Records

\* StepSteps: the steps of a goroutine that is under way.
LEMMA StepSteps ==
    ASSUME ExitInv, NEW g \in Workers, ExitStep(g)
    PROVE  StepOK
<1>1. ASSUME ApproveExitNode(g) PROVE Records
  <2>1. work[g].node \in Nodes
    BY <1>1 DEF ApproveExitNode, ExitInv, ApprovesNode
  <2> QED
    BY <1>1, <2>1, ApprovalRecords, Zenon DEF ApproveExitNode
<1>2. ASSUME Unregister(g) PROVE Records
  <2>1. entry \in [Slots -> Client \cup {Absent}] /\ OfflineForgotten
    BY DEF ExitInv, ExitTypeOK
  <2>2. entry' = [x \in Slots |-> IF entry[x].node = work[g].node THEN Absent ELSE entry[x]]
    BY <1>2 DEF Unregister
  <2>3. entry' \in [Slots -> Client \cup {Absent}]
    BY <2>1, <2>2
  <2>4. Absent.status = "none"
    BY DEF Absent
  <2>5. \A x \in Slots : /\ ~entry'[x].online => entry'[x].status = "none"
                         /\ entry'[x].node # entry[x].node => entry'[x].status = "none"
    BY <2>1, <2>2, <2>4 DEF OfflineForgotten
  <2>6. UNCHANGED <<authed, rows, approved, doubt>>
    BY <1>2 DEF Unregister
  <2> QED
    BY <2>3, <2>5, <2>6, EntryRecords
<1>3. ASSUME UNCHANGED <<authed, rows, approved, doubt, entry>> PROVE Records
  BY <1>3, RecordsUnchanged DEF ExitInv, ExitTypeOK
<1>4. \/ ApproveExitNode(g) \/ Unregister(g)
      \/ UNCHANGED <<authed, rows, approved, doubt, entry>>
  BY Zenon DEF ExitStep, FindClient, BuildForPeers, BuildForAll, BuildList, WriteList, EnrichList,
         ListExitNodes, MergeRuntimeViews
<1> QED
  BY <1>1, <1>2, <1>3, <1>4, StepWork DEF StepOK

\* AdminSteps: commands that an admin gives.
LEMMA AdminSteps ==
    ASSUME ExitInv, NEW g \in Workers, NEW n \in Candidates,
           ApproveExitNodeTarget(g, n) \/ RevokeExitNode(g, n) \/ DeleteDevice(g, n)
    PROVE  StepOK
<1>0. n \in Nodes /\ authed \subseteq Nodes
  BY ExitAssumption DEF ExitInv, ExitTypeOK
<1>1. CASE ApproveExitNodeTarget(g, n)
  <2> DEFINE w == [Idle EXCEPT !.op = "approve", !.node = n]
  <2>1. w \in Work /\ w.node \in Nodes /\ w.lists = {}
    BY <1>0, IdleWork, Zenon DEF Idle, Work
  <2>2. Starts(g, w)
    BY <1>1 DEF ApproveExitNodeTarget
  <2> HIDE DEF w
  <2>3. WorkOK
    BY <2>1, <2>2, StartWork
  <2>4. Records
    BY <1>0, <1>1, RecordsUnchanged DEF ApproveExitNodeTarget
  <2> QED
    BY <2>3, <2>4 DEF StepOK
<1>2. CASE DeleteDevice(g, n)
  <2> DEFINE w == [Idle EXCEPT !.op = "unregister", !.node = n]
  <2>1. w \in Work /\ w.node \in Nodes /\ w.lists = {}
    BY <1>0, IdleWork, Zenon DEF Idle, Work
  <2>2. Starts(g, w)
    BY <1>2 DEF DeleteDevice
  <2> HIDE DEF w
  <2>3. WorkOK
    BY <2>1, <2>2, StartWork
  <2>4. Records
    BY <1>0, <1>2, RecordsUnchanged DEF DeleteDevice
  <2> QED
    BY <2>3, <2>4 DEF StepOK
<1>3. CASE RevokeExitNode(g, n)
  <2> DEFINE w == Acknowledged(n)
  <2>1. w \in Work /\ w.lists = {} /\ w.op # "approve"
    BY <1>0, IdleWork, Zenon DEF Acknowledged, Idle, Work
  <2>2. Idle.lists = {} /\ Idle.op # "approve"
    BY DEF Idle
  <2>3. Becomes(g, w) \/ Becomes(g, Idle)
    BY <1>3 DEF RevokeExitNode
  <2> HIDE DEF w
  <2>4. WorkOK
    BY <2>1, <2>2, <2>3, BecomesOK, IdleWork
  <2>5. PICK reply \in {"ok", "failed", "lost"} :
          /\ rows' = IF reply = "failed" THEN rows ELSE [rows EXCEPT ![n] = "revoked"]
          /\ approved' = RevokedAfter(n, reply)
          /\ doubt' = IF reply = "ok" THEN doubt \ {n} ELSE doubt \cup {n}
    BY <1>3 DEF RevokeExitNode
  <2>6. UNCHANGED <<authed, entry>>
    BY <1>3 DEF RevokeExitNode
  <2>7. Records
    BY <1>0, <2>5, <2>6, ApprovalRecords, Zenon
  <2> QED
    BY <2>4, <2>7 DEF StepOK
<1> QED
  BY <1>1, <1>2, <1>3

\* PullSteps: a client asks for its list.
LEMMA PullSteps ==
    ASSUME ExitInv, NEW g \in Workers, NEW x \in Slots, PullList(g, x)
    PROVE  StepOK
<1> DEFINE found == {[at |-> y, node |-> entry[y].node] : y \in Peers(entry, x)}
           w == [Idle EXCEPT !.op = "enrich", !.slot = x, !.items = found]
<1>1. entry \in [Slots -> Client \cup {Absent}]
  BY DEF ExitInv, ExitTypeOK
<1>2. \A y \in Peers(entry, x) : y \in Slots /\ entry[y].node \in Nodes
  BY <1>1 DEF Peers, Client
<1>3. found \in SUBSET [at : Slots \cup {NoSlot}, node : Nodes]
  BY <1>2
<1>4. Starts(g, w)
  BY DEF PullList
<1> HIDE DEF found
<1>5. w \in Work /\ w.lists = {} /\ w.op # "approve"
  BY <1>3, IdleWork, Zenon DEF Idle, Work
<1> HIDE DEF w
<1>6. WorkOK
  BY <1>4, <1>5, StartWork
<1>7. Records
  BY RecordsUnchanged DEF PullList, ExitInv, ExitTypeOK
<1> QED
  BY <1>6, <1>7 DEF StepOK

\* RegisterSteps: a client registers; what was reported in its slot was reported by
\* itself, or was forgotten when the last client went offline.
LEMMA RegisterSteps ==
    ASSUME ExitInv, NEW g \in Workers, NEW x \in Slots, NEW n \in Nodes, Register(g, x, n)
    PROVE  StepOK
<1> DEFINE mine == [node |-> n, online |-> TRUE, status |-> entry[x].status]
           clients == [y \in Slots |->
               IF y = x THEN mine
               ELSE IF NetOf[y] = NetOf[x] /\ entry[y].node = n THEN Absent ELSE entry[y]]
           w == [Idle EXCEPT !.op = "write", !.lists = {ListFor(clients, x)},
                             !.then = "peers", !.ip = IpOf[x], !.nets = {NetOf[x]}]
<1>1. entry \in [Slots -> Client \cup {Absent}] /\ OfflineForgotten
  BY DEF ExitInv, ExitTypeOK
<1>2. /\ entry' = clients /\ Starts(g, w)
      /\ ~entry[x].online \/ entry[x].node = n
      /\ UNCHANGED <<authed, rows, approved, doubt>>
  BY DEF Register
<1>3. entry[x].status \in {"none", "unready", "ready"}
  BY <1>1 DEF Client, Absent
<1>4. mine \in Client /\ mine.online /\ mine.node = n /\ mine.status = entry[x].status
  BY <1>3 DEF Client
<1>5. Absent.status = "none" /\ Absent.node = NoNode
  BY DEF Absent
<1>6. ListFor(clients, x) \in Announceable /\ Announceable \subseteq Lists
  BY ListAnnounceable DEF Announceable
<1>7. IpOf[x] \in Nat /\ NetOf[x] \in Nets
  BY ExitAssumption DEF Nets
<1> HIDE DEF mine
<1>8. entry' \in [Slots -> Client \cup {Absent}]
  BY <1>1, <1>2, <1>4
<1>9. \A y \in Slots : /\ ~entry'[y].online => entry'[y].status = "none"
                       /\ entry'[y].node # entry[y].node => entry'[y].status = "none"
  BY <1>1, <1>2, <1>4, <1>5 DEF OfflineForgotten
<1> HIDE DEF clients
<1>10. w \in Work /\ w.lists = {ListFor(clients, x)} /\ w.op # "approve"
  BY <1>6, <1>7, IdleWork, Zenon DEF Idle, Work
<1> HIDE DEF w
<1>11. WorkOK
  BY <1>2, <1>6, <1>10, StartWork
<1>12. Records
  BY <1>2, <1>8, <1>9, EntryRecords
<1> QED
  BY <1>11, <1>12 DEF StepOK

\* StatusSteps: a client reports its status.
LEMMA StatusSteps ==
    ASSUME ExitInv, NEW g \in Workers, NEW x \in Slots, NEW st \in {"unready", "ready"},
           StatusReport(g, x, st)
    PROVE  StepOK
<1> DEFINE w == [Idle EXCEPT !.op = "peers", !.ip = IpOf[x], !.nets = {NetOf[x]}]
<1>1. entry \in [Slots -> Client \cup {Absent}] /\ OfflineForgotten
  BY DEF ExitInv, ExitTypeOK
<1>2. entry[x] \in Client
  BY <1>1, ExitAssumption DEF StatusReport, Absent
<1>3. entry' = [entry EXCEPT ![x].online = TRUE, ![x].status = st]
  BY DEF StatusReport
<1>4. /\ entry'[x] \in Client /\ entry'[x].online /\ entry'[x].node = entry[x].node
      /\ \A y \in Slots \ {x} : entry'[y] = entry[y]
  BY <1>1, <1>2, <1>3, Zenon DEF Client
<1>5. entry' \in [Slots -> Client \cup {Absent}]
  BY <1>1, <1>3, <1>4
<1>6. \A y \in Slots : /\ ~entry'[y].online => entry'[y].status = "none"
                       /\ entry'[y].node # entry[y].node => entry'[y].status = "none"
  BY <1>1, <1>4 DEF OfflineForgotten
<1>7. Records
  BY <1>5, <1>6, EntryRecords, Zenon DEF StatusReport
<1>8. IpOf[x] \in Nat /\ NetOf[x] \in Nets
  BY ExitAssumption DEF Nets
<1>9. w \in Work /\ w.lists = {} /\ w.op # "approve"
  BY <1>8, IdleWork, Zenon DEF Idle, Work
<1>10. Starts(g, w) \/ work' = work
  BY DEF StatusReport
<1> HIDE DEF w
<1>11. WorkOK
  BY <1>9, <1>10, StartWork, WorkUnchanged
<1> QED
  BY <1>7, <1>11 DEF StepOK

\* LeaveSteps: a control stream ends and the client's status is forgotten.
LEMMA LeaveSteps ==
    ASSUME ExitInv, NEW x \in Slots, LeaveControl(x)
    PROVE  StepOK
<1>1. entry \in [Slots -> Client \cup {Absent}] /\ OfflineForgotten
  BY DEF ExitInv, ExitTypeOK
<1>2. entry[x] \in Client
  BY <1>1 DEF LeaveControl, Absent
<1>3. entry' = [entry EXCEPT ![x].online = FALSE, ![x].status = "none"]
  BY DEF LeaveControl
<1>4. /\ entry'[x] \in Client /\ entry'[x].status = "none"
      /\ \A y \in Slots \ {x} : entry'[y] = entry[y]
  BY <1>1, <1>2, <1>3, Zenon DEF Client
<1>5. entry' \in [Slots -> Client \cup {Absent}]
  BY <1>1, <1>3, <1>4
<1>6. \A y \in Slots : /\ ~entry'[y].online => entry'[y].status = "none"
                       /\ entry'[y].node # entry[y].node => entry'[y].status = "none"
  BY <1>1, <1>4 DEF OfflineForgotten
<1>7. Records
  BY <1>5, <1>6, EntryRecords, Zenon DEF LeaveControl
<1>8. WorkOK
  BY WorkUnchanged DEF LeaveControl
<1> QED
  BY <1>7, <1>8 DEF StepOK

\* RestartSteps: the map is read from the rows, so nothing is in doubt any more.
LEMMA RestartSteps ==
    ASSUME ExitInv, Restart
    PROVE  StepOK
<1>1. /\ work' = [g \in Workers |-> Idle] /\ entry' = [x \in Slots |-> Absent]
      /\ approved' = {n \in Nodes : rows[n] = "active"} /\ doubt' = {}
      /\ authed' = authed /\ rows' = rows
  BY DEF Restart, Loaded
<1>2. Idle.lists = {} /\ Idle.op # "approve" /\ Absent.status = "none"
  BY DEF Idle, Absent
<1>3. WorkOK
  BY <1>1, <1>2, IdleWork DEF WorkOK, ApprovesNode, AnnouncedStep
<1>4. Records
  BY <1>1, <1>2 DEF Records, ExitInv, ExitTypeOK, ApprovalsAgree, OfflineForgotten, NotInheritedStep
<1> QED
  BY <1>3, <1>4 DEF StepOK

--------------------------------------------------------------------------------
(* Theorems *)

\* ExitInitInv: the invariant holds initially.
LEMMA ExitInitInv == ExitInit => ExitInv
<1> SUFFICES ASSUME ExitInit PROVE ExitInv
  OBVIOUS
<1>1. Idle.op # "approve" /\ Absent.status = "none"
  BY DEF Idle, Absent
<1> QED
  BY <1>1, IdleWork DEF ExitInit, ExitInv, ExitTypeOK, ApprovalsAgree, OfflineForgotten, ApprovesNode

\* ExitNextOK: every step does to goroutines and records what is allowed.
LEMMA ExitNextOK ==
    ASSUME ExitInv, ExitNext
    PROVE  StepOK
<1>1. ASSUME NEW n \in Nodes, AuthDevice(n) PROVE StepOK
  <2>1. authed' \subseteq Nodes
    BY <1>1 DEF AuthDevice, ExitInv, ExitTypeOK
  <2> QED
    BY <1>1, <2>1, RecordsUnchanged, WorkUnchanged DEF AuthDevice, StepOK
<1> QED
  BY <1>1, StepSteps, AdminSteps, PullSteps, RegisterSteps, StatusSteps, LeaveSteps, RestartSteps
     DEF ExitNext

\* ExitNextInv: the invariant is inductive.
LEMMA ExitNextInv == ExitInv /\ [ExitNext]_exitVars => ExitInv'
<1>1. ASSUME ExitInv, ExitNext PROVE ExitInv'
  BY <1>1, ExitNextOK DEF StepOK, WorkOK, Records, ExitInv, ExitTypeOK
<1>2. ASSUME ExitInv, UNCHANGED exitVars PROVE ExitInv'
  BY <1>2 DEF exitVars, ExitInv, ExitTypeOK, ApprovalsAgree, OfflineForgotten, ApprovesNode
<1> QED
  BY <1>1, <1>2

\* ExitInvariant: the inductive invariant holds of every behaviour.
THEOREM ExitInvariant == ExitSpec => []ExitInv
BY ExitInitInv, ExitNextInv, PTL DEF ExitSpec

\* ExitTypeCorrect: the state always has its type.
THEOREM ExitTypeCorrect == ExitSpec => []ExitTypeOK
<1>1. ExitInv => ExitTypeOK
  BY DEF ExitInv
<1> QED
  BY <1>1, ExitInvariant, PTL

\* MapAgreesWithRows: the approvals in memory and in the database differ only on nodes
\* whose last statement returned an error (ApproveExitNode, RevokeExitNode and the load
\* at start).
THEOREM MapAgreesWithRows == ExitSpec => []ApprovalsAgree
<1>1. ExitInv => ApprovalsAgree
  BY DEF ExitInv
<1> QED
  BY <1>1, ExitInvariant, PTL

\* OnlyApprovedAnnounced: a list that is pushed, or returned with a registration or to
\* an admin, announces only approved nodes (buildDeviceInfoList, mergeExitNodeRuntimeViews).
THEOREM OnlyApprovedAnnounced == ExitSpec => AnnouncedApproved
<1>1. ASSUME ExitInv, [ExitNext]_exitVars
      PROVE  [\A g \in Workers : work[g].op # "enrich" =>
                \A l \in work'[g].lists \ work[g].lists :
                    \A n \in l.usable : rows[n] = "active" \/ n \in doubt]_exitVars
  BY <1>1, ExitNextOK DEF StepOK, WorkOK, AnnouncedStep
<1> QED
  BY <1>1, ExitInvariant, PTL DEF ExitSpec, AnnouncedApproved

\* ReadinessOwn: a device that takes over an address starts without a status
\* (HandleRegistrationPacket, LeaveByRemoteAddr).
THEOREM ReadinessOwn == ExitSpec => ReadinessNotInherited
<1>1. ASSUME ExitInv, [ExitNext]_exitVars
      PROVE  [\A x \in Slots : entry'[x].node # entry[x].node => entry'[x].status = "none"]_exitVars
  BY <1>1, ExitNextOK DEF StepOK, Records, NotInheritedStep
<1> QED
  BY <1>1, ExitInvariant, PTL DEF ExitSpec, ReadinessNotInherited

================================================================================
