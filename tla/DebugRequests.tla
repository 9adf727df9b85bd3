----------------------------- MODULE DebugRequests -----------------------------
(***************************************************************************)
(* Debug collection and debug watches (control/debug_collect.go,           *)
(* debug_watch.go, debug_store.go; the debug commands of                   *)
(* handlers/admin_api.go).  An admin command registers a waiter, writes a  *)
(* request to the control stream of a device and waits for the answer,     *)
(* which the goroutine that reads the stream of that device delivers       *)
(* through a channel of capacity one.                                      *)
(*                                                                         *)
(* A step is what runs between two operations on a shared structure: the   *)
(* registry, the maps under debugMu, the directory under the store's lock, *)
(* the stream, the channel.  latestDebugCollect is left out: nothing reads *)
(* it.  A client is a (network, address) entry of the registry.            *)
(***************************************************************************)
EXTENDS Integers, FiniteSets

CONSTANTS
    Admins,      \* goroutines that serve admin requests
    Clients,
    IpOf,        \* the address of a client (two networks may use the same one)
    DevOf,       \* the device of a client
    NoClient, NoDevice,
    Queries,     \* what admins ask for: the clients that a name (and user, group) match
    Streams,     \* goroutines that read a control stream
    ClientOf,    \* the client at the other end of a stream
    WatchIds,    \* watch ids, 0 standing for none
    Chosen,      \* the ids that clients give to the watches they start
    NameRank,    \* place of the directory name of a watch in the order of sort.Strings
    NoWatch,
    Stamps,      \* collection times, which order the names of the snapshot files
    Keep,        \* DebugSnapshotStore.keepPerDevice
    Successes,   \* whether operations of the store succeed
    Repeats,     \* whether devices answer a request again
    Movers,      \* clients that come and go
    MaxRequests, \* bound on the commands that reach a device
    MaxAnswers   \* bound on the packets that devices send

Devices == {DevOf[c] : c \in Clients}
Kinds == {"collect", "start", "stop"}
Counters == {"collect", "watch"}

ASSUME DebugAssumption ==
    /\ IpOf \in [Clients -> Nat]
    /\ DOMAIN DevOf = Clients
    /\ NoClient \notin Clients /\ NoDevice \notin Devices
    /\ Queries \subseteq SUBSET Clients
    /\ ClientOf \in [Streams -> Clients]
    /\ WatchIds \subseteq Nat /\ 0 \in WatchIds /\ NoWatch \notin WatchIds
    /\ Chosen \subseteq WatchIds
    /\ NameRank \in [WatchIds -> Nat]
    /\ Stamps \subseteq Nat
    /\ Successes \subseteq BOOLEAN /\ Repeats \subseteq BOOLEAN /\ Movers \subseteq Clients
    /\ Keep \in Nat \ {0} /\ MaxRequests \in Nat /\ MaxAnswers \in Nat

VARIABLES
    status,    \* of a client in the registry
    seq,       \* debugCollectSeq, and debugWatchSeq for starts and stops
    pending,   \* the waiters registered: pendingDebugCollect, ...WatchStart, ...WatchStop
    mail,      \* what the channels of the waiters hold
    admin,     \* the command of an admin goroutine
    asked,     \* the requests written to the stream of a client
    reader,    \* the packet a stream's goroutine is handling
    answers,   \* number of packets sent by devices
    active,    \* activeDebugWatches
    byDevice,  \* activeDebugWatchByDevice
    files,     \* snapshot files in the directory of a device
    dirs       \* watch directories in the directory of a device

commandVars == <<seq, admin>>
streamVars == <<asked, reader, answers>>
watchVars == <<active, byDevice>>
storeVars == <<files, dirs>>
debugVars == <<status, seq, pending, mail, admin, asked, reader, answers,
               active, byDevice, files, dirs>>

Owners == Devices \cup {NoDevice}
Keys == Kinds \X Nat
NoPacket == [pc |-> "idle", kind |-> "collect", id |-> 0, watch |-> 0,
             stamp |-> 0, dev |-> NoDevice, filed |-> FALSE]
NoCommand == [pc |-> "idle", kind |-> "collect", id |-> 0, target |-> NoClient, watch |-> 0]

DebugInit ==
    /\ status = [c \in Clients |-> "online"]
    /\ seq = [n \in Counters |-> 0]
    /\ pending = {} /\ mail = {}
    /\ admin = [a \in Admins |-> NoCommand]
    /\ asked = [c \in Clients |-> {}]
    /\ reader = [s \in Streams |-> NoPacket]
    /\ answers = 0
    /\ active = [w \in WatchIds |-> NoWatch]
    /\ byDevice = [d \in Devices |-> NoWatch]
    /\ files = [d \in Owners |-> {}]
    /\ dirs = [d \in Owners |-> {}]

\* The waiter of a command, and the one that the packet of a stream answers.
Waiter(a) == <<admin[a].kind, admin[a].id>>
Answered(s) == <<reader[s].kind, reader[s].id>>

\* A client registers, goes offline, or is removed with its device.
StatusChange(c) ==
    /\ \E st \in {"absent", "offline", "online"} :
          /\ st # status[c] /\ (st = "offline" => status[c] = "online")
          /\ status' = [status EXCEPT ![c] = st]
    /\ UNCHANGED <<commandVars, pending, mail, streamVars, watchVars, storeVars>>

--------------------------------------------------------------------------------
(* The goroutine of an admin command *)

Counter(k) == IF k = "collect" THEN "collect" ELSE "watch"

\* Mutant: the waiters in the map number the next one.
NumberByPending(k) == Cardinality({p \in pending : Counter(p[1]) = Counter(k)}) + 1

\* newDebugCollectWaiter, newDebugWatchStartWaiter, newDebugWatchStopWaiter.
NextRequestId(k) == seq[Counter(k)] + 1

\* activeDebugWatchIDForDevice: 0 when there is none.
ActiveWatchId(d) == IF byDevice[d] = NoWatch THEN 0 ELSE byDevice[d]

\* findOnlineDeviceByName: a query must match exactly one online client.
OnlineMatch(q) == {c \in q : {m \in q : status[m] = "online"} = {c}}

\* A waiter for a request of kind k to client c, and the packet that asks for it.
NewRequest(a, k, c, w) ==
    /\ admin[a].pc = "idle"
    /\ seq["collect"] + seq["watch"] < MaxRequests
    /\ seq' = [seq EXCEPT ![Counter(k)] = @ + 1]
    /\ pending' = pending \cup {<<k, NextRequestId(k)>>}
    /\ admin' = [admin EXCEPT ![a] =
          [pc |-> "write", kind |-> k, id |-> NextRequestId(k), target |-> c, watch |-> w]]
    /\ UNCHANGED <<status, mail, streamVars, watchVars, storeVars>>

\* Any other query is refused and changes nothing.  The lookup of the client, the new
\* waiter and the lookup of the watch to stop take separate locks; nobody knows the id
\* yet, so they are one step.
PrepareDebugCollectByName(a, q) ==
    \E c \in OnlineMatch(q) : NewRequest(a, "collect", c, 0)

PrepareDebugWatchStartByName(a, q) ==
    \E c \in OnlineMatch(q) : NewRequest(a, "start", c, 0)

PrepareDebugWatchStopByName(a, q) ==
    \E c \in OnlineMatch(q) : NewRequest(a, "stop", c, ActiveWatchId(DevOf[c]))

Goto(a, pc) == admin' = [admin EXCEPT ![a].pc = pc]
Done(a) == admin' = [admin EXCEPT ![a] = NoCommand]

\* writeToRoute succeeds.
WriteRequest(a) ==
    /\ admin[a].pc = "write" /\ Goto(a, "await")
    /\ asked' = [asked EXCEPT ![admin[a].target] = @ \cup
          {[kind |-> admin[a].kind, id |-> admin[a].id, watch |-> admin[a].watch]}]
    /\ UNCHANGED <<status, seq, pending, mail, reader, answers, watchVars, storeVars>>

\* writeToRoute fails (no route, or a broken stream): the waiter is cancelled.
WriteFails(a) ==
    /\ admin[a].pc = "write" /\ Done(a)
    /\ pending' = pending \ {Waiter(a)}
    /\ UNCHANGED <<status, seq, mail, streamVars, watchVars, storeVars>>

\* Await...: look the waiter up.  An answer handled before this step has removed
\* it: the command ends with "not found".
FindWaiter(a) ==
    /\ admin[a].pc = "await"
    /\ IF Waiter(a) \in pending THEN Goto(a, "wait") ELSE Done(a)
    /\ UNCHANGED <<status, seq, pending, mail, streamVars, watchVars, storeVars>>

\* Await...: the select, when the channel holds an answer.
ReceiveAnswer(a) ==
    /\ admin[a].pc = "wait"
    /\ \E m \in mail : m.to = Waiter(a) /\ mail' = mail \ {m}
    /\ Done(a)
    /\ UNCHANGED <<status, seq, pending, streamVars, watchVars, storeVars>>

\* Mutant: the wait has no time limit.
TimeoutNever(a) == FALSE /\ UNCHANGED debugVars

\* Await...: the select, when the timer has fired.
Timeout(a) ==
    /\ admin[a].pc = "wait" /\ Goto(a, "cancel")
    /\ UNCHANGED <<status, seq, pending, mail, streamVars, watchVars, storeVars>>

\* Mutant: a command that timed out leaves its waiter in the map.
CancelKeepsWaiter(a) ==
    /\ admin[a].pc = "cancel" /\ Done(a)
    /\ UNCHANGED <<status, seq, pending, mail, streamVars, watchVars, storeVars>>

\* CancelDebugCollect, cancelDebugWatchStart, cancelDebugWatchStop.
Cancel(a) ==
    /\ admin[a].pc = "cancel" /\ Done(a)
    /\ pending' = pending \ {Waiter(a)}
    /\ UNCHANGED <<status, seq, mail, streamVars, watchVars, storeVars>>

AdminStep(a) ==
    \/ WriteRequest(a) \/ WriteFails(a) \/ FindWaiter(a)
    \/ ReceiveAnswer(a) \/ Timeout(a) \/ Cancel(a)

--------------------------------------------------------------------------------
(* DebugSnapshotStore *)

\* The n entries that come last in the order of their names.
Last(entries, rank, n) ==
    {e \in entries : Cardinality({f \in entries : rank[f] > rank[e]}) < n}

\* pruneDeviceDir, pruneWatchDeviceDir.
Pruned(entries, rank) == Last(entries, rank, Keep)

\* What Save or StartWatch leaves in a directory when it adds e, with or without
\* success: an error comes before the entry is written, before entries are
\* removed, or on the removal of one of them.
Stored(entries, rank, e, success) ==
    LET all == entries \cup {e}
    IN  IF success THEN {Pruned(all, rank)}
        ELSE {entries, all} \cup {Last(all, rank, n) : n \in (Keep + 1)..Cardinality(all)}

StampRank == [t \in Stamps |-> t]

--------------------------------------------------------------------------------
(* The goroutine that reads a control stream *)

\* decorateDebugCollectResult, decorateDebugWatchIdentity: the client at the source
\* address in whichever network the registry's map yields first.
Attributed(s) ==
    LET here == {c \in Clients : status[c] # "absent" /\ IpOf[c] = IpOf[ClientOf[s]]}
    IN  IF here = {} THEN {NoDevice} ELSE {DevOf[c] : c \in here}

\* A packet that says it answers request r arrives.  A device may answer late, in
\* any order, and more than once.
Arrives(s, r, pc, w, t) ==
    /\ reader[s].pc = "idle" /\ answers < MaxAnswers
    /\ answers' = answers + 1
    /\ \E d \in Attributed(s) :
          reader' = [reader EXCEPT ![s] =
              [pc |-> pc, kind |-> r.kind, id |-> r.id, watch |-> w, stamp |-> t,
               dev |-> d, filed |-> FALSE]]
    /\ \E again \in Repeats :
          asked' = IF again THEN asked ELSE [asked EXCEPT ![ClientOf[s]] = @ \ {r}]
    /\ UNCHANGED <<status, commandVars, pending, mail, watchVars, storeVars>>

\* HandleDebugCollectResponse: an empty snapshot is not stored; a refusal is stored
\* as a snapshot that says so.
CollectResponse(s) ==
    \E r \in asked[ClientOf[s]], t \in Stamps, empty \in BOOLEAN :
        /\ r.kind = "collect"
        /\ Arrives(s, r, IF empty THEN "resolve" ELSE "save", 0, t)

\* HandleDebugWatchStartResponse: a refusal only resolves the waiter.
StartResponse(s) ==
    \E r \in asked[ClientOf[s]], w \in Chosen, ok \in BOOLEAN :
        /\ r.kind = "start"
        /\ Arrives(s, r, IF ok THEN "startwatch" ELSE "resolve", w, 0)

\* HandleDebugWatchStopResponse.
StopResponse(s) ==
    \E r \in asked[ClientOf[s]], w \in WatchIds :
        /\ r.kind = "stop"
        /\ Arrives(s, r, "deactivate", w, 0)

Leave(s, pc) == reader' = [reader EXCEPT ![s].pc = pc]
Finish(s) == reader' = [reader EXCEPT ![s] = NoPacket]

\* resolveDebugCollect: Save; the handler goes on after a failure.
Save(s) ==
    LET d == reader[s].dev
    IN  /\ reader[s].pc = "save" /\ Leave(s, "resolve")
        /\ \E success \in Successes :
             \E left \in Stored(files[d], StampRank, reader[s].stamp, success) :
                files' = [files EXCEPT ![d] = left]
        /\ UNCHANGED <<status, commandVars, pending, mail, asked, answers, watchVars, dirs>>

\* Mutant: the answer goes to any waiter of its kind.
TakeAnyWaiter(s) ==
    LET waiters == {w \in pending : w[1] = reader[s].kind}
    IN  \/ waiters = {} /\ pending' = pending /\ Finish(s)
        \/ \E w \in waiters :
              /\ pending' = pending \ {w}
              /\ reader' = [reader EXCEPT ![s].pc = "send", ![s].id = w[2]]

\* Under debugMu: the waiter, if it is still registered, is taken out of the map,
\* to be sent the result after the lock is released.
TakeWaiter(s) ==
    /\ pending' = pending \ {Answered(s)}
    /\ IF Answered(s) \in pending THEN Leave(s, "send") ELSE Finish(s)

\* resolveDebugCollect, resolveDebugWatchStartFailure.
Resolve(s) ==
    /\ reader[s].pc = "resolve" /\ TakeWaiter(s)
    /\ UNCHANGED <<status, commandVars, mail, asked, answers, watchVars, storeVars>>

\* HandleDebugWatchStartResponse: StartWatch; without success the session keeps no
\* directory.
StartWatch(s) ==
    LET d == reader[s].dev
    IN  /\ reader[s].pc = "startwatch"
        /\ \E success \in Successes :
             /\ reader' = [reader EXCEPT ![s].pc = "activate", ![s].filed = success]
             /\ \E left \in Stored(dirs[d], NameRank, reader[s].watch, success) :
                   dirs' = [dirs EXCEPT ![d] = left]
        /\ UNCHANGED <<status, commandVars, pending, mail, asked, answers, watchVars, files>>

\* Mutant: the device's previous watch stays active.
SupersededKept(d) == active

\* The watches that stay when a watch of device d starts.
Superseded(d) ==
    IF d # NoDevice /\ byDevice[d] # NoWatch
    THEN [active EXCEPT ![byDevice[d]] = NoWatch] ELSE active

\* HandleDebugWatchStartResponse, under debugMu.
Activate(s) ==
    LET d == reader[s].dev w == reader[s].watch
    IN  /\ reader[s].pc = "activate"
        /\ active' = [Superseded(d) EXCEPT ![w] = [dev |-> d, filed |-> reader[s].filed]]
        /\ byDevice' = IF d = NoDevice THEN byDevice ELSE [byDevice EXCEPT ![d] = w]
        /\ TakeWaiter(s)
        /\ UNCHANGED <<status, commandVars, mail, asked, answers, storeVars>>

\* HandleDebugWatchStopResponse, under debugMu.  FinishWatch then marks the
\* directory before the result is sent; a failure is only logged.
Deactivate(s) ==
    LET w == reader[s].watch
    IN  /\ reader[s].pc = "deactivate"
        /\ active' = [active EXCEPT ![w] = NoWatch]
        /\ byDevice' = IF active[w] # NoWatch /\ active[w].dev # NoDevice
                       THEN [byDevice EXCEPT ![active[w].dev] = NoWatch] ELSE byDevice
        /\ TakeWaiter(s)
        /\ UNCHANGED <<status, commandVars, mail, asked, answers, storeVars>>

\* waiter <- result: the channel has room for one.
Send(s) ==
    /\ reader[s].pc = "send" /\ Finish(s)
    /\ \A m \in mail : m.to # Answered(s)
    /\ mail' = mail \cup {[to |-> Answered(s), from |-> ClientOf[s]]}
    /\ UNCHANGED <<status, commandVars, pending, asked, answers, watchVars, storeVars>>

ReaderStep(s) ==
    Save(s) \/ Resolve(s) \/ StartWatch(s) \/ Activate(s) \/ Deactivate(s) \/ Send(s)

--------------------------------------------------------------------------------

DebugNext ==
    \/ \E c \in Movers : StatusChange(c)
    \/ \E a \in Admins, q \in Queries :
          \/ PrepareDebugCollectByName(a, q) \/ PrepareDebugWatchStartByName(a, q)
          \/ PrepareDebugWatchStopByName(a, q)
    \/ \E a \in Admins : AdminStep(a)
    \/ \E s \in Streams : CollectResponse(s) \/ StartResponse(s) \/ StopResponse(s)
    \/ \E s \in Streams : ReaderStep(s)

DebugSpec == DebugInit /\ [][DebugNext]_debugVars

\* The goroutine of a command that can go on does, and time.After fires.  Nothing is
\* asked of the devices or of the goroutines that read their streams.
DebugFairSpec == DebugSpec /\ \A a \in Admins : WF_debugVars(AdminStep(a))

--------------------------------------------------------------------------------
(* Properties *)

Command == [pc : {"idle", "write", "await", "wait", "cancel"}, kind : Kinds, id : Nat,
            target : Clients \cup {NoClient}, watch : WatchIds]
Request == [kind : Kinds, id : Nat, watch : WatchIds]
Packet == [pc : {"idle", "save", "startwatch", "resolve", "activate", "deactivate", "send"},
           kind : Kinds, id : Nat, watch : WatchIds, stamp : Stamps \cup {0},
           dev : Owners, filed : BOOLEAN]
Watch == [dev : Owners, filed : BOOLEAN]

\* The state has its type.
DebugTypeOK ==
    /\ status \in [Clients -> {"absent", "offline", "online"}]
    /\ seq \in [Counters -> Nat]
    /\ pending \subseteq Keys
    /\ mail \subseteq [to : Keys, from : Clients]
    /\ admin \in [Admins -> Command]
    /\ asked \in [Clients -> SUBSET Request]
    /\ reader \in [Streams -> Packet]
    /\ answers \in Nat
    /\ active \in [WatchIds -> Watch \cup {NoWatch}]
    /\ byDevice \in [Devices -> WatchIds \cup {NoWatch}]
    /\ files \in [Owners -> SUBSET Stamps]
    /\ dirs \in [Owners -> SUBSET WatchIds]

\* Every waiter in the maps belongs to a command under way: an error, a timeout or
\* an answer, however they race, takes it out, so the maps do not grow.
NoLeakedWaiter ==
    \A k \in pending : \E a \in Admins : admin[a].pc # "idle" /\ Waiter(a) = k

\* A command that waits is given an answer of the device it asked, never one that
\* was meant for another command: not even a late answer to a command that gave up.
OwnAnswer ==
    \A a \in Admins : \A m \in mail :
        admin[a].pc = "wait" /\ m.to = Waiter(a) => m.from = admin[a].target

\* A reader that has taken a waiter finds its channel empty: answers that come
\* twice, or after the timeout, never block the goroutine that serves a device.
SendNeverBlocks ==
    \A s \in Streams : reader[s].pc = "send" => \A m \in mail : m.to # Answered(s)

\* The two maps of watches agree: the watch under which events of a device are filed
\* is the one that a stop of the device would ask for, so it has at most one.
ActiveIndexed ==
    \A w \in WatchIds : active[w] # NoWatch /\ active[w].dev # NoDevice =>
        byDevice[active[w].dev] = w

\* README.md, "Debug Collection": startDebugWatch creates an event stream under the
\* watch directory.  So the directory of a watch that was filed with success is there
\* when the start is acknowledged.
StartedWatchFiled ==
    \A s \in Streams : reader[s].pc = "activate" /\ reader[s].filed =>
        reader[s].watch \in dirs[reader[s].dev]

\* Every admin command returns, answered or not.
CommandsEnd == \A a \in Admins : []<>(admin[a].pc = "idle")

================================================================================
