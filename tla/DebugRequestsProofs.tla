-------------------------- MODULE DebugRequestsProofs --------------------------
(***************************************************************************)
(* TLAPS proofs about DebugRequests, for any number of commands, devices   *)
(* and streams.  A waiter is in one place at a time: in the map, in the    *)
(* hands of one stream's goroutine, or answered.  Its number is new when   *)
(* it is made, so whatever carries that number comes from the device that  *)
(* the command asked.                                                      *)
(***************************************************************************)
EXTENDS DebugRequests, TLAPS

\* With the counters at q, a number has been given to a waiter of kind k.
Given(q, k, id) == id <= q[Counter(k)]

\* Nothing carries a number that has not been given.
Numbered ==
    /\ \A p \in pending : Given(seq, p[1], p[2])
    /\ \A m \in mail : Given(seq, m.to[1], m.to[2])
    /\ \A a \in Admins : Given(seq, admin[a].kind, admin[a].id)
    /\ \A c \in Clients : \A r \in asked[c] : Given(seq, r.kind, r.id)
    /\ \A s \in Streams : Given(seq, reader[s].kind, reader[s].id)

\* A waiter that was taken or answered is not in the map, and it is taken once.
Exclusive ==
    /\ \A m \in mail : m.to \notin pending
    /\ \A s \in Streams : reader[s].pc = "send" =>
          /\ Answered(s) \notin pending
          /\ \A m \in mail : m.to # Answered(s)
          /\ \A t \in Streams : reader[t].pc = "send" /\ Answered(t) = Answered(s) => t = s

\* Commands under way have different waiters.
Distinct ==
    \A a, b \in Admins :
        admin[a].pc # "idle" /\ admin[b].pc # "idle" /\ Waiter(a) = Waiter(b) => a = b

\* What carries the number of a command under way comes from the client it asked.
OwnRequests(q, w, c) == \A d \in Clients : \A r \in q[d] : <<r.kind, r.id>> = w => d = c
OwnPackets(rd, w, c) ==
    \A s \in Streams : rd[s].pc # "idle" /\ <<rd[s].kind, rd[s].id>> = w => ClientOf[s] = c
OwnMail(ml, w, c) == \A m \in ml : m.to = w => m.from = c
Own ==
    \A a \in Admins : admin[a].pc # "idle" =>
        /\ admin[a].target \in Clients
        /\ OwnRequests(asked, Waiter(a), admin[a].target)
        /\ OwnPackets(reader, Waiter(a), admin[a].target)
        /\ OwnMail(mail, Waiter(a), admin[a].target)

\* A snapshot that is to be stored has a collection time.
Stamped == \A s \in Streams : reader[s].pc = "save" => reader[s].stamp \in Stamps

WaiterInv == NoLeakedWaiter /\ Numbered /\ Exclusive /\ Distinct /\ Own
DebugInv == DebugTypeOK /\ Stamped /\ WaiterInv /\ ActiveIndexed

--------------------------------------------------------------------------------
(* Types *)

\* IdleTypes: the records of idle goroutines.
LEMMA IdleTypes == NoCommand \in Command /\ NoPacket \in Packet
BY DebugAssumption DEF NoCommand, NoPacket, Command, Packet, Kinds, Owners

\* StoredTypes: what a directory holds afterwards was there or has been added.
LEMMA StoredTypes ==
    ASSUME NEW S, NEW entries \in SUBSET S, NEW rank, NEW e \in S, NEW success,
           NEW left \in Stored(entries, rank, e, success)
    PROVE  left \subseteq S
BY Zenon DEF Stored, Pruned, Last

\* AttributedTypes: a packet is attributed to a device, or to none.
LEMMA AttributedTypes ==
    ASSUME NEW s \in Streams
    PROVE  Attributed(s) \subseteq Owners
BY DEF Attributed, Owners, Devices

TypesOK == DebugTypeOK' /\ Stamped'

\* CommandTypes: a command is made or goes on, and nothing else but the maps changes.
LEMMA CommandTypes ==
    ASSUME DebugInv, seq' \in [Counters -> Nat], pending' \subseteq Keys, mail' \subseteq mail,
           admin' \in [Admins -> Command], asked' \in [Clients -> SUBSET Request],
           UNCHANGED <<status, reader, answers, watchVars, storeVars>>
    PROVE  TypesOK
BY DEF TypesOK, DebugInv, DebugTypeOK, Stamped, watchVars, storeVars

\* NewRequestTypes: a new waiter and its command.
LEMMA NewRequestTypes ==
    ASSUME DebugInv, NEW a \in Admins, NEW k \in Kinds, NEW c \in Clients, NEW w \in WatchIds,
           NewRequest(a, k, c, w)
    PROVE  TypesOK
<1>1. seq \in [Counters -> Nat] /\ pending \subseteq Keys /\ admin \in [Admins -> Command]
      /\ asked \in [Clients -> SUBSET Request]
  BY DEF DebugInv, DebugTypeOK
<1>2. Counter(k) \in Counters
  BY DEF Counter, Counters
<1>3. NextRequestId(k) \in Nat
  BY <1>1, <1>2 DEF NextRequestId
<1>4. seq' \in [Counters -> Nat]
  BY <1>1, <1>2 DEF NewRequest
<1>5. pending' \subseteq Keys
  BY <1>1, <1>3 DEF NewRequest, Keys
<1>6. [pc |-> "write", kind |-> k, id |-> NextRequestId(k), target |-> c, watch |-> w] \in Command
  BY <1>3 DEF Command
<1>7. admin' \in [Admins -> Command]
  BY <1>1, <1>6 DEF NewRequest
<1> QED
  BY <1>1, <1>4, <1>5, <1>7, CommandTypes DEF NewRequest, streamVars

\* AdminTypes: the steps of a command.
LEMMA AdminTypes ==
    ASSUME DebugInv, NEW a \in Admins, AdminStep(a)
    PROVE  TypesOK
<1>1. /\ seq \in [Counters -> Nat] /\ pending \subseteq Keys /\ admin \in [Admins -> Command]
      /\ asked \in [Clients -> SUBSET Request]
  BY DEF DebugInv, DebugTypeOK
<1>2. seq' \in [Counters -> Nat] /\ pending' \subseteq Keys /\ mail' \subseteq mail
  BY <1>1 DEF AdminStep, WriteRequest, WriteFails, FindWaiter, ReceiveAnswer, Timeout, Cancel
<1>3. \A pc \in {"await", "wait", "cancel"} : Goto(a, pc) => admin' \in [Admins -> Command]
  BY <1>1 DEF Goto, Command
<1>4. Done(a) => admin' \in [Admins -> Command]
  BY <1>1, IdleTypes DEF Done
<1>5. admin' \in [Admins -> Command]
  BY <1>3, <1>4 DEF AdminStep, WriteRequest, WriteFails, FindWaiter, ReceiveAnswer, Timeout, Cancel
<1>6. [kind |-> admin[a].kind, id |-> admin[a].id, watch |-> admin[a].watch] \in Request
  BY <1>1 DEF Command, Request
<1>7. asked' \in [Clients -> SUBSET Request]
  BY <1>1, <1>6 DEF AdminStep, WriteRequest, WriteFails, FindWaiter, ReceiveAnswer, Timeout,
                    Cancel, streamVars
<1>8. UNCHANGED <<status, reader, answers, watchVars, storeVars>>
  BY DEF AdminStep, WriteRequest, WriteFails, FindWaiter, ReceiveAnswer, Timeout, Cancel, streamVars
<1> QED
  BY <1>2, <1>5, <1>7, <1>8, CommandTypes

\* ArrivesTypes: a packet arrives.
LEMMA ArrivesTypes ==
    ASSUME DebugInv, NEW s \in Streams, NEW r \in asked[ClientOf[s]],
           NEW pc \in {"save", "startwatch", "resolve", "deactivate"},
           NEW w \in WatchIds, NEW t \in Stamps \cup {0}, pc = "save" => t \in Stamps,
           Arrives(s, r, pc, w, t)
    PROVE  TypesOK
<1>1. /\ asked \in [Clients -> SUBSET Request] /\ reader \in [Streams -> Packet] /\ answers \in Nat
      /\ ClientOf[s] \in Clients
  BY DebugAssumption DEF DebugInv, DebugTypeOK
<1>2. r \in Request
  BY <1>1
<1>3. PICK d \in Owners :
        reader' = [reader EXCEPT ![s] = [pc |-> pc, kind |-> r.kind, id |-> r.id, watch |-> w,
                                         stamp |-> t, dev |-> d, filed |-> FALSE]]
  BY AttributedTypes, Zenon DEF Arrives
<1> DEFINE p == [pc |-> pc, kind |-> r.kind, id |-> r.id, watch |-> w, stamp |-> t, dev |-> d,
                 filed |-> FALSE]
<1>4. p \in Packet /\ p.pc = pc /\ p.stamp = t
  BY <1>2 DEF Packet, Request
<1>5. reader' = [reader EXCEPT ![s] = p]
  BY <1>3
<1> HIDE DEF p
<1>6. reader' \in [Streams -> Packet] /\ Stamped'
  BY <1>1, <1>4, <1>5 DEF DebugInv, Stamped
<1>7. asked' \in [Clients -> SUBSET Request] /\ answers' \in Nat
  BY <1>1 DEF Arrives
<1> QED
  BY <1>6, <1>7 DEF Arrives, TypesOK, DebugInv, DebugTypeOK, commandVars, watchVars, storeVars

\* ReaderTypes: the packet of a stream goes on, or is done with.
LEMMA ReaderTypes ==
    ASSUME DebugInv, NEW s \in Streams,
           \/ Finish(s)
           \/ \E pc \in {"resolve", "activate", "send"}, f \in BOOLEAN :
                 reader' = [reader EXCEPT ![s].pc = pc, ![s].filed = f]
           \/ Leave(s, "resolve") \/ Leave(s, "send")
    PROVE  /\ reader' \in [Streams -> Packet] /\ Stamped'
           /\ \A t \in Streams \ {s} : reader'[t] = reader[t]
<1>1. reader \in [Streams -> Packet] /\ Stamped
  BY DEF DebugInv, DebugTypeOK
<1>2. CASE Finish(s)
  <2>1. NoPacket.pc = "idle"
    BY DEF NoPacket
  <2> QED
    BY <1>1, <1>2, <2>1, IdleTypes DEF Finish, Stamped
<1>3. ASSUME NEW pc \in {"resolve", "activate", "send"}, NEW f \in BOOLEAN,
             reader' = [reader EXCEPT ![s].pc = pc, ![s].filed = f]
      PROVE  /\ reader' \in [Streams -> Packet] /\ Stamped'
             /\ \A t \in Streams \ {s} : reader'[t] = reader[t]
  <2>1. /\ [reader[s] EXCEPT !.pc = pc, !.filed = f] \in Packet
        /\ [reader[s] EXCEPT !.pc = pc, !.filed = f].pc = pc
    BY <1>1, Zenon DEF Packet
  <2>2. reader' = [reader EXCEPT ![s] = [reader[s] EXCEPT !.pc = pc, !.filed = f]]
    BY <1>1, <1>3, Zenon DEF Packet
  <2> QED
    BY <1>1, <2>1, <2>2, Zenon DEF Stamped
<1>4. ASSUME NEW pc \in {"resolve", "send"}, Leave(s, pc)
      PROVE  /\ reader' \in [Streams -> Packet] /\ Stamped'
             /\ \A t \in Streams \ {s} : reader'[t] = reader[t]
  <2>1. /\ [reader[s] EXCEPT !.pc = pc] \in Packet
        /\ [reader[s] EXCEPT !.pc = pc].pc = pc
    BY <1>1 DEF Packet
  <2>2. reader' = [reader EXCEPT ![s] = [reader[s] EXCEPT !.pc = pc]]
    BY <1>1, <1>4, Zenon DEF Packet, Leave
  <2> QED
    BY <1>1, <2>1, <2>2, Zenon DEF Stamped
<1> QED
  BY <1>2, <1>3, <1>4

\* WatchTypes: the maps of watches after a start and a stop.
LEMMA WatchTypes ==
    ASSUME DebugInv, NEW s \in Streams, Activate(s) \/ Deactivate(s)
    PROVE  /\ active' \in [WatchIds -> Watch \cup {NoWatch}]
           /\ byDevice' \in [Devices -> WatchIds \cup {NoWatch}]
<1>1. /\ active \in [WatchIds -> Watch \cup {NoWatch}]
      /\ byDevice \in [Devices -> WatchIds \cup {NoWatch}]
      /\ reader[s] \in Packet
  BY DEF DebugInv, DebugTypeOK
<1>2. reader[s].dev \in Devices \cup {NoDevice} /\ reader[s].watch \in WatchIds
  BY <1>1 DEF Packet, Owners
<1>3. CASE Activate(s)
  <2>1. [dev |-> reader[s].dev, filed |-> reader[s].filed] \in Watch
    BY <1>1 DEF Packet, Watch
  <2>2. Superseded(reader[s].dev) \in [WatchIds -> Watch \cup {NoWatch}]
    BY <1>1, <1>2 DEF Superseded
  <2> QED
    BY <1>1, <1>2, <1>3, <2>1, <2>2 DEF Activate
<1>4. CASE Deactivate(s)
  <2>1. active[reader[s].watch] # NoWatch => active[reader[s].watch].dev \in Devices \cup {NoDevice}
    BY <1>1, <1>2 DEF Watch, Owners
  <2> QED
    BY <1>1, <1>2, <1>4, <2>1 DEF Deactivate
<1> QED
  BY <1>3, <1>4

\* StreamTypes: the steps of a stream's goroutine.
LEMMA StreamTypes ==
    ASSUME DebugInv, NEW s \in Streams, ReaderStep(s)
    PROVE  TypesOK
<1>0. /\ status \in [Clients -> {"absent", "offline", "online"}] /\ seq \in [Counters -> Nat]
      /\ admin \in [Admins -> Command] /\ asked \in [Clients -> SUBSET Request] /\ answers \in Nat
      /\ pending \subseteq Keys /\ mail \subseteq [to : Keys, from : Clients]
      /\ files \in [Owners -> SUBSET Stamps] /\ dirs \in [Owners -> SUBSET WatchIds]
      /\ active \in [WatchIds -> Watch \cup {NoWatch}]
      /\ byDevice \in [Devices -> WatchIds \cup {NoWatch}]
      /\ reader \in [Streams -> Packet] /\ reader[s] \in Packet
  BY DEF DebugInv, DebugTypeOK
<1>1. UNCHANGED <<status, seq, admin, asked, answers>>
  BY DEF ReaderStep, Save, Resolve, StartWatch, Activate, Deactivate, Send, commandVars
<1>2. pending' \subseteq Keys
  BY <1>0 DEF ReaderStep, Save, Resolve, StartWatch, Activate, Deactivate, Send, TakeWaiter
<1>3. mail' \subseteq [to : Keys, from : Clients]
  <2>1. Answered(s) \in Keys /\ ClientOf[s] \in Clients
    BY <1>0, DebugAssumption DEF Answered, Keys, Packet
  <2> QED
    BY <1>0, <2>1 DEF ReaderStep, Save, Resolve, StartWatch, Activate, Deactivate, Send
<1>4. reader' \in [Streams -> Packet] /\ Stamped'
  <2>1. Successes \subseteq BOOLEAN
    BY DebugAssumption
  <2> QED
    BY <2>1, ReaderTypes, Zenon DEF ReaderStep, Save, Resolve, StartWatch, Activate, Deactivate, Send,
                             TakeWaiter
<1>5. /\ active' \in [WatchIds -> Watch \cup {NoWatch}]
      /\ byDevice' \in [Devices -> WatchIds \cup {NoWatch}]
  BY <1>0, WatchTypes DEF ReaderStep, Save, Resolve, StartWatch, Send, watchVars
<1>6. files' \in [Owners -> SUBSET Stamps]
  <2>1. ASSUME Save(s) PROVE files' \in [Owners -> SUBSET Stamps]
    <3>1. reader[s].dev \in Owners /\ reader[s].stamp \in Stamps
      BY <1>0, <2>1 DEF Packet, Save, DebugInv, Stamped
    <3>2. PICK success \in Successes :
            \E left \in Stored(files[reader[s].dev], StampRank, reader[s].stamp, success) :
                files' = [files EXCEPT ![reader[s].dev] = left]
      BY <2>1, Zenon DEF Save
    <3>3. PICK left \in Stored(files[reader[s].dev], StampRank, reader[s].stamp, success) :
            files' = [files EXCEPT ![reader[s].dev] = left]
      BY <3>2, Zenon
    <3>4. left \subseteq Stamps
      BY <1>0, <3>1, StoredTypes
    <3> QED
      BY <1>0, <3>3, <3>4, Zenon
  <2> QED
    BY <1>0, <2>1 DEF ReaderStep, Resolve, StartWatch, Activate, Deactivate, Send, storeVars
<1>7. dirs' \in [Owners -> SUBSET WatchIds]
  <2>1. ASSUME StartWatch(s) PROVE dirs' \in [Owners -> SUBSET WatchIds]
    <3>1. reader[s].dev \in Owners /\ reader[s].watch \in WatchIds
      BY <1>0 DEF Packet
    <3>2. PICK success \in Successes :
            \E left \in Stored(dirs[reader[s].dev], NameRank, reader[s].watch, success) :
                dirs' = [dirs EXCEPT ![reader[s].dev] = left]
      BY <2>1, Zenon DEF StartWatch
    <3>3. PICK left \in Stored(dirs[reader[s].dev], NameRank, reader[s].watch, success) :
            dirs' = [dirs EXCEPT ![reader[s].dev] = left]
      BY <3>2, Zenon
    <3>4. left \subseteq WatchIds
      BY <1>0, <3>1, StoredTypes
    <3> QED
      BY <1>0, <3>3, <3>4, Zenon
  <2> QED
    BY <1>0, <2>1, Zenon DEF ReaderStep, Save, Resolve, Activate, Deactivate, Send, storeVars
<1> QED
  BY <1>0, <1>1, <1>2, <1>3, <1>4, <1>5, <1>6, <1>7 DEF TypesOK, DebugTypeOK

--------------------------------------------------------------------------------
(* Watches *)

\* WatchesIndexed: starts and stops keep the two maps of watches together, also when
\* devices choose the same id, or a stop names the watch of another device.
LEMMA WatchesIndexed ==
    ASSUME DebugInv, NEW s \in Streams, Activate(s) \/ Deactivate(s)
    PROVE  ActiveIndexed'
<1>1. /\ active \in [WatchIds -> Watch \cup {NoWatch}]
      /\ byDevice \in [Devices -> WatchIds \cup {NoWatch}]
      /\ reader[s] \in Packet /\ ActiveIndexed /\ NoWatch \notin WatchIds
  BY DebugAssumption DEF DebugInv, DebugTypeOK
<1>2. reader[s].dev \in Devices \cup {NoDevice} /\ reader[s].watch \in WatchIds
  BY <1>1 DEF Packet, Owners
<1>3. \A w \in WatchIds : active[w] # NoWatch => active[w].dev \in Devices \cup {NoDevice}
  BY <1>1 DEF Watch, Owners
<1> DEFINE d == reader[s].dev
           w == reader[s].watch
<1>4. CASE Activate(s)
  <2> DEFINE v == [dev |-> d, filed |-> reader[s].filed]
  <2>1. active' = [Superseded(d) EXCEPT ![w] = v] /\ v.dev = d
        /\ byDevice' = IF d = NoDevice THEN byDevice ELSE [byDevice EXCEPT ![d] = w]
    BY <1>4 DEF Activate
  <2> HIDE DEF v
  <2>2. \A u \in WatchIds \ {w} :
          active'[u] = NoWatch \/ (active'[u] = active[u] /\ (d # NoDevice => byDevice[d] # u))
    BY <1>1, <1>2, <2>1 DEF Superseded
  <2>3. active'[w] = v
    BY <1>1, <1>2, <2>1 DEF Superseded
  <2>4. d # NoDevice => byDevice'[d] = w
    BY <1>1, <1>2, <2>1
  <2>5. ASSUME NEW u \in WatchIds \ {w}, active'[u] # NoWatch, active'[u].dev # NoDevice
        PROVE  byDevice'[active'[u].dev] = u
    <3>1. byDevice[active[u].dev] = u /\ active'[u] = active[u] /\ active[u].dev \in Devices
      BY <1>1, <1>3, <2>2, <2>5 DEF ActiveIndexed
    <3>2. active[u].dev # d
      BY <2>2, <2>5, <3>1
    <3> QED
      BY <1>1, <1>2, <2>1, <3>1, <3>2
  <2> QED
    BY <2>1, <2>3, <2>4, <2>5 DEF ActiveIndexed
<1>5. CASE Deactivate(s)
  <2>1. active' = [active EXCEPT ![w] = NoWatch]
        /\ byDevice' = IF active[w] # NoWatch /\ active[w].dev # NoDevice
                       THEN [byDevice EXCEPT ![active[w].dev] = NoWatch] ELSE byDevice
    BY <1>5 DEF Deactivate
  <2>2. ASSUME NEW u \in WatchIds, active'[u] # NoWatch, active'[u].dev # NoDevice
        PROVE  byDevice'[active'[u].dev] = u
    <3>1. u # w /\ active'[u] = active[u] /\ active[u].dev \in Devices /\ byDevice[active[u].dev] = u
      BY <1>1, <1>2, <1>3, <2>1, <2>2 DEF ActiveIndexed
    <3>2. active[w] # NoWatch /\ active[w].dev # NoDevice => byDevice[active[w].dev] = w
      BY <1>1, <1>2 DEF ActiveIndexed
    <3> QED
      BY <1>1, <1>2, <2>1, <3>1, <3>2
  <2> QED
    BY <2>2 DEF ActiveIndexed
<1> QED
  BY <1>4, <1>5

--------------------------------------------------------------------------------
(* Waiters *)

\* SameWaiters: commands that go on keep their waiters apart.
LEMMA SameWaiters ==
    ASSUME Distinct,
           \A a \in Admins : Waiter(a)' = Waiter(a) /\ (admin'[a].pc # "idle" => admin[a].pc # "idle")
    PROVE  Distinct'
BY DEF Distinct

\* StillAwaited: a waiter that stays in the map belongs to a command that goes on.
LEMMA StillAwaited ==
    ASSUME NoLeakedWaiter, pending' \subseteq pending,
           \A a \in Admins : Waiter(a)' = Waiter(a) /\ (admin[a].pc # "idle" => admin'[a].pc # "idle")
    PROVE  NoLeakedWaiter'
BY DEF NoLeakedWaiter

\* SamePlaces: waiters that are left alone stay where they are.
LEMMA SamePlaces ==
    ASSUME Exclusive, UNCHANGED <<pending, mail, reader>>
    PROVE  Exclusive'
<1>1. \A s \in Streams : Answered(s)' = Answered(s)
  BY DEF Answered
<1>2. \A m \in mail' : m.to \notin pending'
  BY DEF Exclusive
<1>3. ASSUME NEW s \in Streams, reader'[s].pc = "send"
      PROVE  /\ Answered(s)' \notin pending' /\ \A m \in mail' : m.to # Answered(s)'
             /\ \A t \in Streams : reader'[t].pc = "send" /\ Answered(t)' = Answered(s)' => t = s
  BY <1>1, <1>3 DEF Exclusive
<1> QED
  BY <1>2, <1>3 DEF Exclusive

\* NewWaiter: a new waiter has a number that nothing carries yet.
LEMMA NewWaiter ==
    ASSUME DebugInv, NEW a \in Admins, NEW k \in Kinds, NEW c \in Clients, NEW w \in WatchIds,
           NewRequest(a, k, c, w)
    PROVE  WaiterInv'
<1> DEFINE id == NextRequestId(k)
           new == [pc |-> "write", kind |-> k, id |-> id, target |-> c, watch |-> w]
<1>1. /\ seq \in [Counters -> Nat] /\ pending \subseteq Keys
      /\ mail \subseteq [to : Keys, from : Clients] /\ admin \in [Admins -> Command]
      /\ asked \in [Clients -> SUBSET Request] /\ reader \in [Streams -> Packet]
  BY DEF DebugInv, DebugTypeOK
<1>2. \A j \in Kinds : Counter(j) \in Counters
  BY DEF Counter, Counters
<1>3. /\ NoLeakedWaiter /\ Numbered /\ Exclusive /\ Distinct /\ Own
  BY DEF DebugInv, WaiterInv
<1>4. id \in Nat /\ id > seq[Counter(k)] /\ id = seq'[Counter(k)]
  BY <1>1, <1>2 DEF NewRequest, NextRequestId
<1>5. /\ pending' = pending \cup {<<k, id>>} /\ admin' = [admin EXCEPT ![a] = new]
      /\ admin[a].pc = "idle" /\ UNCHANGED <<mail, asked, reader>>
  BY DEF NewRequest, streamVars
<1>6. \A j \in Kinds : seq'[Counter(j)] \in Nat /\ seq[Counter(j)] \in Nat
                       /\ seq[Counter(j)] <= seq'[Counter(j)]
  BY <1>1, <1>2 DEF NewRequest
<1>7. new.pc = "write" /\ new.kind = k /\ new.id = id /\ new.target = c
  OBVIOUS
<1> HIDE DEF id, new
<1>8. admin'[a] = new /\ \A b \in Admins \ {a} : admin'[b] = admin[b]
  BY <1>1, <1>5
<1>9. \A b \in Admins \ {a} : Waiter(b)' = Waiter(b)
  BY <1>8 DEF Waiter
<1>10. Waiter(a)' = <<k, id>>
  BY <1>7, <1>8 DEF Waiter
<1>11. \A s \in Streams : Answered(s)' = Answered(s)
  BY <1>5 DEF Answered
<1>12. \A j \in Kinds, i \in Nat : Given(seq, j, i) => i # id \/ j # k
  BY <1>4, <1>6 DEF Given
<1>13. \A j \in Kinds, i \in Nat : Given(seq, j, i) => Given(seq', j, i)
  BY <1>6 DEF Given
<1>14. /\ \A p \in pending : p[1] \in Kinds /\ p[2] \in Nat
       /\ \A m \in mail : m.to[1] \in Kinds /\ m.to[2] \in Nat
       /\ \A b \in Admins : admin[b].kind \in Kinds /\ admin[b].id \in Nat
       /\ \A d \in Clients : \A r \in asked[d] : r.kind \in Kinds /\ r.id \in Nat
       /\ \A s \in Streams : reader[s].kind \in Kinds /\ reader[s].id \in Nat
  BY <1>1 DEF Keys, Command, Request, Packet
<1>15. <<k, id>> \notin pending /\ (\A m \in mail : m.to # <<k, id>>)
       /\ (\A b \in Admins : Waiter(b) # <<k, id>>)
       /\ (\A d \in Clients : \A r \in asked[d] : <<r.kind, r.id>> # <<k, id>>)
       /\ (\A s \in Streams : Answered(s) # <<k, id>>)
  BY <1>3, <1>12, <1>14 DEF Numbered, Waiter, Answered
<1>16. Given(seq', k, id)
  BY <1>4, <1>6 DEF Given
<1>17. Numbered'
  <2>1. \A p \in pending' : Given(seq', p[1], p[2])
    BY <1>3, <1>5, <1>13, <1>14, <1>16 DEF Numbered
  <2>2. \A m \in mail' : Given(seq', m.to[1], m.to[2])
    BY <1>3, <1>5, <1>13, <1>14 DEF Numbered
  <2>3. \A b \in Admins : Given(seq', admin'[b].kind, admin'[b].id)
    BY <1>3, <1>7, <1>8, <1>13, <1>14, <1>16 DEF Numbered
  <2>4. \A d \in Clients : \A r \in asked'[d] : Given(seq', r.kind, r.id)
    BY <1>3, <1>5, <1>13, <1>14 DEF Numbered
  <2>5. \A s \in Streams : Given(seq', reader'[s].kind, reader'[s].id)
    BY <1>3, <1>5, <1>13, <1>14 DEF Numbered
  <2> QED
    BY <2>1, <2>2, <2>3, <2>4, <2>5 DEF Numbered
<1>18. NoLeakedWaiter'
  BY <1>3, <1>5, <1>7, <1>8, <1>9, <1>10 DEF NoLeakedWaiter
<1>19. Exclusive'
  BY <1>3, <1>5, <1>11, <1>15 DEF Exclusive
<1>20. Distinct'
  BY <1>3, <1>8, <1>9, <1>10, <1>15 DEF Distinct
<1>21. ASSUME NEW b \in Admins, admin'[b].pc # "idle"
       PROVE  /\ admin'[b].target \in Clients
              /\ OwnRequests(asked, Waiter(b)', admin'[b].target)
              /\ OwnPackets(reader, Waiter(b)', admin'[b].target)
              /\ OwnMail(mail, Waiter(b)', admin'[b].target)
  <2>1. CASE b # a
    BY <1>3, <1>8, <1>9, <1>21, <2>1 DEF Own
  <2>2. CASE b = a
    <3>1. OwnRequests(asked, <<k, id>>, c)
      BY <1>15 DEF OwnRequests
    <3>2. OwnPackets(reader, <<k, id>>, c)
      BY <1>15 DEF OwnPackets, Answered
    <3>3. OwnMail(mail, <<k, id>>, c)
      BY <1>15 DEF OwnMail
    <3> QED
      BY <1>7, <1>8, <1>10, <2>2, <3>1, <3>2, <3>3
  <2> QED
    BY <2>1, <2>2
<1>22. Own'
  BY <1>5, <1>21 DEF Own
<1> QED
  BY <1>17, <1>18, <1>19, <1>20, <1>22 DEF WaiterInv

\* CommandGoes: a command that goes on keeps its waiter and its target.
LEMMA CommandGoes ==
    ASSUME DebugInv, NEW a \in Admins, NEW pc, Goto(a, pc)
    PROVE  /\ admin'[a].pc = pc
           /\ \A b \in Admins : /\ admin'[b].kind = admin[b].kind /\ admin'[b].id = admin[b].id
                                /\ admin'[b].target = admin[b].target /\ Waiter(b)' = Waiter(b)
                                /\ b # a => admin'[b].pc = admin[b].pc
BY DEF Goto, DebugInv, DebugTypeOK, Command, Waiter

\* CommandEnds: a command that is done has no waiter any more.
LEMMA CommandEnds ==
    ASSUME DebugInv, NEW a \in Admins, Done(a)
    PROVE  /\ admin'[a] = NoCommand
           /\ \A b \in Admins \ {a} : admin'[b] = admin[b] /\ Waiter(b)' = Waiter(b)
BY DEF Done, DebugInv, DebugTypeOK, Waiter

\* NoNumber: a goroutine that does nothing carries the number zero.
LEMMA NoNumber ==
    ASSUME DebugInv
    PROVE  Given(seq, NoCommand.kind, NoCommand.id) /\ Given(seq, NoPacket.kind, NoPacket.id)
<1>1. seq["collect"] \in Nat
  BY DEF DebugInv, DebugTypeOK, Counters
<1>2. NoCommand.kind = "collect" /\ NoCommand.id = 0 /\ NoPacket.kind = "collect" /\ NoPacket.id = 0
  BY DEF NoCommand, NoPacket
<1> QED
  BY <1>1, <1>2 DEF Given, Counter

\* GoingOn: a command goes on and does nothing to the maps.
LEMMA GoingOn ==
    ASSUME DebugInv, NEW a \in Admins, NEW pc, pc # "idle", admin[a].pc # "idle", Goto(a, pc),
           UNCHANGED <<seq, pending, mail, reader>>,
           \/ asked' = asked
           \/ \E w : asked' = [asked EXCEPT ![admin[a].target] = @ \cup
                          {[kind |-> admin[a].kind, id |-> admin[a].id, watch |-> w]}]
    PROVE  WaiterInv'
<1>1. NoLeakedWaiter /\ Numbered /\ Exclusive /\ Distinct /\ Own
  BY DEF DebugInv, WaiterInv
<1>2. \A s \in Streams : Answered(s)' = Answered(s)
  BY DEF Answered
<1>3. admin[a].target \in Clients /\ asked \in [Clients -> SUBSET Request]
  BY <1>1 DEF Own, DebugInv, DebugTypeOK
<1>4. \A c \in Clients : \A r \in asked'[c] :
        \/ r \in asked[c]
        \/ c = admin[a].target /\ r.kind = admin[a].kind /\ r.id = admin[a].id
  <2>1. CASE asked' = asked
    BY <2>1
  <2>2. ASSUME NEW w,
               asked' = [asked EXCEPT ![admin[a].target] = @ \cup
                           {[kind |-> admin[a].kind, id |-> admin[a].id, watch |-> w]}]
        PROVE  \A c \in Clients : \A r \in asked'[c] :
                 \/ r \in asked[c]
                 \/ c = admin[a].target /\ r.kind = admin[a].kind /\ r.id = admin[a].id
    <3> DEFINE new == [kind |-> admin[a].kind, id |-> admin[a].id, watch |-> w]
    <3>1. new.kind = admin[a].kind /\ new.id = admin[a].id
      OBVIOUS
    <3> HIDE DEF new
    <3>2. asked' = [asked EXCEPT ![admin[a].target] = @ \cup {new}]
      BY <2>2 DEF new
    <3> QED
      BY <1>3, <3>1, <3>2
  <2> QED
    BY <2>1, <2>2
<1>5. Numbered'
  <2>1. \A b \in Admins : Given(seq, admin'[b].kind, admin'[b].id)
    BY <1>1, CommandGoes, Zenon DEF Numbered
  <2>2. \A c \in Clients : \A r \in asked'[c] : Given(seq, r.kind, r.id)
    BY <1>1, <1>4, Zenon DEF Numbered
  <2> QED
    BY <1>1, <2>1, <2>2, Zenon DEF Numbered
<1>6. NoLeakedWaiter' /\ Distinct'
  <2>1. \A b \in Admins : Waiter(b)' = Waiter(b) /\ (admin'[b].pc # "idle" <=> admin[b].pc # "idle")
    BY CommandGoes
  <2> QED
    BY <1>1, <2>1, SameWaiters, StillAwaited, Zenon
<1>7. Exclusive'
  BY <1>1, SamePlaces
<1>8. ASSUME NEW b \in Admins, admin'[b].pc # "idle"
      PROVE  /\ admin'[b].target \in Clients
             /\ OwnRequests(asked', Waiter(b)', admin'[b].target)
             /\ OwnPackets(reader, Waiter(b)', admin'[b].target)
             /\ OwnMail(mail, Waiter(b)', admin'[b].target)
  <2>1. admin[b].pc # "idle" /\ Waiter(b)' = Waiter(b) /\ admin'[b].target = admin[b].target
    BY <1>8, CommandGoes
  <2>2. /\ admin[b].target \in Clients
        /\ OwnRequests(asked, Waiter(b), admin[b].target)
        /\ OwnPackets(reader, Waiter(b), admin[b].target)
        /\ OwnMail(mail, Waiter(b), admin[b].target)
    BY <1>1, <2>1 DEF Own
  <2>3. Waiter(b) = Waiter(a) => b = a
    BY <1>1, <2>1, Zenon DEF Distinct
  <2>4. ASSUME NEW c \in Clients, NEW r \in asked'[c], <<r.kind, r.id>> = Waiter(b)
        PROVE  c = admin[b].target
    <3>1. CASE r \in asked[c]
      BY <2>2, <2>4, <3>1, Zenon DEF OwnRequests
    <3>2. CASE c = admin[a].target /\ r.kind = admin[a].kind /\ r.id = admin[a].id
      <4>1. <<r.kind, r.id>> = Waiter(a)
        BY <3>2 DEF Waiter
      <4> QED
        BY <2>3, <2>4, <3>2, <4>1
    <3> QED
      BY <1>4, <3>1, <3>2
  <2>5. OwnRequests(asked', Waiter(b), admin[b].target)
    BY <2>4 DEF OwnRequests
  <2> QED
    BY <2>1, <2>2, <2>5, Zenon
<1>9. Own'
  BY <1>8 DEF Own
<1> QED
  BY <1>5, <1>6, <1>7, <1>9 DEF WaiterInv

\* Ending: a command ends, and its waiter is gone from the map.
LEMMA Ending ==
    ASSUME DebugInv, NEW a \in Admins, admin[a].pc # "idle", Done(a),
           pending' = pending \ {Waiter(a)}, mail' \subseteq mail, UNCHANGED <<seq, asked, reader>>
    PROVE  WaiterInv'
<1>1. NoLeakedWaiter /\ Numbered /\ Exclusive /\ Distinct /\ Own
  BY DEF DebugInv, WaiterInv
<1>2. \A s \in Streams : Answered(s)' = Answered(s)
  BY DEF Answered
<1>3. NoCommand.pc = "idle"
  BY DEF NoCommand
<1>4. Numbered'
  BY <1>1, CommandEnds, NoNumber DEF Numbered
<1>5. NoLeakedWaiter'
  <2> SUFFICES ASSUME NEW k \in pending'
               PROVE  \E b \in Admins : admin'[b].pc # "idle" /\ Waiter(b)' = k
    BY DEF NoLeakedWaiter
  <2>1. PICK b \in Admins : admin[b].pc # "idle" /\ Waiter(b) = k
    BY <1>1 DEF NoLeakedWaiter
  <2>2. b # a
    BY <2>1
  <2>3. admin'[b] = admin[b] /\ Waiter(b)' = Waiter(b)
    BY <2>2, CommandEnds
  <2> QED
    BY <2>1, <2>3
<1>6. Exclusive'
  BY <1>1, <1>2 DEF Exclusive
<1>7. Distinct'
  <2> SUFFICES ASSUME NEW b \in Admins, NEW c \in Admins, admin'[b].pc # "idle",
                      admin'[c].pc # "idle", Waiter(b)' = Waiter(c)'
               PROVE  b = c
    BY DEF Distinct
  <2>1. b # a /\ c # a
    BY <1>3, CommandEnds
  <2>2. /\ admin'[b] = admin[b] /\ Waiter(b)' = Waiter(b)
        /\ admin'[c] = admin[c] /\ Waiter(c)' = Waiter(c)
    BY <2>1, CommandEnds
  <2> QED
    BY <1>1, <2>2, Zenon DEF Distinct
<1>8. ASSUME NEW b \in Admins, admin'[b].pc # "idle"
      PROVE  /\ admin'[b].target \in Clients
             /\ OwnRequests(asked, Waiter(b)', admin'[b].target)
             /\ OwnPackets(reader, Waiter(b)', admin'[b].target)
             /\ OwnMail(mail', Waiter(b)', admin'[b].target)
  <2>1. b # a /\ admin'[b] = admin[b] /\ Waiter(b)' = Waiter(b)
    BY <1>3, <1>8, CommandEnds
  <2>2. /\ admin[b].target \in Clients
        /\ OwnRequests(asked, Waiter(b), admin[b].target)
        /\ OwnPackets(reader, Waiter(b), admin[b].target)
        /\ OwnMail(mail, Waiter(b), admin[b].target)
    BY <1>1, <1>8, <2>1 DEF Own
  <2>3. OwnMail(mail', Waiter(b), admin[b].target)
    BY <2>2 DEF OwnMail
  <2> QED
    BY <2>1, <2>2, <2>3
<1>9. Own'
  BY <1>8, Zenon DEF Own
<1> QED
  BY <1>4, <1>5, <1>6, <1>7, <1>9 DEF WaiterInv

\* CommandWaiters: the steps of a command.
LEMMA CommandWaiters ==
    ASSUME DebugInv, NEW a \in Admins, AdminStep(a)
    PROVE  WaiterInv'
<1>0. Exclusive
  BY DEF DebugInv, WaiterInv
<1>1. CASE WriteRequest(a)
  BY <1>1, GoingOn, Zenon DEF WriteRequest
<1>2. CASE WriteFails(a)
  BY <1>2, Ending DEF WriteFails, streamVars
<1>3. CASE FindWaiter(a)
  <2>1. CASE Waiter(a) \in pending
    BY <1>3, <2>1, GoingOn, Zenon DEF FindWaiter, streamVars
  <2>2. CASE Waiter(a) \notin pending
    BY <1>3, <2>2, Ending DEF FindWaiter, streamVars
  <2> QED
    BY <2>1, <2>2
<1>4. CASE ReceiveAnswer(a)
  <2>1. pending' = pending \ {Waiter(a)}
    BY <1>0, <1>4 DEF ReceiveAnswer, Exclusive
  <2> QED
    BY <1>4, <2>1, Ending DEF ReceiveAnswer, streamVars
<1>5. CASE Timeout(a)
  BY <1>5, GoingOn DEF Timeout, streamVars
<1>6. CASE Cancel(a)
  BY <1>6, Ending DEF Cancel, streamVars
<1> QED
  BY <1>1, <1>2, <1>3, <1>4, <1>5, <1>6 DEF AdminStep

\* Steady: with a reader that carries no new number and no waiter, and maps that only
\* lose entries for which nobody waits any more.
LEMMA Steady ==
    ASSUME DebugInv, NEW s \in Streams, UNCHANGED <<seq, admin, mail>>, pending' \subseteq pending,
           \A c \in Clients : asked'[c] \subseteq asked[c],
           \A t \in Streams \ {s} : reader'[t] = reader[t],
           reader'[s].pc = "send" => Answered(s)' \in pending /\ Answered(s)' \notin pending',
           Given(seq, reader'[s].kind, reader'[s].id),
           \A a \in Admins : admin[a].pc # "idle" /\ reader'[s].pc # "idle" /\ Answered(s)' = Waiter(a)
              => ClientOf[s] = admin[a].target
    PROVE  WaiterInv'
<1>1. NoLeakedWaiter /\ Numbered /\ Exclusive /\ Distinct /\ Own
  BY DEF DebugInv, WaiterInv
<1>2. \A a \in Admins : Waiter(a)' = Waiter(a)
  BY DEF Waiter
<1>3. \A t \in Streams \ {s} : Answered(t)' = Answered(t)
  BY DEF Answered
<1>4. NoLeakedWaiter' /\ Distinct'
  BY <1>1, <1>2, SameWaiters, StillAwaited
<1>5. Numbered'
  <2>1. \A p \in pending' : Given(seq, p[1], p[2])
    BY <1>1 DEF Numbered
  <2>2. \A c \in Clients : \A r \in asked'[c] : Given(seq, r.kind, r.id)
    BY <1>1 DEF Numbered
  <2>3. \A t \in Streams : Given(seq, reader'[t].kind, reader'[t].id)
    BY <1>1 DEF Numbered
  <2> QED
    BY <1>1, <2>1, <2>2, <2>3 DEF Numbered
<1>6. Exclusive'
  <2>1. \A m \in mail : m.to \notin pending'
    BY <1>1 DEF Exclusive
  <2>2. ASSUME NEW t \in Streams, reader'[t].pc = "send"
        PROVE  Answered(t)' \notin pending' /\ \A m \in mail : m.to # Answered(t)'
    BY <1>1, <1>3, <2>2 DEF Exclusive
  <2>3. ASSUME NEW t \in Streams, NEW u \in Streams, reader'[t].pc = "send",
               reader'[u].pc = "send", Answered(u)' = Answered(t)'
        PROVE  u = t
    <3>1. \A v \in Streams \ {s} : reader'[v].pc = "send" => Answered(v)' \notin pending
      BY <1>1, <1>3 DEF Exclusive
    <3>2. CASE t = s \/ u = s
      BY <2>3, <3>1, <3>2
    <3>3. CASE t # s /\ u # s
      <4>1. /\ reader[t].pc = "send" /\ reader[u].pc = "send"
            /\ Answered(u) = Answered(t)
        BY <1>3, <2>3, <3>3
      <4> QED
        BY <1>1, <4>1 DEF Exclusive
    <3> QED
      BY <3>2, <3>3
  <2> QED
    BY <2>1, <2>2, <2>3 DEF Exclusive
<1>7. ASSUME NEW a \in Admins, admin[a].pc # "idle"
      PROVE  /\ admin[a].target \in Clients
             /\ OwnRequests(asked', Waiter(a), admin[a].target)
             /\ OwnPackets(reader', Waiter(a), admin[a].target)
             /\ OwnMail(mail, Waiter(a), admin[a].target)
  <2>1. /\ admin[a].target \in Clients
        /\ OwnRequests(asked, Waiter(a), admin[a].target)
        /\ OwnPackets(reader, Waiter(a), admin[a].target)
        /\ OwnMail(mail, Waiter(a), admin[a].target)
    BY <1>1, <1>7, Zenon DEF Own
  <2>2. OwnRequests(asked', Waiter(a), admin[a].target)
    BY <2>1 DEF OwnRequests
  <2>3. reader'[s].pc # "idle" /\ <<reader'[s].kind, reader'[s].id>> = Waiter(a)
          => ClientOf[s] = admin[a].target
    BY <1>7 DEF Answered
  <2>4. OwnPackets(reader', Waiter(a), admin[a].target)
    BY <2>1, <2>3, Zenon DEF OwnPackets
  <2> QED
    BY <2>1, <2>2, <2>4, Zenon
<1>8. Own'
  BY <1>2, <1>7, Zenon DEF Own
<1> QED
  BY <1>4, <1>5, <1>6, <1>8 DEF WaiterInv

\* ArrivalWaiters: a packet that arrives carries the number of a request.
LEMMA ArrivalWaiters ==
    ASSUME DebugInv, NEW s \in Streams, NEW r \in asked[ClientOf[s]],
           NEW pc \in {"save", "startwatch", "resolve", "deactivate"}, NEW w, NEW t,
           Arrives(s, r, pc, w, t)
    PROVE  WaiterInv'
<1>1. /\ asked \in [Clients -> SUBSET Request] /\ reader \in [Streams -> Packet]
      /\ ClientOf[s] \in Clients /\ Numbered /\ Own
  BY DebugAssumption DEF DebugInv, DebugTypeOK, WaiterInv
<1>2. PICK d : reader' = [reader EXCEPT ![s] =
        [pc |-> pc, kind |-> r.kind, id |-> r.id, watch |-> w, stamp |-> t, dev |-> d, filed |-> FALSE]]
  BY Zenon DEF Arrives
<1>3. /\ \A u \in Streams \ {s} : reader'[u] = reader[u]
      /\ reader'[s].pc = pc /\ reader'[s].kind = r.kind /\ reader'[s].id = r.id
  BY <1>1, <1>2
<1>4. Answered(s)' = <<r.kind, r.id>>
  BY <1>3 DEF Answered
<1>5. \A c \in Clients : asked'[c] \subseteq asked[c]
  BY <1>1 DEF Arrives
<1>6. UNCHANGED <<seq, admin, mail, pending>>
  BY DEF Arrives, commandVars
<1>7. Given(seq, reader'[s].kind, reader'[s].id)
  BY <1>1, <1>3 DEF Numbered
<1>8. \A a \in Admins : admin[a].pc # "idle" /\ Answered(s)' = Waiter(a) =>
        ClientOf[s] = admin[a].target
  BY <1>1, <1>4, Zenon DEF Own, OwnRequests
<1> QED
  BY <1>3, <1>5, <1>6, <1>7, <1>8, Steady

\* PacketGoes: a packet that is handled further keeps its number.
LEMMA PacketGoes ==
    ASSUME DebugInv, NEW s \in Streams, NEW pc, NEW f,
           \/ Leave(s, pc)
           \/ reader' = [reader EXCEPT ![s].pc = pc, ![s].filed = f]
    PROVE  /\ reader'[s].pc = pc /\ reader'[s].kind = reader[s].kind /\ reader'[s].id = reader[s].id
           /\ Answered(s)' = Answered(s)
           /\ \A t \in Streams \ {s} : reader'[t] = reader[t]
BY DEF Leave, DebugInv, DebugTypeOK, Packet, Answered

\* PacketEnds: a packet that is done with leaves no number.
LEMMA PacketEnds ==
    ASSUME DebugInv, NEW s \in Streams, Finish(s)
    PROVE  /\ reader'[s] = NoPacket /\ NoPacket.pc = "idle"
           /\ \A t \in Streams \ {s} : reader'[t] = reader[t]
BY DEF Finish, DebugInv, DebugTypeOK, NoPacket

\* TakingWaiters: under debugMu the waiter is either gone or taken out of the map.
LEMMA TakingWaiters ==
    ASSUME DebugInv, NEW s \in Streams, reader[s].pc # "idle", TakeWaiter(s),
           UNCHANGED <<seq, admin, mail, asked>>
    PROVE  WaiterInv'
<1>1. Numbered /\ Own
  BY DEF DebugInv, WaiterInv
<1>2. CASE Answered(s) \in pending
  <2>1. /\ reader'[s].pc = "send" /\ reader'[s].kind = reader[s].kind /\ reader'[s].id = reader[s].id
        /\ Answered(s)' = Answered(s) /\ \A t \in Streams \ {s} : reader'[t] = reader[t]
    BY <1>2, PacketGoes, Zenon DEF TakeWaiter
  <2>2. Given(seq, reader'[s].kind, reader'[s].id)
    BY <1>1, <2>1, Zenon DEF Numbered
  <2>3. \A a \in Admins : admin[a].pc # "idle" /\ Answered(s)' = Waiter(a) =>
          ClientOf[s] = admin[a].target
    BY <1>1, <2>1, Zenon DEF Own, OwnPackets, Answered
  <2>4. pending' = pending \ {Answered(s)}
    BY Zenon DEF TakeWaiter
  <2> QED
    BY <1>2, <2>1, <2>2, <2>3, <2>4, Steady, Zenon
<1>3. CASE Answered(s) \notin pending
  <2>1. /\ reader'[s] = NoPacket /\ NoPacket.pc = "idle"
        /\ \A t \in Streams \ {s} : reader'[t] = reader[t]
    BY <1>3, PacketEnds DEF TakeWaiter
  <2>2. pending' \subseteq pending
    BY DEF TakeWaiter
  <2> QED
    BY <2>1, <2>2, NoNumber, Steady
<1> QED
  BY <1>2, <1>3

\* SendingWaiters: the channel of the waiter is filled.
LEMMA SendingWaiters ==
    ASSUME DebugInv, NEW s \in Streams, Send(s)
    PROVE  WaiterInv'
<1>1. NoLeakedWaiter /\ Numbered /\ Exclusive /\ Distinct /\ Own
  BY DEF DebugInv, WaiterInv
<1>2. /\ reader'[s] = NoPacket /\ NoPacket.pc = "idle"
      /\ \A t \in Streams \ {s} : reader'[t] = reader[t]
  BY PacketEnds DEF Send
<1> DEFINE new == [to |-> Answered(s), from |-> ClientOf[s]]
<1>3. /\ UNCHANGED <<seq, admin, pending, asked>> /\ mail' = mail \cup {new}
      /\ reader[s].pc = "send"
  BY DEF Send, commandVars
<1>4. new.to = Answered(s) /\ new.from = ClientOf[s]
  OBVIOUS
<1> HIDE DEF new
<1>5. \A a \in Admins : Waiter(a)' = Waiter(a)
  BY <1>3 DEF Waiter
<1>6. \A t \in Streams \ {s} : Answered(t)' = Answered(t)
  BY <1>2 DEF Answered
<1>7. NoLeakedWaiter' /\ Distinct'
  BY <1>1, <1>3, <1>5, SameWaiters, StillAwaited, Zenon
<1>8. Given(seq, new.to[1], new.to[2])
  <2>1. Given(seq, reader[s].kind, reader[s].id)
    BY <1>1 DEF Numbered
  <2>2. new.to[1] = reader[s].kind /\ new.to[2] = reader[s].id
    BY <1>4 DEF Answered
  <2> QED
    BY <2>1, <2>2
<1>9. Numbered'
  BY <1>1, <1>2, <1>3, <1>8, NoNumber, Zenon DEF Numbered
<1>10. Exclusive'
  <2>1. \A m \in mail' : m.to \notin pending'
    BY <1>1, <1>3, <1>4 DEF Exclusive
  <2>2. ASSUME NEW t \in Streams, reader'[t].pc = "send"
        PROVE  /\ Answered(t)' \notin pending'
               /\ \A m \in mail' : m.to # Answered(t)'
               /\ \A u \in Streams : reader'[u].pc = "send" /\ Answered(u)' = Answered(t)' => u = t
    <3>1. t # s /\ reader[t].pc = "send" /\ Answered(t)' = Answered(t)
      BY <1>2, <1>6, <2>2
    <3>2. Answered(t) # Answered(s)
      BY <1>1, <1>3, <3>1 DEF Exclusive
    <3>3. Answered(t)' \notin pending' /\ \A m \in mail' : m.to # Answered(t)'
      BY <1>1, <1>3, <1>4, <3>1, <3>2 DEF Exclusive
    <3>4. ASSUME NEW u \in Streams, reader'[u].pc = "send", Answered(u)' = Answered(t)'
          PROVE  u = t
      <4>1. u # s /\ reader[u].pc = "send" /\ Answered(u) = Answered(t)
        BY <1>2, <1>6, <3>1, <3>4
      <4> QED
        BY <1>1, <3>1, <4>1 DEF Exclusive
    <3> QED
      BY <3>3, <3>4
  <2> QED
    BY <2>1, <2>2 DEF Exclusive
<1>11. ASSUME NEW a \in Admins, admin[a].pc # "idle"
       PROVE  /\ admin[a].target \in Clients
              /\ OwnRequests(asked, Waiter(a), admin[a].target)
              /\ OwnPackets(reader', Waiter(a), admin[a].target)
              /\ OwnMail(mail', Waiter(a), admin[a].target)
  <2>1. /\ admin[a].target \in Clients
        /\ OwnRequests(asked, Waiter(a), admin[a].target)
        /\ OwnPackets(reader, Waiter(a), admin[a].target)
        /\ OwnMail(mail, Waiter(a), admin[a].target)
    BY <1>1, <1>11 DEF Own
  <2>2. OwnPackets(reader', Waiter(a), admin[a].target)
    BY <1>2, <2>1, Zenon DEF OwnPackets
  <2>3. new.to = Waiter(a) => new.from = admin[a].target
    BY <1>3, <1>4, <2>1, Zenon DEF OwnPackets, Answered
  <2>4. OwnMail(mail', Waiter(a), admin[a].target)
    BY <1>3, <2>1, <2>3 DEF OwnMail
  <2> QED
    BY <2>1, <2>2, <2>4
<1>12. Own'
  BY <1>3, <1>5, <1>11, Zenon DEF Own
<1> QED
  BY <1>7, <1>9, <1>10, <1>12 DEF WaiterInv

\* StreamWaiters: the steps of a stream's goroutine.
LEMMA StreamWaiters ==
    ASSUME DebugInv, NEW s \in Streams, ReaderStep(s)
    PROVE  WaiterInv'
<1>1. Numbered /\ Own
  BY DEF DebugInv, WaiterInv
<1>2. CASE Save(s) \/ StartWatch(s)
  <2>1. PICK pc \in {"resolve", "activate"}, f \in Successes :
          Leave(s, pc) \/ reader' = [reader EXCEPT ![s].pc = pc, ![s].filed = f]
    BY <1>2 DEF Save, StartWatch
  <2>2. /\ reader'[s].pc = pc /\ reader'[s].kind = reader[s].kind /\ reader'[s].id = reader[s].id
        /\ Answered(s)' = Answered(s)
        /\ \A t \in Streams \ {s} : reader'[t] = reader[t]
    BY <2>1, PacketGoes
  <2>3. UNCHANGED <<seq, admin, mail, pending, asked>> /\ reader[s].pc # "idle"
    BY <1>2 DEF Save, StartWatch, commandVars
  <2>4. Given(seq, reader'[s].kind, reader'[s].id)
    BY <1>1, <2>2, Zenon DEF Numbered
  <2>5. \A a \in Admins : admin[a].pc # "idle" /\ Answered(s)' = Waiter(a) =>
          ClientOf[s] = admin[a].target
    BY <1>1, <2>2, <2>3, Zenon DEF Own, OwnPackets, Answered
  <2> QED
    BY <2>2, <2>3, <2>4, <2>5, Steady, Zenon
<1>3. CASE Resolve(s) \/ Activate(s) \/ Deactivate(s)
  BY <1>3, TakingWaiters, Zenon DEF Resolve, Activate, Deactivate, commandVars
<1>4. CASE Send(s)
  BY <1>4, SendingWaiters
<1> QED
  BY <1>2, <1>3, <1>4 DEF ReaderStep

--------------------------------------------------------------------------------
(* Theorems *)

\* DebugInitInv: the invariant holds initially.
LEMMA DebugInitInv == DebugInit => DebugInv
<1> SUFFICES ASSUME DebugInit PROVE DebugInv
  OBVIOUS
<1>1. /\ NoCommand.pc = "idle" /\ NoCommand.kind = "collect" /\ NoCommand.id = 0
      /\ NoPacket.pc = "idle" /\ NoPacket.kind = "collect" /\ NoPacket.id = 0
  BY DEF NoCommand, NoPacket
<1>2. DebugTypeOK
  BY IdleTypes DEF DebugInit, DebugTypeOK
<1>3. seq["collect"] = 0
  BY DEF DebugInit, Counters
<1>4. Numbered
  <2>1. Given(seq, "collect", 0)
    BY <1>3 DEF Given, Counter
  <2>2. \A a \in Admins : admin[a].kind = "collect" /\ admin[a].id = 0
    BY <1>1 DEF DebugInit
  <2>3. \A s \in Streams : reader[s].kind = "collect" /\ reader[s].id = 0
    BY <1>1 DEF DebugInit
  <2> QED
    BY <2>1, <2>2, <2>3 DEF DebugInit, Numbered
<1>5. NoLeakedWaiter /\ Exclusive /\ Distinct /\ Own /\ Stamped /\ ActiveIndexed
  BY <1>1 DEF DebugInit, NoLeakedWaiter, Exclusive, Distinct, Own, Stamped, ActiveIndexed
<1> QED
  BY <1>2, <1>4, <1>5 DEF DebugInv, WaiterInv

\* DebugNextInv: the invariant is inductive.
LEMMA DebugNextInv == DebugInv /\ [DebugNext]_debugVars => DebugInv'
<1> SUFFICES ASSUME DebugInv, [DebugNext]_debugVars PROVE DebugInv'
  OBVIOUS
<1>1. ASSUME watchVars' = watchVars PROVE ActiveIndexed'
  BY <1>1 DEF DebugInv, ActiveIndexed, watchVars
<1>2. ASSUME NEW a \in Admins, NEW q \in Queries,
             \/ PrepareDebugCollectByName(a, q) \/ PrepareDebugWatchStartByName(a, q)
             \/ PrepareDebugWatchStopByName(a, q)
      PROVE  DebugInv'
  <2>1. OnlineMatch(q) \subseteq Clients
    BY DebugAssumption DEF OnlineMatch
  <2>2. \A c \in Clients : ActiveWatchId(DevOf[c]) \in WatchIds
    <3>1. \A c \in Clients : DevOf[c] \in Devices
      BY DebugAssumption DEF Devices
    <3>2. byDevice \in [Devices -> WatchIds \cup {NoWatch}] /\ 0 \in WatchIds
      BY DebugAssumption DEF DebugInv, DebugTypeOK
    <3> QED
      BY <3>1, <3>2 DEF ActiveWatchId
  <2>3. PICK k \in Kinds, c \in Clients, w \in WatchIds : NewRequest(a, k, c, w)
    BY <1>2, <2>1, <2>2, DebugAssumption, Zenon
       DEF PrepareDebugCollectByName, PrepareDebugWatchStartByName, PrepareDebugWatchStopByName, Kinds
  <2>4. ActiveIndexed'
    BY <1>1, <2>3 DEF NewRequest
  <2> QED
    BY <2>3, <2>4, NewRequestTypes, NewWaiter DEF DebugInv, TypesOK
<1>3. ASSUME NEW a \in Admins, AdminStep(a) PROVE DebugInv'
  <2>1. ActiveIndexed'
    BY <1>1, <1>3, Zenon DEF AdminStep, WriteRequest, WriteFails, FindWaiter, ReceiveAnswer, Timeout, Cancel
  <2> QED
    BY <1>3, <2>1, AdminTypes, CommandWaiters DEF DebugInv, TypesOK
<1>4. ASSUME NEW s \in Streams, CollectResponse(s) \/ StartResponse(s) \/ StopResponse(s)
      PROVE  DebugInv'
  <2>1. PICK r \in asked[ClientOf[s]], pc \in {"save", "startwatch", "resolve", "deactivate"},
             w \in WatchIds, t \in Stamps \cup {0} :
          (pc = "save" => t \in Stamps) /\ Arrives(s, r, pc, w, t)
    BY <1>4, DebugAssumption, Zenon DEF CollectResponse, StartResponse, StopResponse
  <2>2. ActiveIndexed'
    BY <1>1, <2>1 DEF Arrives
  <2> QED
    BY <2>1, <2>2, ArrivesTypes, ArrivalWaiters DEF DebugInv, TypesOK
<1>5. ASSUME NEW s \in Streams, ReaderStep(s) PROVE DebugInv'
  <2>1. ActiveIndexed'
    BY <1>1, <1>5, WatchesIndexed DEF ReaderStep, Save, Resolve, StartWatch, Send
  <2> QED
    BY <1>5, <2>1, StreamTypes, StreamWaiters DEF DebugInv, TypesOK
<1>6. ASSUME UNCHANGED <<seq, pending, mail, admin, asked, reader, answers, watchVars, storeVars>>,
             status' \in [Clients -> {"absent", "offline", "online"}]
      PROVE  DebugInv'
  <2>1. /\ \A a \in Admins : Waiter(a)' = Waiter(a)
        /\ \A s \in Streams : Answered(s)' = Answered(s)
    BY <1>6 DEF Waiter, Answered
  <2>2. DebugTypeOK' /\ Stamped'
    BY <1>6 DEF DebugInv, DebugTypeOK, Stamped, watchVars, storeVars
  <2>3. NoLeakedWaiter /\ Numbered /\ Exclusive /\ Distinct /\ Own
    BY DEF DebugInv, WaiterInv
  <2>5. NoLeakedWaiter' /\ Distinct'
    BY <1>6, <2>1, <2>3, SameWaiters, StillAwaited
  <2>8. Numbered'
    BY <1>6, <2>3 DEF Numbered
  <2>6. Exclusive'
    BY <1>6, <2>3, SamePlaces
  <2>7. Own'
    BY <1>6, <2>1, <2>3, Zenon DEF Own
  <2>4. ActiveIndexed'
    BY <1>1, <1>6
  <2> QED
    BY <2>2, <2>4, <2>5, <2>6, <2>7, <2>8 DEF DebugInv, WaiterInv
<1>7. ASSUME NEW c \in Movers, StatusChange(c) PROVE DebugInv'
  <2>1. status' \in [Clients -> {"absent", "offline", "online"}]
    BY <1>7, Zenon DEF StatusChange, DebugInv, DebugTypeOK
  <2> QED
    BY <1>6, <1>7, <2>1 DEF StatusChange, commandVars, streamVars
<1>8. ASSUME UNCHANGED debugVars PROVE DebugInv'
  <2>1. status' \in [Clients -> {"absent", "offline", "online"}]
    BY <1>8 DEF debugVars, DebugInv, DebugTypeOK
  <2> QED
    BY <1>6, <1>8, <2>1 DEF debugVars, watchVars, storeVars
<1> QED
  BY <1>2, <1>3, <1>4, <1>5, <1>7, <1>8 DEF DebugNext

\* DebugInvariant: the inductive invariant holds of every behaviour.
THEOREM DebugInvariant == DebugSpec => []DebugInv
BY DebugInitInv, DebugNextInv, PTL DEF DebugSpec

\* DebugTypeCorrect: the state always has its type.
THEOREM DebugTypeCorrect == DebugSpec => []DebugTypeOK
<1>1. DebugInv => DebugTypeOK
  BY DEF DebugInv
<1> QED
  BY <1>1, DebugInvariant, PTL

\* WaitersEndWithCommands: the maps of waiters hold nothing but the waiters of commands
\* under way (the ...ByName, Await... and Cancel... functions and the response handlers).
THEOREM WaitersEndWithCommands == DebugSpec => []NoLeakedWaiter
<1>1. DebugInv => NoLeakedWaiter
  BY DEF DebugInv, WaiterInv
<1> QED
  BY <1>1, DebugInvariant, PTL

\* AnswersAreOwn: a command is given an answer of the device it asked.
THEOREM AnswersAreOwn == DebugSpec => []OwnAnswer
<1>1. DebugInv => OwnAnswer
  BY DEF DebugInv, WaiterInv, Own, OwnMail, OwnAnswer
<1> QED
  BY <1>1, DebugInvariant, PTL

\* StreamsNotBlocked: a stream's goroutine that has taken a waiter finds room in its
\* channel, so `waiter <- result` does not block.
THEOREM StreamsNotBlocked == DebugSpec => []SendNeverBlocks
<1>1. DebugInv => SendNeverBlocks
  BY Zenon DEF DebugInv, WaiterInv, Exclusive, SendNeverBlocks
<1> QED
  BY <1>1, DebugInvariant, PTL

\* WatchMapsAgree: activeDebugWatches and activeDebugWatchByDevice agree.
THEOREM WatchMapsAgree == DebugSpec => []ActiveIndexed
<1>1. DebugInv => ActiveIndexed
  BY DEF DebugInv
<1> QED
  BY <1>1, DebugInvariant, PTL

================================================================================
