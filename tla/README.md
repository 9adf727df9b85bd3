# sdl-control in TLA+

`sdl-control` is the control plane of a virtual private network: clients keep a
control session to it, get a virtual address, learn their peers and the gateways
and exit nodes they may use, and are told when to punch a hole to a peer. This
directory models its state machines, checks them with TLC on small instances, and
proves their safety properties with TLAPS for every value of the constants.

`PROJECT.json` lists the components, the runs, the mutants, the source lines of
every definition, the findings, the hazards and the theorems.

## The system and its parts

| Part | State | Operations | Source |
| --- | --- | --- | --- |
| Registry | clients by network and address, index by device, reservations, epochs | register, touch, status, leave, clear, remove, rename, expiry | `control/network.go`, `ip.go`, `registration.go` |
| Sessions and hub | one goroutine per stream; routes by network and address; addresses by remote address | accept, registration (auth check, registry, hub, answer, pushes), ping, status, close, unregister | `handlers/quic.go` |
| User manager | users, tickets, enrollments, key bindings, authorised devices, display names | create, issue, enroll, bind, authorise, rename, extend, delete, save, load | `control/user.go` |
| Device authorisation | pending challenges | request, proof | `control/registration.go`, `controller.go` |
| User stores | the `um_` tables or the JSON file, its temporary file, the seed file | start, load, import, save, commit, rename, crash | `control/user_store*.go`, `controller.go` |
| Migrations | `schema_migrations` | deploy, migrate, the check at start | `control/store/migrations.go`, `main.go` |
| Gateways | approvals, nodes, last reports, grant cache, policy and its revision | report, enlist, delist, lease, grants at registration, pull, refresh and push, restart | `control/gateway.go`, `gateway_store.go` |
| Exit nodes | approvals in memory and in the database, readiness of clients | approve, revoke, delete, lists built, pushed and pulled, restart | `control/exit_node.go`, `store/postgres.go` |
| Debug requests | waiters, active watches, snapshot files and watch directories | collect, start, stop, answer, time out, prune | `control/debug_*.go`, `handlers/admin_api.go` |
| Hole punching | sessions; per pair: cooldown, retry state, claim | status, request, ack, result, sweep, expiry | `control/punch.go` |
| Expiring map | values and deadlines | set, try-set, get, delete, janitor | `control/expire_map.go` |

How they interact. A session's goroutine runs every handler. The registry, the
hub, the user manager, the gateways, the debug maps and each expiring map have a
lock of their own, so one packet is several critical sections, and the packets of
other sessions, admin commands, timers and, for what is persisted, restarts come
between them. That is where the hard behaviour is: something is checked under one
lock and used under another (authorisation and registration, a gateway's approval
and its registration, a ticket's validation and its use); a change is consumed by
whoever sees it first (pushes of a gateway change); a message of a replaced session
or the answer to a command that gave up arrives late; memory and store part ways
when a save fails or its reply is lost.

## Modules

| Module | Models | One action is |
| --- | --- | --- |
| `NetworkRegistry` | the registry | an operation under the lock of `VirtualNetwork` |
| `ControlSession` | sessions, hub, deletion of devices; extends `NetworkRegistry` | a step of a handler between two locks |
| `DeviceAuth` | user manager, challenge protocol, restarts; a store that holds whole snapshots | an operation under `UserManager.mu`, its save included; `AuthDevice` is two |
| `SnapshotStore` | what `UserManager` expects of its store (abstract) | a save that replaces the snapshot, or not |
| `UserStore` | both stores, the start of the service on them, `UserManager` as their caller; extends `SchemaMigrations` | one statement, one file operation |
| `SchemaMigrations` | `sdl-control migrate` and the check at start | one migration file, or the commit |
| `GatewayControl` | gateways, grants, revision, pushes, approval store, restarts | a section under `gatewayMu`, or the writing of an answer with its pushes |
| `ExitNodes` | approvals in map and database, device lists, readiness | a statement, a look at the registry or at the approvals, a write |
| `DebugRequests` | collection, watches, their files | what runs between two operations on a shared structure |
| `PunchCoordination` | punch sessions and what is kept for a pair | a step between the locks of the four maps, and between unprotected writes to a session |
| `ExpireMap` | one key of an expiring map | a section under its lock, a reading of the clock |
| `*Proofs` | theorems about the module they are named after | |
| `MC*` | instances: constants, symmetry, constraints | |

Two modules compose components. `ControlSession` joins sessions with the real
registry operations: its actions are conjunctions with those of `NetworkRegistry`,
and `SessionsImplementRegistry` proves that each of its steps is a step of
`RegistrySpec`, so every theorem about the registry holds of the composition.
`UserStore` runs the service, its stores and the migrations of other binaries
together, and implements `SnapshotStore` (`ImplementsStore`, proved as
`StoreIsSnapshotStore`): this is what entitles `DeviceAuth` to treat a save as one
step that succeeds, or fails with the old snapshot in place.

The others are closed by abstracting their neighbour: `PunchCoordination` keeps of
a client its last status; `GatewayControl` keeps of a client whether it is
connected and what it was last sent; `ExitNodes` keeps of the registry who is at an
address and what it last reported; the maps in `PunchCoordination` are sets from
which any element may expire.

Definitions carry the names of the functions they model. A definition whose
comment begins with "Mutant" is a version of the next one with a plausible bug;
it is used to show that a property can fail, and is not part of any
specification.

### What the data is reduced to

- An address is its offset in the network; 0 is "none", as in the code.
- A display name is a base and a suffix, as `uniqueDisplayNameLocked` makes them.
- A row of a table is one of a few values, and a round trip through the columns of
  PostgreSQL maps a row to what its columns can hold (`Column`).
- The endpoint of a gateway stands for everything its fingerprint contains. A
  report is one that `authenticateGatewayReport` accepted.
- A grant is its endpoint and number; its age is "more than 30 seconds left" or
  not, which is all the code asks.
- A debug snapshot is its collection time, a watch its id; `NameRank` is the place
  of the name of a watch directory in the order of `sort.Strings`.
- Times are events: a lease, a grant, a ticket, a reservation, a cooldown, a time
  limit or a deadline lapses at any moment its order with other events allows. Only
  `ExpireMap` has a clock.
- A status report keeps its trigger, its target, the peers it has a direct path
  to, whether it prefers the relay and whether it has endpoints.

## What the runs check

A run is named after its `.cfg`. Where the code lets something happen that one
would rather exclude, the model lets it happen too, and the text says so under
*Allowed by the code*: what a run shows next to it holds in spite of it.

### Registry

`MCRegistry` (two devices of a group, two networks with one free and one service
address each, next to the gateway) checks that the index by device is the inverse
of the client table (`IndexConsistent`), that a reservation has a client
(`ReservationHeld`), that an offline client has no data plane state
(`OfflineClean`), that an address changes hands only when its holder is offline
and its reservation has lapsed (`AddressProtected`), and that each change of the
roster advances the epoch clients poll (`EpochCoversRoster`).

*Allowed by the code*: a pong carries the epoch modulo 2^16, and 0 is taken for an
unknown client, so a ping at epoch 65536 is answered with a disconnect. A client
status is stored without reachability, against the comment on the field
(`control/ip.go:153`).

### Sessions

`MCControlSession` (two sessions from two remote addresses, one device, two
addresses to ask for) checks the hub: routes and the map by remote address agree
(`HubConsistent`), an ended session has no route left (`EndedUnrouted`), an open
session that registered is the one its route leads to, unless a newer one replaced
and closed it (`OpenSessionRouted`), and a closed session ends and leaves the hub
(`ClosedSessionEnds`), next to the deletion of the device. Fairness (`SessionSpec`):
a goroutine that can go on does (weak fairness of `Serve`), and one whose stream is
closed comes to the end of the packets it still has (strong fairness of `EndLoop`):
a closed stream delivers what it had buffered and no more. Clients, admins and
clocks are given no fairness.

*Allowed by the code*: a late ping of a replaced session puts its client online
after the last session of the device left (`control/network.go:173`). A failed
auth check clears the state of a device that was authorised and registered
meanwhile (`control/registration.go:77`). A registration under way brings a
deleted device back (`control/registration.go:129`). Pushes of two handlers to one
client may arrive in the other order.

### Users and devices

`MCDeviceAuth` (two users of one network, two devices, tickets and codes, the JSON
store) checks, through failing saves, stores that cannot be read and restarts: a
device is authorised only by a ticket issued to its user (`AuthorisedByTicket`); a
ticket whose use was acknowledged is spent (`AckedTicketSpent`); a code binds one
key (`EnrollmentSingleUse`), and a key is never bound to another user
(`KeyNeverRebound`); names are unique in the network (`DisplayNamesUnique`); a
process that could not read the JSON store leaves it alone (`UnreadStoreKept`). Its
constraint keeps three scenarios apart: enrollments without tickets, tickets with
failing saves and unnamed devices, and names with saves that succeed. Enrollments
and tickets meet only in the set of users, and what a failed save does to a name
is what it does to any other field of the maps; the theorems need no such
separation.

`MCTicketRace` is a disagreement: `AuthDevice` validates a ticket in one critical
section and marks it used in another, so two proofs at once spend one ticket
twice, where the second is meant to be told "ticket already used"
(`TicketSingleUse`).

*Allowed by the code*: a device that another user authorises carries its name into
a personal network where it may be taken (`control/user.go:498`). A change whose
save failed stays in force until a restart (`control/user.go:889`).

### User stores and migrations

`MCUserStore` (both stores, two keys per table, a seed with a user that has no
policy, three binaries) checks that an operation answered with success is on disk,
every row of every table (`SuccessIsDurable`), that the service serves no user
without a policy (`EveryUserHasPolicy`), that a new user never overwrites one
(`UsersKept`), that a running service has every control migration of its binary
(`ServedSchema`), and that both stores, statement by statement, implement
`SnapshotStore` (`ImplementsStore`): statements that fail, replies of a commit that
are lost, and crashes between any two of them leave the old snapshot or the new one.

*Allowed by the code*: `Load` is not a transaction; nothing writes while it runs, as
the service is the only writer and has not started. The temporary file is not
synced before it is renamed: a crash of the machine, as opposed to the process, is
outside the model. Migrations are numbered from 1 on; one added later with a lower
number than an applied one is not found missing by the check at start.

### Gateways

`MCGateway` checks that a client that was last sent the current revision has a
grant for every gateway of the policy (`RevisionComplete`) although pushes are
dropped, overwritten and late, that grants are cached for approved nodes only
(`GrantsApproved`), and that `NO_CHANGE` is said only to a client whose grants are
current (`NoChangeCurrent`). `RevisionComplete` is what makes the losses harmless
for a client that refreshes. Its constraint keeps two scenarios apart: two gateways
at one endpoint, with saves that succeed; and the default gateway, which moves
between two endpoints, with saves that fail and stores that cannot be read. Both
have one client: what it is sent depends on no other client. The theorems have no
such limits.

*Allowed by the code*: a report in flight approves a delisted gateway again
(`control/gateway.go:74`). A delisting can reach no client, when the change was
consumed by a packet whose pushes are dropped (`control/registration.go:590`).
Cached grants of a gateway without a lease are sent again
(`control/gateway.go:513`). Approvals that could not be read are overwritten by
the next one (`control/controller.go:292`). The revision starts again after a
restart, when no client is connected any more.

### Exit nodes

`MCExitNodes` (two devices, two networks with the same first address, two
goroutines) checks that map and rows differ only for a node whose last statement
was reported as failed (`ApprovalsAgree`), that a list that is pushed, returned
with a registration or returned to an admin names only approved nodes as usable
(`AnnouncedApproved`), and that a device that takes over an address does not
inherit its readiness (`ReadinessNotInherited`).

*Allowed by the code*: a list that a client pulls is completed by address, so it may
name the node that had the address before (`control/registration.go:457`); hence
`AnnouncedApproved` leaves it out. An approval outlives the deletion of its device
(`control/exit_node.go:31`). A revocation whose reply was lost is refused when it is
repeated, and stays in the map until a restart. An admin's push finds the sessions
by address, in every network that uses it.

### Debug requests

`MCDebug` (two admins, two devices, one of which comes and goes) checks that every
waiter belongs to a command under way (`NoLeakedWaiter`), that a command is given
an answer of the device it asked (`OwnAnswer`), that an answer that comes twice or
late does not block the goroutine that serves a device (`SendNeverBlocks`), that
the two maps of watches agree (`ActiveIndexed`), and that every command returns
(`CommandsEnd`). Fairness (`DebugFairSpec`): the goroutine of a command that can go
on does; the time limit is one of its steps. Devices have none: they may never
answer.

`MCWatchFiled` is a disagreement: `pruneWatchDeviceDir` sorts directory names as
strings, so `watch-10` comes before `watch-9`, and the directory of the watch just
started can be the one that is removed, where the documentation says that a start
creates the event stream (`StartedWatchFiled`).

*Allowed by the code*: an answer that comes before the admin's handler looks its
waiter up removes it, and the admin is told that the request was not found
(`control/debug_collect.go:60`). Request ids start at 1 again after a restart. A
packet is attributed to a device by the address it came from.

### Hole punching

`MCPunchReports` (status and recovery reports, two sessions at a time) checks that
no punch exceeds its budget although failures are counted between the check and
the start (`AttemptsWithinBudget`), that two simultaneous recovery reports start
one punch (`OneManualPunch`), and that a pair cools down only while one of its
punches runs (`CooldownWhileRunning`). `MCPunchEnds` adds requests and every kind
of answer, and checks that a session past its deadline ends unless its request is
sent again (`OverdueEnds`). Fairness (`PunchFairSpec`): weak fairness of the sweep
and of the next write of a handler that has begun. The sweep is run by every
session that receives a packet, and clients send pings all the time. Deadlines have
none.

*Allowed by the code*: state and relay fallback of a session are written without a
lock, so it can end with the state of one result and the fallback of another
(`control/punch.go:617`). Pairs are keyed without their network, so the punching
of one network holds back the same addresses of another (`control/punch.go:708`).

### Expiring map

`MCExpireMap` checks that values and deadlines have the same keys (`MapsAgree`),
that two successful claims of a key that nothing else touched in between are more
than the TTL apart (`ClaimsApart`), and that the janitor removes what nobody asks
for (`ExpiredRemoved`), under weak fairness of the janitor, a goroutine with a
ticker (`MapFairSpec`).

*Allowed by the code*: `Get` can delete a value that was set after it looked
(`control/expire_map.go:80`).

### Bounds

Each bound is a constant named in the module that uses it. Two devices, two users,
two sessions and two goroutines are what the races need: each involves two
handlers. `MaxEpoch` and `MaxRev` only cut behaviours off. A network sees three
changes of its roster: a client joins, moves or leaves, and is replaced. With two
gateways the policy changes three times, and a gateway appears, goes and comes
back; the one that moves changes it twice. `MaxRegs = 1` lets each of two sessions
register once, which is a replacement. `MaxRequests = 2` lets the commands of both
admins meet, and `MaxAnswers = 2` lets an answer be repeated. Two keys per table
are a row that stays and one that is written or deleted. `MaxAttempts` is 1 instead
of 3: the counter then reaches its limit sooner. `MaxSessions = 2` lets an old punch
of a pair overlap with a new one. `MaxTime` is three times the TTL of the map, so a
key is set, expires and is claimed again while a goroutine holds a time of the first
period. Deadlock is not checked where the bounds, or a server without clients, let
the system stop.

Symmetry is used for devices, users, tickets, codes, addresses and goroutines where
no constant tells them apart, and in no run that checks a liveness property.

## What is proved

Every theorem holds for all values of the constants that satisfy the named
assumption of its module (`RegistryAssumption`, `SessionAssumption`,
`AuthAssumption`, ...): these only say what kind of value a constant has, and that
"none" is not a value. Each component has one inductive invariant, lemmas
about the operators, and one lemma per action that carries the invariant over; the
action properties follow from the invariant in the state before the step.

- `NetworkRegistryProofs`, the registry. `IInv` is `TypeOK`, `IndexConsistent`,
  `ReservationHeld` and `OfflineClean`. None of the last three is inductive alone: every operation
  finds the client of a device through the index, so a wrong index would leave
  reservations and online flags behind. `AddressProtected` and
  `EpochCoversRoster` follow.
- `NetworkRegistryProofs`, the expiring map behind the reservations. `MapInv` adds to
  `MapsAgree` that no goroutine holds a time the clock has not reached. `ClaimInv` ties the deadline to the last claim: as long as
  the key is there its deadline is that claim's time plus the TTL, and when it is
  gone the clock has passed it. `ClaimsApart`.
- `ControlSessionProofs`. `SessionsImplementRegistry`: the composition
  implements `RegistrySpec`, so what is proved of the registry holds of it too
  (`SessionsProtectAddresses` and `SessionsCoverRoster` state the two action
  properties). `SessionInv` is `IInv` and the invariant of the hub, which adds to
  `HubConsistent` and `EndedUnrouted` that a session knows its network and address
  where it uses them (`Placed`) and that its route leads to it also while it is
  inside a handler that has not touched the route (`Routed`, of which
  `OpenSessionRouted` is a part). A session that ends finds its routes by remote
  address, so `EndedUnrouted` needs `HubConsistent`.
- `DeviceAuthProofs`. `AuthInv` says of the maps and of the stored snapshot alike
  that a device is authorised by an issued ticket, as a restart replaces one by the
  other; that acknowledged tickets and used codes are spent; and that key bindings
  are kept. `DisplayNamesUnique` is proved where all users share a network, by a
  counting argument: among more suffixes than devices one is free.
- `UserStoreProofs`. A `Load` has read the tables before its next query as they are,
  a `Save` has brought the tables before its next statement in line with the
  snapshot (`LoadedSoFar`, `SavedSoFar`, `TmpWritten`), so a commit, or a rename,
  replaces one whole snapshot by another: `StoreIsSnapshotStore`, the refinement.
  `SuccessIsDurable`, `EveryUserHasPolicy`, `UsersKept` and, because the applied
  migrations have no gap, `ServedSchema`.
- `GatewayControlProofs`. `GatewayInv` says of every packet that was sent or is held
  back that its revision is not ahead and that, if it is the current one, the packet
  has a grant for each gateway of the policy. It needs the grants in the cache to be
  for approved nodes. `RevisionComplete`, `GrantsApproved` and `NoChangeCurrent`.
- `ExitNodesProofs`. `ExitInv` adds to `ApprovalsAgree` that an offline client has no
  status (`OfflineForgotten`), which is why readiness is not inherited.
  `AnnouncedApproved` and `ReadinessNotInherited`.
- `DebugRequestsProofs`. `DebugInv`: a waiter is in the map, with one goroutine, or
  answered (`Exclusive`), numbers are given once (`Numbered`, `Distinct`), so what
  carries a number comes from the device that was asked (`Own`). `NoLeakedWaiter`,
  `OwnAnswer`, `SendNeverBlocks`, `ActiveIndexed`.
- `PunchCoordinationProofs`. `PunchInv` has a part for each of the invariants, none of
  which is inductive. The attempt of a punch is fixed when its target is tried, within
  the budget, and not read again (`BuildsKept`), hence `AttemptsWithinBudget`
  whatever results come before the session is filed. A manual session that counts
  has its pair claimed (`SessionsKept`), hence `OneManualPunch`. A pair that cools
  down has a session without a result, or with a handler that is still to delete the
  cooldown (`CooldownKept`): a handler past that write does not count, which
  `CooldownWhileRunning` leaves open and the induction needs. `PunchTypeOK`: the
  session of an unfinished handler is still there.

Only model-checked: the liveness properties `ClosedSessionEnds`, `OverdueEnds`,
`ExpiredRemoved` and `CommandsEnd`, as fairness and `ENABLED` are out of the prover's
reach. Every safety property of a passing run is a theorem
(`DisplayNamesUnique` with the hypothesis named above). The type invariants of
the proved modules are theorems; in runs only those of `DeviceAuth` and
`PunchCoordination` are repeated.

## Not modelled

- Handshake and capabilities: computed, and kept by remote address for the
  registration that follows; no state that a property is about depends on them.
- Device lists and DNS answers as such: views of the registry and of the
  configuration, and a proxy. The lists of exit nodes and the grants they carry are
  modelled.
- The nonce window and the signature of gateway reports, the contents of tickets
  and grants, the choice of endpoints and channels.
- Torn reads of a session's state string, and the runtime error of two concurrent
  writes to its maps, in the punch handlers.
- The events of a watch and the bytes of a snapshot: they are appended to files that
  only an operator reads.
- SQL itself: a statement succeeds, fails, or takes effect and loses its reply.
- Packet encoding, generated protobuf code, configuration, listeners, the transports
  that hand a byte stream to `serveControlSession`, the status pages, the listings
  for the admin and the command line client: they hold no state that another part
  depends on.
