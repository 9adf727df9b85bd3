------------------------------- MODULE ExpireMap -------------------------------
(***************************************************************************)
(* One key of the expiring map (control/expire_map.go) behind sessions,    *)
(* cooldowns, claims and challenges, with the steps of each operation that *)
(* other goroutines can come between: the clock is read before the lock is *)
(* taken, and Get releases the read lock before it removes an expired key. *)
(* Keys do not interact; the map has a default TTL.                        *)
(***************************************************************************)
EXTENDS Integers

CONSTANTS
    Callers,   \* goroutines that use the map
    Ops,       \* operations they call, a subset of {"set", "try", "get", "delete"}
    TTL,
    MaxTime,   \* bound on the clock
    None

ASSUME ExpireMapAssumption ==
    /\ Ops \subseteq {"set", "try", "get", "delete"}
    /\ TTL \in Nat \ {0} /\ MaxTime \in Nat
    /\ None \notin Nat

VARIABLES
    now,         \* the clock
    data,        \* the key has a value
    expiration,  \* deadline of the key, None without one
    call,        \* the operation a goroutine is in, and the time it holds
    janitor,     \* time at which the janitor's ticker fired, None between ticks
    lastClaim    \* history: time of the last TrySetIfAbsent that returned true, None
                 \* once the key was set or removed by another operation

mapVars == <<now, data, expiration, call, janitor, lastClaim>>

Returned == [op |-> "none", time |-> 0]

MapInit ==
    /\ now = 0 /\ data = FALSE /\ expiration = None
    /\ call = [c \in Callers |-> Returned] /\ janitor = None /\ lastClaim = None

Return(c) == call' = [call EXCEPT ![c] = Returned]

\* Set and TrySetIfAbsent read the clock.
ReadClock(c, op) ==
    /\ call[c] = Returned /\ op \in Ops \cap {"set", "try"}
    /\ call' = [call EXCEPT ![c] = [op |-> op, time |-> now]]
    /\ UNCHANGED <<now, data, expiration, janitor, lastClaim>>

\* Set, under the lock.
Set(c) ==
    /\ call[c].op = "set"
    /\ data' = TRUE /\ expiration' = call[c].time + TTL
    /\ lastClaim' = None
    /\ Return(c)
    /\ UNCHANGED <<now, janitor>>

\* Mutant: a key expires at its deadline.
ExpiredAtDeadline(t) == expiration # None /\ t >= expiration

Expired(t) == expiration # None /\ t > expiration

\* TrySetIfAbsent, under the lock, with the time read before.
TrySetIfAbsent(c) ==
    /\ call[c].op = "try"
    /\ IF data /\ ~Expired(call[c].time)
       THEN UNCHANGED <<data, expiration, lastClaim>>
       ELSE /\ data' = TRUE /\ expiration' = call[c].time + TTL
            /\ lastClaim' = call[c].time
    /\ Return(c)
    /\ UNCHANGED <<now, janitor>>

\* Get reads the key; it keeps the deadline of a key that is present.
GetReads(c) ==
    /\ call[c] = Returned /\ "get" \in Ops
    /\ data
    /\ call' = [call EXCEPT ![c] = [op |-> "get", time |-> expiration]]
    /\ UNCHANGED <<now, data, expiration, janitor, lastClaim>>

\* Get compares the deadline with the clock, after it released the read lock.
GetCompares(c) ==
    /\ call[c].op = "get"
    /\ call' = [call EXCEPT ![c] = IF now > @.time THEN [@ EXCEPT !.op = "remove"] ELSE Returned]
    /\ UNCHANGED <<now, data, expiration, janitor, lastClaim>>

\* Get removes what it found expired.
GetRemoves(c) ==
    /\ call[c].op = "remove"
    /\ data' = FALSE /\ expiration' = None
    /\ lastClaim' = None
    /\ Return(c)
    /\ UNCHANGED <<now, janitor>>

\* Mutant: the deadline stays.
DeleteData(c) ==
    /\ call[c] = Returned /\ "delete" \in Ops
    /\ data' = FALSE /\ lastClaim' = None
    /\ UNCHANGED <<now, expiration, call, janitor>>

Delete(c) ==
    /\ call[c] = Returned /\ "delete" \in Ops
    /\ data' = FALSE /\ expiration' = None /\ lastClaim' = None
    /\ UNCHANGED <<now, call, janitor>>

\* The janitor's ticker fires, and the janitor reads the clock.
JanitorTick ==
    /\ janitor = None
    /\ janitor' = now
    /\ UNCHANGED <<now, data, expiration, call, lastClaim>>

\* Mutant: only a key without a value is swept.
JanitorSweepsEmpty ==
    /\ janitor # None
    /\ expiration' = IF Expired(janitor) /\ ~data THEN None ELSE expiration
    /\ janitor' = None
    /\ UNCHANGED <<now, data, call, lastClaim>>

\* The janitor removes the key if it has expired.
JanitorSweeps ==
    /\ janitor # None
    /\ data' = (data /\ ~Expired(janitor))
    /\ expiration' = IF Expired(janitor) THEN None ELSE expiration
    /\ janitor' = None
    /\ UNCHANGED <<now, call, lastClaim>>

Tick ==
    /\ now < MaxTime
    /\ now' = now + 1
    /\ UNCHANGED <<data, expiration, call, janitor, lastClaim>>

MapNext ==
    \/ \E c \in Callers, op \in {"set", "try"} : ReadClock(c, op)
    \/ \E c \in Callers : Set(c)
    \/ \E c \in Callers : TrySetIfAbsent(c)
    \/ \E c \in Callers : GetReads(c)
    \/ \E c \in Callers : GetCompares(c)
    \/ \E c \in Callers : GetRemoves(c)
    \/ \E c \in Callers : Delete(c)
    \/ JanitorTick
    \/ JanitorSweeps
    \/ Tick

MapSpec == MapInit /\ [][MapNext]_mapVars

\* The janitor is a goroutine with a ticker of its own; it is not stopped.
MapFairSpec == MapSpec /\ WF_mapVars(JanitorTick) /\ WF_mapVars(JanitorSweeps)

--------------------------------------------------------------------------------
(* Properties *)

MapTypeOK ==
    /\ now \in 0..MaxTime /\ data \in BOOLEAN /\ expiration \in (0..MaxTime + TTL) \cup {None}
    /\ call \in [Callers -> [op : {"none", "set", "try", "get", "remove"},
                              time : 0..MaxTime + TTL]]
    /\ janitor \in (0..MaxTime) \cup {None} /\ lastClaim \in (0..MaxTime) \cup {None}

(* The two maps agree: a key has a deadline exactly when it has a value.  A   *)
(* value without a deadline would never expire; a deadline without a value    *)
(* would expire a value that is set later.                                    *)
MapsAgree == data <=> expiration # None

(* "TrySetIfAbsent atomically stores value when key is absent or expired": a  *)
(* caller gets the key only after the deadline of the one that got it before, *)
(* however long callers and the janitor sit on the time they read, unless Set,*)
(* Delete or Get took the key in between, which nobody calls for the claims   *)
(* of manual punches (ManualPunchPairDedup).                                  *)
ClaimsApart ==
    [][\A c \in Callers :
          LET won == call[c].op = "try" /\ call'[c] = Returned
                     /\ (~data \/ expiration' # expiration)
          IN  won /\ lastClaim # None => now > lastClaim + TTL]_mapVars

(* A key that has expired is removed or set again, with nobody asking for it. *)
ExpiredRemoved == Expired(now) ~> ~Expired(now)

================================================================================
