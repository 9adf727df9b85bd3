--------------------------- MODULE PunchCoordination ---------------------------
(***************************************************************************)
(* Hole punching between the clients of a network (control/punch.go): the  *)
(* status reports and requests that start a punch session, the acks,       *)
(* results and deadlines that end it, and what is kept for a pair of       *)
(* addresses: the cooldown, the retry state with its backoff, and the      *)
(* claim of a manual punch.                                                *)
(*                                                                         *)
(* The sessions of two clients run concurrently.  A handler that builds    *)
(* PunchStart packets holds the networks' read lock throughout, so clients *)
(* do not change meanwhile, but takes the locks of the four expiring maps  *)
(* one after the other.  The fields of a session are written without a     *)
(* lock, by the handlers of both clients and by ReconcilePunchSessions.    *)
(* Acks and results come from the two clients of a session.                *)
(*                                                                         *)
(* Pairs are keyed by their two addresses (punchPairKey): networks with    *)
(* the same address range share them.                                      *)
(***************************************************************************)
EXTENDS Integers, FiniteSets

CONSTANTS
    Networks,
    Addrs,          \* virtual addresses, the same in every network
    StatusReports,  \* status reports of the clients, a subset of Status
    Requests,       \* clients send PunchRequest
    Answers,        \* acks and results clients send, a subset of Answer
    MaxAttempts,    \* maxPunchAttemptsPerPair
    MaxSessions,    \* bound on the sessions kept at a time
    None

Triggers == {"status", "route", "manual", "reportOnly"}
Status == [trigger : Triggers, target : Addrs \cup {None}, direct : SUBSET Addrs,
           relay : BOOLEAN, endpoints : BOOLEAN]
Pairs == {p \in SUBSET Addrs : Cardinality(p) = 2}
Unfinished == {"scheduled", "sending", "waiting"}
Finished == {"success", "failed", "timeout"}
\* claim, a history: a manual session whose pair's claim still runs.
Session == [net : Networks, source : Addrs, target : Addrs, attempt : 1..MaxAttempts + 1,
            claim : BOOLEAN, state : Unfinished \cup Finished, acks : SUBSET Addrs,
            fallback : BOOLEAN, late : BOOLEAN]
Answer == {"accept", "reject"} \cup Finished
Ids == 1..MaxSessions
Build == [at : {"idle", "reported", "building"}, left : SUBSET Addrs,
          target : Addrs \cup {None}, attempt : 0..MaxAttempts + 1]
Retry == [attempt : 0..MaxAttempts, wait : BOOLEAN]
Call == [id : Ids, net : Networks, by : Addrs \cup {None}, at : {"state", "fallback", "retry"},
         state : Finished, attempt : 0..MaxAttempts]

ASSUME PunchAssumption ==
    /\ StatusReports \subseteq Status /\ Requests \in BOOLEAN /\ Answers \subseteq Answer
    /\ MaxAttempts \in Nat \ {0} /\ MaxSessions \in Nat
    /\ None \notin Addrs \cup Session \cup Status

VARIABLES
    status,     \* last status of an online client, None without one
    build,      \* where a client's handler is in building PunchStart packets
    sessions,   \* PunchSessions, by id
    cooldown,   \* pairs in PunchPairCooldown
    claims,     \* pairs in ManualPunchPairDedup
    retry,      \* PunchPairRetry: failed attempts, and whether the backoff runs
    calls       \* handlers and sweeps that have not written all of a session

pairVars == <<cooldown, claims, retry, calls>>
punchVars == <<status, build, sessions, pairVars>>

Idle == [at |-> "idle", left |-> {}, target |-> None, attempt |-> 0]
NoRetry == [attempt |-> 0, wait |-> FALSE]

PunchInit ==
    /\ status = [n \in Networks |-> [a \in Addrs |-> None]]
    /\ build = [n \in Networks |-> [a \in Addrs |-> Idle]]
    /\ sessions = [i \in Ids |-> None]
    /\ cooldown = {} /\ claims = {} /\ retry = [p \in Pairs |-> NoRetry] /\ calls = {}

ReadLocked == \E n \in Networks, a \in Addrs : build[n][a].at = "building"
FreeIds == {i \in Ids : sessions[i] = None}
NewId == CHOOSE i \in FreeIds : \A j \in FreeIds : i <= j

\* A sweep of ReconcilePunchSessions holds the lock of PunchSessions.
Sweeping == \E u \in calls : u.by = None

\* The packets of a client are handled one at a time.
Free(n, a) == build[n][a] = Idle /\ ~\E u \in calls : <<u.net, u.by>> = <<n, a>>

--------------------------------------------------------------------------------
(* Status reports *)

\* HandleClientStatusInfo; the same handler then builds PunchStart packets.
HandleClientStatusInfo(n, a, report) ==
    /\ Free(n, a) /\ ~ReadLocked
    /\ status' = [status EXCEPT ![n][a] = report]
    /\ build' = [build EXCEPT ![n][a].at = "reported"]
    /\ UNCHANGED <<sessions, pairVars>>

\* The client goes offline; its status is cleared.
ClientLeaves(n, a) ==
    /\ status[n][a] # None /\ ~ReadLocked
    /\ status' = [status EXCEPT ![n][a] = None]
    /\ UNCHANGED <<build, sessions, pairVars>>

\* Mutant: the reporting client is not left out.
BuildBeginsWithSelf(n, a) ==
    /\ build[n][a].at = "reported"
    /\ build' = [build EXCEPT ![n][a] =
          IF status[n][a] = None THEN Idle
          ELSE [Idle EXCEPT !.at = "building", !.left = Addrs]]
    /\ UNCHANGED <<status, sessions, pairVars>>

\* BuildPunchStartPacketsFromStatus takes the read lock.
BuildBegins(n, a) ==
    /\ build[n][a].at = "reported"
    /\ build' = [build EXCEPT ![n][a] =
          IF status[n][a] = None THEN Idle
          ELSE [Idle EXCEPT !.at = "building", !.left = Addrs \ {a}]]
    /\ UNCHANGED <<status, sessions, pairVars>>

\* shouldSuppressPunchStartForStatusUpdate, shouldSuppressPunchStartForOtherTrigger
Suppressed(n, a, t) ==
    LET there == t \in status[n][a].direct
        back == a \in status[n][t].direct
    IN  \/ status[n][a].relay \/ status[n][t].relay
        \/ IF status[n][a].trigger = "status" THEN there \/ back ELSE there /\ back

\* A client of the network that the report may start a punch with.
Candidate(n, a, t) ==
    /\ status[n][t] # None
    /\ status[n][a].trigger = "manual" /\ status[n][a].target # None => t = status[n][a].target
    /\ status[n][a].trigger # "reportOnly"
    /\ ~Suppressed(n, a, t)

\* Mutant: one attempt more than the budget.
HeldBackAfterMax(p) ==
    p \in cooldown \/ retry[p].attempt > MaxAttempts \/ retry[p].wait

\* The pair cools down, used up its attempts or waits for its backoff.
HeldBack(p) ==
    p \in cooldown \/ retry[p].attempt >= MaxAttempts \/ retry[p].wait

\* One target of the loop, up to the endpoints: a manual trigger passes the
\* cooldown and resets the retry state.
TryTarget(n, a, t) ==
    LET manual == status[n][a].trigger = "manual"
        p == {a, t}
        passes == Candidate(n, a, t) /\ (manual \/ ~HeldBack(p))
        endpoints == passes /\ status[n][a].endpoints /\ status[n][t].endpoints
    IN  /\ build[n][a].at = "building" /\ build[n][a].target = None /\ t \in build[n][a].left
        /\ retry' = IF manual /\ passes THEN [retry EXCEPT ![p] = NoRetry] ELSE retry
        /\ build' = [build EXCEPT ![n][a] =
              [build[n][a] EXCEPT !.left = @ \ {t}, !.target = IF endpoints THEN t ELSE None,
                                  !.attempt = IF endpoints THEN retry'[p].attempt + 1 ELSE 0]]
        /\ UNCHANGED <<status, sessions, cooldown, claims, calls>>

NewSession(n, a, t, attempt, claim, acks) ==
    [net |-> n, source |-> a, target |-> t, attempt |-> attempt, claim |-> claim,
     state |-> "scheduled", acks |-> acks, fallback |-> FALSE, late |-> FALSE]

\* Mutant: the claim is set, not tested.
StartPunchUnclaimed(n, a) ==
    LET t == build[n][a].target
        manual == status[n][a].trigger = "manual"
        last == ~manual \/ status[n][a].target # None
    IN  /\ t # None /\ FreeIds # {}
        /\ claims' = IF manual THEN claims \cup {{a, t}} ELSE claims
        /\ sessions' = [sessions EXCEPT ![NewId] =
                           NewSession(n, a, t, build[n][a].attempt, manual, {})]
        /\ cooldown' = cooldown \cup {{a, t}}
        /\ build' = [build EXCEPT ![n][a] =
              IF last THEN Idle ELSE [@ EXCEPT !.target = None, !.attempt = 0]]
        /\ UNCHANGED <<status, retry, calls>>

\* The packets are built, unless the manual punch of the pair is claimed; a
\* manual report that names no target goes on with the other clients.
StartPunch(n, a) ==
    LET t == build[n][a].target
        p == {a, t}
        manual == status[n][a].trigger = "manual"
        starts == ~(manual /\ p \in claims)
        last == starts /\ (~manual \/ status[n][a].target # None)
    IN  /\ t # None
        /\ starts => FreeIds # {} /\ ~Sweeping
        /\ claims' = IF manual THEN claims \cup {p} ELSE claims
        /\ sessions' = IF starts
              THEN [sessions EXCEPT ![NewId] =
                       NewSession(n, a, t, build[n][a].attempt, manual, {})]
              ELSE sessions
        /\ cooldown' = IF starts THEN cooldown \cup {p} ELSE cooldown
        /\ build' = [build EXCEPT ![n][a] =
              IF last THEN Idle ELSE [@ EXCEPT !.target = None, !.attempt = 0]]
        /\ UNCHANGED <<status, retry, calls>>

\* No target is left.
BuildEnds(n, a) ==
    /\ build[n][a].at = "building" /\ build[n][a].left = {} /\ build[n][a].target = None
    /\ build' = [build EXCEPT ![n][a] = Idle]
    /\ UNCHANGED <<status, sessions, pairVars>>

--------------------------------------------------------------------------------
(* Requests, acks and results *)

\* HandlePunchRequest: a request sent again starts its session over.  It is not
\* sent again while an ack or a result of its session is handled.
HandlePunchRequest(n, a, t, i) ==
    /\ Requests /\ a # t /\ Free(n, a) /\ ~Sweeping
    /\ \/ FreeIds # {} /\ i = NewId
       \/ /\ sessions[i] # None /\ ~\E u \in calls : u.id = i
          /\ <<sessions[i].net, sessions[i].source, sessions[i].target>> = <<n, a, t>>
    /\ sessions' = [sessions EXCEPT ![i] = NewSession(n, a, t, 1, FALSE, {a})]
    /\ UNCHANGED <<status, build, pairVars>>

PairOf(i) == {sessions[i].source, sessions[i].target}

\* A handler goes on at the step `at' with the state it found; by = None: a sweep.
GoesOn(i, a, at, state) ==
    calls' = calls \cup {[id |-> i, net |-> sessions[i].net, by |-> a, at |-> at,
                          state |-> state, attempt |-> 0]}

\* HandlePunchAck: the state follows the acks, whatever it was before.  An ack
\* has the phase of a session that has no result yet.
HandlePunchAck(i, a, accepted, phase) ==
    LET acks == sessions[i].acks \cup {a}
        state == IF ~accepted THEN "failed"
                 ELSE IF Cardinality(acks) >= 2 THEN "waiting"
                 ELSE IF phase = "scheduled" THEN "sending" ELSE phase
    IN  /\ sessions[i] # None /\ a \in PairOf(i) /\ Free(sessions[i].net, a) /\ ~Sweeping
        /\ sessions' = [sessions EXCEPT ![i].acks = acks, ![i].state = state]
        /\ IF accepted THEN UNCHANGED calls ELSE GoesOn(i, a, "fallback", "failed")
        /\ UNCHANGED <<status, build, cooldown, claims, retry>>

\* HandlePunchResult, up to the state.
HandlePunchResult(i, a, state) ==
    /\ sessions[i] # None /\ a \in PairOf(i) /\ Free(sessions[i].net, a) /\ ~Sweeping
    /\ sessions' = [sessions EXCEPT ![i].state = state]
    /\ GoesOn(i, a, "fallback", state)
    /\ UNCHANGED <<status, build, cooldown, claims, retry>>

\* Mutant: only sessions that both sides acknowledged are timed out.
OverdueAcked == {i \in Ids : sessions[i] # None /\ sessions[i].late
                             /\ sessions[i].state = "waiting"}

Overdue == {i \in Ids : sessions[i] # None /\ sessions[i].late
                        /\ sessions[i].state \in Unfinished}

\* ReconcilePunchSessions, run by whichever session gets a packet, finds an
\* overdue session.
ReconcilePunchSessions(i) ==
    /\ i \in Overdue /\ ~Sweeping
    /\ GoesOn(i, None, "state", "timeout")
    /\ UNCHANGED <<status, build, sessions, cooldown, claims, retry>>

\* It writes the state of the session, which handlers may have changed.
WriteTimeout(u) ==
    /\ u.at = "state"
    /\ sessions' = [sessions EXCEPT ![u.id].state = u.state]
    /\ calls' = (calls \ {u}) \cup {[u EXCEPT !.at = "fallback"]}
    /\ UNCHANGED <<status, build, cooldown, claims, retry>>

\* Mutant: the pair goes on cooling down.
WriteFallbackOnly(u) ==
    /\ u.at = "fallback"
    /\ sessions' = [sessions EXCEPT ![u.id].fallback = (u.state # "success")]
    /\ calls' = calls \ {u}
    /\ UNCHANGED <<status, build, cooldown, claims, retry>>

\* RelayFallback, the cooldown, and updatePunchRetryState up to its Get, by the
\* state the session has by then.
WriteFallback(u) ==
    LET p == PairOf(u.id)
        state == sessions[u.id].state
    IN  /\ u.at = "fallback"
        /\ sessions' = [sessions EXCEPT ![u.id].fallback = (u.state # "success")]
        /\ cooldown' = cooldown \ {p}
        /\ retry' = IF state = "success" THEN [retry EXCEPT ![p] = NoRetry] ELSE retry
        /\ calls' = (calls \ {u}) \cup
              {[u EXCEPT !.at = "retry", !.attempt = retry[p].attempt] :
                  x \in {state} \cap {"failed", "timeout"}}
        /\ UNCHANGED <<status, build, claims>>

\* updatePunchRetryState writes what it read, one attempt later; attempts beyond
\* the budget are not told apart.
WriteRetry(u) ==
    /\ u.at = "retry"
    /\ retry' = [retry EXCEPT ![PairOf(u.id)] =
          [attempt |-> IF u.attempt < MaxAttempts THEN u.attempt + 1 ELSE MaxAttempts,
           wait |-> TRUE]]
    /\ calls' = calls \ {u}
    /\ UNCHANGED <<status, build, sessions, cooldown, claims>>

--------------------------------------------------------------------------------
(* Time *)

DeadlinePasses(i) ==
    /\ sessions[i] # None /\ ~sessions[i].late
    /\ sessions' = [sessions EXCEPT ![i].late = TRUE]
    /\ UNCHANGED <<status, build, pairVars>>

\* The 10 minutes of a session without calls; its deadline, the
\* 20 seconds of a cooldown and the 3 seconds of a claim are long over.
SessionExpires(i) ==
    /\ sessions[i] # None /\ sessions[i].late
    /\ PairOf(i) \notin cooldown \cup claims
    /\ ~\E u \in calls : u.id = i
    /\ sessions' = [sessions EXCEPT ![i] = None]
    /\ UNCHANGED <<status, build, pairVars>>

CooldownExpires(p) ==
    /\ p \in cooldown
    /\ cooldown' = cooldown \ {p}
    /\ UNCHANGED <<status, build, sessions, claims, retry, calls>>

\* manualPunchPairDedupWindow is over.
ClaimExpires(p) ==
    /\ p \in claims
    /\ claims' = claims \ {p}
    /\ sessions' = [i \in Ids |-> IF sessions[i] # None /\ PairOf(i) = p
                                   THEN [sessions[i] EXCEPT !.claim = FALSE] ELSE sessions[i]]
    /\ UNCHANGED <<status, build, cooldown, retry, calls>>

\* retryBackoffDuration is over.
BackoffEnds(p) ==
    /\ retry[p].wait
    /\ retry' = [retry EXCEPT ![p].wait = FALSE]
    /\ UNCHANGED <<status, build, sessions, cooldown, claims, calls>>

\* The 30 minutes of a retry state without calls.
RetryExpires(p) ==
    /\ retry[p] # NoRetry /\ ~retry[p].wait
    /\ retry' = [retry EXCEPT ![p] = NoRetry]
    /\ UNCHANGED <<status, build, sessions, cooldown, claims, calls>>

--------------------------------------------------------------------------------
PunchNext ==
    \/ \E n \in Networks, a \in Addrs, report \in StatusReports :
          HandleClientStatusInfo(n, a, report)
    \/ \E n \in Networks, a \in Addrs : ClientLeaves(n, a)
    \/ \E n \in Networks, a \in Addrs : BuildBegins(n, a)
    \/ \E n \in Networks, a, t \in Addrs : TryTarget(n, a, t)
    \/ \E n \in Networks, a \in Addrs : StartPunch(n, a)
    \/ \E n \in Networks, a \in Addrs : BuildEnds(n, a)
    \/ \E n \in Networks, a, t \in Addrs, i \in Ids : HandlePunchRequest(n, a, t, i)
    \/ \E i \in Ids, a \in Addrs, ack \in Answers \cap {"accept", "reject"}, phase \in Unfinished :
          HandlePunchAck(i, a, ack = "accept", phase)
    \/ \E i \in Ids, a \in Addrs, state \in Answers \cap Finished : HandlePunchResult(i, a, state)
    \/ \E i \in Ids : ReconcilePunchSessions(i)
    \/ \E u \in calls : WriteTimeout(u)
    \/ \E u \in calls : WriteFallback(u)
    \/ \E u \in calls : WriteRetry(u)
    \/ \E i \in Ids : DeadlinePasses(i)
    \/ \E i \in Ids : SessionExpires(i)
    \/ \E p \in Pairs : CooldownExpires(p)
    \/ \E p \in Pairs : ClaimExpires(p)
    \/ \E p \in Pairs : BackoffEnds(p)
    \/ \E p \in Pairs : RetryExpires(p)

PunchSpec == PunchInit /\ [][PunchNext]_punchVars

\* Every session's loop runs ReconcilePunchSessions when a packet arrives, and
\* clients send control pings; a handler or a sweep that has begun goes on.
PunchFairSpec ==
    /\ PunchSpec
    /\ \A i \in Ids : WF_punchVars(ReconcilePunchSessions(i))
    /\ WF_punchVars(\E u \in calls : WriteTimeout(u))
    /\ WF_punchVars(\E u \in calls : WriteFallback(u) \/ WriteRetry(u))

--------------------------------------------------------------------------------
(* Properties *)

\* The maps hold what their names say; a client is never its own target, and the
\* session of a handler that has not written all of it is still there.
PunchTypeOK ==
    /\ status \in [Networks -> [Addrs -> StatusReports \cup {None}]]
    /\ build \in [Networks -> [Addrs -> Build]]
    /\ \A n \in Networks, a \in Addrs : a \notin build[n][a].left \cup {build[n][a].target}
    /\ sessions \in [Ids -> Session \cup {None}]
    /\ cooldown \subseteq Pairs /\ claims \subseteq Pairs
    /\ retry \in [Pairs -> Retry]
    /\ calls \subseteq Call
    /\ \A u \in calls : sessions[u.id] # None

(* No PunchStart is sent with an attempt beyond its budget, although results  *)
(* and deadlines raise the count between the check and the start of a session.*)
AttemptsWithinBudget ==
    \A i \in Ids : sessions[i] # None => sessions[i].attempt <= MaxAttempts

(* "Claim this unordered pair atomically so their two recovery reports        *)
(* produce one PunchStart session": within the dedup window a pair has one    *)
(* manual session, whichever side reports first and with or without a target. *)
OneManualPunch ==
    \A i, j \in Ids :
        /\ sessions[i] # None /\ sessions[i].claim
        /\ sessions[j] # None /\ sessions[j].claim
        /\ PairOf(i) = PairOf(j)
        => i = j

(* The cooldown keeps a pair from punching only while a punch of the pair     *)
(* runs, however it ends and whatever else its clients and the sweep do:      *)
(* after that the backoff alone decides when the next one starts.             *)
CooldownWhileRunning ==
    \A p \in cooldown : \E i \in Ids :
        /\ sessions[i] # None /\ PairOf(i) = p
        /\ sessions[i].state \in Unfinished \/ \E u \in calls : u.id = i

(* Both clients of a session can fall silent, or acknowledge it for ever: a   *)
(* session past its deadline ends, unless its request is sent again, which    *)
(* gives it a new deadline.                                                   *)
OverdueEnds ==
    \A i \in Ids :
        (sessions[i] # None /\ sessions[i].late /\ sessions[i].state \in Unfinished)
            ~> (sessions[i] = None \/ ~sessions[i].late \/ sessions[i].state \in Finished)

================================================================================
