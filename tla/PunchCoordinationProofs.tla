------------------------ MODULE PunchCoordinationProofs ------------------------
(***************************************************************************)
(* Proofs about the hole punching of control/punch.go, for any networks,   *)
(* addresses, reports, answers and any budget of attempts.                 *)
(*                                                                         *)
(* The four invariants of PunchCoordination are not inductive.  The budget *)
(* holds because the attempt is fixed when a target is tried, within the   *)
(* budget (BuildsKept); one manual punch because a session that counts as  *)
(* claimed has its pair in ManualPunchPairDedup (SessionsKept); and the    *)
(* cooldown because a pair that cools down has a session that either has   *)
(* no result or has a handler which is still to delete the cooldown        *)
(* (CooldownKept): a handler past that point no longer counts.             *)
(***************************************************************************)
EXTENDS PunchCoordination, FiniteSetTheorems, WellFoundedInduction, TLAPS

\* The reports, and the targets the handlers try.
BuildsKept ==
    /\ status \in [Networks -> [Addrs -> StatusReports \cup {None}]]
    /\ build \in [Networks -> [Addrs -> Build]]
    /\ \A n \in Networks, a \in Addrs :
          /\ a \notin build[n][a].left /\ a # build[n][a].target
          /\ build[n][a].target # None => build[n][a].attempt \in 1..MaxAttempts

\* The sessions and the claims.
SessionsKept ==
    /\ sessions \in [Ids -> Session \cup {None}]
    /\ \A i \in Ids : sessions[i] # None =>
          /\ sessions[i].source # sessions[i].target
          /\ sessions[i].attempt <= MaxAttempts
          /\ sessions[i].claim => PairOf(i) \in claims
    /\ OneManualPunch

PairsKept == cooldown \subseteq Pairs /\ claims \subseteq Pairs /\ retry \in [Pairs -> Retry]

CallsKept == calls \subseteq Call /\ \A u \in calls : sessions[u.id] # None

\* Session i, of the pair p, has no result or its handler will end the cooldown.
Running(p, i) ==
    /\ sessions[i] # None /\ PairOf(i) = p
    /\ sessions[i].state \in Unfinished \/ \E u \in calls : u.id = i /\ u.at # "retry"

CooldownKept == \A p \in cooldown : \E i \in Ids : Running(p, i)

\* The inductive invariant.
PunchInv == BuildsKept /\ SessionsKept /\ PairsKept /\ CallsKept /\ CooldownKept

--------------------------------------------------------------------------------
(* Operators *)

\* PairIsPair: two different addresses are a pair (punchPairKey).
LEMMA PairIsPair ==
    ASSUME NEW a \in Addrs, NEW t \in Addrs, a # t
    PROVE  {a, t} \in Pairs
<1>1. IsFiniteSet({a}) /\ Cardinality({a}) = 1
  BY FS_Singleton
<1>2. Cardinality({a} \cup {t}) = 2
  BY <1>1, FS_AddElement
<1>3. {a} \cup {t} = {a, t} /\ {a, t} \in SUBSET Addrs
  OBVIOUS
<1> QED
  BY <1>2, <1>3 DEF Pairs

\* NewIdIsFree: the id of a new session is not in use.
LEMMA NewIdIsFree ==
    ASSUME FreeIds # {}
    PROVE  NewId \in Ids /\ sessions[NewId] = None
<1>1. FreeIds \subseteq Nat
  BY PunchAssumption DEF FreeIds, Ids
<1>2. PICK x \in FreeIds : \A y \in FreeIds : <<y, x>> \notin OpToRel(<, Nat)
  BY <1>1, NatLessThanWellFounded, WFMin, Zenon
<1>3. \A y \in FreeIds : y \in Nat /\ x \in Nat /\ ~(y < x)
  BY <1>1, <1>2, Zenon DEF OpToRel
<1>4. \A y \in FreeIds : x <= y
  BY <1>3
<1>5. NewId \in FreeIds
  BY <1>4 DEF NewId
<1> QED
  BY <1>5 DEF FreeIds

--------------------------------------------------------------------------------
(* Steps *)

\* BuildsSame: what a step leaves alone of the reports and the targets.
LEMMA BuildsSame ==
    ASSUME BuildsKept, UNCHANGED <<status, build>>
    PROVE  BuildsKept'
BY DEF BuildsKept

\* SessionsSame: a step that changes neither sessions nor claims.
LEMMA SessionsSame ==
    ASSUME SessionsKept, UNCHANGED <<sessions, claims>>
    PROVE  SessionsKept'
BY DEF SessionsKept, OneManualPunch, PairOf

\* PairsSame: a step that changes nothing of the pairs.
LEMMA PairsSame ==
    ASSUME PairsKept, UNCHANGED <<cooldown, claims, retry>>
    PROVE  PairsKept'
BY DEF PairsKept

\* CallsSame: a step of which no handler of a session is a part.
LEMMA CallsSame ==
    ASSUME CallsKept, UNCHANGED <<sessions, calls>>
    PROVE  CallsKept'
BY DEF CallsKept

\* CooldownSame: a step that touches neither sessions, cooldowns nor handlers.
LEMMA CooldownSame ==
    ASSUME CooldownKept, UNCHANGED <<sessions, cooldown, calls>>
    PROVE  CooldownKept'
<1>1. \A p, i : Running(p, i) <=> Running(p, i)'
  BY DEF Running, PairOf
<1> QED
  BY <1>1 DEF CooldownKept

\* CooldownGoesOn: no pair begins to cool down, and the sessions of those that
\* go on cooling down go on.
LEMMA CooldownGoesOn ==
    ASSUME CooldownKept, cooldown' \subseteq cooldown,
           \A p \in cooldown', i \in Ids : Running(p, i) => Running(p, i)'
    PROVE  CooldownKept'
BY DEF CooldownKept

\* BuildWritten: a handler goes on to another target, or ends.
LEMMA BuildWritten ==
    ASSUME BuildsKept, NEW n \in Networks, NEW a \in Addrs, NEW b \in Build,
           a \notin b.left, a # b.target,
           b.target # None => b.attempt \in 1..MaxAttempts,
           build' = [build EXCEPT ![n][a] = b], status' = status
    PROVE  BuildsKept'
<1>1. build' \in [Networks -> [Addrs -> Build]]
  BY DEF BuildsKept
<1>2. ASSUME NEW m \in Networks, NEW c \in Addrs
      PROVE  build'[m][c] = IF m = n /\ c = a THEN b ELSE build[m][c]
  BY DEF BuildsKept
<1> QED
  BY <1>1, <1>2 DEF BuildsKept

\* SessionWritten: the session i becomes s.  When s counts as claimed, either its
\* pair has just been claimed, or i counted as claimed for the same pair.
LEMMA SessionWritten ==
    ASSUME SessionsKept, NEW i \in Ids, NEW s \in Session,
           s.source # s.target, s.attempt <= MaxAttempts,
           s.claim => /\ {s.source, s.target} \in claims'
                      /\ \/ {s.source, s.target} \notin claims
                         \/ /\ sessions[i] # None /\ sessions[i].claim
                            /\ PairOf(i) = {s.source, s.target},
           claims \subseteq claims', sessions' = [sessions EXCEPT ![i] = s]
    PROVE  SessionsKept'
<1>1. s # None /\ sessions'[i] = s /\ \A j \in Ids \ {i} : sessions'[j] = sessions[j]
  BY PunchAssumption DEF SessionsKept
<1>2. PairOf(i)' = {s.source, s.target} /\ \A j \in Ids \ {i} : PairOf(j)' = PairOf(j)
  BY <1>1 DEF PairOf
<1>3. sessions' \in [Ids -> Session \cup {None}]
  BY DEF SessionsKept
<1>4. ASSUME NEW j \in Ids, sessions'[j] # None
      PROVE  /\ sessions'[j].source # sessions'[j].target
             /\ sessions'[j].attempt <= MaxAttempts
             /\ sessions'[j].claim => PairOf(j)' \in claims'
  <2>1. CASE j = i
    BY <2>1, <1>1, <1>2
  <2>2. CASE j # i
    BY <2>2, <1>1, <1>2, <1>4 DEF SessionsKept
  <2> QED
    BY <2>1, <2>2
<1>5. ASSUME NEW j \in Ids \ {i}, sessions'[i].claim, sessions'[j] # None, sessions'[j].claim,
             PairOf(i)' = PairOf(j)'
      PROVE  FALSE
  <2>1. sessions[j] # None /\ sessions[j].claim /\ PairOf(j) = {s.source, s.target}
    BY <1>1, <1>2, <1>5
  <2>2. {s.source, s.target} \in claims
    BY <2>1, Zenon DEF SessionsKept
  <2>3. sessions[i] # None /\ sessions[i].claim /\ PairOf(i) = PairOf(j)
    BY <1>1, <1>5, <2>1, <2>2
  <2> QED
    BY <2>1, <2>3, Zenon DEF SessionsKept, OneManualPunch
<1>6. OneManualPunch'
  <2> SUFFICES ASSUME NEW j \in Ids, NEW k \in Ids,
                      sessions'[j] # None, sessions'[j].claim,
                      sessions'[k] # None, sessions'[k].claim, PairOf(j)' = PairOf(k)'
               PROVE  j = k
    BY DEF OneManualPunch
  <2>1. CASE j = i \/ k = i
    BY <2>1, <1>5
  <2>2. CASE j # i /\ k # i
    BY <2>2, <1>1, <1>2 DEF SessionsKept, OneManualPunch
  <2> QED
    BY <2>1, <2>2
<1> QED
  BY <1>3, <1>4, <1>6 DEF SessionsKept

--------------------------------------------------------------------------------
(* Status reports *)

\* ReportKeeps: HandleClientStatusInfo.
LEMMA ReportKeeps ==
    ASSUME PunchInv, NEW n \in Networks, NEW a \in Addrs, NEW report \in StatusReports,
           HandleClientStatusInfo(n, a, report)
    PROVE  PunchInv'
<1> USE DEF HandleClientStatusInfo, pairVars
<1>1. status' \in [Networks -> [Addrs -> StatusReports \cup {None}]]
  BY DEF PunchInv, BuildsKept
<1>2. build[n][a] \in Build
  BY DEF PunchInv, BuildsKept
<1>3. [build[n][a] EXCEPT !.at = "reported"] \in Build
  BY <1>2 DEF Build
<1>4. build' \in [Networks -> [Addrs -> Build]]
  BY <1>3 DEF PunchInv, BuildsKept
<1>5. ASSUME NEW m \in Networks, NEW c \in Addrs
      PROVE  /\ build'[m][c].left = build[m][c].left
             /\ build'[m][c].target = build[m][c].target
             /\ build'[m][c].attempt = build[m][c].attempt
  <2>1. CASE m = n /\ c = a
    BY <1>2, <2>1 DEF PunchInv, BuildsKept, Build
  <2>2. CASE ~(m = n /\ c = a)
    BY <2>2 DEF PunchInv, BuildsKept
  <2> QED
    BY <2>1, <2>2
<1>6. BuildsKept'
  BY <1>1, <1>4, <1>5 DEF PunchInv, BuildsKept
<1> QED
  BY <1>6, SessionsSame, PairsSame, CallsSame, CooldownSame DEF PunchInv

\* LeaveKeeps: a client goes offline.
LEMMA LeaveKeeps ==
    ASSUME PunchInv, NEW n \in Networks, NEW a \in Addrs, ClientLeaves(n, a)
    PROVE  PunchInv'
<1> USE DEF ClientLeaves, pairVars
<1>1. status' \in [Networks -> [Addrs -> StatusReports \cup {None}]]
  BY DEF PunchInv, BuildsKept
<1>2. BuildsKept'
  BY <1>1 DEF PunchInv, BuildsKept
<1> QED
  BY <1>2, SessionsSame, PairsSame, CallsSame, CooldownSame DEF PunchInv

\* IdleIsBuild: a handler at rest.
LEMMA IdleIsBuild ==
    Idle \in Build /\ Idle.left = {} /\ Idle.target = None
BY PunchAssumption DEF Idle, Build

\* BeginKeeps: the loop over the clients of the network leaves the reporter out.
LEMMA BeginKeeps ==
    ASSUME PunchInv, NEW n \in Networks, NEW a \in Addrs, BuildBegins(n, a)
    PROVE  PunchInv'
<1> DEFINE b == IF status[n][a] = None THEN Idle
                ELSE [Idle EXCEPT !.at = "building", !.left = Addrs \ {a}]
<1>1. b \in Build /\ a \notin b.left /\ b.target = None
  BY IdleIsBuild, Zenon DEF Idle, Build
<1>2. build' = [build EXCEPT ![n][a] = b] /\ status' = status
  BY DEF BuildBegins
<1>3. a # None
  BY PunchAssumption
<1> HIDE DEF b
<1>4. BuildsKept'
  BY <1>1, <1>2, <1>3, BuildWritten, Zenon DEF PunchInv
<1> QED
  BY <1>4, SessionsSame, PairsSame, CallsSame, CooldownSame DEF PunchInv, BuildBegins, pairVars

\* EndKeeps: no target is left.
LEMMA EndKeeps ==
    ASSUME PunchInv, NEW n \in Networks, NEW a \in Addrs, BuildEnds(n, a)
    PROVE  PunchInv'
<1>1. BuildsKept'
  BY IdleIsBuild, BuildWritten, PunchAssumption, Zenon DEF PunchInv, BuildEnds
<1> QED
  BY <1>1, SessionsSame, PairsSame, CallsSame, CooldownSame DEF PunchInv, BuildEnds, pairVars

\* RetryWritten: the retry state of a pair is replaced.
LEMMA RetryWritten ==
    ASSUME PairsKept, NEW p \in Pairs, NEW r \in Retry,
           retry' = [retry EXCEPT ![p] = r], UNCHANGED <<cooldown, claims>>
    PROVE  PairsKept' /\ retry'[p] = r
BY DEF PairsKept

\* NoRetryIsRetry: no attempt has failed.
LEMMA NoRetryIsRetry == NoRetry \in Retry /\ NoRetry.attempt = 0
BY PunchAssumption DEF NoRetry, Retry

\* TryKeeps: the attempt is fixed here, within the budget: the retry state was
\* read below the budget, or was just reset by a manual trigger.
LEMMA TryKeeps ==
    ASSUME PunchInv, NEW n \in Networks, NEW a \in Addrs, NEW t \in Addrs, TryTarget(n, a, t)
    PROVE  PunchInv'
<1> DEFINE manual == status[n][a].trigger = "manual"
           p == {a, t}
           passes == Candidate(n, a, t) /\ (manual \/ ~HeldBack(p))
           endpoints == passes /\ status[n][a].endpoints /\ status[n][t].endpoints
           old == build[n][a]
           b == [old EXCEPT !.left = @ \ {t}, !.target = IF endpoints THEN t ELSE None,
                            !.attempt = IF endpoints THEN retry'[p].attempt + 1 ELSE 0]
<1>1. /\ t \in old.left
      /\ retry' = IF manual /\ passes THEN [retry EXCEPT ![p] = NoRetry] ELSE retry
      /\ build' = [build EXCEPT ![n][a] = b]
      /\ UNCHANGED <<status, sessions, cooldown, claims, calls>>
  BY DEF TryTarget
<1>2. old \in Build /\ a \notin old.left /\ a # None
  BY PunchAssumption DEF PunchInv, BuildsKept
<1>3. a # t /\ p \in Pairs
  BY <1>1, <1>2, PairIsPair
<1>4. endpoints => passes
  OBVIOUS
<1>5. passes => manual \/ retry[p].attempt < MaxAttempts
  <2>1. retry[p].attempt \in Int /\ MaxAttempts \in Int
    BY <1>3, PunchAssumption DEF PunchInv, PairsKept, Retry
  <2> QED
    BY <2>1 DEF HeldBack
<1> HIDE DEF manual, p, passes, endpoints
<1>6. PairsKept' /\ (passes => retry'[p].attempt \in 0..(MaxAttempts - 1))
  <2>1. CASE manual /\ passes
    <3>1. PairsKept' /\ retry'[p] = NoRetry
      BY <1>1, <1>3, <2>1, RetryWritten, NoRetryIsRetry, Zenon DEF PunchInv
    <3> QED
      BY <3>1, NoRetryIsRetry, PunchAssumption
  <2>2. CASE ~(manual /\ passes)
    <3>1. PairsKept' /\ retry' = retry
      BY <1>1, <2>2, PairsSame DEF PunchInv
    <3>2. retry[p].attempt \in 0..MaxAttempts
      BY <1>3 DEF PunchInv, PairsKept, Retry
    <3> QED
      BY <3>1, <3>2, <1>5, <2>2, PunchAssumption
  <2> QED
    BY <2>1, <2>2
<1> DEFINE k == IF endpoints THEN retry'[p].attempt + 1 ELSE 0
           g == IF endpoints THEN t ELSE None
<1>7. k \in 0..MaxAttempts + 1 /\ (g # None => k \in 1..MaxAttempts)
  BY <1>4, <1>6, PunchAssumption
<1>8. g \in Addrs \cup {None} /\ a # g
  BY <1>2, <1>3
<1>9. b = [old EXCEPT !.left = @ \ {t}, !.target = g, !.attempt = k]
  OBVIOUS
<1> HIDE DEF k, g, b
<1>10. b \in Build /\ b.left = old.left \ {t} /\ b.target = g /\ b.attempt = k
  BY <1>2, <1>7, <1>8, <1>9, Zenon DEF Build
<1>11. BuildsKept'
  BY <1>1, <1>2, <1>7, <1>8, <1>10, BuildWritten, Zenon DEF PunchInv
<1> QED
  BY <1>1, <1>6, <1>11, SessionsSame, CallsSame, CooldownSame DEF PunchInv

\* Starts: a session that has no result is written where there was none, or
\* where there was one of the same pair.  Running sessions go on running.
LEMMA Starts ==
    ASSUME SessionsKept, CallsKept, NEW i \in Ids, NEW s \in Session, s.state \in Unfinished,
           sessions[i] = None \/ PairOf(i) = {s.source, s.target},
           sessions' = [sessions EXCEPT ![i] = s], calls' = calls
    PROVE  /\ CallsKept' /\ Running({s.source, s.target}, i)'
           /\ \A p : \A j \in Ids : Running(p, j) => Running(p, j)'
<1>1. s # None /\ sessions'[i] = s /\ \A j \in Ids \ {i} : sessions'[j] = sessions[j]
  BY PunchAssumption DEF SessionsKept
<1>2. Running({s.source, s.target}, i)'
  BY <1>1 DEF Running, PairOf
<1>3. ASSUME NEW p, NEW j \in Ids, Running(p, j)
      PROVE  Running(p, j)'
  <2>1. CASE j = i
    BY <1>2, <1>3, <2>1 DEF Running
  <2>2. CASE j # i
    BY <1>1, <1>3, <2>2 DEF Running, PairOf
  <2> QED
    BY <2>1, <2>2
<1>4. ASSUME NEW u \in calls
      PROVE  sessions'[u.id] # None
  <2>1. u.id \in Ids /\ sessions[u.id] # None
    BY DEF CallsKept, Call
  <2> QED
    BY <1>1, <2>1
<1>5. CallsKept'
  BY <1>4 DEF CallsKept
<1> QED
  BY <1>2, <1>3, <1>5

\* StartKeeps: the session begins and its pair cools down, unless a manual punch
\* of the pair is claimed.
LEMMA StartKeeps ==
    ASSUME PunchInv, NEW n \in Networks, NEW a \in Addrs, StartPunch(n, a)
    PROVE  PunchInv'
<1> DEFINE t == build[n][a].target
           p == {a, t}
           k == build[n][a].attempt
           manual == status[n][a].trigger = "manual"
           starts == ~(manual /\ p \in claims)
           last == starts /\ (~manual \/ status[n][a].target # None)
           b == IF last THEN Idle ELSE [build[n][a] EXCEPT !.target = None, !.attempt = 0]
           s == NewSession(n, a, t, k, manual, {})
<1>1. /\ t # None
      /\ starts => FreeIds # {}
      /\ claims' = IF manual THEN claims \cup {p} ELSE claims
      /\ sessions' = IF starts THEN [sessions EXCEPT ![NewId] = s] ELSE sessions
      /\ cooldown' = IF starts THEN cooldown \cup {p} ELSE cooldown
      /\ build' = [build EXCEPT ![n][a] = b]
      /\ UNCHANGED <<status, retry, calls>>
  BY DEF StartPunch
<1>2. build[n][a] \in Build /\ a \notin build[n][a].left /\ a # t /\ k \in 1..MaxAttempts
  BY <1>1 DEF PunchInv, BuildsKept
<1>3. t \in Addrs /\ p \in Pairs /\ a # None
  <2>1. t \in Addrs
    BY <1>1, <1>2 DEF Build
  <2> QED
    BY <1>2, <2>1, PairIsPair, PunchAssumption
<1>4. BuildsKept'
  <2>1. b \in Build /\ a \notin b.left /\ b.target = None
    <3>1. CASE last
      BY <3>1, IdleIsBuild
    <3>2. CASE ~last
      <4>1. PICK old \in Build : old = build[n][a]
        BY <1>2
      <4>2. b = [old EXCEPT !.target = None, !.attempt = 0] /\ a \notin old.left
        BY <1>2, <3>2, <4>1
      <4>3. 0 \in 0..MaxAttempts + 1
        BY PunchAssumption
      <4> HIDE DEF b
      <4> QED
        BY <4>2, <4>3, Zenon DEF Build
    <3> QED
      BY <3>1, <3>2
  <2> HIDE DEF b
  <2> QED
    BY <1>1, <1>3, <2>1, BuildWritten, Zenon DEF PunchInv
<1>5. PairsKept'
  BY <1>1, <1>3, Zenon DEF PunchInv, PairsKept
<1>6. manual \in BOOLEAN /\ {} \in SUBSET Addrs
  OBVIOUS
<1>7. /\ s \in Session /\ s.source = a /\ s.target = t /\ s.attempt = k
      /\ s.claim = manual /\ s.state \in Unfinished
  <2>1. k \in 1..MaxAttempts + 1 /\ "scheduled" \in Unfinished
    BY <1>2, PunchAssumption DEF Unfinished
  <2> HIDE DEF t, k, manual
  <2> QED
    BY <1>3, <1>6, <2>1 DEF NewSession, Session
<1>8. k <= MaxAttempts
  BY <1>2, PunchAssumption
<1>9. manual => p \in claims'
  BY <1>1
<1>10. claims \subseteq claims'
  BY <1>1
<1>11. starts /\ manual => p \notin claims
  OBVIOUS
<1> HIDE DEF t, p, k, manual, b, s
<1>12. CASE starts
  <2>1. NewId \in Ids /\ sessions[NewId] = None
    BY <1>1, <1>12, NewIdIsFree
  <2>2. sessions' = [sessions EXCEPT ![NewId] = s] /\ cooldown' = cooldown \cup {p}
    BY <1>1, <1>12
  <2>3. {s.source, s.target} = p
    BY <1>7 DEF p
  <2>4. s.claim => p \in claims' /\ p \notin claims
    BY <1>7, <1>9, <1>11, <1>12
  <2>5. s.source # s.target /\ s.attempt <= MaxAttempts
    BY <1>2, <1>7, <1>8
  <2>6. SessionsKept'
    BY <1>7, <1>10, <2>1, <2>2, <2>3, <2>4, <2>5, SessionWritten, Zenon DEF PunchInv
  <2>7. PICK i \in Ids, q \in Pairs, r \in Session : i = NewId /\ q = p /\ r = s
    BY <1>3, <1>7, <2>1
  <2>8. /\ r.state \in Unfinished /\ sessions[i] = None /\ {r.source, r.target} = q
        /\ sessions' = [sessions EXCEPT ![i] = r] /\ calls' = calls
    BY <1>1, <1>7, <2>1, <2>2, <2>3, <2>7, Zenon
  <2>9. /\ CallsKept' /\ Running(q, i)'
        /\ \A x : \A j \in Ids : Running(x, j) => Running(x, j)'
    BY <2>8, Starts, Zenon DEF PunchInv
  <2>10. CooldownKept'
    BY <2>2, <2>7, <2>9 DEF PunchInv, CooldownKept
  <2> QED
    BY <1>4, <1>5, <2>6, <2>9, <2>10 DEF PunchInv
<1>13. CASE ~starts
  <2>1. UNCHANGED <<sessions, cooldown, calls>> /\ claims' = claims
    BY <1>1, <1>13
  <2> QED
    BY <1>4, <1>5, <2>1, SessionsSame, CallsSame, CooldownSame DEF PunchInv
<1> QED
  BY <1>12, <1>13

\* RequestKeeps: HandlePunchRequest, of a new session and of one sent again.
LEMMA RequestKeeps ==
    ASSUME PunchInv, NEW n \in Networks, NEW a \in Addrs, NEW t \in Addrs, NEW i \in Ids,
           HandlePunchRequest(n, a, t, i)
    PROVE  PunchInv'
<1> DEFINE s == NewSession(n, a, t, 1, FALSE, {a})
<1>1. /\ a # t /\ sessions' = [sessions EXCEPT ![i] = s]
      /\ UNCHANGED <<status, build, cooldown, claims, retry, calls>>
  BY DEF HandlePunchRequest, pairVars
<1>2. 1 \in 1..MaxAttempts + 1 /\ 1 <= MaxAttempts /\ "scheduled" \in Unfinished
  BY PunchAssumption DEF Unfinished
<1>3. /\ s \in Session /\ s.source = a /\ s.target = t /\ s.attempt = 1
      /\ s.claim = FALSE /\ s.state \in Unfinished
  BY <1>2 DEF NewSession, Session
<1> HIDE DEF s
<1>4. sessions[i] = None \/ PairOf(i) = {s.source, s.target}
  BY <1>3, NewIdIsFree DEF HandlePunchRequest, PairOf
<1>5. SessionsKept'
  BY <1>1, <1>2, <1>3, SessionWritten, Zenon DEF PunchInv
<1>6. CallsKept' /\ \A q : \A j \in Ids : Running(q, j) => Running(q, j)'
  BY <1>1, <1>3, <1>4, Starts, Zenon DEF PunchInv
<1>7. CooldownKept'
  BY <1>1, <1>6, CooldownGoesOn DEF PunchInv
<1> QED
  BY <1>1, <1>5, <1>6, <1>7, BuildsSame, PairsSame DEF PunchInv

--------------------------------------------------------------------------------
(* Acks, results and the sweep *)

\* SessionUpdated: a session changes in nothing that identifies it.
LEMMA SessionUpdated ==
    ASSUME SessionsKept, NEW i \in Ids, sessions[i] # None, NEW s \in Session,
           s.source = sessions[i].source, s.target = sessions[i].target,
           s.attempt = sessions[i].attempt, s.claim = sessions[i].claim,
           sessions' = [sessions EXCEPT ![i] = s], claims' = claims
    PROVE  /\ SessionsKept' /\ sessions'[i] = s
           /\ \A j \in Ids : /\ sessions[j] # None => sessions'[j] # None
                             /\ PairOf(j)' = PairOf(j)
                             /\ j # i => sessions'[j] = sessions[j]
<1>1. s # None /\ sessions'[i] = s /\ \A j \in Ids \ {i} : sessions'[j] = sessions[j]
  BY PunchAssumption DEF SessionsKept
<1>2. \A j \in Ids : PairOf(j)' = PairOf(j)
  BY <1>1 DEF PairOf
<1>3. /\ s.source # s.target /\ s.attempt <= MaxAttempts
      /\ s.claim => PairOf(i) \in claims
      /\ PairOf(i) = {s.source, s.target}
  BY DEF SessionsKept, PairOf
<1>4. SessionsKept'
  BY <1>3, SessionWritten, Zenon
<1> QED
  BY <1>1, <1>2, <1>4

\* CallMade: the handler of a session goes on.
LEMMA CallMade ==
    ASSUME SessionsKept, CallsKept, NEW i \in Ids, sessions[i] # None, NEW by \in Addrs \cup {None},
           NEW at \in {"state", "fallback", "retry"}, NEW state \in Finished,
           GoesOn(i, by, at, state), \A j \in Ids : sessions[j] # None => sessions'[j] # None
    PROVE  CallsKept' /\ calls \subseteq calls' /\ \E u \in calls' : u.id = i /\ u.at = at
<1> DEFINE u == [id |-> i, net |-> sessions[i].net, by |-> by, at |-> at, state |-> state,
                 attempt |-> 0]
<1>1. calls' = calls \cup {u}
  BY DEF GoesOn
<1>2. sessions[i].net \in Networks /\ 0 \in 0..MaxAttempts
  BY PunchAssumption DEF SessionsKept, Session
<1>3. u \in Call /\ u.id = i /\ u.at = at
  BY <1>2 DEF Call
<1> HIDE DEF u
<1>4. \A v \in calls : v \in Call /\ v.id \in Ids /\ sessions[v.id] # None
  BY DEF CallsKept, Call
<1>5. CallsKept'
  BY <1>1, <1>3, <1>4 DEF CallsKept
<1> QED
  BY <1>1, <1>3, <1>5

\* Goes: a session with a handler that is to end the cooldown, or without a
\* result, is running; the others run on.
LEMMA Goes ==
    ASSUME CooldownKept, NEW i \in Ids, sessions'[i] # None,
           \A j \in Ids : PairOf(j)' = PairOf(j) /\ (j # i => sessions'[j] = sessions[j]),
           \A u \in calls : u.id # i => u \in calls',
           \/ sessions'[i].state \in Unfinished
           \/ \E u \in calls' : u.id = i /\ u.at # "retry",
           cooldown' = cooldown
    PROVE  CooldownKept'
<1>1. ASSUME NEW p, NEW j \in Ids, Running(p, j)
      PROVE  Running(p, j)'
  <2>1. CASE j = i
    BY <1>1, <2>1 DEF Running
  <2>2. CASE j # i
    BY <1>1, <2>2 DEF Running
  <2> QED
    BY <2>1, <2>2
<1> QED
  BY <1>1, CooldownGoesOn

\* AckKeeps: an ack leaves the session without a result, or makes it failed, and
\* its handler goes on to end the cooldown.
LEMMA AckKeeps ==
    ASSUME PunchInv, NEW i \in Ids, NEW a \in Addrs, NEW accepted \in BOOLEAN,
           NEW phase \in Unfinished, HandlePunchAck(i, a, accepted, phase)
    PROVE  PunchInv'
<1> DEFINE acks == sessions[i].acks \cup {a}
           state == IF ~accepted THEN "failed"
                    ELSE IF Cardinality(acks) >= 2 THEN "waiting"
                    ELSE IF phase = "scheduled" THEN "sending" ELSE phase
           s == [sessions[i] EXCEPT !.acks = acks, !.state = state]
<1>1. /\ sessions[i] # None
      /\ sessions' = [sessions EXCEPT ![i].acks = acks, ![i].state = state]
      /\ accepted => calls' = calls
      /\ ~accepted => GoesOn(i, a, "fallback", "failed")
      /\ UNCHANGED <<status, build, cooldown, claims, retry>>
  BY DEF HandlePunchAck
<1>2. sessions[i] \in Session
  BY <1>1 DEF PunchInv, SessionsKept
<1>3. acks \in SUBSET Addrs
  BY <1>2 DEF Session
<1>4. state \in Unfinished \cup Finished /\ (accepted => state \in Unfinished)
  BY DEF Unfinished, Finished
<1> HIDE DEF acks, state
<1>5. sessions' = [sessions EXCEPT ![i] = s]
  BY <1>1, <1>2, Zenon DEF PunchInv, SessionsKept, Session
<1>6. /\ s \in Session /\ s.source = sessions[i].source /\ s.target = sessions[i].target
      /\ s.attempt = sessions[i].attempt /\ s.claim = sessions[i].claim /\ s.state = state
  BY <1>2, <1>3, <1>4, Zenon DEF Session
<1> HIDE DEF s
<1>7. /\ SessionsKept' /\ sessions'[i] = s
      /\ \A j \in Ids : /\ sessions[j] # None => sessions'[j] # None
                        /\ PairOf(j)' = PairOf(j)
                        /\ j # i => sessions'[j] = sessions[j]
  BY <1>1, <1>5, <1>6, SessionUpdated, Zenon DEF PunchInv
<1>8. /\ CallsKept' /\ calls \subseteq calls'
      /\ ~accepted => \E u \in calls' : u.id = i /\ u.at = "fallback"
  <2>1. CASE accepted
    <3>1. \A v \in calls : v.id \in Ids /\ sessions[v.id] # None
      BY DEF PunchInv, CallsKept, Call
    <3> QED
      BY <1>1, <1>7, <2>1, <3>1, Zenon DEF PunchInv, CallsKept
  <2>2. CASE ~accepted
    <3>1. "failed" \in Finished /\ "fallback" \in {"state", "fallback", "retry"}
      BY DEF Finished
    <3>2. sessions[i] # None /\ GoesOn(i, a, "fallback", "failed") /\ a \in Addrs \cup {None}
      BY <1>1, <2>2
    <3>3. \A j \in Ids : sessions[j] # None => sessions'[j] # None
      BY <1>7
    <3>4. SessionsKept /\ CallsKept
      BY DEF PunchInv
    <3>5. /\ CallsKept' /\ calls \subseteq calls'
          /\ \E u \in calls' : u.id = i /\ u.at = "fallback"
      BY ONLY <3>1, <3>2, <3>3, <3>4, i \in Ids, CallMade
    <3> QED
      BY <3>5
  <2> QED
    BY <2>1, <2>2
<1>9. CooldownKept'
  <2>1. sessions'[i].state \in Unfinished \/ \E u \in calls' : u.id = i /\ u.at # "retry"
    BY <1>4, <1>6, <1>7, <1>8
  <2> QED
    BY <1>1, <1>7, <1>8, <2>1, Goes, Zenon DEF PunchInv
<1> QED
  BY <1>1, <1>7, <1>8, <1>9, BuildsSame, PairsSame DEF PunchInv

\* StateWritten: the session with only its state replaced.
LEMMA StateWritten ==
    ASSUME NEW old \in Session, NEW state \in Finished
    PROVE  LET s == [old EXCEPT !.state = state]
           IN  /\ s \in Session /\ s.source = old.source /\ s.target = old.target
               /\ s.attempt = old.attempt /\ s.claim = old.claim /\ s.state = state
BY DEF Session

\* ResultKeeps: the handler of a result is to end the cooldown.
LEMMA ResultKeeps ==
    ASSUME PunchInv, NEW i \in Ids, NEW a \in Addrs, NEW state \in Finished,
           HandlePunchResult(i, a, state)
    PROVE  PunchInv'
<1> DEFINE s == [sessions[i] EXCEPT !.state = state]
<1>1. /\ sessions[i] # None /\ sessions' = [sessions EXCEPT ![i] = s]
      /\ GoesOn(i, a, "fallback", state)
      /\ UNCHANGED <<status, build, cooldown, claims, retry>>
  BY DEF HandlePunchResult
<1>2. sessions[i] \in Session
  BY <1>1 DEF PunchInv, SessionsKept
<1>3. /\ s \in Session /\ s.source = sessions[i].source /\ s.target = sessions[i].target
      /\ s.attempt = sessions[i].attempt /\ s.claim = sessions[i].claim
  BY <1>2, StateWritten
<1> HIDE DEF s
<1>4. /\ SessionsKept' /\ sessions'[i] = s
      /\ \A j \in Ids : /\ sessions[j] # None => sessions'[j] # None
                        /\ PairOf(j)' = PairOf(j)
                        /\ j # i => sessions'[j] = sessions[j]
  BY <1>1, <1>3, SessionUpdated, Zenon DEF PunchInv
<1>5. "fallback" \in {"state", "fallback", "retry"}
  OBVIOUS
<1>6. /\ CallsKept' /\ calls \subseteq calls'
      /\ \E u \in calls' : u.id = i /\ u.at = "fallback"
  BY <1>1, <1>4, <1>5, CallMade DEF PunchInv
<1>7. CooldownKept'
  <2>1. \E u \in calls' : u.id = i /\ u.at # "retry"
    BY <1>6
  <2> QED
    BY <1>1, <1>4, <1>6, <2>1, Goes DEF PunchInv
<1> QED
  BY <1>1, <1>4, <1>6, <1>7, BuildsSame, PairsSame DEF PunchInv

\* SweepKeeps: ReconcilePunchSessions finds an overdue session.
LEMMA SweepKeeps ==
    ASSUME PunchInv, NEW i \in Ids, ReconcilePunchSessions(i)
    PROVE  PunchInv'
<1>1. /\ sessions[i] # None /\ GoesOn(i, None, "state", "timeout")
      /\ UNCHANGED <<status, build, sessions, cooldown, claims, retry>>
  BY DEF ReconcilePunchSessions, Overdue
<1>2. "timeout" \in Finished /\ "state" \in {"state", "fallback", "retry"}
      /\ None \in Addrs \cup {None}
  BY DEF Finished
<1>3. CallsKept' /\ calls \subseteq calls'
  BY <1>1, <1>2, CallMade DEF PunchInv
<1>4. \A p, j : Running(p, j) => Running(p, j)'
  BY <1>1, <1>3 DEF Running, PairOf
<1> QED
  BY <1>1, <1>3, <1>4, BuildsSame, SessionsSame, PairsSame, CooldownGoesOn DEF PunchInv

\* CallIsCall: the handlers under way.
LEMMA CallIsCall ==
    ASSUME PunchInv, NEW u \in calls
    PROVE  /\ u \in Call /\ u.id \in Ids /\ u.state \in Finished
           /\ u.attempt \in 0..MaxAttempts
           /\ sessions[u.id] # None /\ sessions[u.id] \in Session /\ PairOf(u.id) \in Pairs
<1>1. u \in Call /\ u.id \in Ids /\ u.state \in Finished /\ u.attempt \in 0..MaxAttempts
  BY DEF PunchInv, CallsKept, Call
<1>2. sessions[u.id] # None
  BY DEF PunchInv, CallsKept
<1>3. sessions[u.id] \in Session /\ sessions[u.id].source # sessions[u.id].target
  BY <1>1, <1>2 DEF PunchInv, SessionsKept
<1>4. sessions[u.id].source \in Addrs /\ sessions[u.id].target \in Addrs
  BY <1>3 DEF Session
<1> QED
  BY <1>1, <1>2, <1>3, <1>4, PairIsPair DEF PairOf

\* CallsWritten: a handler goes on, as w, or ends.
LEMMA CallsWritten ==
    ASSUME CallsKept, NEW u \in calls, NEW w, w \in Call, w.id = u.id,
           calls' \subseteq (calls \ {u}) \cup {w},
           \A j \in Ids : sessions[j] # None => sessions'[j] # None
    PROVE  CallsKept'
<1>1. \A v \in calls : v \in Call /\ v.id \in Ids /\ sessions[v.id] # None
  BY DEF CallsKept, Call
<1>2. \A v \in calls' : v \in Call /\ sessions'[v.id] # None
  BY <1>1
<1> QED
  BY <1>2 DEF CallsKept

\* TimeoutKeeps: the sweep writes the state; it is still to end the cooldown.
LEMMA TimeoutKeeps ==
    ASSUME PunchInv, NEW u \in calls, WriteTimeout(u)
    PROVE  PunchInv'
<1> DEFINE i == u.id
           s == [sessions[i] EXCEPT !.state = u.state]
           w == [u EXCEPT !.at = "fallback"]
<1>1. /\ sessions' = [sessions EXCEPT ![i] = s] /\ calls' = (calls \ {u}) \cup {w}
      /\ UNCHANGED <<status, build, cooldown, claims, retry>>
  BY DEF WriteTimeout
<1>2. u \in Call /\ i \in Ids /\ u.state \in Finished /\ sessions[i] # None /\ sessions[i] \in Session
  BY CallIsCall
<1>3. /\ s \in Session /\ s.source = sessions[i].source /\ s.target = sessions[i].target
      /\ s.attempt = sessions[i].attempt /\ s.claim = sessions[i].claim
  BY <1>2, StateWritten
<1>4. w \in Call /\ w.id = i /\ w.at = "fallback"
  BY <1>2 DEF Call
<1> HIDE DEF i, s, w
<1>5. /\ SessionsKept' /\ sessions'[i] = s
      /\ \A j \in Ids : /\ sessions[j] # None => sessions'[j] # None
                        /\ PairOf(j)' = PairOf(j)
                        /\ j # i => sessions'[j] = sessions[j]
  BY <1>1, <1>2, <1>3, SessionUpdated, Zenon DEF PunchInv
<1>6. CallsKept'
  BY <1>1, <1>4, <1>5, CallsWritten DEF PunchInv, i
<1>7. CooldownKept'
  <2>1. \E v \in calls' : v.id = i /\ v.at # "retry"
    BY <1>1, <1>4
  <2>2. sessions'[i] # None /\ \A v \in calls : v.id # i => v \in calls'
    BY <1>1, <1>2, <1>5 DEF i
  <2> QED
    BY <1>1, <1>2, <1>5, <2>1, <2>2, Goes DEF PunchInv
<1> QED
  BY <1>1, <1>5, <1>6, <1>7, BuildsSame, PairsSame DEF PunchInv

\* FallbackKeeps: the pair no longer cools down, so none of its sessions has to
\* be running; the sessions of the other pairs are left alone.
LEMMA FallbackKeeps ==
    ASSUME PunchInv, NEW u \in calls, WriteFallback(u)
    PROVE  PunchInv'
<1> DEFINE i == u.id
           f == u.state # "success"
           s == [sessions[i] EXCEPT !.fallback = f]
           w == [u EXCEPT !.at = "retry", !.attempt = retry[PairOf(i)].attempt]
<1>1. /\ sessions' = [sessions EXCEPT ![i] = s]
      /\ cooldown' = cooldown \ {PairOf(i)}
      /\ \/ retry' = [retry EXCEPT ![PairOf(i)] = NoRetry]
         \/ retry' = retry
      /\ calls' \subseteq (calls \ {u}) \cup {w} /\ calls \ {u} \subseteq calls'
      /\ UNCHANGED <<status, build, claims>>
  BY DEF WriteFallback
<1>2. /\ u \in Call /\ i \in Ids /\ sessions[i] # None /\ sessions[i] \in Session
      /\ PairOf(i) \in Pairs
  BY CallIsCall
<1>3. retry[PairOf(i)].attempt \in 0..MaxAttempts
  BY <1>2 DEF PunchInv, PairsKept, Retry
<1>4. w \in Call /\ w.id = i
  BY <1>2, <1>3, Zenon DEF Call
<1>5. f \in BOOLEAN
  OBVIOUS
<1> HIDE DEF i, f, w
<1>6. /\ s \in Session /\ s.source = sessions[i].source /\ s.target = sessions[i].target
      /\ s.attempt = sessions[i].attempt /\ s.claim = sessions[i].claim
  BY <1>2, <1>5 DEF Session
<1> HIDE DEF s
<1>7. /\ SessionsKept'
      /\ \A j \in Ids : /\ sessions[j] # None => sessions'[j] # None
                        /\ PairOf(j)' = PairOf(j)
                        /\ j # i => sessions'[j] = sessions[j]
  BY <1>1, <1>2, <1>6, SessionUpdated, Zenon DEF PunchInv
<1>8. CallsKept'
  BY <1>1, <1>4, <1>7, CallsWritten DEF PunchInv, i
<1>9. PairsKept'
  <2>1. retry' \in [Pairs -> Retry]
    BY <1>1, NoRetryIsRetry DEF PunchInv, PairsKept
  <2> QED
    BY <1>1, <2>1 DEF PunchInv, PairsKept
<1>10. CooldownKept'
  <2>1. ASSUME NEW p \in cooldown', NEW j \in Ids, Running(p, j)
        PROVE  Running(p, j)'
    <3>1. j # i
      BY <1>1, <2>1 DEF Running
    <3>2. sessions'[j] = sessions[j] /\ PairOf(j)' = PairOf(j)
      BY <1>7, <3>1
    <3>3. \A v \in calls : v.id = j => v \in calls'
      BY <1>1, <3>1 DEF i
    <3> QED
      BY <2>1, <3>2, <3>3 DEF Running
  <2> QED
    BY <1>1, <2>1, CooldownGoesOn DEF PunchInv
<1> QED
  BY <1>1, <1>7, <1>8, <1>9, <1>10, BuildsSame DEF PunchInv

\* RetryKeeps: the last write of a handler.  Its session counted as running for
\* another reason, if it did.
LEMMA RetryKeeps ==
    ASSUME PunchInv, NEW u \in calls, WriteRetry(u)
    PROVE  PunchInv'
<1> DEFINE k == IF u.attempt < MaxAttempts THEN u.attempt + 1 ELSE MaxAttempts
           r == [attempt |-> k, wait |-> TRUE]
<1>1. /\ u.at = "retry" /\ retry' = [retry EXCEPT ![PairOf(u.id)] = r]
      /\ calls' = calls \ {u}
      /\ UNCHANGED <<status, build, sessions, cooldown, claims>>
  BY DEF WriteRetry
<1>2. u \in Call /\ u.attempt \in 0..MaxAttempts /\ PairOf(u.id) \in Pairs
  BY CallIsCall
<1>3. k \in 0..MaxAttempts
  BY <1>2, PunchAssumption
<1> HIDE DEF k
<1>4. r \in Retry
  BY <1>3 DEF Retry
<1> HIDE DEF r
<1>5. PairsKept'
  BY <1>1, <1>2, <1>4, RetryWritten, Zenon DEF PunchInv
<1>6. CallsKept'
  BY <1>1 DEF PunchInv, CallsKept
<1>7. \A p, j : Running(p, j) => Running(p, j)'
  BY <1>1 DEF Running, PairOf
<1>8. CooldownKept'
  BY <1>1, <1>7, CooldownGoesOn DEF PunchInv
<1> QED
  BY <1>1, <1>5, <1>6, <1>8, BuildsSame, SessionsSame DEF PunchInv

--------------------------------------------------------------------------------
(* Time *)

\* DeadlineKeeps: the deadline of a session passes.
LEMMA DeadlineKeeps ==
    ASSUME PunchInv, NEW i \in Ids, DeadlinePasses(i)
    PROVE  PunchInv'
<1> DEFINE s == [sessions[i] EXCEPT !.late = TRUE]
<1>1. /\ sessions[i] # None /\ sessions' = [sessions EXCEPT ![i] = s]
      /\ UNCHANGED <<status, build, cooldown, claims, retry, calls>>
  BY DEF DeadlinePasses, pairVars
<1>2. sessions[i] \in Session
  BY <1>1 DEF PunchInv, SessionsKept
<1>3. /\ s \in Session /\ s.source = sessions[i].source /\ s.target = sessions[i].target
      /\ s.attempt = sessions[i].attempt /\ s.claim = sessions[i].claim
      /\ s.state = sessions[i].state
  BY <1>2, Zenon DEF Session
<1> HIDE DEF s
<1>4. /\ SessionsKept' /\ sessions'[i] = s
      /\ \A j \in Ids : /\ sessions[j] # None => sessions'[j] # None
                        /\ PairOf(j)' = PairOf(j)
                        /\ j # i => sessions'[j] = sessions[j]
  BY <1>1, <1>3, SessionUpdated, Zenon DEF PunchInv
<1>5. \A v \in calls : v.id \in Ids /\ sessions[v.id] # None
  BY DEF PunchInv, CallsKept, Call
<1>6. CallsKept'
  BY <1>1, <1>4, <1>5 DEF PunchInv, CallsKept
<1>7. \A p : \A j \in Ids : Running(p, j) => Running(p, j)'
  BY <1>1, <1>3, <1>4 DEF Running
<1>8. CooldownKept'
  BY <1>1, <1>7, CooldownGoesOn DEF PunchInv
<1> QED
  BY <1>1, <1>4, <1>6, <1>8, BuildsSame, PairsSame DEF PunchInv

\* ExpiryKeeps: a session that no cooldown, claim or handler needs is forgotten.
LEMMA ExpiryKeeps ==
    ASSUME PunchInv, NEW i \in Ids, SessionExpires(i)
    PROVE  PunchInv'
<1>1. /\ PairOf(i) \notin cooldown /\ \A u \in calls : u.id # i
      /\ sessions' = [sessions EXCEPT ![i] = None]
      /\ UNCHANGED <<status, build, cooldown, claims, retry, calls>>
  BY DEF SessionExpires, pairVars
<1>2. /\ sessions' \in [Ids -> Session \cup {None}] /\ sessions'[i] = None
      /\ \A j \in Ids \ {i} : sessions'[j] = sessions[j]
  BY <1>1 DEF PunchInv, SessionsKept
<1>3. \A j \in Ids \ {i} : PairOf(j)' = PairOf(j)
  BY <1>2 DEF PairOf
<1>4. OneManualPunch'
  BY <1>2, <1>3 DEF PunchInv, SessionsKept, OneManualPunch
<1>5. SessionsKept'
  <2>1. ASSUME NEW j \in Ids, sessions'[j] # None
        PROVE  j # i /\ sessions'[j] = sessions[j] /\ PairOf(j)' = PairOf(j)
    BY <1>2, <1>3, <2>1
  <2> QED
    BY <1>1, <1>2, <1>4, <2>1 DEF PunchInv, SessionsKept
<1>6. \A v \in calls : v.id \in Ids /\ sessions[v.id] # None
  BY DEF PunchInv, CallsKept, Call
<1>7. CallsKept'
  BY <1>1, <1>2, <1>6 DEF PunchInv, CallsKept
<1>8. ASSUME NEW p \in cooldown', NEW j \in Ids, Running(p, j)
      PROVE  Running(p, j)'
  <2>1. j # i
    BY <1>1, <1>8 DEF Running
  <2> QED
    BY <1>1, <1>2, <1>3, <1>8, <2>1 DEF Running
<1>9. CooldownKept'
  BY <1>1, <1>8, CooldownGoesOn DEF PunchInv
<1> QED
  BY <1>1, <1>5, <1>7, <1>9, BuildsSame, PairsSame DEF PunchInv

\* CooldownEndKeeps: the 20 seconds of a cooldown are over.
LEMMA CooldownEndKeeps ==
    ASSUME PunchInv, NEW p \in Pairs, CooldownExpires(p)
    PROVE  PunchInv'
<1>1. cooldown' = cooldown \ {p} /\ UNCHANGED <<status, build, sessions, claims, retry, calls>>
  BY DEF CooldownExpires
<1>2. PairsKept'
  BY <1>1 DEF PunchInv, PairsKept
<1>3. \A q, j : Running(q, j) => Running(q, j)'
  BY <1>1 DEF Running, PairOf
<1>4. CooldownKept'
  BY <1>1, <1>3, CooldownGoesOn DEF PunchInv
<1> QED
  BY <1>1, <1>2, <1>4, BuildsSame, SessionsSame, CallsSame DEF PunchInv

\* ClaimEndKeeps: the dedup window of a pair is over; its sessions no longer
\* count as claimed.
LEMMA ClaimEndKeeps ==
    ASSUME PunchInv, NEW p \in Pairs, ClaimExpires(p)
    PROVE  PunchInv'
<1>1. /\ claims' = claims \ {p}
      /\ sessions' = [i \in Ids |-> IF sessions[i] # None /\ PairOf(i) = p
                                    THEN [sessions[i] EXCEPT !.claim = FALSE] ELSE sessions[i]]
      /\ UNCHANGED <<status, build, cooldown, retry, calls>>
  BY DEF ClaimExpires
<1>2. ASSUME NEW i \in Ids, sessions[i] # None
      PROVE  /\ sessions'[i] # None /\ sessions'[i] \in Session
             /\ sessions'[i].source = sessions[i].source
             /\ sessions'[i].target = sessions[i].target
             /\ sessions'[i].attempt = sessions[i].attempt
             /\ sessions'[i].state = sessions[i].state
             /\ sessions'[i].claim => sessions[i].claim /\ PairOf(i) # p
  <2>1. sessions[i] \in Session
    BY <1>2 DEF PunchInv, SessionsKept
  <2>2. CASE PairOf(i) = p
    <3>1. sessions'[i] = [sessions[i] EXCEPT !.claim = FALSE]
      BY <1>1, <1>2, <2>2
    <3>2. sessions'[i] \in Session
      BY <2>1, <3>1, Zenon DEF Session
    <3>3. ~sessions'[i].claim
      BY <2>1, <3>1 DEF Session
    <3> QED
      BY <2>1, <3>1, <3>2, <3>3, PunchAssumption, Zenon DEF Session
  <2>3. CASE PairOf(i) # p
    BY <1>1, <1>2, <2>1, <2>3
  <2> QED
    BY <2>2, <2>3
<1>3. \A i \in Ids : sessions[i] = None => sessions'[i] = None
  BY <1>1
<1>4. sessions' \in [Ids -> Session \cup {None}]
  <2>1. \A i \in Ids : sessions'[i] \in Session \cup {None}
    BY <1>2, <1>3
  <2> QED
    BY <1>1, <2>1
<1>5. \A i \in Ids : sessions[i] # None => PairOf(i)' = PairOf(i)
  BY <1>2 DEF PairOf
<1>6. OneManualPunch'
  <2> SUFFICES ASSUME NEW i \in Ids, NEW j \in Ids,
                      sessions'[i] # None, sessions'[i].claim,
                      sessions'[j] # None, sessions'[j].claim, PairOf(i)' = PairOf(j)'
               PROVE  i = j
    BY DEF OneManualPunch
  <2>1. /\ sessions[i] # None /\ sessions[i].claim /\ sessions[j] # None /\ sessions[j].claim
        /\ PairOf(i) = PairOf(j)
    BY <1>2, <1>3, <1>5
  <2> QED
    BY <2>1 DEF PunchInv, SessionsKept, OneManualPunch
<1>7. SessionsKept'
  <2>1. ASSUME NEW i \in Ids, sessions'[i] # None
        PROVE  /\ sessions'[i].source # sessions'[i].target
               /\ sessions'[i].attempt <= MaxAttempts
               /\ sessions'[i].claim => PairOf(i)' \in claims'
    <3>1. sessions[i] # None
      BY <1>3, <2>1
    <3> QED
      BY <1>1, <1>2, <1>5, <3>1 DEF PunchInv, SessionsKept
  <2> QED
    BY <1>4, <1>6, <2>1 DEF SessionsKept
<1>8. CallsKept'
  <2>1. \A v \in calls : v.id \in Ids /\ sessions[v.id] # None
    BY DEF PunchInv, CallsKept, Call
  <2> QED
    BY <1>1, <1>2, <2>1 DEF PunchInv, CallsKept
<1>9. PairsKept'
  BY <1>1 DEF PunchInv, PairsKept
<1>10. \A q : \A j \in Ids : Running(q, j) => Running(q, j)'
  BY <1>1, <1>2, <1>5 DEF Running
<1>11. CooldownKept'
  BY <1>1, <1>10, CooldownGoesOn DEF PunchInv
<1> QED
  BY <1>1, <1>7, <1>8, <1>9, <1>11, BuildsSame DEF PunchInv

\* BackoffEndKeeps: the backoff of a pair is over.
LEMMA BackoffEndKeeps ==
    ASSUME PunchInv, NEW p \in Pairs, BackoffEnds(p)
    PROVE  PunchInv'
<1>1. retry[p] \in Retry
  BY DEF PunchInv, PairsKept
<1>2. [retry[p] EXCEPT !.wait = FALSE] \in Retry
  BY <1>1, Zenon DEF Retry
<1>3. PairsKept'
  BY <1>2, RetryWritten, Zenon DEF PunchInv, BackoffEnds
<1> QED
  BY <1>3, BuildsSame, SessionsSame, CallsSame, CooldownSame DEF PunchInv, BackoffEnds

\* RetryEndKeeps: the retry state of a pair is forgotten.
LEMMA RetryEndKeeps ==
    ASSUME PunchInv, NEW p \in Pairs, RetryExpires(p)
    PROVE  PunchInv'
<1>1. PairsKept'
  BY NoRetryIsRetry, RetryWritten, Zenon DEF PunchInv, RetryExpires
<1> QED
  BY <1>1, BuildsSame, SessionsSame, CallsSame, CooldownSame DEF PunchInv, RetryExpires

--------------------------------------------------------------------------------
(* The specification *)

\* PunchInitially: the server starts without sessions.
LEMMA PunchInitially == PunchInit => PunchInv
<1> SUFFICES ASSUME PunchInit PROVE PunchInv
  OBVIOUS
<1> USE DEF PunchInit
<1>1. BuildsKept
  <2>1. build \in [Networks -> [Addrs -> Build]]
    BY IdleIsBuild
  <2>2. \A n \in Networks, a \in Addrs : build[n][a] = Idle /\ a # None
    BY PunchAssumption
  <2> QED
    BY <2>1, <2>2, IdleIsBuild DEF BuildsKept
<1>2. SessionsKept
  BY DEF SessionsKept, OneManualPunch
<1>3. PairsKept
  BY NoRetryIsRetry DEF PairsKept
<1> QED
  BY <1>1, <1>2, <1>3 DEF PunchInv, CallsKept, CooldownKept

\* PunchStep: every step keeps the invariant.
LEMMA PunchStep == PunchInv /\ [PunchNext]_punchVars => PunchInv'
<1> SUFFICES ASSUME PunchInv, [PunchNext]_punchVars PROVE PunchInv'
  OBVIOUS
<1>1. ASSUME NEW n \in Networks, NEW a \in Addrs, NEW report \in StatusReports,
             HandleClientStatusInfo(n, a, report)
      PROVE  PunchInv'
  BY <1>1, ReportKeeps
<1>2. ASSUME NEW n \in Networks, NEW a \in Addrs,
             \/ ClientLeaves(n, a) \/ BuildBegins(n, a) \/ StartPunch(n, a) \/ BuildEnds(n, a)
      PROVE  PunchInv'
  BY <1>2, LeaveKeeps, BeginKeeps, StartKeeps, EndKeeps
<1>3. ASSUME NEW n \in Networks, NEW a \in Addrs, NEW t \in Addrs, TryTarget(n, a, t)
      PROVE  PunchInv'
  BY <1>3, TryKeeps
<1>4. ASSUME NEW n \in Networks, NEW a \in Addrs, NEW t \in Addrs, NEW i \in Ids,
             HandlePunchRequest(n, a, t, i)
      PROVE  PunchInv'
  BY <1>4, RequestKeeps
<1>5. ASSUME NEW i \in Ids, NEW a \in Addrs, NEW ack \in Answers \cap {"accept", "reject"},
             NEW phase \in Unfinished, HandlePunchAck(i, a, ack = "accept", phase)
      PROVE  PunchInv'
  <2>1. CASE ack = "accept"
    <3>1. HandlePunchAck(i, a, TRUE, phase)
      BY <1>5, <2>1 DEF HandlePunchAck
    <3> QED
      BY <3>1, AckKeeps, Zenon
  <2>2. CASE ack # "accept"
    <3>1. HandlePunchAck(i, a, FALSE, phase)
      BY <1>5, <2>2 DEF HandlePunchAck
    <3> QED
      BY <3>1, AckKeeps, Zenon
  <2> QED
    BY <2>1, <2>2
<1>6. ASSUME NEW i \in Ids, NEW a \in Addrs, NEW state \in Answers \cap Finished,
             HandlePunchResult(i, a, state)
      PROVE  PunchInv'
  BY <1>6, ResultKeeps
<1>7. ASSUME NEW i \in Ids, ReconcilePunchSessions(i) \/ DeadlinePasses(i) \/ SessionExpires(i)
      PROVE  PunchInv'
  BY <1>7, SweepKeeps, DeadlineKeeps, ExpiryKeeps
<1>8. ASSUME NEW u \in calls, WriteTimeout(u) \/ WriteFallback(u) \/ WriteRetry(u)
      PROVE  PunchInv'
  BY <1>8, TimeoutKeeps, FallbackKeeps, RetryKeeps
<1>9. ASSUME NEW p \in Pairs,
             CooldownExpires(p) \/ ClaimExpires(p) \/ BackoffEnds(p) \/ RetryExpires(p)
      PROVE  PunchInv'
  BY <1>9, CooldownEndKeeps, ClaimEndKeeps, BackoffEndKeeps, RetryEndKeeps
<1>10. CASE UNCHANGED punchVars
  <2>1. UNCHANGED <<status, build, sessions, cooldown, claims, retry, calls>>
    BY <1>10 DEF punchVars, pairVars
  <2> QED
    BY <2>1, BuildsSame, SessionsSame, PairsSame, CallsSame, CooldownSame DEF PunchInv
<1> QED
  BY <1>1, <1>2, <1>3, <1>4, <1>5, <1>6, <1>7, <1>8, <1>9, <1>10 DEF PunchNext

\* PunchInvariant: the inductive invariant holds throughout.
THEOREM PunchInvariant == PunchSpec => []PunchInv
BY PunchInitially, PunchStep, PTL DEF PunchSpec

\* PunchTypeCorrect: no handler makes a client its own target, and the session a
\* handler or the sweep is still writing is never forgotten meanwhile.
THEOREM PunchTypeCorrect == PunchSpec => []PunchTypeOK
<1>1. PunchInv => PunchTypeOK
  BY DEF PunchInv, BuildsKept, SessionsKept, PairsKept, CallsKept, PunchTypeOK
<1> QED
  BY <1>1, PunchInvariant, PTL

\* BudgetKept: no PunchStart goes beyond maxPunchAttemptsPerPair, although the
\* count is read some steps before the session is filed.
THEOREM BudgetKept == PunchSpec => []AttemptsWithinBudget
<1>1. PunchInv => AttemptsWithinBudget
  BY DEF PunchInv, SessionsKept, AttemptsWithinBudget
<1> QED
  BY <1>1, PunchInvariant, PTL

\* ManualPunchOnce: within the dedup window a pair has one manual session, however
\* many clients report it at the same time.
THEOREM ManualPunchOnce == PunchSpec => []OneManualPunch
<1>1. PunchInv => OneManualPunch
  BY DEF PunchInv, SessionsKept
<1> QED
  BY <1>1, PunchInvariant, PTL

\* CoolsWhileRunning: a pair that cools down has a session that has not ended, or
\* whose end is being written.
THEOREM CoolsWhileRunning == PunchSpec => []CooldownWhileRunning
<1>1. PunchInv => CooldownWhileRunning
  BY DEF PunchInv, CooldownKept, Running, CooldownWhileRunning
<1> QED
  BY <1>1, PunchInvariant, PTL

================================================================================
