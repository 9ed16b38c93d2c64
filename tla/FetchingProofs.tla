---------------------------- MODULE FetchingProofs ----------------------------
(***************************************************************************)
(* Proofs about Fetching, for any threads, sites, attempts and backoffs:   *)
(* the downloads and their throttle, then the walk of the sitemap index.   *)
(* What a urlset adds is a recursive function of its entries; that what is *)
(* claimed of it holds after each entry is proved by looking at the first  *)
(* entry after which it would not.                                         *)
(***************************************************************************)
EXTENDS Fetching, FiniteSetTheorems, WellFoundedInduction, TLAPS

-----------------------------------------------------------------------------
(* Backoffs.                                                               *)

LEMMA LargerFacts ==
  ASSUME NEW a \in Int, NEW b \in Int
  PROVE  /\ Larger(a, b) \in {a, b} /\ Larger(a, b) >= a /\ Larger(a, b) >= b
BY DEF Larger

LEMMA DoubledType == \A n \in 0..MaxAttempts : Doubled[n] \in Nat
<1> SUFFICES ASSUME NEW n \in 0..MaxAttempts PROVE Doubled[n] \in Nat
  OBVIOUS
<1>1. 2 ^ n \in Nat /\ Second \in Nat
  BY PowersAssumption, DownloadAssumption
<1>2. \A x, y \in Nat : x * y \in Nat
  OBVIOUS
<1>3. Doubled[n] = 2 ^ n * Second
  BY DEF Doubled
<1> QED
  BY <1>1, <1>2, <1>3

LEMMA BackoffType ==
  ASSUME NEW attempt \in 0..(MaxAttempts - 1), NEW v \in RetryAfter
  PROVE  Backoff(attempt, v) \in Nat /\ Doubled[attempt] \in Nat
<1>1. attempt \in 0..MaxAttempts /\ attempt + 1 \in 0..MaxAttempts
  BY DownloadAssumption
<1>2. Doubled[attempt] \in Nat /\ Doubled[attempt + 1] \in Nat
  BY <1>1, DoubledType
<1>3. Larger(0, v) \in Nat /\ MaxRetryAfter \in Nat
  BY DownloadAssumption DEF Larger
<1>4. Smaller(MaxRetryAfter, Larger(0, v)) \in Nat
  BY <1>3 DEF Smaller
<1>5. \A x, y \in Nat : x * y \in Nat
  OBVIOUS
<1>6. Asked(v) \in Nat
  BY <1>4, <1>5, DownloadAssumption DEF Asked
<1> QED
  BY <1>2, <1>6 DEF Backoff, Larger

-----------------------------------------------------------------------------
(* The invariant.                                                          *)

\* The fetchers' jobs, and the numbers of module Download.
TypeInv ==
  /\ DownloadTypeOK
  /\ todo \in SUBSET Page
  /\ job \in [Fetcher -> Job]

\* Nobody may go before the longest backoff asked for has run out.
GateInv == gate >= owed

\* Requests of the round that is over.
Rounds(t) == IF t \in Fetcher /\ job[t].round = 1 THEN MaxAttempts ELSE 0
Bound(t) == IF t = Walker THEN MaxAttempts ELSE 2 * MaxAttempts

\* A request is one attempt of one round.
AskedInv ==
  \A t \in Thread :
    /\ asked[t] <= Bound(t)
    /\ get[t].phase \in {"throttle", "cleared", "held", "granted", "paused"} =>
         asked[t] <= Rounds(t) + get[t].attempt
    /\ get[t].phase \in {"open", "over"} => asked[t] <= Rounds(t) + get[t].attempt + 1

\* What a thread asks after the cancellation is what it was cleared for.
LateInv ==
  \A t \in Thread :
    /\ late[t] <= 1
    /\ ~cancel \/ get[t].phase \in {"cleared", "granted"} => late[t] = 0

\* In a backoff, only those have their turn who had it before.
AheadInv == owed > 0 => \A t \in Thread : get[t].phase = "granted" => t \in ahead

FetchingInv == TypeInv /\ GateInv /\ AheadInv /\ AskedInv /\ LateInv

LEMMA InitFetching == Init => FetchingInv
<1> SUFFICES ASSUME Init PROVE FetchingInv
  OBVIOUS
<1>1. NoGet \in Get /\ NoGet.phase = "none" /\ NoJob \in Job /\ NoJob.round = 0
  BY DownloadAssumption DEF NoGet, Get, Result, NoJob, Job
<1>2. /\ gate = 0 /\ owed = 0 /\ cancel = FALSE /\ todo = {}
      /\ \A t \in Thread : get[t] = NoGet /\ asked[t] = 0 /\ late[t] = 0
  BY DEF Init, DownloadInit
<1>3. TypeInv
  BY <1>1 DEF Init, DownloadInit, TypeInv, DownloadTypeOK
<1>4. \A t \in Thread : Bound(t) >= 0
  BY DownloadAssumption DEF Bound
<1> QED
  BY <1>1, <1>2, <1>3, <1>4 DEF FetchingInv, GateInv, AheadInv, AskedInv, LateInv

-----------------------------------------------------------------------------
(* A step of one thread.                                                   *)

\* What the invariant asks of one thread, after a step.
AskedOf(t) ==
  /\ asked[t] <= Bound(t)
  /\ get[t].phase \in {"throttle", "cleared", "held", "granted", "paused"} =>
       asked[t] <= Rounds(t) + get[t].attempt
  /\ get[t].phase \in {"open", "over"} => asked[t] <= Rounds(t) + get[t].attempt + 1
LateOf(t) ==
  /\ late[t] <= 1
  /\ ~cancel \/ get[t].phase \in {"cleared", "granted"} => late[t] = 0

LEMMA OneThread ==
  ASSUME FetchingInv, NEW t \in Thread, cancel' = cancel, AskedOf(t)', LateOf(t)',
         \A u \in Thread \ {t} :
           /\ get'[u] = get[u] /\ asked'[u] = asked[u] /\ late'[u] = late[u]
           /\ Rounds(u)' = Rounds(u)
  PROVE  AskedInv' /\ LateInv'
<1> SUFFICES ASSUME NEW u \in Thread PROVE AskedOf(u)' /\ LateOf(u)'
  BY DEF AskedInv, LateInv, AskedOf, LateOf
<1>1. CASE u = t
  BY <1>1
<1>2. CASE u # t
  BY <1>2 DEF FetchingInv, AskedInv, LateInv, AskedOf, LateOf, Bound
<1> QED
  BY <1>1, <1>2

LEMMA RoundsFacts ==
  ASSUME TypeInv, NEW t \in Thread
  PROVE  /\ Rounds(t) \in Nat /\ Bound(t) \in Nat
         /\ Rounds(t) + MaxAttempts <= Bound(t)
         /\ get[t] \in Get /\ get[t].attempt \in 0..(MaxAttempts - 1)
         /\ asked[t] \in Nat /\ late[t] \in Nat
BY DownloadAssumption, FetchingAssumption
   DEF Rounds, Bound, TypeInv, DownloadTypeOK, Get

\* The download of thread t goes on without a request.
LEMMA Waits ==
  ASSUME FetchingInv, NEW t \in Thread, UNCHANGED <<cancel, asked, late, todo, job>>, gate' >= owed',
         gate' \in Nat, owed' \in Nat,
         NEW g \in Get, get' = [get EXCEPT ![t] = g],
         \/ g.phase = "over" /\ get[t].phase # "none"
         \/ /\ get[t].phase \in {"throttle", "cleared", "held", "paused"}
            /\ g.phase \in {"throttle", "cleared", "held", "granted"}
         \/ get[t].phase = "open" /\ g.phase = "paused" /\ g.attempt = get[t].attempt + 1,
         g.phase # "paused" => g.attempt = get[t].attempt,
         g.phase \in {"cleared", "granted"} => get[t].phase = "cleared" \/ ~cancel,
         g.phase = "paused" => get[t].phase = "open",
         g.phase = "granted" => owed' = 0,
         ahead' \in SUBSET Thread,
         \/ owed' = owed /\ ahead' = ahead
         \/ owed > 0 /\ ahead' = ahead
         \/ \A u \in Thread : get[u].phase = "granted" => u \in ahead'
  PROVE  FetchingInv'
<1> USE DEF FetchingInv
<1>1. get'[t] = g /\ get' \in [Thread -> Get] /\ \A u \in Thread \ {t} : get'[u] = get[u]
  BY DEF TypeInv, DownloadTypeOK
<1>2. TypeInv'
  BY <1>1 DEF TypeInv, DownloadTypeOK
<1>3. \A u \in Thread : Rounds(u)' = Rounds(u)
  BY DEF Rounds
<1>4. AskedOf(t)'
  <2>1. asked'[t] <= Bound(t) /\ Rounds(t)' = Rounds(t)
    BY <1>3 DEF AskedInv
  <2>2. /\ get[t].phase \in {"throttle", "cleared", "held", "granted", "paused"} =>
             asked[t] <= Rounds(t) + get[t].attempt
        /\ get[t].phase \in {"open", "over"} => asked[t] <= Rounds(t) + get[t].attempt + 1
    BY DEF AskedInv
  <2>3. get[t].phase \in {"none", "throttle", "cleared", "held", "granted", "open", "paused", "over"}
    BY DEF TypeInv, DownloadTypeOK, Get
  <2>4. CASE g.phase \in {"throttle", "cleared", "held", "granted"}
    BY <1>1, <2>1, <2>2, <2>4 DEF AskedOf
  <2>5. CASE g.phase = "over"
    <3>1. Rounds(t) \in Nat /\ get[t].attempt \in Nat /\ asked[t] \in Nat
      BY RoundsFacts
    <3>2. get[t].phase # "none"
      BY <2>5
    <3>3. asked[t] <= Rounds(t) + get[t].attempt + 1
      BY <2>2, <2>3, <3>1, <3>2
    <3> QED
      BY <1>1, <2>1, <2>5, <3>3 DEF AskedOf
  <2>6. CASE g.phase = "paused"
    <3>1. Rounds(t) \in Nat /\ get[t].attempt \in Nat /\ asked[t] \in Nat /\ g.attempt \in Nat
      BY RoundsFacts DEF Get
    <3>2. get[t].phase = "open" /\ g.attempt = get[t].attempt + 1
      BY <2>6
    <3>3. asked[t] <= Rounds(t) + g.attempt
      BY <2>2, <3>1, <3>2
    <3> QED
      BY <1>1, <2>1, <2>6, <3>3 DEF AskedOf
  <2> QED
    BY <2>4, <2>5, <2>6
<1>5. LateOf(t)'
  BY <1>1 DEF LateInv, LateOf
<1>6. AskedInv' /\ LateInv'
  BY <1>1, <1>3, <1>4, <1>5, OneThread
<1>7. AheadInv'
  BY <1>1 DEF AheadInv, TypeInv, DownloadTypeOK
<1> QED
  BY <1>2, <1>6, <1>7 DEF GateInv

LEMMA DownloadWaits ==
  ASSUME FetchingInv, NEW t \in Thread, UNCHANGED fvars,
         \/ Clear(t) \/ Grant(t) \/ Hold(t) \/ Resume(t) \/ GiveUp(t) \/ Answer(t)
  PROVE  FetchingInv'
<1> USE DEF FetchingInv
<1>1. /\ get[t] \in Get /\ gate \in Nat /\ owed \in Nat /\ gate >= owed /\ Second \in Nat
      /\ Spacing \in Nat /\ ahead \in SUBSET Thread /\ UNCHANGED <<todo, job>>
  BY DownloadAssumption DEF TypeInv, DownloadTypeOK, GateInv, fvars
<1>2. CASE Clear(t)
  <2> DEFINE g == [get[t] EXCEPT !.phase = "cleared"]
  <2>1. /\ g \in Get /\ g.phase = "cleared" /\ g.attempt = get[t].attempt
        /\ get[t].phase = "throttle" /\ ~cancel
        /\ get' = [get EXCEPT ![t] = g] /\ UNCHANGED <<gate, owed, cancel, asked, late, ahead>>
    BY <1>1, <1>2 DEF Clear, Enter, Get
  <2> HIDE DEF g
  <2> QED
    BY <1>1, <2>1, Waits
<1>3. CASE Hold(t)
  <2> DEFINE g == [get[t] EXCEPT !.phase = "held", !.wait = Smaller(gate, Second)]
  <2>1. Smaller(gate, Second) \in Nat
    BY <1>1 DEF Smaller
  <2>2. /\ g \in Get /\ g.phase = "held" /\ g.attempt = get[t].attempt
        /\ get[t].phase = "cleared"
        /\ get' = [get EXCEPT ![t] = g] /\ UNCHANGED <<gate, owed, cancel, asked, late, ahead>>
    BY <1>1, <1>3, <2>1 DEF Hold, Get
  <2> HIDE DEF g
  <2> QED
    BY <1>1, <2>2, Waits
<1>4. CASE Resume(t)
  <2> DEFINE g == [get[t] EXCEPT !.phase = "throttle"]
  <2>1. /\ g \in Get /\ g.phase = "throttle" /\ g.attempt = get[t].attempt
        /\ get[t].phase \in {"held", "paused"}
        /\ get' = [get EXCEPT ![t] = g] /\ UNCHANGED <<gate, owed, cancel, asked, late, ahead>>
    BY <1>1, <1>4 DEF Resume, Enter, Get
  <2> HIDE DEF g
  <2> QED
    BY <1>1, <2>1, Waits
<1>5. CASE Grant(t)
  <2> DEFINE g == [get[t] EXCEPT !.phase = "granted"]
  <2>1. /\ g \in Get /\ g.phase = "granted" /\ g.attempt = get[t].attempt
        /\ get[t].phase = "cleared"
        /\ get' = [get EXCEPT ![t] = g] /\ UNCHANGED <<owed, cancel, asked, late, ahead>>
        /\ gate = 0 /\ gate' = Spacing
    BY <1>1, <1>5 DEF Grant, Enter, Get
  <2>2. owed = 0 /\ owed' = 0 /\ gate' \in Nat /\ gate' >= owed'
    BY <1>1, <2>1
  <2> HIDE DEF g
  <2> QED
    BY <1>1, <2>1, <2>2, Waits
<1>6. CASE GiveUp(t) \/ Answer(t)
  <2>1. PICK result \in Result : Return(t, result)
    BY <1>6 DEF GiveUp, Answer, Result
  <2> DEFINE g == [get[t] EXCEPT !.phase = "over", !.wait = 0, !.result = result]
  <2>2. /\ g \in Get /\ g.phase = "over" /\ g.attempt = get[t].attempt
        /\ get[t].phase # "none"
        /\ get' = [get EXCEPT ![t] = g] /\ UNCHANGED <<gate, owed, cancel, asked, late, ahead>>
    BY <1>1, <1>6, <2>1 DEF GiveUp, Answer, Return, Get
  <2> HIDE DEF g
  <2> QED
    BY <1>1, <2>2, Waits
<1> QED
  BY <1>2, <1>3, <1>4, <1>5, <1>6

LEMMA RetryWaits ==
  ASSUME FetchingInv, NEW t \in Thread, UNCHANGED <<cancel, asked, late, todo, job>>,
         get[t].phase = "open", NEW ticks \in Nat, Retry(t, ticks),
         gate' >= owed', gate' \in Nat, owed' \in Nat, ahead' \in SUBSET Thread,
         \/ owed' = owed /\ ahead' = ahead
         \/ owed > 0 /\ ahead' = ahead
         \/ \A u \in Thread : get[u].phase = "granted" => u \in ahead'
  PROVE  FetchingInv'
<1> USE DEF FetchingInv
<1>1. get[t] \in Get /\ get[t].attempt \in 0..(MaxAttempts - 1)
  BY RoundsFacts
<1>2. CASE get[t].attempt = MaxAttempts - 1
  <2> DEFINE g == [get[t] EXCEPT !.phase = "over", !.wait = 0, !.result = "failed"]
  <2>1. /\ g \in Get /\ g.phase = "over" /\ g.attempt = get[t].attempt
        /\ get' = [get EXCEPT ![t] = g]
    BY <1>1, <1>2 DEF Retry, Return, Get, Result
  <2> HIDE DEF g
  <2> QED
    BY <2>1, Waits
<1>3. CASE get[t].attempt # MaxAttempts - 1
  <2> DEFINE k == get[t].attempt + 1
             g == [get[t] EXCEPT !.phase = "paused", !.attempt = k, !.wait = ticks]
  <2>1. k \in 0..(MaxAttempts - 1)
    BY <1>1, <1>3, DownloadAssumption
  <2>2. get' = [get EXCEPT ![t] = g]
    BY <1>3 DEF Retry, Pause
  <2>3. g.phase = "paused" /\ g.attempt = get[t].attempt + 1
    BY <1>1 DEF Get
  <2>4. g \in Get
    <3> HIDE DEF k
    <3> QED
      BY <1>1, <2>1 DEF Get
  <2> HIDE DEF k, g
  <2> QED
    BY <2>2, <2>3, <2>4, Waits
<1> QED
  BY <1>2, <1>3

LEMMA DownloadRetries ==
  ASSUME FetchingInv, NEW t \in Thread, UNCHANGED fvars,
         Unreachable(t) \/ \E v \in RetryAfter : Throttled(t, v)
  PROVE  FetchingInv'
<1> USE DEF FetchingInv
<1>1. /\ get[t].attempt \in 0..(MaxAttempts - 1) /\ gate \in Nat /\ owed \in Nat /\ gate >= owed
      /\ ahead \in SUBSET Thread /\ UNCHANGED <<todo, job>>
  BY RoundsFacts DEF TypeInv, DownloadTypeOK, GateInv, fvars
<1>2. CASE Unreachable(t)
  <2>1. Doubled[get[t].attempt] \in Nat
    BY <1>1, DownloadAssumption, DoubledType
  <2> QED
    BY <1>1, <1>2, <2>1, RetryWaits DEF Unreachable
<1>3. ASSUME NEW v \in RetryAfter, Throttled(t, v) PROVE FetchingInv'
  <2> DEFINE ticks == Backoff(get[t].attempt, v)
             pause == Larger(ticks, Doubled[get[t].attempt])
  <2>1. ticks \in Nat /\ Doubled[get[t].attempt] \in Nat
    BY <1>1, BackoffType
  <2>2. /\ gate' = Larger(gate, ticks) /\ owed' = Larger(owed, ticks) /\ Retry(t, pause)
        /\ get[t].phase = "open" /\ UNCHANGED <<cancel, asked, late>>
    BY <1>3 DEF Throttled, Later
  <2> HIDE DEF ticks
  <2>3. pause \in Nat
    BY <2>1 DEF Larger
  <2> HIDE DEF pause
  <2>4. gate' \in Nat /\ owed' \in Nat /\ gate' >= owed'
    BY <1>1, <2>1, <2>2 DEF Larger
  <2>5. /\ ahead' \in SUBSET Thread
        /\ \/ owed > 0 /\ ahead' = ahead
           \/ \A u \in Thread : get[u].phase = "granted" => u \in ahead'
    BY <1>1, <1>3 DEF Throttled
  <2> QED
    BY <1>1, <2>2, <2>3, <2>4, <2>5, RetryWaits
<1> QED
  BY <1>2, <1>3

\* The one step that makes a request.
LEMMA RequestAsks ==
  ASSUME FetchingInv, NEW t \in Thread, UNCHANGED fvars, Request(t)
  PROVE  FetchingInv'
<1> USE DEF FetchingInv
<1> DEFINE g == [get[t] EXCEPT !.phase = "open"]
<1>1. get[t] \in Get /\ get[t].attempt \in 0..(MaxAttempts - 1) /\ Rounds(t) \in Nat
      /\ asked[t] \in Nat /\ late[t] \in Nat /\ Rounds(t) + MaxAttempts <= Bound(t) /\ Bound(t) \in Nat
  BY RoundsFacts
<1>2. /\ get[t].phase = "granted" /\ ahead' = ahead \ {t} /\ UNCHANGED <<gate, owed, cancel, todo, job>>
      /\ get' = [get EXCEPT ![t] = g] /\ g \in Get /\ g.phase = "open" /\ g.attempt = get[t].attempt
      /\ asked' = [asked EXCEPT ![t] = asked[t] + 1]
      /\ late' = [late EXCEPT ![t] = IF cancel THEN late[t] + 1 ELSE late[t]]
  BY <1>1 DEF Request, Enter, Get, fvars
<1> HIDE DEF g
<1>3. /\ get'[t] = g /\ asked'[t] = asked[t] + 1
      /\ late'[t] = IF cancel THEN late[t] + 1 ELSE late[t]
      /\ \A u \in Thread \ {t} : get'[u] = get[u] /\ asked'[u] = asked[u] /\ late'[u] = late[u]
      /\ get' \in [Thread -> Get] /\ asked' \in [Thread -> Nat] /\ late' \in [Thread -> Nat]
  <2>1. asked[t] + 1 \in Nat /\ (IF cancel THEN late[t] + 1 ELSE late[t]) \in Nat
    BY <1>1
  <2> QED
    BY <1>2, <2>1 DEF TypeInv, DownloadTypeOK
<1>4. TypeInv' /\ GateInv' /\ AheadInv'
  BY <1>2, <1>3 DEF TypeInv, DownloadTypeOK, GateInv, AheadInv
<1>5. \A u \in Thread : Rounds(u)' = Rounds(u)
  BY <1>2 DEF Rounds
<1>6. AskedOf(t)'
  <2>1. asked[t] <= Rounds(t) + get[t].attempt
    BY <1>2 DEF AskedInv
  <2>2. asked[t] + 1 <= Rounds(t) + get[t].attempt + 1
    BY <1>1, <2>1
  <2>3. asked[t] + 1 <= Bound(t)
    BY <1>1, <2>2, DownloadAssumption
  <2> QED
    BY <1>2, <1>3, <1>5, <2>2, <2>3 DEF AskedOf, Bound
<1>7. LateOf(t)'
  <2>1. late[t] = 0
    BY <1>2 DEF LateInv
  <2> QED
    BY <1>2, <1>3, <2>1 DEF LateOf
<1>8. AskedInv' /\ LateInv'
  BY <1>2, <1>3, <1>5, <1>6, <1>7, OneThread
<1> QED
  BY <1>4, <1>8

LEMMA DownloadStep ==
  ASSUME FetchingInv, NEW t \in Thread, Downloads(t), UNCHANGED fvars
  PROVE  FetchingInv'
BY DownloadWaits, DownloadRetries, RequestAsks DEF Downloads

-----------------------------------------------------------------------------
(* Downloads begin and end.                                                *)

LEMMA FreshType == /\ Fresh \in Get /\ Fresh.phase = "throttle" /\ Fresh.attempt = 0
                   /\ NoGet \in Get /\ NoGet.phase = "none"
                   /\ NoJob \in Job /\ NoJob.round = 0
BY DownloadAssumption DEF Fresh, NoGet, Get, Result, NoJob, Job

LEMMA Starts ==
  ASSUME FetchingInv, NEW t \in Thread, Start(t), TypeInv', \A u \in Thread : Rounds(u)' \in Nat,
         \A u \in Thread \ {t} : Rounds(u)' = Rounds(u)
  PROVE  FetchingInv'
<1> USE DEF FetchingInv
<1>1. /\ get'[t] = Fresh /\ asked'[t] = 0 /\ late' = late /\ UNCHANGED <<gate, owed, cancel, ahead>>
      /\ \A u \in Thread \ {t} : get'[u] = get[u] /\ asked'[u] = asked[u]
  BY DEF Start, TypeInv, DownloadTypeOK
<1>2. Bound(t) \in Nat
  BY RoundsFacts
<1>3. AskedOf(t)'
  BY <1>1, <1>2, FreshType DEF AskedOf, Bound
<1>4. LateOf(t)'
  BY <1>1, FreshType DEF LateOf, LateInv
<1>5. AheadInv'
  BY <1>1, FreshType DEF AheadInv
<1> QED
  BY <1>1, <1>3, <1>4, <1>5, OneThread DEF GateInv

LEMMA Frees ==
  ASSUME FetchingInv, NEW t \in Thread, Free(t), TypeInv',
         \A u \in Thread \ {t} : Rounds(u)' = Rounds(u)
  PROVE  FetchingInv'
<1> USE DEF FetchingInv
<1>1. /\ get'[t] = NoGet /\ asked'[t] = 0 /\ UNCHANGED <<gate, owed, cancel, late, ahead>>
      /\ \A u \in Thread \ {t} : get'[u] = get[u] /\ asked'[u] = asked[u]
  BY DEF Free, TypeInv, DownloadTypeOK
<1>2. AskedOf(t)'
  BY <1>1, FreshType, RoundsFacts DEF AskedOf, Bound
<1>3. LateOf(t)'
  BY <1>1, FreshType DEF LateOf, LateInv
<1>4. AheadInv'
  BY <1>1, FreshType DEF AheadInv
<1> QED
  BY <1>1, <1>2, <1>3, <1>4, OneThread DEF GateInv

LEMMA DownloadTypeKept ==
  ASSUME TypeInv, NEW t \in Thread, Start(t) \/ Free(t)
  PROVE  DownloadTypeOK'
BY FreshType DEF Start, Free, TypeInv, DownloadTypeOK

LEMMA WalkStep ==
  ASSUME FetchingInv, WalkOn
  PROVE  FetchingInv'
<1> USE DEF FetchingInv
<1>1. Walker \in Thread
  BY FetchingAssumption
<1>2. \A u \in Thread : job' = job => Rounds(u)' = Rounds(u)
  BY DEF Rounds
<1>3. CASE Pass \/ Refuse \/ List
  <2>1. UNCHANGED dvars /\ job' = job /\ todo' \in SUBSET Page
    BY <1>3 DEF Pass, Refuse, List, fvars, TypeInv
  <2> QED
    BY <1>2, <2>1
       DEF dvars, TypeInv, DownloadTypeOK, GateInv, AheadInv, AskedInv, LateInv, Bound
<1>4. CASE Visit
  <2>1. Start(Walker) /\ job' = job /\ todo' = todo
    BY <1>4 DEF Visit, fvars
  <2>2. TypeInv'
    BY <1>1, <2>1, DownloadTypeKept DEF TypeInv
  <2> QED
    BY <1>1, <1>2, <2>1, <2>2, Starts, RoundsFacts
<1>5. CASE Read \/ Miss
  <2>1. Free(Walker) /\ job' = job /\ todo' = todo
    BY <1>5 DEF Read, Miss, fvars
  <2>2. TypeInv'
    BY <1>1, <2>1, DownloadTypeKept DEF TypeInv
  <2> QED
    BY <1>1, <1>2, <2>1, <2>2, Frees
<1> QED
  BY <1>3, <1>4, <1>5 DEF WalkOn

LEMMA AbandonStep ==
  ASSUME FetchingInv, Abandon
  PROVE  FetchingInv'
BY DEF Abandon, dvars, FetchingInv, TypeInv, DownloadTypeOK, GateInv, AheadInv, AskedInv, LateInv, Bound, Rounds

LEMMA FetchStep ==
  ASSUME FetchingInv, NEW t \in Fetcher, FetchOn(t)
  PROVE  FetchingInv'
<1> USE DEF FetchingInv
<1>1. t \in Thread /\ t # Walker /\ MaxAttempts \in Nat
  BY FetchingAssumption, DownloadAssumption
<1>2. ASSUME NEW j \in Job, job' = [job EXCEPT ![t] = j]
      PROVE  /\ job' \in [Fetcher -> Job]
             /\ \A u \in Thread \ {t} : Rounds(u)' = Rounds(u)
             /\ j.round = 0 => Rounds(t)' = 0
             /\ j.round = 1 => Rounds(t)' = MaxAttempts
  <2>1. job'[t] = j /\ job' \in [Fetcher -> Job] /\ \A u \in Fetcher \ {t} : job'[u] = job[u]
    BY <1>2 DEF TypeInv
  <2> QED
    BY <1>1, <2>1, FetchingAssumption DEF Rounds
<1>3. CASE Take(t)
  <2>1. PICK p \in todo, j \in Job :
          todo' = todo \ {p} /\ job' = [job EXCEPT ![t] = j] /\ j.round = 0
    <3>1. PICK p \in todo : todo' = todo \ {p} /\ job' = [job EXCEPT ![t] = [page |-> p, round |-> 0]]
      BY <1>3 DEF Take
    <3>2. [page |-> p, round |-> 0] \in Job
      BY <3>1 DEF Job, TypeInv
    <3> QED
      BY <3>1, <3>2
  <2>2. /\ job' \in [Fetcher -> Job] /\ Rounds(t)' = 0
        /\ \A u \in Thread \ {t} : Rounds(u)' = Rounds(u)
    BY <1>2, <2>1
  <2>3. Start(t)
    BY <1>3 DEF Take
  <2>4. TypeInv'
    BY <1>1, <2>1, <2>2, <2>3, DownloadTypeKept DEF TypeInv
  <2>5. \A u \in Thread : Rounds(u)' \in Nat
    BY <2>2, RoundsFacts
  <2> QED
    BY <1>1, <2>2, <2>3, <2>4, <2>5, Starts
<1>4. CASE Again(t)
  <2> DEFINE g == [Fresh EXCEPT !.phase = "paused", !.wait = 2 * Second]
             j == [job[t] EXCEPT !.round = 1]
  <2>1. /\ get[t].phase = "over" /\ job[t].round = 0
        /\ job' = [job EXCEPT ![t] = j] /\ get' = [get EXCEPT ![t] = g]
        /\ UNCHANGED <<gate, cancel, owed, asked, late, ahead, todo>>
    BY <1>4 DEF Again
  <2>2. 2 * Second \in Nat
    BY DownloadAssumption
  <2>3. g \in Get /\ g.phase = "paused" /\ g.attempt = 0
    BY <2>2, FreshType DEF Get
  <2>4. j \in Job /\ j.round = 1
    BY DEF Job, TypeInv
  <2> HIDE DEF g, j
  <2>5. /\ get'[t] = g /\ get' \in [Thread -> Get]
        /\ \A u \in Thread \ {t} : get'[u] = get[u]
    BY <1>1, <2>1, <2>3 DEF TypeInv, DownloadTypeOK
  <2>6. Rounds(t) = 0 /\ Rounds(t)' = MaxAttempts /\ job' \in [Fetcher -> Job]
        /\ \A u \in Thread \ {t} : Rounds(u)' = Rounds(u)
    <3>1. Rounds(t) = 0
      BY <2>1 DEF Rounds
    <3> QED
      BY <1>2, <2>1, <2>4, <3>1
  <2>7. TypeInv' /\ GateInv' /\ AheadInv'
    BY <2>1, <2>3, <2>5, <2>6 DEF TypeInv, DownloadTypeOK, GateInv, AheadInv
  <2>8. AskedOf(t)'
    <3>1. asked[t] <= get[t].attempt + 1 /\ asked[t] <= Bound(t)
      BY <1>1, <2>1, <2>6, RoundsFacts DEF AskedInv
    <3>2. asked[t] <= MaxAttempts
      BY <1>1, <3>1, RoundsFacts
    <3> QED
      BY <1>1, <2>1, <2>3, <2>5, <2>6, <3>1, <3>2 DEF AskedOf, Bound
  <2>9. LateOf(t)'
    BY <1>1, <2>1, <2>3, <2>5 DEF LateOf, LateInv
  <2> QED
    BY <1>1, <2>1, <2>5, <2>6, <2>7, <2>8, <2>9, OneThread
<1>5. CASE Settle(t)
  <2>1. job' = [job EXCEPT ![t] = NoJob] /\ Free(t) /\ todo' = todo
    BY <1>5 DEF Settle
  <2>2. TypeInv'
    BY <1>1, <1>2, <2>1, DownloadTypeKept, FreshType DEF TypeInv
  <2> QED
    BY <1>1, <1>2, <2>1, <2>2, FreshType, Frees
<1> QED
  BY <1>3, <1>4, <1>5 DEF FetchOn

LEMMA TickStep ==
  ASSUME FetchingInv, Tick, UNCHANGED fvars
  PROVE  FetchingInv'
<1> USE DEF FetchingInv
<1>1. \A n \in Nat : Less(n) \in Nat
  BY DEF Less
<1>2. \A t \in Thread : /\ get'[t] = [get[t] EXCEPT !.wait = Less(get[t].wait)]
                        /\ get[t] \in Get
  BY DEF Tick, TypeInv, DownloadTypeOK
<1>3. \A t \in Thread : /\ get'[t] \in Get /\ get'[t].phase = get[t].phase
                        /\ get'[t].attempt = get[t].attempt
  <2> SUFFICES ASSUME NEW t \in Thread
               PROVE  /\ get'[t] \in Get /\ get'[t].phase = get[t].phase
                      /\ get'[t].attempt = get[t].attempt
    OBVIOUS
  <2>1. Less(get[t].wait) \in Nat /\ get[t] \in Get
    BY <1>1, <1>2 DEF Get
  <2> QED
    BY <1>2, <2>1 DEF Get
<1>4. get' \in [Thread -> Get]
  BY <1>3 DEF Tick
<1>5. gate' \in Nat /\ owed' \in Nat /\ gate' >= owed'
  BY <1>1 DEF Tick, TypeInv, DownloadTypeOK, GateInv, Less
<1>6. /\ UNCHANGED <<cancel, asked, late, job, todo>>
      /\ ahead' \in SUBSET Thread /\ (owed' > 0 => ahead' = ahead)
      /\ owed' > 0 => owed > 0
  BY <1>5 DEF Tick, Less, fvars, TypeInv, DownloadTypeOK
<1>7. \A t \in Thread : Rounds(t)' = Rounds(t)
  BY <1>6 DEF Rounds
<1> QED
  BY <1>3, <1>4, <1>5, <1>6, <1>7
     DEF TypeInv, DownloadTypeOK, GateInv, AheadInv, AskedInv, LateInv, Bound

LEMMA StepFetching == FetchingInv /\ [Next]_vars => FetchingInv'
<1> SUFFICES ASSUME FetchingInv, [Next]_vars PROVE FetchingInv'
  OBVIOUS
<1>1. CASE UNCHANGED vars
  BY <1>1 DEF vars, dvars, fvars, FetchingInv, TypeInv, DownloadTypeOK, GateInv, AheadInv, AskedInv, LateInv,
              Bound, Rounds
<1>2. ASSUME NEW t \in Thread, Step(t) PROVE FetchingInv'
  BY <1>2, DownloadStep, WalkStep, AbandonStep, FetchStep DEF Step
<1>3. CASE Tick /\ UNCHANGED fvars
  BY <1>3, TickStep
<1>4. CASE Cancel /\ UNCHANGED fvars
  BY <1>4 DEF Cancel, fvars, FetchingInv, TypeInv, DownloadTypeOK, GateInv, AheadInv, AskedInv, LateInv,
              Bound, Rounds
<1> QED
  BY <1>1, <1>2, <1>3, <1>4 DEF Next

LEMMA FetchingCorrect == Spec => []FetchingInv
<1>1. Init => FetchingInv
  BY InitFetching
<1>2. QED
  BY <1>1, StepFetching, PTL DEF Spec, Safety

-----------------------------------------------------------------------------
\* The numbers of the throttle and of each download keep their types: pauses
\* and backoffs are never negative, and no download is past its last attempt.
THEOREM DownloadTypeCorrect == Spec => []DownloadTypeOK
<1>1. FetchingInv => DownloadTypeOK
  BY DEF FetchingInv, TypeInv
<1>2. QED
  BY <1>1, FetchingCorrect, PTL

\* For any number of threads, attempts and pages, a page costs two rounds of
\* attempts at most and a map one, and a cancelled refresh one request a thread.
THEOREM RequestsBoundedCorrect == Spec => []RequestsBounded
<1>1. FetchingInv => RequestsBounded
  BY DEF FetchingInv, AskedInv, LateInv, Bound, RequestsBounded
<1>2. QED
  BY <1>1, FetchingCorrect, PTL

\* For any threads and any answers, a request that starts inside a backoff is one
\* whose turn had come before it, and the last of its thread inside it.
THEOREM BackoffHonouredCorrect == Spec => BackoffHonoured
<1> DEFINE A == \A t \in Thread : asked'[t] > asked[t] /\ owed > 0 => t \in ahead /\ t \notin ahead'
<1>1. FetchingInv /\ [Next]_vars => [A]_<<asked, owed, ahead>>
  <2> SUFFICES ASSUME FetchingInv, [Next]_vars, NEW t \in Thread, asked'[t] > asked[t], owed > 0
               PROVE  t \in ahead /\ t \notin ahead'
    OBVIOUS
  <2>1. asked \in [Thread -> Nat]
    BY DEF FetchingInv, TypeInv, DownloadTypeOK
  <2>2. asked' # asked
    BY <2>1
  <2>3. ASSUME NEW u \in Thread, Start(u) \/ Free(u) PROVE FALSE
    BY <2>1, <2>3 DEF Start, Free
  <2>4. PICK u \in Thread : Request(u)
    BY <2>2, <2>3, FetchingAssumption
       DEF Next, Step, Downloads, WalkOn, FetchOn, Clear, Grant, Hold, Resume, GiveUp, Answer,
           Unreachable, Throttled, Tick, Cancel, Abandon, Pass, Visit, Refuse, Read, Miss, List, Take,
           Again, Settle, vars, dvars
  <2>5. u = t
    BY <2>1, <2>4 DEF Request
  <2> QED
    BY <2>4, <2>5 DEF Request, FetchingInv, AheadInv
<1>2. QED
  BY <1>1, FetchingCorrect, PTL DEF BackoffHonoured, Spec, Safety

-----------------------------------------------------------------------------
(* What a urlset adds to the pages found.                                  *)

Below == {pair \in Nat \X Nat : pair[1] < pair[2]}

LEMMA LeastExists ==
  ASSUME NEW S \in SUBSET Nat, S # {}
  PROVE  \E i \in S : \A j \in S : i <= j
<1>1. IsWellFoundedOn(Below, Nat)
  BY NatLessThanWellFounded DEF OpToRel, Below
<1>2. PICK i \in S : \A j \in S : <<j, i>> \notin Below
  BY <1>1, WFMin
<1>3. \A j \in S : i <= j
  <2> SUFFICES ASSUME NEW j \in S PROVE i <= j
    OBVIOUS
  <2>1. i \in Nat /\ j \in Nat /\ <<j, i>> \notin Below
    BY <1>2
  <2>2. ~(j < i)
    BY <2>1 DEF Below
  <2> QED
    BY <2>1, <2>2
<1> QED
  BY <1>3

\* The loop over the first n entries, as a function there may be.
Keeps(found, items, n, after) ==
  after = [k \in 0..n |-> IF k = 0 THEN found ELSE Kept(after[k - 1], items[k])]

LEMMA KeepsExists ==
  ASSUME NEW found, NEW items, NEW n \in Nat
  PROVE  \E after : Keeps(found, items, n, after)
<1> DEFINE S == {m \in Nat : ~\E after : Keeps(found, items, m, after)}
<1> SUFFICES ASSUME S # {} PROVE FALSE
  OBVIOUS
<1>1. PICK m \in S : \A k \in S : m <= k
  <2>1. S \in SUBSET Nat
    OBVIOUS
  <2> HIDE DEF S
  <2> QED
    BY <2>1, LeastExists
<1>2. m # 0
  <2> DEFINE one == [k \in 0..0 |-> found]
  <2>1. \A k \in 0..0 : k = 0
    OBVIOUS
  <2>2. one = [k \in 0..0 |-> IF k = 0 THEN found ELSE Kept(one[k - 1], items[k])]
    BY <2>1
  <2> HIDE DEF one
  <2>3. Keeps(found, items, 0, one)
    BY <2>2 DEF Keeps
  <2> QED
    BY <2>3
<1>3. m \in Nat /\ m - 1 \in Nat /\ m - 1 \notin S
  BY <1>1, <1>2
<1>4. PICK prev : Keeps(found, items, m - 1, prev)
  BY <1>3
<1> DEFINE after == [k \in 0..m |-> IF k = m THEN Kept(prev[m - 1], items[m]) ELSE prev[k]]
<1>5. \A k \in 0..(m - 1) : prev[k] = IF k = 0 THEN found ELSE Kept(prev[k - 1], items[k])
  BY <1>4 DEF Keeps
<1>6. \A k \in 0..m : after[k] = IF k = 0 THEN found ELSE Kept(after[k - 1], items[k])
  <2> SUFFICES ASSUME NEW k \in 0..m
               PROVE  after[k] = IF k = 0 THEN found ELSE Kept(after[k - 1], items[k])
    OBVIOUS
  <2>1. CASE k = 0
    <3>1. 0 \in 0..m /\ 0 \in 0..(m - 1) /\ 0 # m
      BY <1>2, <1>3
    <3> QED
      BY <1>5, <2>1, <3>1
  <2>2. CASE k # 0
    <3>1. k - 1 \in 0..m /\ k - 1 # m /\ after[k - 1] = prev[k - 1]
      BY <1>3, <2>2
    <3>2. CASE k = m
      BY <2>2, <3>1, <3>2
    <3>3. CASE k # m
      <4>1. k \in 0..(m - 1)
        BY <1>3, <3>3
      <4> QED
        BY <1>5, <2>2, <3>1, <3>3, <4>1
    <3> QED
      BY <3>2, <3>3
  <2> QED
    BY <2>1, <2>2
<1>7. after = [k \in 0..m |-> after[k]]
  OBVIOUS
<1> HIDE DEF after
<1>8. Keeps(found, items, m, after)
  BY <1>6, <1>7 DEF Keeps
<1> QED
  BY <1>1, <1>8

\* v is the newest of the moments in S, if there is one.
IsNewest(v, S) == IF S = {} THEN v = Unlisted ELSE v \in S /\ \A w \in S : v >= w

\* The moments the first n entries give a page.
DatesTo(items, n, p) == {items[k].lastmod : k \in {j \in 1..n : items[j].page = p}}

Pages == [Page -> Moment \cup {Unlisted}]

\* One more entry, which may be about the page, or not.
LEMMA KeptNewest ==
  ASSUME NEW found \in Pages, NEW item \in Listed, NEW p \in Page, NEW S \in SUBSET Nat,
         IsNewest(found[p], S)
  PROVE  /\ Kept(found, item) \in Pages
         /\ item.page # p => IsNewest(Kept(found, item)[p], S)
         /\ item.page = p => IsNewest(Kept(found, item)[p], S \cup {item.lastmod})
<1>1. item.page \in Page /\ item.lastmod \in Nat /\ Unlisted \notin Nat
  BY FetchingAssumption DEF Listed, Moment
<1>2. found[p] \in Nat \cup {Unlisted} /\ found[item.page] \in Nat \cup {Unlisted}
  BY <1>1 DEF Pages, Moment
<1>3. Kept(found, item) \in Pages
  BY <1>1 DEF Kept, Pages, Moment
<1>4. ASSUME item.page # p PROVE IsNewest(Kept(found, item)[p], S)
  <2>1. Kept(found, item)[p] = found[p]
    BY <1>4 DEF Kept, Pages
  <2> QED
    BY <2>1
<1>5. ASSUME item.page = p PROVE IsNewest(Kept(found, item)[p], S \cup {item.lastmod})
  <2>1. CASE found[p] = Unlisted
    <3>1. S = {}
      BY <1>1, <2>1 DEF IsNewest
    <3>2. Kept(found, item)[p] = item.lastmod
      BY <1>5, <2>1 DEF Kept, Pages
    <3> QED
      BY <1>1, <3>1, <3>2 DEF IsNewest
  <2>2. CASE found[p] # Unlisted
    <3>1. found[p] \in Nat /\ found[p] \in S /\ \A w \in S : found[p] >= w
      BY <1>2, <2>2 DEF IsNewest
    <3>2. CASE item.lastmod # 0 /\ item.lastmod > found[p]
      <4>1. Kept(found, item)[p] = item.lastmod
        BY <1>5, <3>2 DEF Kept, Pages
      <4>2. \A w \in S : w \in Nat /\ found[p] >= w
        BY <3>1
      <4>3. \A w \in S : item.lastmod >= w
        BY <1>1, <3>1, <3>2, <4>2
      <4> QED
        BY <1>1, <4>1, <4>3 DEF IsNewest
    <3>3. CASE ~(item.lastmod # 0 /\ item.lastmod > found[p])
      <4>1. Kept(found, item)[p] = found[p]
        BY <1>5, <2>2, <3>3 DEF Kept
      <4>2. \A w \in S \cup {item.lastmod} : found[p] >= w
        BY <1>1, <3>1, <3>3
      <4> QED
        BY <3>1, <4>1, <4>2 DEF IsNewest
    <3> QED
      BY <3>2, <3>3
  <2> QED
    BY <2>1, <2>2
<1> QED
  BY <1>3, <1>4, <1>5

\* Whatever order its entries are in, and however often a page is named, a
\* urlset leaves each page with the newest of the moments it had and is given.
THEOREM FoundIsNewest ==
  ASSUME NEW found \in Pages, NEW items \in Seq(Listed), NEW D \in [Page -> SUBSET Nat],
         \A p \in Page : IsNewest(found[p], D[p])
  PROVE  /\ Found(found, items) \in Pages
         /\ \A p \in Page :
              IsNewest(Found(found, items)[p], D[p] \cup DatesTo(items, Len(items), p))
<1> DEFINE N == Len(items)
<1>1. N \in Nat /\ N \in 0..N
  OBVIOUS
<1>2. PICK after : Keeps(found, items, N, after) /\ Found(found, items) = after[N]
  <2> DEFINE a == CHOOSE a : Keeps(found, items, N, a)
  <2>1. \E b : Keeps(found, items, N, b)
    BY <1>1, KeepsExists
  <2>2. Keeps(found, items, N, a)
    BY <2>1
  <2>3. Found(found, items) = a[N]
    BY DEF Found, Keeps
  <2> HIDE DEF a
  <2> QED
    BY <2>2, <2>3
<1>3. \A n \in 0..N : after[n] = IF n = 0 THEN found ELSE Kept(after[n - 1], items[n])
  BY <1>2 DEF Keeps
<1> DEFINE Good(n) == /\ after[n] \in Pages
                      /\ \A p \in Page : IsNewest(after[n][p], D[p] \cup DatesTo(items, n, p))
           S == {n \in 0..N : ~Good(n)}
<1>4. Good(0)
  <2>1. after[0] = found
    BY <1>1, <1>3
  <2>2. \A p \in Page : D[p] \cup DatesTo(items, 0, p) = D[p]
    BY DEF DatesTo
  <2> QED
    BY <2>1, <2>2
<1>5. ASSUME NEW n \in 1..N, Good(n - 1) PROVE Good(n)
  <2>1. /\ n \in 0..N /\ n # 0 /\ items[n] \in Listed /\ n \in Nat
        /\ 1..n = (1..(n - 1)) \cup {n}
    OBVIOUS
  <2>2. after[n] = Kept(after[n - 1], items[n])
    BY <1>3, <2>1
  <2>3. after[n - 1] \in Pages
    BY <1>5
  <2>4. ASSUME NEW p \in Page
        PROVE  /\ after[n] \in Pages
               /\ IsNewest(after[n][p], D[p] \cup DatesTo(items, n, p))
    <3> DEFINE T == D[p] \cup DatesTo(items, n - 1, p)
    <3>1. IsNewest(after[n - 1][p], T)
      BY <1>5
    <3>2. T \in SUBSET Nat
      <4>1. \A k \in 1..N : items[k].lastmod \in Nat
        <5>1. \A k \in 1..N : items[k] \in Listed
          OBVIOUS
        <5>2. \A item \in Listed : item.lastmod \in Nat
          BY DEF Listed, Moment
        <5> QED
          BY <5>1, <5>2
      <4>2. \A k \in 1..(n - 1) : k \in 1..N
        BY <1>1
      <4> QED
        BY <4>1, <4>2 DEF DatesTo
    <3>3. items[n].page # p => D[p] \cup DatesTo(items, n, p) = T
      BY <2>1 DEF DatesTo
    <3>4. items[n].page = p => D[p] \cup DatesTo(items, n, p) = T \cup {items[n].lastmod}
      BY <2>1 DEF DatesTo
    <3> HIDE DEF T
    <3>5. /\ after[n] \in Pages
          /\ items[n].page # p => IsNewest(after[n][p], T)
          /\ items[n].page = p => IsNewest(after[n][p], T \cup {items[n].lastmod})
      <4> DEFINE was == after[n - 1]
                 item == items[n]
      <4>1. was \in Pages /\ item \in Listed /\ IsNewest(was[p], T)
        BY <2>1, <2>3, <3>1
      <4> HIDE DEF was, item
      <4>2. /\ Kept(was, item) \in Pages
            /\ item.page # p => IsNewest(Kept(was, item)[p], T)
            /\ item.page = p => IsNewest(Kept(was, item)[p], T \cup {item.lastmod})
        BY <3>2, <4>1, KeptNewest
      <4> QED
        BY <2>2, <4>2 DEF was, item
    <3>6. CASE items[n].page = p
      BY <3>4, <3>5, <3>6
    <3>7. CASE items[n].page # p
      BY <3>3, <3>5, <3>7
    <3> QED
      BY <3>6, <3>7
  <2>5. after[n] \in Pages
    <3>1. CASE Page = {}
      <4>1. after[n - 1] = [p \in Page |-> after[n - 1][p]] /\ items[n].page \in Page
        BY <2>1, <2>3 DEF Pages, Listed
      <4> QED
        BY <3>1, <4>1
    <3> QED
      BY <2>4, <3>1
  <2> QED
    BY <2>4, <2>5
<1>6. S = {}
  <2> SUFFICES ASSUME S # {} PROVE FALSE
    OBVIOUS
  <2>1. S \in SUBSET Nat
    BY <1>1
  <2>2. PICK n \in S : \A k \in S : n <= k
    <3> HIDE DEF S
    <3> QED
      BY <2>1, LeastExists
  <2>3. n \in 0..N /\ ~Good(n)
    BY <2>2
  <2> HIDE DEF Good
  <2>4. n # 0
    BY <1>4, <2>3
  <2>5. n \in 1..N /\ n - 1 \in 0..N
    BY <1>1, <2>3, <2>4
  <2>6. n - 1 \notin S
    <3> HIDE DEF S
    <3> QED
      BY <2>2, <2>5
  <2>7. Good(n - 1)
    BY <2>5, <2>6
  <2> QED
    BY <1>5, <2>3, <2>5, <2>7
<1>7. Good(N)
  BY <1>1, <1>6
<1> QED
  BY <1>2, <1>7

-----------------------------------------------------------------------------
(* The walk's invariant.                                                   *)

OnStack == {e.map : e \in ToSet(walk.stack)}
Going == walk.phase \in {"next", "reading", "listed"}

WalkType ==
  /\ site \in Site
  /\ walk \in Walk
  /\ visited \in SUBSET Map
  /\ pages \in Pages

\* Entries lead from the root to this one, its first `distinct` maps different
\* ones and those before it visited.
Along(e, distinct, path) ==
  /\ path \in [1..(e.depth + 1) -> Map]
  /\ path[1] = Root /\ path[e.depth + 1] = e.map
  /\ \A n \in 1..e.depth : path[n] \in visited /\ path[n + 1] \in Inside(path[n])
  /\ \A m, n \in 1..distinct : path[m] = path[n] => m = n
LedTo(e, distinct) == \E path : Along(e, distinct, path)

\* Only maps the index leads to are visited or waited for, each along its path.
WalkLed ==
  /\ visited \subseteq Reachable /\ IsFiniteSet(visited)
  /\ walk.phase = "reading" =>
       /\ walk.stack # <<>> /\ Place1.map \in visited
       /\ \A e \in {Place1} : LedTo(e, e.depth + 1)
  /\ walk.phase \in {"next", "reading"} =>
       \A e \in ToSet(walk.stack) :
         IF e.map = NoPlace THEN \E m \in Reachable : Unusable(m)
         ELSE e.map \in Reachable /\ LedTo(e, e.depth)

\* What a visited map leads to is visited or waited for, and so is the root.
WalkCloses ==
  Going =>
    /\ Root \in visited \cup OnStack
    /\ \A m \in visited : BeingRead(m) \/ Inside(m) \subseteq visited \cup OnStack
    /\ walk.phase = "listed" => walk.stack = <<>>

\* The pages found are what the maps read so far say.
WalkFinds ==
  Going => \A p \in Page : IsNewest(pages[p], Dates(p, ReadSoFar))

\* A walk that refused had a reason in the site.
Reason ==
  \/ \E m \in Reachable : Unusable(m)
  \/ TooDeep
  \/ TooMany
  \/ \A p \in Page : Newest(p) = Unlisted
WalkRefuses == walk.phase = "refused" => Reason

WalkInv == WalkType /\ WalkLed /\ WalkCloses /\ WalkFinds /\ WalkRefuses

-----------------------------------------------------------------------------
(* Sites and stacks.                                                       *)

LEMMA SiteFacts ==
  ASSUME WalkType, NEW m \in Map
  PROVE  /\ site[m].kind \in {"index", "urlset", "other"}
         /\ site[m].kind = "index" => site[m].items \in Seq(Map \cup {NoPlace})
         /\ site[m].kind = "urlset" => site[m].items \in Seq(Listed \cup {NoPlace})
         /\ Inside(m) \subseteq Map
<1>1. site[m] \in Document
  BY FetchingAssumption DEF WalkType
<1>2. /\ site[m].kind \in {"index", "urlset", "other"}
      /\ site[m].kind = "index" => site[m].items \in Seq(Map \cup {NoPlace})
      /\ site[m].kind = "urlset" => site[m].items \in Seq(Listed \cup {NoPlace})
  BY <1>1 DEF Document
<1>3. \A items \in Seq(Map \cup {NoPlace}) : ToSet(items) \subseteq Map \cup {NoPlace}
  BY DEF ToSet
<1>4. Inside(m) \subseteq Map
  BY <1>2, <1>3 DEF Inside
<1> QED
  BY <1>2, <1>4

\* The maps the index leads to are closed, and fewest.
LEMMA ReachableFacts ==
  ASSUME WalkType
  PROVE  /\ Reachable \subseteq Map /\ Root \in Reachable
         /\ \A m \in Reachable : Inside(m) \subseteq Reachable
         /\ \A S \in SUBSET Map :
              Root \in S /\ (\A m \in S : Inside(m) \subseteq S) => Reachable \subseteq S
<1>1. Root \in Map
  BY FetchingAssumption
<1>2. \A m \in Map : Inside(m) \subseteq Map
  BY SiteFacts
<1> QED
  BY <1>1, <1>2 DEF Reachable

LEMMA SiteKept ==
  ASSUME site' = site
  PROVE  /\ Reachable' = Reachable /\ (Reason <=> Reason')
         /\ \A m : Inside(m)' = Inside(m) /\ (Unusable(m)' <=> Unusable(m))
<1>1. Reachable' = Reachable
  BY DEF Reachable, Inside
<1>2. \A m : Inside(m)' = Inside(m) /\ (Unusable(m)' <=> Unusable(m))
  BY DEF Inside, Unusable
<1>3. TooDeep' <=> TooDeep
  BY DEF TooDeep, Inside
<1>4. TooMany' <=> TooMany
  BY <1>1 DEF TooMany
<1>5. \A p : Newest(p)' = Newest(p)
  BY <1>1 DEF Newest, Dates
<1> QED
  BY <1>1, <1>2, <1>3, <1>4, <1>5 DEF Reason

LEMMA DatesKept ==
  ASSUME site' = site, NEW M, ReadSoFar' = M
  PROVE  \A p : Dates(p, ReadSoFar)' = Dates(p, M)
BY DEF Dates

LEMMA LedOn ==
  ASSUME site' = site, visited \subseteq visited', NEW e, NEW k, LedTo(e, k)
  PROVE  LedTo(e, k)'
BY DEF LedTo, Along, Inside

LEMMA TopFacts ==
  ASSUME NEW s \in Seq(Place), s # <<>>
  PROVE  /\ Head(s) \in Place /\ Tail(s) \in Seq(Place)
         /\ Head(s) \in ToSet(s)
         /\ ToSet(s) = {Head(s)} \cup ToSet(Tail(s))
<1>1. Len(s) \in Nat \ {0} /\ DOMAIN s = 1..Len(s) /\ Head(s) = s[1]
  OBVIOUS
<1>2. /\ Tail(s) \in Seq(Place) /\ Len(Tail(s)) = Len(s) - 1
      /\ \A n \in 1..(Len(s) - 1) : Tail(s)[n] = s[n + 1]
  OBVIOUS
<1>3. DOMAIN Tail(s) = 1..(Len(s) - 1)
  BY <1>2
<1>4. ASSUME NEW n \in 1..Len(s), n # 1 PROVE s[n] \in ToSet(Tail(s))
  <2>1. n - 1 \in 1..(Len(s) - 1) /\ (n - 1) + 1 = n
    BY <1>1, <1>4
  <2> QED
    BY <1>2, <1>3, <2>1 DEF ToSet
<1>5. \A n \in 1..(Len(s) - 1) : n + 1 \in 1..Len(s)
  BY <1>1
<1>6. ToSet(s) \subseteq {Head(s)} \cup ToSet(Tail(s))
  BY <1>1, <1>4 DEF ToSet
<1>7. ToSet(Tail(s)) \subseteq ToSet(s)
  BY <1>1, <1>2, <1>3, <1>5 DEF ToSet
<1>8. Head(s) \in ToSet(s) /\ Head(s) \in Place
  BY <1>1 DEF ToSet
<1> QED
  BY <1>2, <1>6, <1>7, <1>8

LEMMA JoinedFacts ==
  ASSUME NEW s \in Seq(Place), NEW t \in Seq(Place)
  PROVE  s \o t \in Seq(Place) /\ ToSet(s \o t) = ToSet(s) \cup ToSet(t)
<1>1. /\ s \o t \in Seq(Place) /\ Len(s \o t) = Len(s) + Len(t)
      /\ Len(s) \in Nat /\ Len(t) \in Nat
      /\ DOMAIN s = 1..Len(s) /\ DOMAIN t = 1..Len(t)
      /\ \A n \in 1..(Len(s) + Len(t)) :
           (s \o t)[n] = IF n <= Len(s) THEN s[n] ELSE t[n - Len(s)]
  OBVIOUS
<1>2. DOMAIN (s \o t) = 1..(Len(s) + Len(t))
  BY <1>1
<1>3. ToSet(s \o t) \subseteq ToSet(s) \cup ToSet(t)
  <2> SUFFICES ASSUME NEW n \in 1..(Len(s) + Len(t)) PROVE (s \o t)[n] \in ToSet(s) \cup ToSet(t)
    BY <1>2 DEF ToSet
  <2>1. CASE n <= Len(s)
    BY <1>1, <2>1 DEF ToSet
  <2>2. CASE ~(n <= Len(s))
    <3>1. n - Len(s) \in 1..Len(t)
      BY <1>1, <2>2
    <3> QED
      BY <1>1, <2>2, <3>1 DEF ToSet
  <2> QED
    BY <2>1, <2>2
<1>4. ToSet(s) \subseteq ToSet(s \o t)
  <2> SUFFICES ASSUME NEW n \in 1..Len(s) PROVE s[n] \in ToSet(s \o t)
    BY <1>1 DEF ToSet
  <2>1. n \in 1..(Len(s) + Len(t)) /\ n <= Len(s)
    BY <1>1
  <2>2. (s \o t)[n] = s[n]
    BY <1>1, <2>1
  <2> QED
    BY <1>2, <2>1, <2>2 DEF ToSet
<1>5. ToSet(t) \subseteq ToSet(s \o t)
  <2> SUFFICES ASSUME NEW n \in 1..Len(t) PROVE t[n] \in ToSet(s \o t)
    BY <1>1 DEF ToSet
  <2>1. /\ Len(s) + n \in 1..(Len(s) + Len(t)) /\ ~(Len(s) + n <= Len(s))
        /\ (Len(s) + n) - Len(s) = n
    BY <1>1
  <2>2. (s \o t)[Len(s) + n] = t[n]
    BY <1>1, <2>1
  <2> QED
    BY <1>2, <2>1, <2>2 DEF ToSet
<1> QED
  BY <1>1, <1>3, <1>4, <1>5

-----------------------------------------------------------------------------
(* The steps of the walk.                                                  *)

LEMMA InitWalk == Init => WalkInv
<1> SUFFICES ASSUME Init PROVE WalkInv
  OBVIOUS
<1> DEFINE top == [map |-> Root, depth |-> 0]
<1>1. /\ site \in Site /\ visited = {} /\ pages = [p \in Page |-> Unlisted]
      /\ walk = [phase |-> "next", stack |-> <<top>>]
  BY DEF Init
<1>2. top \in Place /\ top.map = Root /\ top.depth = 0 /\ Root \in Map
  BY FetchingAssumption DEF Place
<1> HIDE DEF top
<1>3. /\ walk.phase = "next" /\ walk.stack = <<top>>
      /\ <<top>> \in Seq(Place) /\ ToSet(<<top>>) = {top}
  BY <1>1, <1>2 DEF ToSet
<1>4. WalkType
  BY <1>1, <1>3 DEF WalkType, Walk, Pages
<1>5. WalkLed
  <2>1. Root \in Reachable
    BY <1>4, ReachableFacts
  <2>2. LedTo(top, 0)
    <3> DEFINE path == [n \in 1..1 |-> Root]
    <3>1. path \in [1..(0 + 1) -> Map] /\ path[1] = Root
      BY <1>2
    <3>2. Along(top, 0, path)
      BY <1>2, <3>1 DEF Along
    <3> QED
      BY <3>2 DEF LedTo
  <2>3. top.map # NoPlace
    BY <1>2, FetchingAssumption
  <2> QED
    BY <1>1, <1>2, <1>3, <2>1, <2>2, <2>3, FS_EmptySet DEF WalkLed
<1>6. WalkCloses
  BY <1>1, <1>2, <1>3 DEF WalkCloses, OnStack
<1>7. WalkFinds
  <2>1. ReadSoFar = {}
    BY <1>1 DEF ReadSoFar
  <2>2. \A p \in Page : Dates(p, {}) = {}
    BY DEF Dates
  <2> QED
    BY <1>1, <2>1, <2>2 DEF WalkFinds, IsNewest
<1> QED
  BY <1>3, <1>4, <1>5, <1>6, <1>7 DEF WalkInv, WalkRefuses

\* Steps of the pool, of the downloads and of time.
LEMMA WalkKept ==
  ASSUME WalkInv, UNCHANGED <<site, wvars>>
  PROVE  WalkInv'
<1>1. /\ site' = site /\ walk' = walk /\ visited' = visited /\ pages' = pages
  BY DEF wvars
<1>2. Place1' = Place1 /\ OnStack' = OnStack /\ ReadSoFar' = ReadSoFar
  BY <1>1 DEF Place1, OnStack, ReadSoFar, BeingRead
<1>3. \A m : BeingRead(m)' <=> BeingRead(m)
  BY <1>1, <1>2 DEF BeingRead
<1>4. WalkType'
  BY <1>1 DEF WalkInv, WalkType
<1>5. WalkLed'
  BY <1>1, <1>2, SiteKept, LedOn DEF WalkInv, WalkLed
<1>6. WalkCloses'
  BY <1>1, <1>2, <1>3, SiteKept DEF WalkInv, WalkCloses, Going
<1>7. WalkFinds'
  BY <1>1, <1>2, DatesKept DEF WalkInv, WalkFinds, Going
<1>8. WalkRefuses'
  BY <1>1, SiteKept DEF WalkInv, WalkRefuses
<1> QED
  BY <1>4, <1>5, <1>6, <1>7, <1>8 DEF WalkInv

\* The walk ends without a listing.
LEMMA WalkStops ==
  ASSUME WalkInv, NEW phase \in {"refused", "failed", "cancelled"}, End(phase),
         UNCHANGED <<site, visited, pages>>, phase = "refused" => Reason
  PROVE  WalkInv'
<1>1. /\ walk' = [walk EXCEPT !.phase = phase] /\ walk \in Walk
  BY DEF End, WalkInv, WalkType
<1>2. walk'.phase = phase /\ walk' \in Walk
  BY <1>1 DEF Walk
<1>3. WalkType'
  BY <1>2 DEF WalkInv, WalkType
<1>4. WalkLed'
  BY <1>2, SiteKept DEF WalkInv, WalkLed
<1>5. WalkCloses' /\ WalkFinds'
  BY <1>2 DEF WalkCloses, WalkFinds, Going
<1>6. WalkRefuses'
  BY <1>2, SiteKept DEF WalkRefuses
<1> QED
  BY <1>3, <1>4, <1>5, <1>6 DEF WalkInv

LEMMA PassWalk ==
  ASSUME WalkInv, Pass
  PROVE  WalkInv'
<1> DEFINE s == walk.stack
<1>1. /\ walk.phase = "next" /\ s # <<>> /\ Place1 = Head(s) /\ Place1.map \in visited
      /\ walk' = [walk EXCEPT !.stack = Tail(s)]
      /\ UNCHANGED <<site, visited, pages>>
  BY DEF Pass, Place1
<1>2. walk \in Walk /\ s \in Seq(Place)
  BY DEF WalkInv, WalkType, Walk
<1>3. /\ Tail(s) \in Seq(Place) /\ ToSet(s) = {Place1} \cup ToSet(Tail(s))
  BY <1>1, <1>2, TopFacts
<1>4. walk' \in Walk /\ walk'.phase = "next" /\ walk'.stack = Tail(s)
  BY <1>1, <1>2, <1>3 DEF Walk
<1>5. visited \cup OnStack' = visited \cup OnStack
  BY <1>1, <1>3, <1>4 DEF OnStack
<1>6. \A m : ~BeingRead(m) /\ ~BeingRead(m)'
  BY <1>1, <1>4 DEF BeingRead
<1>7. WalkType'
  BY <1>1, <1>4 DEF WalkInv, WalkType
<1>8. WalkLed'
  BY <1>1, <1>3, <1>4, SiteKept, LedOn DEF WalkInv, WalkLed
<1>9. WalkCloses'
  BY <1>1, <1>4, <1>5, <1>6, SiteKept DEF WalkInv, WalkCloses, Going
<1>10. WalkFinds'
  <2>1. ReadSoFar' = ReadSoFar
    BY <1>1, <1>6 DEF ReadSoFar
  <2> QED
    BY <1>1, <1>4, <2>1, DatesKept DEF WalkInv, WalkFinds, Going
<1>11. WalkRefuses'
  BY <1>4 DEF WalkRefuses
<1> QED
  BY <1>7, <1>8, <1>9, <1>10, <1>11 DEF WalkInv

LEMMA VisitWalk ==
  ASSUME WalkInv, Visit
  PROVE  WalkInv'
<1> DEFINE s == walk.stack
<1>1. PICK h : h = Place1
  OBVIOUS
<1>2. /\ walk.phase = "next" /\ s # <<>> /\ h = Head(s) /\ h.map \in Map /\ h.map \notin visited
      /\ walk' = [walk EXCEPT !.phase = "reading"] /\ visited' = visited \cup {h.map}
      /\ UNCHANGED <<site, pages>>
  BY <1>1 DEF Visit, Place1, End
<1>3. walk \in Walk /\ s \in Seq(Place)
  BY DEF WalkInv, WalkType, Walk
<1>4. h \in Place /\ h \in ToSet(s)
  BY <1>2, <1>3, TopFacts
<1>5. walk' \in Walk /\ walk'.phase = "reading" /\ walk'.stack = s
  BY <1>2, <1>3 DEF Walk
<1>6. Place1' = h /\ OnStack' = OnStack
  BY <1>2, <1>5 DEF Place1, OnStack
<1>7. \A m : ~BeingRead(m) /\ (BeingRead(m)' <=> m = h.map)
  BY <1>2, <1>5, <1>6 DEF BeingRead
<1>8. h.map \in Reachable /\ LedTo(h, h.depth)
  <2>1. h.map # NoPlace
    BY <1>2, FetchingAssumption
  <2> QED
    BY <1>2, <1>4, <2>1 DEF WalkInv, WalkLed
<1>9. WalkType'
  BY <1>2, <1>5 DEF WalkInv, WalkType
<1>10. LedTo(h, h.depth + 1)'
  <2>1. PICK path : Along(h, h.depth, path)
    BY <1>8 DEF LedTo
  <2>2. h.depth \in Nat
    BY <1>4 DEF Place
  <2>3. /\ \A n \in 1..h.depth : path[n] \in visited
        /\ path[h.depth + 1] = h.map
        /\ \A m, n \in 1..h.depth : path[m] = path[n] => m = n
    BY <2>1 DEF Along
  <2>4. \A m, n \in 1..(h.depth + 1) : path[m] = path[n] => m = n
    <3>1. \A n \in 1..(h.depth + 1) : n \in 1..h.depth \/ n = h.depth + 1
      BY <2>2
    <3> QED
      BY <1>2, <2>3, <3>1
  <2>5. Along(h, h.depth + 1, path)'
    BY <1>2, <2>1, <2>4 DEF Along, Inside
  <2> QED
    BY <2>5 DEF LedTo
<1>11. WalkLed'
  <2>1. Reachable' = Reachable /\ \A m : Unusable(m)' <=> Unusable(m)
    BY <1>2, SiteKept
  <2>2. visited' \subseteq Reachable /\ IsFiniteSet(visited')
    BY <1>2, <1>8, FS_AddElement DEF WalkInv, WalkLed
  <2>3. \A e \in ToSet(s) : LedTo(e, e.depth) => LedTo(e, e.depth)'
    BY <1>2, LedOn
  <2>4. s # <<>> /\ h.map \in visited'
    BY <1>2
  <2>5. \A e \in ToSet(s) :
          IF e.map = NoPlace THEN \E m \in Reachable : Unusable(m)'
          ELSE e.map \in Reachable /\ LedTo(e, e.depth)'
    BY <1>2, <2>1, <2>3 DEF WalkInv, WalkLed
  <2> QED
    BY <1>5, <1>6, <1>10, <2>1, <2>2, <2>4, <2>5 DEF WalkLed
<1>12. WalkCloses'
  <2>1. \A m \in visited : Inside(m) \subseteq visited \cup OnStack
    BY <1>2, <1>7 DEF WalkInv, WalkCloses, Going
  <2>2. Root \in visited \cup OnStack
    BY <1>2 DEF WalkInv, WalkCloses, Going
  <2>3. \A m \in visited' : BeingRead(m)' \/ Inside(m)' \subseteq visited' \cup OnStack'
    BY <1>2, <1>6, <1>7, <2>1, SiteKept
  <2> QED
    BY <1>2, <1>5, <1>6, <2>2, <2>3 DEF WalkCloses
<1>13. WalkFinds'
  <2>1. ReadSoFar' = visited /\ ReadSoFar = visited
    BY <1>2, <1>7 DEF ReadSoFar
  <2> QED
    BY <1>2, <1>5, <2>1, DatesKept DEF WalkInv, WalkFinds, Going
<1>14. WalkRefuses'
  BY <1>5 DEF WalkRefuses
<1> QED
  BY <1>9, <1>11, <1>12, <1>13, <1>14 DEF WalkInv

\* Past a bound, the way there or what has been read shows it.
LEMMA RefuseWalk ==
  ASSUME WalkInv, Refuse
  PROVE  WalkInv'
<1> DEFINE s == walk.stack
<1>1. PICK h : h = Place1
  OBVIOUS
<1>2. /\ walk.phase = "next" /\ s # <<>> /\ h = Head(s) /\ h.map \notin visited
      /\ h.map = NoPlace \/ h.depth > MaxDepth \/ Cardinality(visited) >= MaxMaps
      /\ End("refused") /\ UNCHANGED <<site, visited, pages>>
  BY <1>1 DEF Refuse, Place1, TooFar
<1>3. walk \in Walk /\ s \in Seq(Place)
  BY DEF WalkInv, WalkType, Walk
<1>4. h \in Place /\ h \in ToSet(s)
  BY <1>2, <1>3, TopFacts
<1>5. IF h.map = NoPlace THEN \E m \in Reachable : Unusable(m)
      ELSE h.map \in Reachable /\ LedTo(h, h.depth)
  BY <1>2, <1>4 DEF WalkInv, WalkLed
<1>6. CASE h.map = NoPlace
  BY <1>2, <1>5, <1>6, WalkStops DEF Reason
<1>7. CASE h.map # NoPlace /\ h.depth > MaxDepth
  <2>1. PICK path : Along(h, h.depth, path)
    BY <1>5, <1>7 DEF LedTo
  <2>2. h.depth \in Nat /\ MaxDepth \in Nat /\ MaxDepth + 2 <= h.depth + 1
    BY <1>4, <1>7, FetchingAssumption DEF Place
  <2>3. /\ path \in [1..(h.depth + 1) -> Map] /\ path[1] = Root /\ path[h.depth + 1] = h.map
        /\ \A n \in 1..h.depth : path[n] \in visited /\ path[n + 1] \in Inside(path[n])
        /\ \A m, n \in 1..h.depth : path[m] = path[n] => m = n
    BY <2>1 DEF Along
  <2>4. \A m, n \in 1..(h.depth + 1) : path[m] = path[n] => m = n
    <3>1. \A n \in 1..(h.depth + 1) : n \in 1..h.depth \/ n = h.depth + 1
      BY <2>2
    <3> QED
      BY <1>2, <2>3, <3>1
  <2> DEFINE start == [n \in 1..(MaxDepth + 2) |-> path[n]]
  <2>5. \A n \in 1..(MaxDepth + 2) : n \in 1..(h.depth + 1)
    BY <2>2
  <2>6. start \in [1..(MaxDepth + 2) -> Map] /\ DOMAIN start = 1..(MaxDepth + 2)
    BY <2>3, <2>5
  <2>7. start[1] = Root
    BY <2>2, <2>3
  <2>8. \A n \in 1..(MaxDepth + 1) : start[n + 1] \in Inside(start[n])
    <3> SUFFICES ASSUME NEW n \in 1..(MaxDepth + 1) PROVE start[n + 1] \in Inside(start[n])
      OBVIOUS
    <3>1. n \in 1..(MaxDepth + 2) /\ n + 1 \in 1..(MaxDepth + 2) /\ n \in 1..h.depth
      BY <2>2
    <3> QED
      BY <2>3, <3>1
  <2>9. \A m, n \in DOMAIN start : start[m] = start[n] => m = n
    BY <2>4, <2>5, <2>6
  <2> HIDE DEF start
  <2>10. TooDeep
    BY <2>6, <2>7, <2>8, <2>9 DEF TooDeep
  <2> QED
    BY <1>2, <2>10, WalkStops DEF Reason
<1>8. CASE h.map # NoPlace /\ Cardinality(visited) >= MaxMaps
  <2> DEFINE S == visited \cup {h.map}
  <2>1. IsFiniteSet(visited) /\ visited \subseteq Reachable /\ MaxMaps \in Nat
    BY FetchingAssumption DEF WalkInv, WalkLed
  <2>2. Cardinality(visited) \in Nat
    BY <2>1, FS_CardinalityType
  <2>3. IsFiniteSet(S) /\ Cardinality(S) = Cardinality(visited) + 1
    BY <1>2, <2>1, FS_AddElement
  <2>4. S \in SUBSET Reachable
    BY <1>5, <1>8, <2>1
  <2> HIDE DEF S
  <2>5. Cardinality(S) > MaxMaps
    BY <1>8, <2>1, <2>2, <2>3
  <2>6. TooMany
    BY <2>3, <2>4, <2>5 DEF TooMany
  <2> QED
    BY <1>2, <2>6, WalkStops DEF Reason
<1> QED
  BY <1>2, <1>6, <1>7, <1>8

\* A map that was read is passed over from here on: what the two kinds of map
\* that can be read have in common.
LEMMA ReadFacts ==
  ASSUME WalkInv, Read, NEW h, h = Place1
  PROVE  /\ walk.phase = "reading" /\ walk.stack # <<>> /\ h = Head(walk.stack)
         /\ walk \in Walk /\ walk.stack \in Seq(Place)
         /\ h \in Place /\ h.depth \in Nat /\ h.map \in visited /\ h.map \in Map
         /\ h.map \in Reachable /\ LedTo(h, h.depth + 1)
         /\ Tail(walk.stack) \in Seq(Place)
         /\ ToSet(walk.stack) = {h} \cup ToSet(Tail(walk.stack))
         /\ \A m : BeingRead(m) <=> m = h.map
         /\ ReadSoFar = visited \ {h.map}
         /\ UNCHANGED <<site, visited>>
<1>1. /\ walk.phase = "reading" /\ walk.stack # <<>> /\ h.map \in visited
      /\ LedTo(h, h.depth + 1) /\ visited \subseteq Reachable
  BY DEF Read, WalkInv, WalkLed
<1>2. walk \in Walk /\ walk.stack \in Seq(Place) /\ h = Head(walk.stack) /\ visited \in SUBSET Map
  BY DEF WalkInv, WalkType, Walk, Place1
<1>3. h \in Place /\ h.depth \in Nat
  BY <1>1, <1>2, TopFacts DEF Place
<1>4. /\ Tail(walk.stack) \in Seq(Place)
      /\ ToSet(walk.stack) = {h} \cup ToSet(Tail(walk.stack))
  BY <1>1, <1>2, TopFacts
<1>5. \A m : BeingRead(m) <=> m = h.map
  BY <1>1 DEF BeingRead
<1>6. ReadSoFar = visited \ {h.map}
  BY <1>5 DEF ReadSoFar
<1>7. UNCHANGED <<site, visited>>
  BY DEF Read
<1> QED
  BY <1>1, <1>2, <1>3, <1>4, <1>5, <1>6, <1>7

LEMMA ReadIndex ==
  ASSUME WalkInv, Read, site[Place1.map].kind = "index"
  PROVE  WalkInv'
<1> DEFINE s == walk.stack
<1>1. PICK h : h = Place1
  OBVIOUS
<1> DEFINE items == site[h.map].items
           inside == [n \in DOMAIN items |-> [map |-> items[n], depth |-> h.depth + 1]]
<1>2. /\ walk.phase = "reading" /\ s # <<>> /\ h = Head(s)
      /\ walk \in Walk /\ s \in Seq(Place)
      /\ h \in Place /\ h.depth \in Nat /\ h.map \in visited /\ h.map \in Map
      /\ h.map \in Reachable /\ LedTo(h, h.depth + 1)
      /\ Tail(s) \in Seq(Place) /\ ToSet(s) = {h} \cup ToSet(Tail(s))
      /\ \A m : BeingRead(m) <=> m = h.map
      /\ ReadSoFar = visited \ {h.map}
      /\ site' = site /\ visited' = visited
  BY <1>1, ReadFacts
<1>3. walk' = [phase |-> "next", stack |-> inside \o Tail(s)] /\ pages' = pages
  BY <1>1 DEF Read
<1>4. site[h.map].kind = "index" /\ items \in Seq(Map \cup {NoPlace})
  BY <1>1, <1>2, SiteFacts DEF WalkInv
<1>5. /\ inside \in Seq(Place)
      /\ ToSet(inside) = {[map |-> m, depth |-> h.depth + 1] : m \in ToSet(items)}
      /\ ToSet(items) \subseteq Map \cup {NoPlace}
  <2>1. items \in [1..Len(items) -> Map \cup {NoPlace}] /\ Len(items) \in Nat
    BY <1>4
  <2> HIDE DEF items
  <2>2. DOMAIN items = 1..Len(items)
    BY <2>1
  <2>3. \A n \in 1..Len(items) : [map |-> items[n], depth |-> h.depth + 1] \in Place
    BY <1>2, <2>1 DEF Place
  <2>4. inside \in [1..Len(items) -> Place]
    BY <2>2, <2>3
  <2>5. inside \in Seq(Place)
    BY <2>1, <2>4
  <2>6. ToSet(inside) = {[map |-> m, depth |-> h.depth + 1] : m \in ToSet(items)}
    BY DEF ToSet
  <2>7. ToSet(items) \subseteq Map \cup {NoPlace}
    BY <2>1, <2>2 DEF ToSet
  <2> QED
    BY <2>5, <2>6, <2>7
<1>6. ToSet(items) \ {NoPlace} = Inside(h.map)
  BY <1>4 DEF Inside
<1>7. NoPlace \in ToSet(items) => Unusable(h.map)
  BY DEF Unusable
<1> HIDE DEF inside, items
<1>8. inside \o Tail(s) \in Seq(Place) /\ ToSet(inside \o Tail(s)) = ToSet(inside) \cup ToSet(Tail(s))
  BY <1>2, <1>5, JoinedFacts
<1>9. walk' \in Walk /\ walk'.phase = "next" /\ walk'.stack = inside \o Tail(s)
  BY <1>3, <1>8 DEF Walk
<1>10. \A m : ~BeingRead(m)'
  BY <1>9 DEF BeingRead
<1>11. WalkType'
  BY <1>2, <1>3, <1>9 DEF WalkInv, WalkType
<1>12. \A e \in ToSet(inside) :
         IF e.map = NoPlace THEN \E m \in Reachable : Unusable(m)
         ELSE e.map \in Reachable /\ LedTo(e, e.depth)
  <2> SUFFICES ASSUME NEW i \in ToSet(items)
               PROVE  LET e == [map |-> i, depth |-> h.depth + 1] IN
                      IF e.map = NoPlace THEN \E m \in Reachable : Unusable(m)
                      ELSE e.map \in Reachable /\ LedTo(e, e.depth)
    BY <1>5
  <2> DEFINE e == [map |-> i, depth |-> h.depth + 1]
  <2>1. e.map = i /\ e.depth = h.depth + 1
    OBVIOUS
  <2> HIDE DEF e
  <2>2. CASE i = NoPlace
    BY <1>2, <1>7, <2>1, <2>2 DEF e
  <2>3. CASE i # NoPlace
    <3>1. i \in Inside(h.map) /\ i \in Map
      BY <1>5, <1>6, <2>3
    <3>2. i \in Reachable
      BY <1>2, <3>1, ReachableFacts DEF WalkInv
    <3>3. PICK path : Along(h, h.depth + 1, path)
      BY <1>2 DEF LedTo
    <3>4. /\ path \in [1..(h.depth + 1) -> Map] /\ path[1] = Root /\ path[h.depth + 1] = h.map
          /\ \A n \in 1..h.depth : path[n] \in visited /\ path[n + 1] \in Inside(path[n])
          /\ \A m, n \in 1..(h.depth + 1) : path[m] = path[n] => m = n
      BY <3>3 DEF Along
    <3> DEFINE d == h.depth + 1
               longer == [n \in 1..(d + 1) |-> IF n = d + 1 THEN i ELSE path[n]]
    <3>5. d \in Nat /\ d # 0 /\ h.depth = d - 1
      <4>1. h.depth \in Nat
        BY <1>2
      <4> QED
        BY <4>1
    <3> HIDE DEF d
    <3>6. /\ \A n \in 1..d : n \in 1..(d + 1) /\ n # d + 1 /\ n + 1 \in 1..(d + 1)
          /\ \A n \in 1..d : n \in 1..h.depth \/ n = d
          /\ 1 \in 1..d /\ d \in 1..d /\ d + 1 \in 1..(d + 1)
          /\ \A n \in 1..(d + 1) : n = d + 1 \/ n \in 1..d
      BY <3>5
    <3>7. longer \in [1..(d + 1) -> Map]
      BY <3>1, <3>4, <3>6 DEF d
    <3>8. longer[1] = Root /\ longer[d + 1] = i /\ \A n \in 1..d : longer[n] = path[n]
      BY <3>4, <3>6
    <3> HIDE DEF longer
    <3>9. \A n \in 1..d : longer[n] \in visited /\ longer[n + 1] \in Inside(longer[n])
      <4> SUFFICES ASSUME NEW n \in 1..d
                   PROVE  longer[n] \in visited /\ longer[n + 1] \in Inside(longer[n])
        OBVIOUS
      <4>1. CASE n = d
        BY <1>2, <3>1, <3>4, <3>6, <3>8, <4>1 DEF d
      <4>2. CASE n # d
        <5>1. n \in 1..h.depth /\ n + 1 \in 1..d
          BY <3>5, <4>2
        <5> QED
          BY <3>4, <3>8, <5>1
      <4> QED
        BY <4>1, <4>2
    <3>10. \A m, n \in 1..d : longer[m] = longer[n] => m = n
      BY <3>4, <3>8 DEF d
    <3>11. Along(e, d, longer) /\ e.depth = d
      BY <2>1, <3>7, <3>8, <3>9, <3>10 DEF Along, d
    <3>12. LedTo(e, e.depth)
      BY <3>11 DEF LedTo
    <3> QED
      BY <2>1, <2>3, <3>2, <3>12 DEF e
  <2> QED
    BY <2>2, <2>3
<1>13. WalkLed'
  <2>1. /\ Reachable' = Reachable /\ \A m : Unusable(m)' <=> Unusable(m)
        /\ \A e, k : LedTo(e, k) => LedTo(e, k)'
    BY <1>2, SiteKept, LedOn
  <2>2. \A e \in ToSet(Tail(s)) :
         IF e.map = NoPlace THEN \E m \in Reachable : Unusable(m)
         ELSE e.map \in Reachable /\ LedTo(e, e.depth)
    BY <1>2 DEF WalkInv, WalkLed
  <2>3. visited \subseteq Reachable /\ IsFiniteSet(visited)
    BY DEF WalkInv, WalkLed
  <2>4. \A e \in ToSet(walk'.stack) :
         IF e.map = NoPlace THEN \E m \in Reachable : Unusable(m)'
         ELSE e.map \in Reachable /\ LedTo(e, e.depth)'
    BY <1>8, <1>9, <1>12, <2>1, <2>2
  <2> QED
    BY <1>2, <1>9, <2>1, <2>3, <2>4 DEF WalkLed
<1>14. WalkCloses'
  <2>1. OnStack = {h.map} \cup {e.map : e \in ToSet(Tail(s))}
    BY <1>2 DEF OnStack
  <2>2. OnStack' = ToSet(items) \cup {e.map : e \in ToSet(Tail(s))}
    <3>1. {e.map : e \in ToSet(inside)} = ToSet(items)
      <4>1. \A m : [map |-> m, depth |-> h.depth + 1].map = m
        OBVIOUS
      <4>2. {e.map : e \in {[map |-> m, depth |-> h.depth + 1] : m \in ToSet(items)}} = ToSet(items)
        BY <4>1
      <4> QED
        BY <1>5, <4>2
    <3>2. OnStack' = {e.map : e \in ToSet(inside) \cup ToSet(Tail(s))}
      BY <1>8, <1>9 DEF OnStack
    <3> QED
      BY <3>1, <3>2
  <2>3. /\ Root \in visited \cup OnStack
        /\ \A m \in visited : m = h.map \/ Inside(m) \subseteq visited \cup OnStack
    BY <1>2 DEF WalkInv, WalkCloses, Going
  <2>4. visited \cup OnStack \subseteq visited \cup OnStack'
    BY <1>2, <2>1, <2>2
  <2>5. Inside(h.map) \subseteq OnStack'
    BY <1>6, <2>2
  <2>6. \A m \in visited : Inside(m)' \subseteq visited \cup OnStack'
    BY <1>2, <2>3, <2>4, <2>5, SiteKept
  <2> QED
    BY <1>2, <1>9, <2>3, <2>4, <2>6 DEF WalkCloses
<1>15. WalkFinds'
  <2>1. ReadSoFar' = visited
    BY <1>2, <1>10 DEF ReadSoFar
  <2>2. \A p : Dates(p, visited) = Dates(p, visited \ {h.map})
    BY <1>4 DEF Dates
  <2>3. \A p \in Page : IsNewest(pages[p], Dates(p, ReadSoFar))
    BY <1>2 DEF WalkInv, WalkFinds, Going
  <2> QED
    BY <1>2, <1>3, <2>1, <2>2, <2>3, DatesKept DEF WalkFinds
<1>16. WalkRefuses'
  BY <1>9 DEF WalkRefuses
<1> QED
  BY <1>11, <1>13, <1>14, <1>15, <1>16 DEF WalkInv

LEMMA DatesAreMoments ==
  ASSUME WalkType, NEW M \in SUBSET Map, NEW p
  PROVE  Dates(p, M) \in SUBSET Nat
<1> DEFINE Items(m) == ToSet(site[m].items)
<1>1. ASSUME NEW m \in M, site[m].kind = "urlset" PROVE Items(m) \subseteq Listed \cup {NoPlace}
  <2>1. site[m].items \in Seq(Listed \cup {NoPlace})
    BY <1>1, SiteFacts
  <2>2. \A q \in Seq(Listed \cup {NoPlace}) : ToSet(q) \subseteq Listed \cup {NoPlace}
    BY DEF ToSet
  <2> QED
    BY <2>1, <2>2
<1>2. \A i \in Listed : i.lastmod \in Nat
  BY DEF Listed, Moment
<1>3. Dates(p, M) = {item.lastmod : item \in {i \in (UNION {Items(m) :
        m \in {r \in M : site[r].kind = "urlset"}}) \ {NoPlace} : i.page = p}}
  BY DEF Dates
<1> HIDE DEF Items
<1>4. (UNION {Items(m) : m \in {r \in M : site[r].kind = "urlset"}}) \ {NoPlace} \subseteq Listed
  BY <1>1
<1> QED
  BY <1>2, <1>3, <1>4

LEMMA ReadUrlset ==
  ASSUME WalkInv, Read, site[Place1.map].kind = "urlset",
         NoPlace \notin ToSet(site[Place1.map].items)
  PROVE  WalkInv'
<1> DEFINE s == walk.stack
<1>1. PICK h : h = Place1
  OBVIOUS
<1> DEFINE items == site[h.map].items
<1>2. /\ walk.phase = "reading" /\ s # <<>> /\ h = Head(s)
      /\ walk \in Walk /\ s \in Seq(Place)
      /\ h \in Place /\ h.depth \in Nat /\ h.map \in visited /\ h.map \in Map
      /\ h.map \in Reachable /\ LedTo(h, h.depth + 1)
      /\ Tail(s) \in Seq(Place) /\ ToSet(s) = {h} \cup ToSet(Tail(s))
      /\ \A m : BeingRead(m) <=> m = h.map
      /\ ReadSoFar = visited \ {h.map}
      /\ site' = site /\ visited' = visited
  BY <1>1, ReadFacts
<1>3. walk' = [phase |-> "next", stack |-> Tail(s)] /\ pages' = Found(pages, items)
  BY <1>1 DEF Read
<1>4. site[h.map].kind = "urlset" /\ items \in Seq(Listed \cup {NoPlace})
  BY <1>1, <1>2, SiteFacts DEF WalkInv
<1>5. items \in Seq(Listed) /\ ToSet(items) = {items[n] : n \in 1..Len(items)}
  <2>1. NoPlace \notin ToSet(items)
    BY <1>1
  <2> HIDE DEF items
  <2>2. /\ items \in [1..Len(items) -> Listed \cup {NoPlace}] /\ Len(items) \in Nat
        /\ DOMAIN items = 1..Len(items)
    BY <1>4
  <2>3. ToSet(items) = {items[n] : n \in 1..Len(items)}
    BY <2>2 DEF ToSet
  <2>4. \A n \in 1..Len(items) : items[n] \in Listed
    BY <2>1, <2>2, <2>3
  <2>5. items \in [1..Len(items) -> Listed]
    BY <2>2, <2>4
  <2>6. items \in Seq(Listed)
    BY <2>2, <2>5
  <2> QED
    BY <2>3, <2>6
<1>6. walk' \in Walk /\ walk'.phase = "next" /\ walk'.stack = Tail(s)
  BY <1>2, <1>3 DEF Walk
<1>7. \A m : ~BeingRead(m)'
  BY <1>6 DEF BeingRead
<1>8. Inside(h.map) = {}
  BY <1>4 DEF Inside
<1>9. \A p \in Page : Dates(p, visited) = Dates(p, ReadSoFar) \cup DatesTo(items, Len(items), p)
  <2> SUFFICES ASSUME NEW p \in Page
               PROVE  Dates(p, visited) = Dates(p, ReadSoFar) \cup DatesTo(items, Len(items), p)
    OBVIOUS
  <2>1. DatesTo(items, Len(items), p) = {i.lastmod : i \in {j \in ToSet(items) : j.page = p}}
    <3> HIDE DEF items
    <3> QED
      BY <1>5 DEF DatesTo
  <2> DEFINE Maps(M) == {r \in M : site[r].kind = "urlset"}
             Items(M) == (UNION {ToSet(site[m].items) : m \in Maps(M)}) \ {NoPlace}
             Of(M) == {i \in Items(M) : i.page = p}
  <2>2. Maps(visited) = Maps(ReadSoFar) \cup {h.map}
    BY <1>2, <1>4
  <2>3. Items(visited) = Items(ReadSoFar) \cup (ToSet(items) \ {NoPlace})
    <3> HIDE DEF Maps, items
    <3>1. UNION {ToSet(site[m].items) : m \in Maps(visited)}
            = (UNION {ToSet(site[m].items) : m \in Maps(ReadSoFar)}) \cup ToSet(site[h.map].items)
      BY <2>2
    <3> QED
      BY <3>1 DEF items
  <2>4. ToSet(items) \ {NoPlace} = ToSet(items)
    BY <1>1
  <2> HIDE DEF Items, items
  <2>5. Of(visited) = Of(ReadSoFar) \cup {j \in ToSet(items) : j.page = p}
    BY <2>3, <2>4
  <2>6. \A M : Dates(p, M) = {i.lastmod : i \in Of(M)}
    BY DEF Dates, Items
  <2> HIDE DEF Of
  <2> QED
    BY <2>1, <2>5, <2>6
<1>10. \A p \in Page : Dates(p, ReadSoFar) \in SUBSET Nat
  BY <1>2, DatesAreMoments DEF WalkInv, WalkType
<1>11. pages \in Pages /\ \A p \in Page : IsNewest(pages[p], Dates(p, ReadSoFar))
  BY <1>2 DEF WalkInv, WalkType, WalkFinds, Going
<1> HIDE DEF items
<1>12. /\ pages' \in Pages
       /\ \A p \in Page : IsNewest(pages'[p], Dates(p, visited))
  <2> DEFINE D == [p \in Page |-> Dates(p, ReadSoFar)]
  <2>1. D \in [Page -> SUBSET Nat] /\ \A p \in Page : D[p] = Dates(p, ReadSoFar)
    BY <1>10
  <2> HIDE DEF D
  <2>2. \A p \in Page : IsNewest(pages[p], D[p])
    BY <1>11, <2>1
  <2>3. /\ Found(pages, items) \in Pages
        /\ \A p \in Page :
             IsNewest(Found(pages, items)[p], D[p] \cup DatesTo(items, Len(items), p))
    BY <1>5, <1>11, <2>1, <2>2, FoundIsNewest
  <2> QED
    BY <1>3, <1>9, <2>1, <2>3
<1>13. WalkType'
  BY <1>2, <1>6, <1>12 DEF WalkInv, WalkType
<1>14. WalkLed'
  <2>1. /\ Reachable' = Reachable /\ \A m : Unusable(m)' <=> Unusable(m)
        /\ \A e, k : LedTo(e, k) => LedTo(e, k)'
    BY <1>2, SiteKept, LedOn
  <2>2. \A e \in ToSet(Tail(s)) :
         IF e.map = NoPlace THEN \E m \in Reachable : Unusable(m)
         ELSE e.map \in Reachable /\ LedTo(e, e.depth)
    BY <1>2 DEF WalkInv, WalkLed
  <2>3. visited \subseteq Reachable /\ IsFiniteSet(visited)
    BY DEF WalkInv, WalkLed
  <2> QED
    BY <1>2, <1>6, <2>1, <2>2, <2>3 DEF WalkLed
<1>15. WalkCloses'
  <2>1. OnStack = {h.map} \cup OnStack'
    BY <1>2, <1>6 DEF OnStack
  <2>2. visited \cup OnStack = visited \cup OnStack'
    BY <1>2, <2>1
  <2>3. /\ Root \in visited \cup OnStack
        /\ \A m \in visited : m = h.map \/ Inside(m) \subseteq visited \cup OnStack
    BY <1>2 DEF WalkInv, WalkCloses, Going
  <2>4. \A m \in visited : Inside(m)' \subseteq visited \cup OnStack'
    BY <1>2, <1>8, <2>2, <2>3, SiteKept
  <2> QED
    BY <1>2, <1>6, <2>2, <2>3, <2>4 DEF WalkCloses
<1>16. WalkFinds'
  <2>1. ReadSoFar' = visited
    BY <1>2, <1>7 DEF ReadSoFar
  <2> QED
    BY <1>2, <1>12, <2>1, DatesKept DEF WalkFinds
<1>17. WalkRefuses'
  BY <1>6 DEF WalkRefuses
<1> QED
  BY <1>13, <1>14, <1>15, <1>16, <1>17 DEF WalkInv

LEMMA ReadWalk ==
  ASSUME WalkInv, Read
  PROVE  WalkInv'
<1> DEFINE m == Place1.map
<1>1. m \in Map /\ m \in Reachable /\ UNCHANGED <<site, visited>>
  BY ReadFacts
<1>2. CASE site[m].kind = "index"
  BY <1>2, ReadIndex
<1>3. CASE site[m].kind = "urlset" /\ NoPlace \notin ToSet(site[m].items)
  BY <1>3, ReadUrlset
<1>4. CASE site[m].kind = "other" \/ (site[m].kind = "urlset" /\ NoPlace \in ToSet(site[m].items))
  <2>1. NoPlace \in ToSet(site[m].items) => \E n \in DOMAIN site[m].items : site[m].items[n] = NoPlace
    BY DEF ToSet
  <2>2. End("refused") /\ pages' = pages
    BY <1>4, <2>1 DEF Read
  <2>3. Unusable(m)
    BY <1>4 DEF Unusable
  <2> QED
    BY <1>1, <2>2, <2>3, WalkStops DEF Reason
<1> QED
  BY <1>1, <1>2, <1>3, <1>4, SiteFacts DEF WalkInv

LEMMA MissWalk ==
  ASSUME WalkInv, Miss
  PROVE  WalkInv'
<1>1. \E phase \in {"failed", "cancelled"} : End(phase)
  BY DEF Miss
<1>2. UNCHANGED <<site, visited, pages>>
  BY DEF Miss
<1> QED
  BY <1>1, <1>2, WalkStops

\* The newest of a set is its Max.
LEMMA NewestIsMax ==
  ASSUME NEW p \in Page, NEW v, IsNewest(v, Dates(p, Reachable)),
         Dates(p, Reachable) \in SUBSET Nat
  PROVE  v = Newest(p)
<1> DEFINE D == Dates(p, Reachable)
<1>1. CASE D = {}
  BY <1>1 DEF IsNewest, Newest
<1>2. CASE D # {}
  <2>1. v \in D /\ \A w \in D : v >= w
    BY <1>2 DEF IsNewest
  <2>2. Newest(p) = Max(D)
    BY <1>2 DEF Newest
  <2> HIDE DEF D
  <2>3. \A u \in D : (\A w \in D : u >= w) => u = v
    <3> SUFFICES ASSUME NEW u \in D, \A w \in D : u >= w PROVE u = v
      OBVIOUS
    <3>1. u \in Nat /\ v \in Nat /\ u >= v /\ v >= u
      BY <2>1 DEF D
    <3> QED
      BY <3>1
  <2>4. Max(D) = v
    BY <2>1, <2>3 DEF Max
  <2> QED
    BY <2>2, <2>4
<1> QED
  BY <1>1, <1>2

\* With nothing left to read, what has been read is all there is.
LEMMA AllRead ==
  ASSUME WalkInv, walk.phase \in {"next", "listed"}, walk.stack = <<>>
  PROVE  visited = Reachable /\ \A p \in Page : pages[p] = Newest(p)
<1>1. OnStack = {}
  BY DEF OnStack, ToSet
<1>2. \A m : ~BeingRead(m)
  BY DEF BeingRead
<1>3. Root \in visited /\ \A m \in visited : Inside(m) \subseteq visited
  BY <1>1, <1>2 DEF WalkInv, WalkCloses, Going
<1>4. visited = Reachable
  BY <1>3, ReachableFacts DEF WalkInv, WalkType, WalkLed
<1>5. ReadSoFar = visited
  BY <1>2 DEF ReadSoFar
<1>6. \A p \in Page : IsNewest(pages[p], Dates(p, Reachable))
  BY <1>4, <1>5 DEF WalkInv, WalkFinds, Going
<1>7. \A p \in Page : Dates(p, Reachable) \in SUBSET Nat
  BY ReachableFacts, DatesAreMoments DEF WalkInv
<1> QED
  BY <1>4, <1>6, <1>7, NewestIsMax

LEMMA ListWalk ==
  ASSUME WalkInv, List
  PROVE  WalkInv'
<1>1. /\ walk.phase = "next" /\ walk.stack = <<>>
      /\ UNCHANGED <<site, visited, pages>>
  BY DEF List
<1>2. CASE \A p \in Page : pages[p] = Unlisted
  <2>1. End("refused")
    BY <1>2 DEF List
  <2>2. \A p \in Page : Newest(p) = Unlisted
    BY <1>1, <1>2, AllRead
  <2> QED
    BY <1>1, <2>1, <2>2, WalkStops DEF Reason
<1>3. CASE ~\A p \in Page : pages[p] = Unlisted
  <2>1. walk' = [walk EXCEPT !.phase = "listed"] /\ walk \in Walk
    BY <1>3 DEF List, End, WalkInv, WalkType
  <2>2. walk' \in Walk /\ walk'.phase = "listed" /\ walk'.stack = <<>>
    BY <1>1, <2>1 DEF Walk
  <2>3. WalkType'
    BY <1>1, <2>2 DEF WalkInv, WalkType
  <2>4. WalkLed'
    BY <1>1, <2>2, SiteKept DEF WalkInv, WalkLed
  <2>5. OnStack' = OnStack
    BY <1>1, <2>2 DEF OnStack
  <2>6. \A m : ~BeingRead(m) /\ ~BeingRead(m)'
    BY <1>1, <2>2 DEF BeingRead
  <2>7. WalkCloses'
    BY <1>1, <2>2, <2>5, <2>6, SiteKept DEF WalkInv, WalkCloses, Going
  <2>8. ReadSoFar' = ReadSoFar
    BY <1>1, <2>6 DEF ReadSoFar
  <2>9. WalkFinds'
    BY <1>1, <2>8, DatesKept DEF WalkInv, WalkFinds, Going
  <2>10. WalkRefuses'
    BY <2>2 DEF WalkRefuses
  <2> QED
    BY <2>3, <2>4, <2>7, <2>9, <2>10 DEF WalkInv
<1> QED
  BY <1>2, <1>3

LEMMA NextWalk ==
  ASSUME WalkInv, [Next]_vars
  PROVE  WalkInv'
<1>1. CASE WalkOn
  BY <1>1, PassWalk, VisitWalk, RefuseWalk, ReadWalk, MissWalk, ListWalk DEF WalkOn
<1>2. CASE UNCHANGED <<site, wvars>>
  BY <1>2, WalkKept
<1>3. CASE UNCHANGED vars
  BY <1>3, WalkKept DEF vars
<1>4. ASSUME NEW t \in Thread, Step(t) PROVE WalkOn \/ UNCHANGED <<site, wvars>>
  BY <1>4 DEF Step, Abandon, FetchOn, Take, Again, Settle
<1> QED
  BY <1>1, <1>2, <1>3, <1>4 DEF Next

LEMMA WalkCorrect == Spec => []WalkInv
<1>1. Init => WalkInv
  BY InitWalk
<1>2. WalkInv /\ [Next]_vars => WalkInv'
  BY NextWalk
<1> QED
  BY <1>1, <1>2, PTL DEF Spec, Safety

-----------------------------------------------------------------------------
(* What a listing has not skipped, and that the walk gets on.              *)

\* An entry that cannot be followed stays on the stack until the walk refuses.
WalkUsable == Going => \A m \in ReadSoFar : ~Unusable(m) \/ NoPlace \in OnStack
WalkBounded == Cardinality(visited) <= MaxMaps
ListInv == WalkInv /\ WalkUsable /\ WalkBounded

\* What there is to say of each step of the walk, for this and for WalkGetsOn.
LEMMA PassLeaves ==
  ASSUME WalkInv, Pass
  PROVE  /\ walk.phase = "next" /\ walk'.phase = "next" /\ UNCHANGED <<site, visited>>
         /\ ReadSoFar' = ReadSoFar
         /\ NoPlace \in OnStack => NoPlace \in OnStack'
         /\ Len(walk'.stack) \in Nat /\ Len(walk.stack) = Len(walk'.stack) + 1
<1> DEFINE s == walk.stack
<1>1. /\ walk.phase = "next" /\ s # <<>> /\ Place1 = Head(s) /\ Place1.map \in visited
      /\ walk' = [walk EXCEPT !.stack = Tail(s)]
      /\ UNCHANGED <<site, visited>>
  BY DEF Pass, Place1
<1>2. walk \in Walk /\ s \in Seq(Place) /\ visited \in SUBSET Map
  BY DEF WalkInv, WalkType, Walk
<1>3. /\ Tail(s) \in Seq(Place) /\ ToSet(s) = {Place1} \cup ToSet(Tail(s))
  BY <1>1, <1>2, TopFacts
<1>4. walk'.phase = "next" /\ walk'.stack = Tail(s)
  BY <1>1, <1>2 DEF Walk
<1>5. ReadSoFar' = ReadSoFar
  BY <1>1, <1>4 DEF ReadSoFar, BeingRead
<1>6. Place1.map # NoPlace
  BY <1>1, <1>2, FetchingAssumption
<1>7. NoPlace \in OnStack => NoPlace \in OnStack'
  BY <1>3, <1>4, <1>6 DEF OnStack
<1>8. Len(Tail(s)) \in Nat /\ Len(s) = Len(Tail(s)) + 1
  BY <1>1, <1>2
<1> QED
  BY <1>1, <1>4, <1>5, <1>7, <1>8

LEMMA VisitReaches ==
  ASSUME WalkInv, Visit
  PROVE  /\ walk.phase = "next" /\ walk'.phase = "reading" /\ walk'.stack = walk.stack
         /\ site' = site /\ ReadSoFar' = ReadSoFar /\ OnStack' = OnStack
         /\ walk.stack \in Seq(Place)
         /\ Cardinality(visited) < MaxMaps /\ Cardinality(visited') = Cardinality(visited) + 1
<1>1. PICK h : h = Place1
  OBVIOUS
<1>2. /\ walk.phase = "next" /\ h.map \notin visited
      /\ walk' = [walk EXCEPT !.phase = "reading"] /\ visited' = visited \cup {h.map}
      /\ site' = site /\ ~(Cardinality(visited) >= MaxMaps)
  BY <1>1 DEF Visit, End, TooFar
<1>3. walk \in Walk /\ walk.stack \in Seq(Place) /\ IsFiniteSet(visited)
  BY DEF WalkInv, WalkType, WalkLed, Walk
<1>4. walk'.phase = "reading" /\ walk'.stack = walk.stack
  BY <1>2, <1>3 DEF Walk
<1>5. Place1' = h /\ OnStack' = OnStack
  BY <1>1, <1>4 DEF Place1, OnStack
<1>6. ReadSoFar' = visited /\ ReadSoFar = visited
  BY <1>2, <1>4, <1>5 DEF ReadSoFar, BeingRead
<1>7. Cardinality(visited) \in Nat /\ Cardinality(visited') = Cardinality(visited) + 1
  BY <1>2, <1>3, FS_CardinalityType, FS_AddElement
<1>8. Cardinality(visited) < MaxMaps
  BY <1>2, <1>7, FetchingAssumption
<1> QED
  BY <1>2, <1>3, <1>4, <1>5, <1>6, <1>7, <1>8

LEMMA ReadAdds ==
  ASSUME WalkInv, Read
  PROVE  /\ walk.phase = "reading" /\ UNCHANGED <<site, visited>>
         /\ \/ walk'.phase = "refused"
            \/ /\ walk'.phase = "next" /\ walk'.stack \in Seq(Place)
               /\ ReadSoFar' = visited /\ ReadSoFar = visited \ {Place1.map}
               /\ Place1.map \in visited
               /\ NoPlace \in OnStack => NoPlace \in OnStack'
               /\ ~Unusable(Place1.map) \/ NoPlace \in OnStack'
<1>1. PICK h : h = Place1
  OBVIOUS
<1> DEFINE s == walk.stack
           items == site[h.map].items
           inside == [n \in DOMAIN items |-> [map |-> items[n], depth |-> h.depth + 1]]
<1>2. /\ walk.phase = "reading" /\ s # <<>> /\ h = Head(s)
      /\ walk \in Walk /\ s \in Seq(Place)
      /\ h.map \in visited /\ h.map \in Map
      /\ Tail(s) \in Seq(Place) /\ ToSet(s) = {h} \cup ToSet(Tail(s))
      /\ ReadSoFar = visited \ {h.map} /\ UNCHANGED <<site, visited>>
  BY <1>1, ReadFacts
<1>3. walk' \in Walk
  BY ReadWalk DEF WalkInv, WalkType
<1>4. h.map # NoPlace
  BY <1>2, FetchingAssumption
<1>5. CASE End("refused")
  BY <1>2, <1>5 DEF End, Walk
<1>6. ASSUME walk'.phase = "next", NoPlace \in OnStack => NoPlace \in OnStack',
             ~Unusable(h.map) \/ NoPlace \in OnStack'
      PROVE  /\ walk'.stack \in Seq(Place) /\ ReadSoFar' = visited
             /\ ReadSoFar = visited \ {Place1.map} /\ Place1.map \in visited
             /\ ~Unusable(Place1.map) \/ NoPlace \in OnStack'
  BY <1>1, <1>2, <1>3, <1>6 DEF Walk, ReadSoFar, BeingRead
<1>7. OnStack = {h.map} \cup {e.map : e \in ToSet(Tail(s))}
  BY <1>2 DEF OnStack
<1>8. CASE /\ site[h.map].kind = "index"
           /\ walk' = [phase |-> "next", stack |-> inside \o Tail(s)]
  <2>1. inside \in Seq(Place)
    <3>1. items \in Seq(Map \cup {NoPlace}) /\ h.depth \in Nat
      BY <1>1, <1>2, <1>8, SiteFacts, ReadFacts DEF WalkInv
    <3> HIDE DEF items
    <3>2. \A n \in DOMAIN items : [map |-> items[n], depth |-> h.depth + 1] \in Place
      BY <3>1 DEF Place
    <3>3. items \in [1..Len(items) -> Map \cup {NoPlace}] /\ Len(items) \in Nat
      BY <3>1
    <3> QED
      BY <3>2, <3>3
  <2>2. \A m \in ToSet(items) : \E e \in ToSet(inside) : e.map = m
    <3> SUFFICES ASSUME NEW n \in DOMAIN items
                 PROVE  \E e \in ToSet(inside) : e.map = items[n]
      BY DEF ToSet
    <3>1. inside[n] \in ToSet(inside) /\ inside[n].map = items[n]
      BY DEF ToSet
    <3> QED
      BY <3>1
  <2> HIDE DEF inside, items
  <2>3. ToSet(walk'.stack) = ToSet(inside) \cup ToSet(Tail(s))
    BY <1>2, <1>8, <2>1, JoinedFacts
  <2>4. NoPlace \in OnStack => NoPlace \in OnStack'
    BY <1>4, <1>7, <2>3 DEF OnStack
  <2>5. NoPlace \in ToSet(items) => NoPlace \in OnStack'
    BY <2>2, <2>3 DEF OnStack
  <2>6. Unusable(h.map) => NoPlace \in ToSet(items)
    BY <1>8 DEF Unusable, items
  <2>7. walk'.phase = "next"
    BY <1>8
  <2> QED
    BY <1>2, <1>6, <2>4, <2>5, <2>6, <2>7
<1>9. CASE /\ site[h.map].kind = "urlset" /\ NoPlace \notin ToSet(site[h.map].items)
           /\ walk' = [phase |-> "next", stack |-> Tail(s)]
  <2>1. walk'.phase = "next" /\ ~Unusable(h.map)
    BY <1>9 DEF Unusable
  <2>2. NoPlace \in OnStack => NoPlace \in OnStack'
    BY <1>4, <1>7, <1>9 DEF OnStack
  <2> QED
    BY <1>2, <1>6, <2>1, <2>2
<1>10. NoPlace \in ToSet(items) => \E n \in DOMAIN items : items[n] = NoPlace
  BY DEF ToSet
<1>11. \/ End("refused")
       \/ /\ site[h.map].kind = "index"
          /\ walk' = [phase |-> "next", stack |-> inside \o Tail(s)]
       \/ /\ site[h.map].kind = "urlset" /\ NoPlace \notin ToSet(items)
          /\ walk' = [phase |-> "next", stack |-> Tail(s)]
  BY <1>1, <1>10 DEF Read
<1> QED
  BY <1>5, <1>8, <1>9, <1>11

LEMMA EndsOver ==
  ASSUME WalkInv, Refuse \/ Miss \/ List
  PROVE  /\ walk.phase \in {"next", "reading"} /\ walk'.phase \in Over
         /\ UNCHANGED <<site, visited>>
         /\ walk'.phase = "listed" =>
              walk.phase = "next" /\ ReadSoFar' = ReadSoFar /\ OnStack' = OnStack
<1>1. PICK phase \in Over : End(phase) /\ phase = "listed" => List
  BY DEF Refuse, Miss, List, Over
<1>2. walk \in Walk /\ UNCHANGED <<site, visited>> /\ walk.phase \in {"next", "reading"}
  BY DEF WalkInv, WalkType, Refuse, Miss, List
<1>3. walk'.phase \in Over
  BY <1>2 DEF Refuse, Miss, List, End, Walk, Over
<1>4. ASSUME walk'.phase = "listed"
      PROVE  walk.phase = "next" /\ ReadSoFar' = ReadSoFar /\ OnStack' = OnStack
  <2>1. List
    BY <1>2, <1>4 DEF Refuse, Miss, List, End, Walk
  <2>2. walk.phase = "next" /\ walk'.stack = walk.stack
    BY <1>2, <2>1 DEF List, End, Walk
  <2> QED
    BY <1>2, <1>4, <2>2 DEF ReadSoFar, BeingRead, OnStack
<1> QED
  BY <1>2, <1>3, <1>4

LEMMA NextList ==
  ASSUME ListInv, [Next]_vars
  PROVE  ListInv'
<1> USE DEF ListInv
<1>1. SUFFICES WalkUsable' /\ WalkBounded'
  BY NextWalk
<1>2. ASSUME UNCHANGED <<site, wvars>> PROVE WalkUsable' /\ WalkBounded'
  <2>1. site' = site /\ walk' = walk /\ visited' = visited
    BY <1>2 DEF wvars
  <2>2. ReadSoFar' = ReadSoFar /\ OnStack' = OnStack
    BY <2>1 DEF ReadSoFar, BeingRead, Place1, OnStack
  <2> QED
    BY <2>1, <2>2, SiteKept DEF WalkUsable, WalkBounded, Going
<1>3. CASE Pass
  BY <1>3, PassLeaves, SiteKept DEF WalkUsable, WalkBounded, Going
<1>4. CASE Visit
  <2>1. Cardinality(visited) \in Nat /\ MaxMaps \in Nat
    BY FS_CardinalityType, FetchingAssumption DEF WalkInv, WalkLed
  <2> QED
    BY <1>4, <2>1, VisitReaches, SiteKept DEF WalkUsable, WalkBounded, Going
<1>5. CASE Read
  <2> DEFINE m == Place1.map
  <2>1. CASE walk'.phase = "refused"
    BY <1>5, <2>1, ReadAdds DEF WalkUsable, WalkBounded, Going
  <2>2. CASE /\ walk'.phase = "next"
             /\ ReadSoFar' = visited /\ ReadSoFar = visited \ {m}
             /\ NoPlace \in OnStack => NoPlace \in OnStack'
             /\ ~Unusable(m) \/ NoPlace \in OnStack'
    <3>1. site' = site /\ visited' = visited /\ walk.phase = "reading"
      BY <1>5, ReadAdds
    <3>2. \A n \in ReadSoFar : ~Unusable(n) \/ NoPlace \in OnStack
      BY <3>1 DEF WalkUsable, Going
    <3>3. \A n \in visited : ~Unusable(n) \/ NoPlace \in OnStack'
      BY <2>2, <3>2
    <3> HIDE DEF m
    <3> QED
      BY <2>2, <3>1, <3>3, SiteKept DEF WalkUsable, WalkBounded
  <2> QED
    BY <1>5, <2>1, <2>2, ReadAdds
<1>6. CASE Refuse \/ Miss \/ List
  BY <1>6, EndsOver, SiteKept DEF WalkUsable, WalkBounded, Going, Over
<1>7. CASE UNCHANGED vars
  BY <1>2, <1>7 DEF vars
<1>8. ASSUME NEW t \in Thread, Step(t) PROVE WalkOn \/ UNCHANGED <<site, wvars>>
  BY <1>8 DEF Step, Abandon, FetchOn, Take, Again, Settle
<1> QED
  BY <1>2, <1>3, <1>4, <1>5, <1>6, <1>7, <1>8 DEF Next, WalkOn

LEMMA ListCorrect == Spec => []ListInv
<1>1. Init => ListInv
  <2> SUFFICES ASSUME Init PROVE WalkUsable /\ WalkBounded
    BY InitWalk DEF ListInv
  <2>1. visited = {} /\ Cardinality({}) = 0 /\ MaxMaps \in Nat
    BY FS_EmptySet, FetchingAssumption DEF Init
  <2> QED
    BY <2>1 DEF WalkUsable, WalkBounded, ReadSoFar
<1>2. ListInv /\ [Next]_vars => ListInv'
  BY NextList
<1> QED
  BY <1>1, <1>2, PTL DEF Spec, Safety

LEMMA Listings == ListInv => ListingComplete
<1> SUFFICES ASSUME ListInv PROVE ListingComplete
  OBVIOUS
<1>1. WalkInv /\ WalkUsable /\ WalkBounded
  BY DEF ListInv
<1>2. ASSUME walk.phase = "listed"
      PROVE  /\ visited = Reachable /\ \A p \in Page : pages[p] = Newest(p)
             /\ ~Flawed /\ ~TooMany
  <2>1. walk.stack = <<>>
    BY <1>1, <1>2 DEF WalkInv, WalkCloses, Going
  <2>2. visited = Reachable /\ \A p \in Page : pages[p] = Newest(p)
    BY <1>1, <1>2, <2>1, AllRead
  <2>3. OnStack = {} /\ ReadSoFar = visited
    BY <1>2, <2>1 DEF OnStack, ToSet, ReadSoFar, BeingRead
  <2>4. ~Flawed
    BY <1>1, <1>2, <2>2, <2>3 DEF WalkUsable, Going, Flawed
  <2>5. ~TooMany
    <3> SUFFICES ASSUME NEW S \in SUBSET visited, Cardinality(S) > MaxMaps PROVE FALSE
      BY <2>2 DEF TooMany
    <3>1. IsFiniteSet(visited) /\ MaxMaps \in Nat /\ Cardinality(visited) <= MaxMaps
      BY <1>1, FetchingAssumption DEF WalkInv, WalkLed, WalkBounded
    <3>2. IsFiniteSet(S) /\ Cardinality(S) <= Cardinality(visited)
      BY <3>1, FS_Subset
    <3>3. Cardinality(S) \in Nat /\ Cardinality(visited) \in Nat
      BY <3>1, <3>2, FS_CardinalityType
    <3> QED
      BY <3>1, <3>2, <3>3
  <2> QED
    BY <2>2, <2>4, <2>5
<1>3. walk.phase = "refused" => Reason
  BY <1>1 DEF WalkInv, WalkRefuses
<1> QED
  BY <1>2, <1>3 DEF ListingComplete, Reason, Flawed

\* What a walk reports as listed is everything the index leads to, each page
\* with its newest lastmod and no map skipped, for every site and every order of
\* its entries; and a walk that refuses has its reason in the site.
THEOREM ListingCompleteCorrect == Spec => []ListingComplete
<1>1. Spec => []ListInv
  BY ListCorrect
<1>2. ListInv => ListingComplete
  BY Listings
<1> QED
  BY <1>1, <1>2, PTL

LEMMA StepGetsOn ==
  ASSUME ListInv, [Next]_vars, walk' # walk
  PROVE  /\ walk.phase \notin Over
         /\ \/ walk'.phase \in Over
            \/ Unread' \in Nat /\ Unread' < Unread
            \/ Unread' = Unread /\ Left' \in Nat /\ Left' < Left
<1> USE DEF ListInv
<1>1. WalkOn
  <2>1. ASSUME NEW t \in Thread, Step(t) PROVE WalkOn \/ UNCHANGED <<site, wvars>>
    BY <2>1 DEF Step, Abandon, FetchOn, Take, Again, Settle
  <2> QED
    BY <2>1 DEF Next, vars, wvars
<1>2. CASE Pass
  <2>1. 2 * Len(walk'.stack) + 1 \in Nat
        /\ 2 * Len(walk'.stack) + 1 < 2 * Len(walk.stack) + 1
    <3>1. Len(walk'.stack) \in Nat /\ Len(walk.stack) = Len(walk'.stack) + 1
      BY <1>2, PassLeaves
    <3> QED
      BY <3>1
  <2> QED
    BY <1>2, <2>1, PassLeaves DEF Unread, Left, Over
<1>3. CASE Visit
  <2>1. /\ walk.phase = "next" /\ walk'.phase = "reading" /\ ReadSoFar' = ReadSoFar
        /\ walk'.stack = walk.stack /\ walk.stack \in Seq(Place)
    BY <1>3, VisitReaches
  <2>2. 2 * Len(walk.stack) \in Nat
    <3>1. Len(walk.stack) \in Nat
      BY <2>1
    <3> QED
      BY <3>1
  <2>3. Unread' = Unread /\ Left = 2 * Len(walk.stack) + 1 /\ Left' = 2 * Len(walk.stack) + 0
    BY <2>1 DEF Unread, Left
  <2> QED
    BY <2>1, <2>2, <2>3 DEF Over
<1>4. CASE Read
  <2>1. walk.phase \notin Over
    BY <1>4, ReadAdds DEF Over
  <2>2. CASE walk'.phase = "refused"
    BY <2>1, <2>2 DEF Over
  <2>3. CASE /\ ReadSoFar' = visited /\ ReadSoFar = visited \ {Place1.map}
             /\ Place1.map \in visited
    <3>1. IsFiniteSet(visited) /\ MaxMaps \in Nat /\ Cardinality(visited) <= MaxMaps
      BY FetchingAssumption DEF WalkInv, WalkLed, WalkBounded
    <3>2. /\ Cardinality(visited) \in Nat
          /\ Cardinality(ReadSoFar) = Cardinality(visited) - 1
      BY <2>3, <3>1, FS_RemoveElement, FS_CardinalityType
    <3>3. Unread' = MaxMaps - Cardinality(visited)
          /\ Unread = MaxMaps - (Cardinality(visited) - 1)
      BY <2>3, <3>2 DEF Unread
    <3> QED
      BY <2>1, <3>1, <3>2, <3>3
  <2> QED
    BY <1>4, <2>2, <2>3, ReadAdds
<1>5. CASE Refuse \/ Miss \/ List
  BY <1>5, EndsOver DEF Over
<1> QED
  BY <1>1, <1>2, <1>3, <1>4, <1>5 DEF WalkOn

\* The walk's steps go down in a well-founded order for every site, so that
\* there are only finitely many of them: what FetchesEnd rests on for the walk,
\* beside the fairness of its thread.
THEOREM WalkGetsOnCorrect == Spec => WalkGetsOn
<1> DEFINE A == /\ walk.phase \notin Over
                /\ \/ walk'.phase \in Over
                   \/ Unread' \in Nat /\ Unread' < Unread
                   \/ Unread' = Unread /\ Left' \in Nat /\ Left' < Left
<1>1. ListInv /\ [Next]_vars => [A]_walk
  BY StepGetsOn
<1> QED
  BY <1>1, ListCorrect, PTL DEF WalkGetsOn, Spec, Safety

-----------------------------------------------------------------------------
(* What became of the pages.                                               *)

FetchedInv == fetched \in [Page -> Fetched]

LEMMA StepFetched ==
  ASSUME FetchedInv, [Next]_vars
  PROVE  FetchedInv'
<1>1. \A result : Outcome(result) \in Fetched
  BY DEF Outcome, Fetched
<1>2. ASSUME NEW t \in Fetcher, Settle(t) PROVE FetchedInv'
  BY <1>1, <1>2 DEF Settle, FetchedInv
<1>3. (\E t \in Fetcher : Settle(t)) \/ fetched' = fetched
  BY DEF Next, Step, WalkOn, Abandon, Pass, Visit, Refuse, Read, Miss, List, FetchOn, Take, Again,
         vars, fvars
<1> QED
  BY <1>2, <1>3 DEF FetchedInv

\* Every variable of a refresh keeps its type: the walk's stack and what it has
\* found included, and whatever a download ends with, its page has an outcome.
THEOREM TypeCorrect == Spec => []TypeOK
<1>1. Init => FetchedInv
  BY DEF Init, FetchedInv, Fetched
<1>2. FetchedInv /\ [Next]_vars => FetchedInv'
  BY StepFetched
<1>3. FetchingInv /\ WalkInv /\ FetchedInv => TypeOK
  BY DEF FetchingInv, TypeInv, WalkInv, WalkType, Pages, FetchedInv, TypeOK
<1>4. QED
  BY <1>1, <1>2, <1>3, FetchingCorrect, WalkCorrect, PTL DEF Spec, Safety

-----------------------------------------------------------------------------
(* The pages in the pool.                                                  *)

TakenNow(p) == \E t \in Fetcher : job[t].page = p
InPool(p) == p \in todo \/ TakenNow(p) \/ fetched[p] # "none"
Once(p) == ~(p \in todo /\ TakenNow(p)) /\ ~(fetched[p] # "none" /\ (p \in todo \/ TakenNow(p)))

OneEach == \A t, u \in Fetcher : job[t].page = job[u].page /\ job[t].page # NoPage => t = u
OnlyListed == \A p \in Page : InPool(p) => walk.phase = "listed" /\ pages[p] # Unlisted
AllListed ==
  walk.phase = "listed" /\ ~cancel => \A p \in Page : pages[p] # Unlisted => InPool(p)
\* A download or a fetch is given up only after the cancellation.
GivenUp ==
  /\ \A t \in Thread : get[t].result = "cancelled" => cancel
  /\ \A p \in Page : fetched[p] = "cancelled" => cancel

PoolInv == OneEach /\ (\A p \in Page : Once(p)) /\ OnlyListed /\ AllListed /\ GivenUp
AllInv == FetchingInv /\ FetchedInv /\ ListInv /\ PoolInv

LEMMA DownloadResults ==
  ASSUME FetchingInv, NEW t \in Thread, Downloads(t), NEW u \in Thread
  PROVE  get'[u].result = "cancelled" => get[u].result = "cancelled" \/ cancel
<1> SUFFICES ASSUME u = t, ~cancel PROVE get'[t].result = "cancelled" => get[t].result = "cancelled"
  <2>1. u # t => get'[u] = get[u]
    BY DEF FetchingInv, TypeInv, DownloadTypeOK, Downloads, Clear, Grant, Request, Hold, Resume, GiveUp,
           Answer, Unreachable, Throttled, Retry, Enter, Return, Pause
  <2> QED
    BY <2>1
<1>1. get \in [Thread -> Get] /\ get[t] \in Get
  BY DEF FetchingInv, TypeInv, DownloadTypeOK
<1>2. CASE Clear(t) \/ Grant(t) \/ Request(t) \/ Resume(t) \/ Hold(t)
  BY <1>1, <1>2 DEF Clear, Grant, Request, Resume, Hold, Enter, Get
<1>3. CASE Answer(t)
  BY <1>1, <1>3 DEF Answer, Return, Get
<1>4. ASSUME NEW ticks, Retry(t, ticks) PROVE get'[t].result = "cancelled" => get[t].result = "cancelled"
  BY <1>1, <1>4 DEF Retry, Return, Pause, Get
<1>5. ~GiveUp(t)
  BY DEF GiveUp
<1> QED
  BY <1>2, <1>3, <1>4, <1>5 DEF Downloads, Unreachable, Throttled

\* Steps that leave the pool and the walk as they are.
LEMMA PoolKept ==
  ASSUME PoolInv, UNCHANGED <<wvars, fvars>>, cancel => cancel',
         \A t \in Thread : get'[t].result = "cancelled" => cancel'
  PROVE  PoolInv'
<1>1. /\ walk' = walk /\ pages' = pages /\ todo' = todo /\ job' = job /\ fetched' = fetched
  BY DEF wvars, fvars
<1>2. \A p : /\ TakenNow(p)' <=> TakenNow(p)
             /\ InPool(p)' <=> InPool(p)
             /\ Once(p)' <=> Once(p)
  BY <1>1 DEF TakenNow, InPool, Once
<1>3. OneEach' /\ OnlyListed' /\ AllListed'
  BY <1>1, <1>2 DEF PoolInv, OneEach, OnlyListed, AllListed
<1>4. GivenUp'
  BY <1>1 DEF PoolInv, GivenUp
<1> QED
  BY <1>2, <1>3, <1>4 DEF PoolInv

\* A new download or none has no result.
LEMMA FreshResults ==
  ASSUME AllInv, NEW t \in Thread, Start(t) \/ Free(t)
  PROVE  /\ \A u \in Thread : get'[u].result = "cancelled" => cancel'
         /\ cancel' = cancel
<1>1. get \in [Thread -> Get] /\ \A u \in Thread : get[u].result = "cancelled" => cancel
  BY DEF AllInv, FetchingInv, TypeInv, DownloadTypeOK, PoolInv, GivenUp
<1>2. Fresh.result = "none" /\ NoGet.result = "none"
  BY DEF Fresh, NoGet
<1> QED
  BY <1>1, <1>2 DEF Start, Free

LEMMA WalkPool ==
  ASSUME AllInv, WalkOn
  PROVE  PoolInv'
<1> USE DEF AllInv
<1>1. walk \in Walk /\ walk.phase \in {"next", "reading"}
  BY DEF ListInv, WalkInv, WalkType, WalkOn, Pass, Visit, Refuse, Read, Miss, List
<1>2. \A p \in Page : ~InPool(p)
  BY <1>1 DEF PoolInv, OnlyListed
<1>3. cancel' = cancel /\ \A t \in Thread : get'[t].result = "cancelled" => cancel'
  <2>1. CASE Pass \/ Refuse \/ List
    BY <2>1 DEF PoolInv, GivenUp, Pass, Refuse, List, dvars
  <2>2. CASE Visit \/ Read \/ Miss
    BY <2>2, FreshResults, FetchingAssumption DEF Visit, Read, Miss
  <2> QED
    BY <2>1, <2>2 DEF WalkOn
<1>4. job' = job /\ fetched' = fetched
  BY DEF WalkOn, Pass, Visit, Refuse, Read, Miss, List, fvars
<1>5. OneEach' /\ GivenUp'
  BY <1>3, <1>4 DEF PoolInv, OneEach, GivenUp
<1>6. \A p \in Page : ~TakenNow(p)' /\ ~(fetched'[p] # "none")
  BY <1>2, <1>4 DEF InPool, TakenNow
<1>7. \A p \in Page : Once(p)'
  BY <1>6 DEF Once
<1>8. \A p \in Page : InPool(p)' <=> p \in todo'
  BY <1>6 DEF InPool
<1>9. CASE List /\ ~\A p \in Page : pages[p] = Unlisted
  <2>1. todo' = {p \in Page : pages[p] # Unlisted} /\ pages' = pages /\ walk'.phase = "listed"
    BY <1>1, <1>9 DEF List, End, Walk
  <2> QED
    BY <1>5, <1>7, <1>8, <2>1 DEF PoolInv, OnlyListed, AllListed
<1>10. CASE ~(List /\ ~\A p \in Page : pages[p] = Unlisted)
  <2>1. todo' = todo
    BY <1>10 DEF WalkOn, Pass, Visit, Refuse, Read, Miss, List, fvars
  <2>2. walk'.phase # "listed"
    <3>1. walk.phase # "listed" /\ \A phase : End(phase) => walk'.phase = phase
      BY <1>1 DEF End, Walk
    <3>2. CASE Pass \/ Read
      BY <1>1, <3>1, <3>2, PassLeaves, ReadAdds DEF ListInv
    <3>3. CASE Visit \/ Refuse \/ Miss \/ List
      BY <1>10, <3>1, <3>3 DEF Visit, Refuse, Miss, List
    <3> QED
      BY <3>2, <3>3 DEF WalkOn
  <2>3. \A p \in Page : ~InPool(p)'
    BY <1>2, <1>8, <2>1 DEF InPool
  <2> QED
    BY <1>5, <1>7, <2>2, <2>3 DEF PoolInv, OnlyListed, AllListed
<1> QED
  BY <1>9, <1>10

LEMMA TakePool ==
  ASSUME AllInv, NEW t \in Fetcher, Take(t)
  PROVE  PoolInv'
<1> USE DEF AllInv
<1>1. PICK q \in todo : /\ todo' = todo \ {q}
                        /\ job' = [job EXCEPT ![t] = [page |-> q, round |-> 0]]
  BY DEF Take
<1>2. /\ job[t].page = NoPage /\ Start(t) /\ UNCHANGED <<walk, pages, fetched>>
      /\ q \in Page /\ job \in [Fetcher -> Job] /\ t \in Thread
  BY FetchingAssumption DEF Take, wvars, FetchingInv, TypeInv
<1>3. job'[t].page = q /\ \A u \in Fetcher \ {t} : job'[u] = job[u]
  BY <1>1, <1>2
<1>4. NoPage \notin Page
  BY FetchingAssumption
<1>5. ~TakenNow(q) /\ fetched[q] = "none" /\ InPool(q)
  BY <1>1, <1>2 DEF PoolInv, Once, InPool
<1>6. \A p \in Page : TakenNow(p)' <=> TakenNow(p) \/ p = q
  BY <1>2, <1>3, <1>4 DEF TakenNow
<1>7. \A p \in Page : (InPool(p)' <=> InPool(p)) /\ Once(p)'
  BY <1>1, <1>2, <1>5, <1>6 DEF PoolInv, InPool, Once
<1>8. OneEach'
  BY <1>2, <1>3, <1>5 DEF PoolInv, OneEach, TakenNow
<1>9. cancel' = cancel /\ GivenUp'
  BY <1>2, FreshResults DEF PoolInv, GivenUp
<1> QED
  BY <1>2, <1>7, <1>8, <1>9 DEF PoolInv, OnlyListed, AllListed

LEMMA AgainPool ==
  ASSUME AllInv, NEW t \in Fetcher, Again(t)
  PROVE  PoolInv'
<1> USE DEF AllInv
<1>1. /\ job' = [job EXCEPT ![t].round = 1] /\ job \in [Fetcher -> Job]
      /\ UNCHANGED <<walk, pages, todo, fetched, cancel>>
      /\ get' = [get EXCEPT ![t] = [Fresh EXCEPT !.phase = "paused", !.wait = 2 * Second]]
      /\ get \in [Thread -> Get] /\ t \in Thread
  BY FetchingAssumption DEF Again, wvars, FetchingInv, TypeInv, DownloadTypeOK
<1>2. \A u \in Fetcher : job'[u].page = job[u].page
  BY <1>1 DEF Job
<1>3. \A p : (TakenNow(p)' <=> TakenNow(p))
  BY <1>2 DEF TakenNow
<1>4. \A p : (InPool(p)' <=> InPool(p)) /\ (Once(p)' <=> Once(p))
  BY <1>1, <1>3 DEF InPool, Once
<1>5. get'[t].result = "none" /\ \A u \in Thread \ {t} : get'[u] = get[u]
  BY <1>1 DEF Fresh, NoGet
<1>6. GivenUp' /\ OneEach'
  BY <1>1, <1>2, <1>5 DEF PoolInv, GivenUp, OneEach
<1> QED
  BY <1>1, <1>4, <1>6 DEF PoolInv, OnlyListed, AllListed

LEMMA SettlePool ==
  ASSUME AllInv, NEW t \in Fetcher, Settle(t)
  PROVE  PoolInv'
<1> USE DEF AllInv
<1>1. PICK q : q = job[t].page
  OBVIOUS
<1>2. /\ q # NoPage /\ fetched' = [fetched EXCEPT ![q] = Outcome(get[t].result)]
      /\ job' = [job EXCEPT ![t] = NoJob] /\ Free(t)
      /\ UNCHANGED <<walk, pages, todo>>
      /\ job \in [Fetcher -> Job] /\ get \in [Thread -> Get] /\ fetched \in [Page -> Fetched]
      /\ t \in Thread
  BY <1>1, FetchingAssumption DEF Settle, wvars, FetchingInv, TypeInv, DownloadTypeOK, FetchedInv
<1>3. q \in Page /\ NoPage \notin Page
  BY <1>1, <1>2, FetchingAssumption DEF Job
<1>4. job'[t].page = NoPage /\ \A u \in Fetcher \ {t} : job'[u] = job[u]
  BY <1>2 DEF NoJob
<1>5. /\ Outcome(get[t].result) # "none"
      /\ Outcome(get[t].result) = "cancelled" => get[t].result = "cancelled"
  BY DEF Outcome
<1>6. TakenNow(q) /\ q \notin todo /\ fetched[q] = "none"
  BY <1>1, <1>3 DEF PoolInv, Once, TakenNow
<1>7. \A p \in Page : TakenNow(p)' <=> TakenNow(p) /\ p # q
  BY <1>1, <1>2, <1>3, <1>4 DEF PoolInv, OneEach, TakenNow
<1>8. fetched'[q] # "none" /\ \A p \in Page \ {q} : fetched'[p] = fetched[p]
  BY <1>2, <1>3, <1>5
<1>9. \A p \in Page : (InPool(p)' <=> InPool(p)) /\ Once(p)'
  BY <1>2, <1>6, <1>7, <1>8 DEF PoolInv, InPool, Once
<1>10. OneEach'
  BY <1>4 DEF PoolInv, OneEach
<1>11. cancel' = cancel /\ GivenUp'
  <2>1. cancel' = cancel /\ \A u \in Thread : get'[u].result = "cancelled" => cancel'
    BY <1>2, FreshResults
  <2>2. \A p \in Page : fetched'[p] = "cancelled" => cancel
    BY <1>2, <1>3, <1>5, <1>8 DEF PoolInv, GivenUp
  <2> QED
    BY <2>1, <2>2 DEF GivenUp
<1> QED
  BY <1>2, <1>9, <1>10, <1>11 DEF PoolInv, OnlyListed, AllListed

LEMMA AbandonPool ==
  ASSUME AllInv, Abandon
  PROVE  PoolInv'
<1> USE DEF AllInv
<1>1. /\ cancel /\ cancel' = cancel /\ get' = get /\ todo' = {} /\ job' = job /\ fetched' = fetched
      /\ walk' = walk /\ pages' = pages
  BY DEF Abandon, dvars, wvars
<1>2. \A p : TakenNow(p)' <=> TakenNow(p)
  BY <1>1 DEF TakenNow
<1>3. \A p \in Page : (InPool(p)' => InPool(p)) /\ Once(p)'
  BY <1>1, <1>2 DEF PoolInv, InPool, Once
<1>4. OneEach' /\ GivenUp'
  BY <1>1 DEF PoolInv, OneEach, GivenUp
<1> QED
  BY <1>1, <1>3, <1>4 DEF PoolInv, OnlyListed, AllListed

LEMMA NextPool ==
  ASSUME AllInv, [Next]_vars
  PROVE  PoolInv'
<1> USE DEF AllInv
<1>1. get \in [Thread -> Get] /\ PoolInv
  BY DEF FetchingInv, TypeInv, DownloadTypeOK
<1>2. CASE UNCHANGED vars
  BY <1>1, <1>2, PoolKept DEF vars, dvars, PoolInv, GivenUp
<1>3. ASSUME NEW t \in Thread, Downloads(t), UNCHANGED <<wvars, fvars>> PROVE PoolInv'
  <2>1. cancel' = cancel
    BY <1>3 DEF Downloads, Clear, Grant, Request, Hold, Resume, GiveUp, Answer, Unreachable, Throttled
  <2>2. \A u \in Thread : get'[u].result = "cancelled" => cancel'
    BY <1>3, <2>1, DownloadResults DEF PoolInv, GivenUp
  <2> QED
    BY <1>3, <2>1, <2>2, PoolKept
<1>4. CASE (Tick \/ Cancel) /\ UNCHANGED <<wvars, fvars>>
  <2>1. \A t \in Thread : get'[t].result = get[t].result
    <3>1. CASE Tick
      <4>1. \A t \in Thread : get'[t] = [get[t] EXCEPT !.wait = Less(get[t].wait)] /\ get[t] \in Get
        BY <1>1, <3>1 DEF Tick
      <4> QED
        BY <4>1 DEF Get
    <3>2. CASE Cancel
      BY <3>2 DEF Cancel
    <3> QED
      BY <1>4, <3>1, <3>2
  <2>2. cancel => cancel'
    BY <1>4 DEF Tick, Cancel
  <2> QED
    BY <1>4, <2>1, <2>2, PoolKept DEF PoolInv, GivenUp
<1> QED
  BY <1>2, <1>3, <1>4, WalkPool, AbandonPool, TakePool, AgainPool, SettlePool DEF Next, Step, FetchOn

LEMMA PoolCorrect == Spec => []AllInv
<1>1. Init => PoolInv
  <2> SUFFICES ASSUME Init PROVE PoolInv
    OBVIOUS
  <2>1. /\ todo = {} /\ walk.phase = "next" /\ NoPage \notin Page
        /\ \A t \in Fetcher : job[t].page = NoPage
        /\ \A p \in Page : fetched[p] = "none"
        /\ \A t \in Thread : get[t].result = "none"
    BY FetchingAssumption DEF Init, DownloadInit, NoJob, NoGet
  <2>2. \A p \in Page : ~InPool(p) /\ Once(p)
    BY <2>1 DEF InPool, Once, TakenNow
  <2> QED
    BY <2>1, <2>2 DEF PoolInv, OneEach, OnlyListed, AllListed, GivenUp
<1>2. Init => FetchedInv
  BY DEF Init, FetchedInv, Fetched
<1>3. FetchingInv /\ FetchedInv /\ ListInv /\ PoolInv /\ [Next]_vars => FetchedInv' /\ PoolInv'
  BY StepFetched, NextPool DEF AllInv
<1> QED
  BY <1>1, <1>2, <1>3, FetchingCorrect, ListCorrect, PTL DEF Spec, Safety, AllInv

LEMMA Accounts == AllInv => PagesAccounted
<1> SUFFICES ASSUME AllInv PROVE PagesAccounted
  OBVIOUS
<1>1. walk.phase = "listed" => \A p \in Page : pages[p] = Newest(p)
  BY Listings DEF AllInv, ListingComplete
<1>2. PoolInv
  BY DEF AllInv
<1>3. ASSUME NEW p \in Page
      PROVE  /\ InPool(p) => walk.phase = "listed" /\ Newest(p) # Unlisted
             /\ walk.phase = "listed" /\ Newest(p) # Unlisted /\ ~cancel => InPool(p)
             /\ Once(p) /\ (fetched[p] = "cancelled" => cancel)
  BY <1>1, <1>2 DEF PoolInv, OnlyListed, AllListed, GivenUp
<1> QED
  BY <1>2, <1>3 DEF PagesAccounted, PoolInv, OneEach, InPool, Once, TakenNow

\* For any threads, sites and answers, each listed page is fetched once, by one
\* thread, and none is left out or given up unless the refresh is cancelled.
THEOREM PagesAccountedCorrect == Spec => []PagesAccounted
<1>1. Spec => []AllInv
  BY PoolCorrect
<1>2. AllInv => PagesAccounted
  BY Accounts
<1> QED
  BY <1>1, <1>2, PTL
=============================================================================
