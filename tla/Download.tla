------------------------------- MODULE Download -------------------------------
(***************************************************************************)
(* crawler/fetch.download: bounded GETs of one host by several threads,    *)
(* one every fifth of a second, with retries, backoff and cancellation.    *)
(*                                                                         *)
(* Clocks count down: `gate` is what is left of _next_request, a thread's  *)
(* `wait` what is left of its pause, and Tick takes one from each. A       *)
(* thread that is due may come late, which stands for the scheduler and    *)
(* for the jitter download adds to its pauses.                             *)
(***************************************************************************)
EXTENDS Integers

CONSTANTS
  Thread,        \* threads of one refresh that download
  Second,        \* ticks in a second
  Spacing,       \* ticks in the 0.2 s between two requests
  MaxAttempts,   \* fetch.MAX_ATTEMPTS
  MaxRetryAfter, \* the 120 s retry_after caps at, in seconds
  RetryAfter     \* values of the Retry-After header, 0 when it says nothing

ASSUME DownloadAssumption ==
  /\ Second \in Nat \ {0} /\ Spacing \in Nat \ {0}
  /\ MaxAttempts \in Nat \ {0}
  /\ MaxRetryAfter \in Nat
  /\ RetryAfter \subseteq Int

\* Plain arithmetic, which the provers have no theory of.
ASSUME PowersAssumption == \A n \in 0..MaxAttempts : 2 ^ n \in Nat

Larger(a, b) == IF a >= b THEN a ELSE b
Smaller(a, b) == IF a <= b THEN a ELSE b

\* 2 ** attempt, in ticks.
Doubled == [n \in 0..MaxAttempts |-> 2 ^ n * Second]

\* retry_after, in ticks.
Asked(v) == Smaller(MaxRetryAfter, Larger(0, v)) * Second

\* How long a throttled answer to this attempt keeps everyone away.
Backoff(attempt, v) == Larger(Asked(v), Doubled[attempt + 1])

-----------------------------------------------------------------------------
VARIABLES
  gate,      \* ticks until _next_request, 0 once it has passed
  cancel,    \* the refresh's Event is set
  get,       \* [Thread -> Get], the download a thread is in
  owed,      \* ticks left of the longest backoff a server has asked for
  asked,     \* [Thread -> Nat], requests made for the page or map at hand
  late,      \* [Thread -> Nat], requests made after the cancellation
  ahead      \* SUBSET Thread, those whose turn had come, but not their request,
             \* when the backoff that is owed began

dvars == <<gate, cancel, get, owed, asked, late, ahead>>

Result == {"none", "page", "gone", "failed", "cancelled", "broke"}
Get == [phase: {"none", "throttle", "cleared", "held", "granted", "open", "paused", "over"},
        attempt: 0..(MaxAttempts - 1), wait: Nat, result: Result]
NoGet == [phase |-> "none", attempt |-> 0, wait |-> 0, result |-> "none"]
Fresh == [NoGet EXCEPT !.phase = "throttle"]

DownloadTypeOK ==
  /\ gate \in Nat
  /\ cancel \in BOOLEAN
  /\ get \in [Thread -> Get]
  /\ owed \in Nat
  /\ asked \in [Thread -> Nat]
  /\ late \in [Thread -> Nat]
  /\ ahead \in SUBSET Thread

DownloadInit ==
  /\ gate = 0
  /\ cancel = FALSE
  /\ get = [t \in Thread |-> NoGet]
  /\ owed = 0
  /\ asked = [t \in Thread |-> 0]
  /\ late = [t \in Thread |-> 0]
  /\ ahead = {}

-----------------------------------------------------------------------------
Enter(t, phase) == get' = [get EXCEPT ![t].phase = phase]
Return(t, result) == get' = [get EXCEPT ![t].phase = "over", ![t].wait = 0, ![t].result = result]
Pause(t, attempt, ticks) ==
  get' = [get EXCEPT ![t].phase = "paused", ![t].attempt = attempt, ![t].wait = ticks]

\* throttle: the Event is looked at; then, in a step of its own, the lock is
\* taken, the time read and the next turn put off; and the request starts after
\* the lock has been given back.
Clear(t) ==
  /\ get[t].phase = "throttle" /\ ~cancel
  /\ Enter(t, "cleared")
  /\ UNCHANGED <<gate, cancel, owed, asked, late, ahead>>

Grant(t) ==
  /\ get[t].phase = "cleared" /\ gate = 0
  /\ gate' = Spacing
  /\ Enter(t, "granted")
  /\ UNCHANGED <<cancel, owed, asked, late, ahead>>

Request(t) ==
  /\ get[t].phase = "granted"
  /\ Enter(t, "open")
  /\ asked' = [asked EXCEPT ![t] = @ + 1]
  /\ late' = [late EXCEPT ![t] = IF cancel THEN @ + 1 ELSE @]
  /\ ahead' = ahead \ {t}
  /\ UNCHANGED <<gate, cancel, owed>>

Hold(t) ==
  /\ get[t].phase = "cleared" /\ gate > 0
  /\ get' = [get EXCEPT ![t].phase = "held", ![t].wait = Smaller(gate, Second)]
  /\ UNCHANGED <<gate, cancel, owed, asked, late, ahead>>

\* A pause is over, in throttle or between two attempts.
Resume(t) ==
  /\ get[t].phase \in {"held", "paused"} /\ get[t].wait = 0
  /\ Enter(t, "throttle")
  /\ UNCHANGED <<gate, cancel, owed, asked, late, ahead>>

GiveUpAwake(t) ==                                        \* a mutated form of GiveUp
  /\ get[t].phase \in {"throttle", "open"} /\ cancel
  /\ Return(t, "cancelled")
  /\ UNCHANGED <<gate, cancel, owed, asked, late, ahead>>

\* Cancelled: before a request, out of a pause, or between the chunks of a body.
GiveUp(t) ==
  /\ get[t].phase \in {"throttle", "held", "paused", "open"} /\ cancel
  /\ Return(t, "cancelled")
  /\ UNCHANGED <<gate, cancel, owed, asked, late, ahead>>

\* The request comes to an end that is not tried again: 200 and its whole body;
\* 404 or 410; another status, a wrong type, too large, too slow or redirected
\* off the host; or an exception download does not expect.
Answer(t) ==
  /\ get[t].phase = "open"
  /\ \E result \in {"gone", "failed", "broke"} \cup (IF cancel THEN {} ELSE {"page"}) :
       Return(t, result)
  /\ UNCHANGED <<gate, cancel, owed, asked, late, ahead>>

\* Another attempt after `ticks`, or FetchError when there is none left.
RetryPast(t, ticks) ==                                   \* a mutated form of Retry
  IF get[t].attempt = MaxAttempts THEN Return(t, "failed")
  ELSE Pause(t, get[t].attempt + 1, ticks)
Retry(t, ticks) ==
  IF get[t].attempt = MaxAttempts - 1 THEN Return(t, "failed")
  ELSE Pause(t, get[t].attempt + 1, ticks)

Replaced(ticks) == ticks                                 \* a mutated form of Later
Later(ticks) == Larger(gate, ticks)

\* 403, 408, 429 or 5xx: everyone keeps away, this thread at least as long.
Throttled(t, v) ==
  /\ get[t].phase = "open"
  /\ LET ticks == Backoff(get[t].attempt, v) IN
       /\ gate' = Later(ticks)
       /\ owed' = Larger(owed, ticks)
       /\ Retry(t, Larger(ticks, Doubled[get[t].attempt]))
  /\ ahead' = IF owed = 0 THEN {u \in Thread : get[u].phase = "granted"} ELSE ahead
  /\ UNCHANGED <<cancel, asked, late>>

\* No connection, a reset or a timeout.
Unreachable(t) ==
  /\ get[t].phase = "open"
  /\ Retry(t, Doubled[get[t].attempt])
  /\ UNCHANGED <<gate, cancel, owed, asked, late, ahead>>

Downloads(t) ==
  \/ Clear(t) \/ Grant(t) \/ Hold(t) \/ Request(t) \/ Resume(t) \/ GiveUp(t)
  \/ Answer(t) \/ Unreachable(t) \/ \E v \in RetryAfter : Throttled(t, v)

Less(ticks) == IF ticks = 0 THEN 0 ELSE ticks - 1

Tick ==
  /\ gate > 0 \/ owed > 0 \/ \E t \in Thread : get[t].wait > 0
  /\ gate' = Less(gate)
  /\ owed' = Less(owed)
  /\ get' = [t \in Thread |-> [get[t] EXCEPT !.wait = Less(@)]]
  /\ ahead' = IF owed' = 0 THEN {} ELSE ahead
  /\ UNCHANGED <<cancel, asked, late>>

\* The console aborts the refresh, or it ends by an exception.
Cancel ==
  /\ ~cancel
  /\ cancel' = TRUE
  /\ UNCHANGED <<gate, get, owed, asked, late, ahead>>
=============================================================================
