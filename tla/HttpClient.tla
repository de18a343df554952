------------------------------ MODULE HttpClient ------------------------------
(***************************************************************************)
(* The HTTP client that the threads of a crawl share (BilibiliHttpClient): *)
(* _send_request with its retries, the circuit breaker and the throttle.   *)
(* Time is relative: every duration is what has passed or what is left, in *)
(* ticks, so no clock runs out.  A tick may come between any two steps.    *)
(***************************************************************************)
EXTENDS Integers, Sequences

CONSTANTS
  Threads,       \* crawler_concurrency threads, or the one of the task
  Requests,      \* bound on the requests of each thread
  Retries,       \* http_max_retries
  Window,        \* the minute of the rate limit
  RateLimit,     \* crawler_rate_limit_per_minute, 0 for none
  LowPause, HighPause,             \* crawler_min_sleep, crawler_max_sleep
  Threshold, Recovery,             \* crawler_circuit_breaker_...
  BackoffBase, BackoffMax, Jitter  \* crawler_backoff_...

ASSUME ClientAssumption ==
  /\ Requests \in Nat /\ Retries \in Nat
  /\ Window \in Nat \ {0} /\ RateLimit \in Nat
  /\ LowPause \in Nat /\ HighPause \in Nat /\ LowPause <= HighPause
  /\ Threshold \in Nat \ {0} /\ Recovery \in Nat \ {0}
  /\ BackoffBase \in Nat /\ BackoffMax \in Nat /\ Jitter \in Nat

VARIABLES
  stamps,    \* _request_timestamps: how long ago, oldest first
  since,     \* how long ago _last_request_at was
  failures,  \* _consecutive_failures
  tripped,   \* is _circuit_open_until set?
  openFor,   \* how long until it is reached
  thread,    \* the requests under way
  recent,    \* history: how long ago the last RateLimit reservations were
  spilled    \* history: the threads that have sent since the circuit opened

client == <<stamps, since, failures, tripped, openFor>>
vars == <<stamps, since, failures, tripped, openFor, thread, recent, spilled>>

LesserOf(a, b) == IF a <= b THEN a ELSE b
GreaterOf(a, b) == IF a >= b THEN a ELSE b

\* 60 / rate_limit, in whole ticks.
MinInterval ==
  IF RateLimit = 0 THEN 0 ELSE (Window + RateLimit - 1) \div RateLimit

\* The longest time that makes a difference.
LongAgo == GreaterOf(Window, HighPause)

IdleThread(left) ==
  [pc |-> "idle", left |-> left, attempt |-> 0, throttled |-> TRUE, wake |-> 0]

Init ==
  /\ stamps = <<>> /\ since = LongAgo
  /\ failures = 0 /\ tripped = FALSE /\ openFor = 0
  /\ thread = [t \in Threads |-> IdleThread(Requests)]
  /\ recent = <<>> /\ spilled = {}

StepTo(t, pc) == thread' = [thread EXCEPT ![t].pc = pc]

Sleep(t, pc, ticks) ==
  thread' = [thread EXCEPT ![t].pc = pc, ![t].wake = ticks]

\* The call returns or raises.
Leave(t) == thread' = [thread EXCEPT ![t] = IdleThread(@.left)]

-----------------------------------------------------------------------------
(* The state under _state_lock *)

\* _record_success
RecordSuccess ==
  /\ failures' = 0 /\ tripped' = FALSE /\ openFor' = 0 /\ spilled' = {}

\* _record_failure
RecordFailure(weight) ==
  /\ failures' = failures + weight
  /\ IF failures' >= Threshold
       THEN tripped' = TRUE /\ openFor' = GreaterOf(openFor, Recovery)
       ELSE UNCHANGED <<tripped, openFor>>
  /\ UNCHANGED spilled

\* Mutant of LetPass: a recovered circuit keeps its count of failures.
LetPassCounting ==
  IF tripped
    THEN tripped' = FALSE /\ spilled' = {} /\ UNCHANGED <<failures, openFor>>
    ELSE UNCHANGED <<failures, tripped, openFor, spilled>>

\* _ensure_circuit_closed, when it returns.
LetPass ==
  IF tripped
    THEN /\ failures' = 0 /\ tripped' = FALSE /\ spilled' = {}
         /\ UNCHANGED openFor
    ELSE UNCHANGED <<failures, tripped, openFor, spilled>>

-----------------------------------------------------------------------------
(* _send_request.  thread[t].pc is                                         *)
(*   idle -> check -> wait -> send -> sent -> idle,                         *)
(* with wait -> sleep -> wait and sent -> backoff -> check                  *)

Request(t) ==
  /\ thread[t].pc = "idle" /\ thread[t].left > 0
  /\ \E throttled \in BOOLEAN :
       thread' = [thread EXCEPT ![t] =
         [pc |-> "check", left |-> @.left - 1, attempt |-> 0,
          throttled |-> throttled, wake |-> 0]]
  /\ UNCHANGED <<client, recent, spilled>>

AfterCheck(t) == IF thread[t].throttled THEN "wait" ELSE "send"

\* An attempt begins: it passes the circuit breaker or raises.
Check(t) ==
  /\ thread[t].pc = "check"
  /\ \/ /\ ~tripped \/ openFor = 0
        /\ LetPass /\ StepTo(t, AfterCheck(t))
     \/ /\ tripped /\ openFor > 0
        /\ Leave(t) /\ UNCHANGED <<failures, tripped, openFor, spilled>>
  /\ UNCHANGED <<stamps, since, recent>>

\* What is left when the timestamps that are a window old have been popped.
IsPopped(k) ==
  /\ \A i \in 1..k : stamps[i] >= Window
  /\ k < Len(stamps) => stamps[k + 1] < Window

Rest(k) == SubSeq(stamps, k + 1, Len(stamps))

\* How long _wait_before_request has to sleep before it may look again.
SleepNeeded(rest, pause) ==
  LET untilFree == IF RateLimit > 0 /\ Len(rest) >= RateLimit
                     THEN Window - rest[1] ELSE 0
  IN GreaterOf(untilFree, GreaterOf(MinInterval, pause) - since)

\* The last RateLimit reservations, with one made now.
Remembered ==
  LET all == Append(recent, 0)
  IN IF Len(all) > RateLimit THEN Tail(all) ELSE all

Reserve(rest) ==
  /\ stamps' = Append(rest, 0) /\ since' = 0 /\ recent' = Remembered

\* Mutant of Look: the time of the look replaces that of the reservation.
LookAndTouch(t) ==
  /\ thread[t].pc = "wait"
  /\ \E k \in 0..Len(stamps), pause \in LowPause..HighPause :
       /\ IsPopped(k)
       /\ LET rest == Rest(k)
              ticks == SleepNeeded(rest, pause)
          IN \/ ticks <= 0 /\ Reserve(rest) /\ StepTo(t, "send")
             \/ /\ ticks > 0 /\ Sleep(t, "sleep", ticks)
                /\ stamps' = rest /\ since' = 0 /\ UNCHANGED recent
  /\ UNCHANGED <<failures, tripped, openFor, spilled>>

\* One look at the throttle under the lock.
Look(t) ==
  /\ thread[t].pc = "wait"
  /\ \E k \in 0..Len(stamps), pause \in LowPause..HighPause :
       /\ IsPopped(k)
       /\ LET rest == Rest(k)
              ticks == SleepNeeded(rest, pause)
          IN \/ ticks <= 0 /\ Reserve(rest) /\ StepTo(t, "send")
             \/ /\ ticks > 0 /\ Sleep(t, "sleep", ticks)
                /\ stamps' = rest /\ UNCHANGED <<since, recent>>
  /\ UNCHANGED <<failures, tripped, openFor, spilled>>

\* Mutant of WakeUp: goes ahead without looking again.
WakeAndGo(t) ==
  /\ thread[t].pc = "sleep" /\ thread[t].wake = 0
  /\ Reserve(stamps) /\ StepTo(t, "send")
  /\ UNCHANGED <<failures, tripped, openFor, spilled>>

WakeUp(t) ==
  /\ thread[t].pc = "sleep" /\ thread[t].wake = 0
  /\ StepTo(t, "wait")
  /\ UNCHANGED <<client, recent, spilled>>

\* The request goes out.
Send(t) ==
  /\ thread[t].pc = "send"
  /\ StepTo(t, "sent")
  /\ spilled' = IF tripped THEN spilled \cup {t} ELSE spilled
  /\ UNCHANGED <<client, recent>>

Succeed(t) ==
  /\ thread[t].pc = "sent"
  /\ RecordSuccess /\ Leave(t)
  /\ UNCHANGED <<stamps, since, recent>>

\* _sleep_backoff
Backoff(attempt, weight) ==
  LesserOf(BackoffMax, BackoffBase * weight * 2^attempt)

\* A failed attempt is followed by another one, after a pause.
TryAgain(t, weight) ==
  \E jitter \in 0..Jitter :
    thread' = [thread EXCEPT ![t] =
      [pc |-> "backoff", left |-> @.left, attempt |-> @.attempt + 1,
       throttled |-> @.throttled, wake |-> Backoff(@.attempt, weight) + jitter]]

\* Mutant of Fail: one attempt too many.
FailOnceMore(t) ==
  /\ thread[t].pc = "sent"
  /\ \E weight \in {1, 2} :
       /\ RecordFailure(weight)
       /\ IF thread[t].attempt > Retries THEN Leave(t) ELSE TryAgain(t, weight)
  /\ UNCHANGED <<stamps, since, recent>>

\* No connection or a status from 500 on; 412 or 429, which counts double.
Fail(t) ==
  /\ thread[t].pc = "sent"
  /\ \E weight \in {1, 2} :
       /\ RecordFailure(weight)
       /\ IF thread[t].attempt >= Retries THEN Leave(t) ELSE TryAgain(t, weight)
  /\ UNCHANGED <<stamps, since, recent>>

\* Any other status from 400 on is not tried again.
Rejected(t) ==
  /\ thread[t].pc = "sent"
  /\ RecordFailure(1) /\ Leave(t)
  /\ UNCHANGED <<stamps, since, recent>>

\* Mutant of Again: the circuit breaker is asked once per request.
AgainUnchecked(t) ==
  /\ thread[t].pc = "backoff" /\ thread[t].wake = 0
  /\ StepTo(t, AfterCheck(t))
  /\ UNCHANGED <<client, recent, spilled>>

Again(t) ==
  /\ thread[t].pc = "backoff" /\ thread[t].wake = 0
  /\ StepTo(t, "check")
  /\ UNCHANGED <<client, recent, spilled>>

-----------------------------------------------------------------------------

Older(ages, limit) == [i \in 1..Len(ages) |-> LesserOf(ages[i] + 1, limit)]

Less(ticks) == GreaterOf(ticks - 1, 0)

Tick ==
  /\ stamps' = Older(stamps, Window) /\ recent' = Older(recent, Window)
  /\ since' = LesserOf(since + 1, LongAgo)
  /\ openFor' = Less(openFor)
  /\ thread' = [t \in Threads |-> [thread[t] EXCEPT !.wake = Less(@)]]
  /\ UNCHANGED <<failures, tripped, spilled>>

Step(t) ==
  \/ Check(t) \/ Look(t) \/ WakeUp(t) \/ Send(t)
  \/ Succeed(t) \/ Fail(t) \/ Rejected(t) \/ Again(t)

Next == (\E t \in Threads : Request(t) \/ Step(t)) \/ Tick

Spec == Init /\ [][Next]_vars

\* Threads are scheduled, time passes, and http_timeout_seconds ends every
\* request that gets no answer.
FairSpec == Spec /\ WF_vars(Tick) /\ \A t \in Threads : WF_vars(Step(t))

-----------------------------------------------------------------------------
(* Properties *)

TypeOK ==
  /\ stamps \in Seq(0..Window) /\ recent \in Seq(0..Window)
  /\ since \in 0..LongAgo
  /\ failures \in Nat /\ tripped \in BOOLEAN /\ openFor \in 0..Recovery
  /\ thread \in [Threads ->
       [pc : {"idle", "check", "wait", "sleep", "send", "sent", "backoff"},
        left : 0..Requests, attempt : 0..Retries, throttled : BOOLEAN,
        wake : Int]]
  /\ spilled \subseteq Threads

\* Whatever threads wait, wake and look again in whatever order, a request is
\* throttled so that no window sees more than RateLimit of them: when one is
\* reserved, the RateLimit-th before it is a window ago.
RateHolds ==
  [][\A t \in Threads :
       /\ thread[t].pc \in {"wait", "sleep"} /\ thread'[t].pc = "send"
       /\ RateLimit > 0 /\ Len(recent) = RateLimit
       => recent[1] >= Window]_vars

\* An open circuit and the count that opened it go together: neither recovery,
\* nor a success, nor a late failure leaves one without the other.
OpenIffFailing == tripped <=> failures >= Threshold

\* While the circuit is open a thread sends at most the one request that had
\* passed the check before: neither its retries nor its next request go out.
OneRequestSpills ==
  [][\A t \in Threads :
       thread[t].pc = "send" /\ thread'[t].pc = "sent" /\ tripped => t \notin spilled]_vars

\* Every request ends: no two threads keep each other in the throttle.
RequestEnds == \A t \in Threads : thread[t].pc # "idle" ~> thread[t].pc = "idle"
=============================================================================
