--------------------------- MODULE HttpClientProofs ---------------------------
(***************************************************************************)
(* Type correctness of HttpClient and its safety properties: the circuit   *)
(* breaker, and the bound of the throttle.                                 *)
(***************************************************************************)
EXTENDS HttpClient, SequenceTheorems, TLAPS

-----------------------------------------------------------------------------
(* Types *)

LEMMA Comparisons ==
  ASSUME NEW a \in Int, NEW b \in Int
  PROVE  /\ LesserOf(a, b) \in {a, b} /\ LesserOf(a, b) <= a /\ LesserOf(a, b) <= b
         /\ GreaterOf(a, b) \in {a, b} /\ GreaterOf(a, b) >= a /\ GreaterOf(a, b) >= b
  BY DEF LesserOf, GreaterOf

LEMMA LongAgoNat == LongAgo \in Nat /\ LongAgo >= Window
  BY ClientAssumption DEF LongAgo, GreaterOf

\* What is left of a sequence of ages, and what time and a reservation make of it.
Ages == Seq(0..Window)

LEMMA RestType ==
  ASSUME TypeOK, NEW k \in 0..Len(stamps)
  PROVE  /\ Rest(k) \in Ages
         /\ Len(Rest(k)) = Len(stamps) - k
         /\ \A i \in 1..Len(Rest(k)) : Rest(k)[i] = stamps[k + i]
  BY ClientAssumption DEF TypeOK, Rest, Ages

LEMMA AppendAges ==
  ASSUME NEW s \in Ages
  PROVE  /\ Append(s, 0) \in Ages
         /\ Len(Append(s, 0)) = Len(s) + 1
         /\ \A i \in 1..Len(s) : Append(s, 0)[i] = s[i]
         /\ Append(s, 0)[Len(s) + 1] = 0
  BY ClientAssumption DEF Ages

LEMMA RememberedType ==
  ASSUME TypeOK
  PROVE  Remembered \in Ages
<1>1. Append(recent, 0) \in Ages /\ Len(Append(recent, 0)) = Len(recent) + 1
  BY AppendAges DEF TypeOK, Ages
<1>2. Append(recent, 0) # <<>>
  BY <1>1 DEF TypeOK
<1>3. Tail(Append(recent, 0)) \in Ages
  BY <1>1, <1>2 DEF Ages
<1>4. QED
  BY <1>1, <1>3 DEF Remembered

LEMMA OlderType ==
  ASSUME NEW s \in Ages
  PROVE  /\ Older(s, Window) \in Ages
         /\ Len(Older(s, Window)) = Len(s)
         /\ \A i \in 1..Len(s) : Older(s, Window)[i] = LesserOf(s[i] + 1, Window)
<1>1. \A i \in 1..Len(s) : LesserOf(s[i] + 1, Window) \in 0..Window
  BY ClientAssumption DEF Ages, LesserOf
<1>2. Older(s, Window) \in Ages
  BY <1>1 DEF Older, Ages
<1>3. Len(Older(s, Window)) = Len(s)
  BY <1>1 DEF Older, Ages
<1>4. QED
  BY <1>2, <1>3 DEF Older, Ages

\* What a thread may be, and what a step may make of one.
Thread ==
  [pc : {"idle", "check", "wait", "sleep", "send", "sent", "backoff"},
   left : 0..Requests, attempt : 0..Retries, throttled : BOOLEAN, wake : Int]

LEMMA IdleType ==
  ASSUME NEW left \in 0..Requests
  PROVE  IdleThread(left) \in Thread
  BY ClientAssumption DEF IdleThread, Thread

LEMMA LeaveType ==
  ASSUME TypeOK, NEW t \in Threads, Leave(t)
  PROVE  thread' \in [Threads -> Thread]
<1>1. thread \in [Threads -> Thread] /\ thread[t].left \in 0..Requests
  BY DEF TypeOK, Thread
<1>2. IdleThread(thread[t].left) \in Thread
  BY <1>1, IdleType
<1>3. QED
  BY <1>1, <1>2 DEF Leave

LEMMA InitType == Init => TypeOK
<1> SUFFICES ASSUME Init PROVE TypeOK
  OBVIOUS
<1>1. thread \in [Threads -> Thread]
  BY ClientAssumption, IdleType DEF Init
<1>2. stamps \in Seq(0..Window) /\ recent \in Seq(0..Window)
  BY ClientAssumption DEF Init
<1>3. since \in 0..LongAgo /\ openFor \in 0..Recovery
  BY ClientAssumption, LongAgoNat DEF Init
<1>4. QED
  BY <1>1, <1>2, <1>3 DEF Init, TypeOK, Thread

\* The types that no step but those of the throttle and of time concerns.
LEMMA FailureType ==
  ASSUME TypeOK, NEW weight \in {1, 2}, RecordFailure(weight)
  PROVE  failures' \in Nat /\ tripped' \in BOOLEAN /\ openFor' \in 0..Recovery
<1>1. failures' = failures + weight /\ failures' \in Nat
  BY DEF RecordFailure, TypeOK
<1>2. CASE failures' >= Threshold
  BY <1>1, <1>2, ClientAssumption DEF TypeOK, RecordFailure, GreaterOf
<1>3. CASE ~(failures' >= Threshold)
  BY <1>1, <1>3 DEF TypeOK, RecordFailure
<1>4. QED
  BY <1>2, <1>3

LEMMA BackoffType ==
  ASSUME NEW attempt \in Nat, NEW weight \in {1, 2}
  PROVE  Backoff(attempt, weight) \in Int
<1>1. 2^attempt \in Int
  OBVIOUS
<1>2. BackoffBase * weight \in Int /\ BackoffMax \in Int
  BY ClientAssumption
<1> HIDE DEF LesserOf
<1>3. BackoffBase * weight * 2^attempt \in Int
  BY <1>1, <1>2
<1>4. QED
  BY <1>2, <1>3, Comparisons DEF Backoff

LEMMA StepType ==
  ASSUME TypeOK, [Next]_vars
  PROVE  TypeOK'
<1> USE ClientAssumption
<1>1. ASSUME NEW t \in Threads, Request(t) PROVE TypeOK'
  <2>1. PICK throttled \in BOOLEAN : 
          thread' = [thread EXCEPT ![t] =
            [pc |-> "check", left |-> thread[t].left - 1, attempt |-> 0,
             throttled |-> throttled, wake |-> 0]]
    BY <1>1 DEF Request
  <2>2. thread[t].left - 1 \in 0..Requests
    <3>1. thread[t].left \in 0..Requests
      BY DEF TypeOK
    <3>2. thread[t].left > 0
      BY <1>1 DEF Request
    <3>3. QED
      BY <3>1, <3>2
  <2>3. thread' \in [Threads -> Thread]
    BY <2>1, <2>2 DEF TypeOK, Thread
  <2>4. QED
    BY <1>1, <2>3 DEF Request, TypeOK, client, Thread
<1>2. ASSUME NEW t \in Threads, Check(t) PROVE TypeOK'
  <2>1. AfterCheck(t) \in {"wait", "send"}
    BY DEF AfterCheck
  <2>2. thread' \in [Threads -> Thread]
    <3>1. CASE StepTo(t, AfterCheck(t))
      BY <2>1, <3>1 DEF StepTo, TypeOK, Thread
    <3>2. CASE Leave(t)
      BY <3>2, LeaveType
    <3>3. QED
      BY <1>2, <3>1, <3>2 DEF Check
  <2>3. failures' \in Nat /\ tripped' \in BOOLEAN /\ openFor' \in 0..Recovery
    <3>1. openFor' = openFor
      BY <1>2 DEF Check, LetPass
    <3>2. failures' \in Nat
      BY <1>2 DEF Check, LetPass, TypeOK
    <3>3. tripped' \in BOOLEAN
      BY <1>2 DEF Check, LetPass, TypeOK
    <3>4. QED
      BY <3>1, <3>2, <3>3 DEF TypeOK
  <2>4. spilled' \subseteq Threads
    BY <1>2 DEF Check, LetPass, TypeOK
  <2>5. QED
    BY <1>2, <2>2, <2>3, <2>4 DEF Check, TypeOK, Thread
<1>3. ASSUME NEW t \in Threads, Look(t) PROVE TypeOK'
  <2>1. PICK k \in 0..Len(stamps), pause \in LowPause..HighPause :
          LET rest == Rest(k)
              ticks == SleepNeeded(rest, pause)
          IN \/ ticks <= 0 /\ Reserve(rest) /\ StepTo(t, "send")
             \/ /\ ticks > 0 /\ Sleep(t, "sleep", ticks)
                /\ stamps' = rest /\ UNCHANGED <<since, recent>>
    BY <1>3 DEF Look
  <2>2. Rest(k) \in Ages
    BY <2>1, RestType
  <2>3. UNCHANGED <<failures, tripped, openFor, spilled>>
    BY <1>3 DEF Look
  <2>4. CASE Reserve(Rest(k)) /\ StepTo(t, "send")
    <3>1. stamps' \in Ages /\ recent' \in Ages
      BY <2>2, <2>4, AppendAges, RememberedType DEF Reserve
    <3>2. since' \in 0..LongAgo
      BY <2>4, LongAgoNat DEF Reserve
    <3>3. QED
      BY <2>3, <2>4, <3>1, <3>2 DEF StepTo, TypeOK, Ages
  <2>5. CASE /\ Sleep(t, "sleep", SleepNeeded(Rest(k), pause))
             /\ stamps' = Rest(k) /\ UNCHANGED <<since, recent>>
    <3>1. SleepNeeded(Rest(k), pause) \in Int
      <4>1. MinInterval \in Int
        BY DEF MinInterval
      <4>2. pause \in Int /\ since \in Int
        BY <2>1, LongAgoNat DEF TypeOK
      <4>3. GreaterOf(MinInterval, pause) - since \in Int
        BY <4>1, <4>2, Comparisons
      <4>4. RateLimit > 0 /\ Len(Rest(k)) >= RateLimit => Window - Rest(k)[1] \in Int
        BY <2>2 DEF Ages
      <4>5. QED
        BY <4>3, <4>4, Comparisons DEF SleepNeeded, GreaterOf
    <3>2. QED
      BY <2>2, <2>3, <2>5, <3>1 DEF Sleep, TypeOK, Ages
  <2>6. QED
    BY <2>1, <2>4, <2>5
<1>4. ASSUME NEW t \in Threads, WakeUp(t) PROVE TypeOK'
  BY <1>4 DEF WakeUp, StepTo, TypeOK, client
<1>5. ASSUME NEW t \in Threads, Send(t) PROVE TypeOK'
  BY <1>5 DEF Send, StepTo, TypeOK, client
<1>6. ASSUME NEW t \in Threads, Succeed(t) PROVE TypeOK'
  <2>1. thread' \in [Threads -> Thread]
    BY <1>6, LeaveType DEF Succeed
  <2>2. failures' = 0 /\ tripped' = FALSE /\ openFor' = 0 /\ spilled' = {}
    BY <1>6 DEF Succeed, RecordSuccess
  <2>3. UNCHANGED <<stamps, since, recent>>
    BY <1>6 DEF Succeed
  <2>4. failures' \in Nat /\ openFor' \in 0..Recovery /\ spilled' \subseteq Threads
    BY <2>2
  <2>5. tripped' \in BOOLEAN
    BY <2>2
  <2>6. QED
    BY <2>1, <2>3, <2>4, <2>5 DEF TypeOK, Thread
<1>7. ASSUME NEW t \in Threads, Fail(t) PROVE TypeOK'
  <2>1. PICK weight \in {1, 2} :
          /\ RecordFailure(weight)
          /\ IF thread[t].attempt >= Retries THEN Leave(t) ELSE TryAgain(t, weight)
    BY <1>7 DEF Fail
  <2>2. failures' \in Nat /\ tripped' \in BOOLEAN /\ openFor' \in 0..Recovery
    BY <2>1, FailureType
  <2>3. UNCHANGED <<stamps, since, recent, spilled>>
    BY <1>7, <2>1 DEF Fail, RecordFailure
  <2>4. CASE thread[t].attempt >= Retries
    BY <2>1, <2>2, <2>3, <2>4, LeaveType DEF TypeOK, Thread
  <2>5. CASE ~(thread[t].attempt >= Retries)
    <3>1. PICK jitter \in 0..Jitter :
            thread' = [thread EXCEPT ![t] =
              [pc |-> "backoff", left |-> thread[t].left,
               attempt |-> thread[t].attempt + 1,
               throttled |-> thread[t].throttled,
               wake |-> Backoff(thread[t].attempt, weight) + jitter]]
      BY <2>1, <2>5 DEF TryAgain
    <3>2. thread[t].attempt \in Nat /\ thread[t].attempt + 1 \in 0..Retries
      BY <2>5 DEF TypeOK
    <3>3. Backoff(thread[t].attempt, weight) + jitter \in Int
      BY <3>2, BackoffType
    <3>4. thread' \in [Threads -> Thread]
      BY <3>1, <3>2, <3>3 DEF TypeOK, Thread
    <3>5. QED
      BY <2>2, <2>3, <3>4 DEF TypeOK, Thread
  <2>6. QED
    BY <2>4, <2>5
<1>8. ASSUME NEW t \in Threads, Rejected(t) PROVE TypeOK'
  <2>1. failures' \in Nat /\ tripped' \in BOOLEAN /\ openFor' \in 0..Recovery
    BY <1>8, FailureType DEF Rejected
  <2>2. QED
    BY <1>8, <2>1, LeaveType DEF Rejected, RecordFailure, TypeOK, Thread
<1>9. ASSUME NEW t \in Threads, Again(t) PROVE TypeOK'
  BY <1>9 DEF Again, StepTo, TypeOK, client
<1>10. CASE Tick
  <2>1. stamps' \in Ages /\ recent' \in Ages
    BY <1>10, OlderType DEF Tick, TypeOK, Ages
  <2>2. since' \in 0..LongAgo
    BY <1>10, LongAgoNat DEF Tick, TypeOK, LesserOf
  <2>4. openFor' \in 0..Recovery
    BY <1>10 DEF Tick, TypeOK, Less, GreaterOf
  <2>3. \A t \in Threads : Less(thread[t].wake) \in Int
    BY DEF TypeOK, Less, GreaterOf
  <2>5. QED
    BY <1>10, <2>1, <2>2, <2>3, <2>4 DEF Tick, TypeOK, Ages
<1>11. CASE UNCHANGED vars
  BY <1>11 DEF vars, TypeOK
<1>12. QED
  BY <1>1, <1>2, <1>3, <1>4, <1>5, <1>6, <1>7, <1>8, <1>9, <1>10, <1>11 DEF Next, Step

\* Every variable stays within its type; in particular no request is
\* attempted more often than http_max_retries allows.
THEOREM ClientTypeCorrect == Spec => []TypeOK
<1>1. Init => TypeOK
  BY InitType
<1>2. TypeOK /\ [Next]_vars => TypeOK'
  BY StepType
<1>3. QED
  BY <1>1, <1>2, PTL DEF Spec
-----------------------------------------------------------------------------
(* The circuit breaker *)

LEMMA CircuitStep ==
  ASSUME TypeOK, OpenIffFailing, [Next]_vars
  PROVE  OpenIffFailing'
<1>1. ASSUME NEW t \in Threads, Request(t) \/ Look(t) \/ WakeUp(t) \/ Send(t) \/ Again(t)
      PROVE OpenIffFailing'
  BY <1>1 DEF Request, Look, WakeUp, Send, Again, client, OpenIffFailing
<1>2. ASSUME NEW t \in Threads, Check(t) PROVE OpenIffFailing'
  <2>1. ~(0 >= Threshold)
    BY ClientAssumption
  <2>2. QED
    BY <1>2, <2>1 DEF Check, LetPass, OpenIffFailing
<1>3. ASSUME NEW t \in Threads, Succeed(t) PROVE OpenIffFailing'
  BY <1>3, ClientAssumption DEF Succeed, RecordSuccess, OpenIffFailing
<1>4. ASSUME NEW weight \in {1, 2}, RecordFailure(weight) PROVE OpenIffFailing'
  <2>1. CASE failures' >= Threshold
    BY <1>4, <2>1 DEF RecordFailure, OpenIffFailing
  <2>2. CASE ~(failures' >= Threshold)
    <3>1. ~(failures >= Threshold)
      BY <1>4, <2>2, ClientAssumption DEF RecordFailure, TypeOK
    <3>2. QED
      BY <1>4, <2>2, <3>1 DEF RecordFailure, OpenIffFailing
  <2>3. QED
    BY <2>1, <2>2
<1>5. ASSUME NEW t \in Threads, Fail(t) \/ Rejected(t) PROVE OpenIffFailing'
  BY <1>4, <1>5 DEF Fail, Rejected
<1>6. CASE Tick \/ UNCHANGED vars
  BY <1>6 DEF Tick, vars, OpenIffFailing
<1>7. QED
  BY <1>1, <1>2, <1>3, <1>5, <1>6 DEF Next, Step

\* The circuit is open exactly when the count of failures has reached the
\* threshold.
THEOREM CircuitFollowsFailures == Spec => []OpenIffFailing
<1>1. Init => OpenIffFailing
  BY ClientAssumption DEF Init, OpenIffFailing
<1>2. TypeOK /\ OpenIffFailing /\ [Next]_vars => OpenIffFailing'
  BY CircuitStep
<1>3. QED
  BY <1>1, <1>2, ClientTypeCorrect, PTL DEF Spec

\* A thread that has sent since the circuit opened is past its check no more.
SpentIsBarred ==
  /\ ~tripped => spilled = {}
  /\ \A t \in spilled : thread[t].pc \notin {"wait", "sleep", "send"}

LEMMA SpentStep ==
  ASSUME TypeOK, SpentIsBarred, [Next]_vars
  PROVE  SpentIsBarred'
<1>1. ASSUME NEW t \in Threads, Request(t) \/ Again(t) PROVE SpentIsBarred'
  <2>1. thread'[t].pc = "check"
    BY <1>1 DEF Request, Again, StepTo, TypeOK
  <2>2. \A u \in Threads : u # t => thread'[u] = thread[u]
    BY <1>1 DEF Request, Again, StepTo, TypeOK
  <2>3. UNCHANGED <<tripped, spilled>>
    BY <1>1 DEF Request, Again, client
  <2>4. QED
    BY <2>1, <2>2, <2>3 DEF SpentIsBarred, TypeOK
<1>2. ASSUME NEW t \in Threads, Check(t) PROVE SpentIsBarred'
  <2>1. CASE LetPass /\ StepTo(t, AfterCheck(t))
    <3>1. spilled' = {}
      BY <2>1 DEF LetPass, SpentIsBarred
    <3>2. QED
      BY <3>1 DEF SpentIsBarred
  <2>2. CASE Leave(t) /\ UNCHANGED <<failures, tripped, openFor, spilled>>
    BY <2>2 DEF Leave, IdleThread, TypeOK, SpentIsBarred
  <2>3. QED
    BY <1>2, <2>1, <2>2 DEF Check
<1>3. ASSUME NEW t \in Threads, Look(t) \/ WakeUp(t) PROVE SpentIsBarred'
  <2>1. t \notin spilled /\ UNCHANGED <<tripped, spilled>>
    BY <1>3 DEF Look, WakeUp, SpentIsBarred, client
  <2>2. \A u \in Threads : u # t => thread'[u] = thread[u]
    BY <1>3 DEF Look, WakeUp, StepTo, Sleep, TypeOK
  <2>3. QED
    BY <2>1, <2>2 DEF SpentIsBarred, TypeOK
<1>4. ASSUME NEW t \in Threads, Send(t) PROVE SpentIsBarred'
  <2>1. \A u \in Threads : thread'[u].pc = IF u = t THEN "sent" ELSE thread[u].pc
    BY <1>4 DEF Send, StepTo, TypeOK
  <2>2. UNCHANGED tripped
    BY <1>4 DEF Send, client
  <2>3. CASE tripped
    BY <1>4, <2>1, <2>2, <2>3 DEF Send, SpentIsBarred, TypeOK
  <2>4. CASE ~tripped
    BY <1>4, <2>1, <2>2, <2>4 DEF Send, SpentIsBarred, TypeOK
  <2>5. QED
    BY <2>3, <2>4
<1>5. ASSUME NEW t \in Threads, Succeed(t) PROVE SpentIsBarred'
  BY <1>5 DEF Succeed, RecordSuccess, SpentIsBarred
<1>6. ASSUME NEW t \in Threads, Fail(t) \/ Rejected(t) PROVE SpentIsBarred'
  <2>1. spilled' = spilled /\ (~tripped' => ~tripped)
    BY <1>6 DEF Fail, Rejected, RecordFailure
  <2>2. thread'[t].pc \in {"idle", "backoff"}
    BY <1>6 DEF Fail, Rejected, Leave, TryAgain, IdleThread, TypeOK
  <2>3. \A u \in Threads : u # t => thread'[u] = thread[u]
    BY <1>6 DEF Fail, Rejected, Leave, TryAgain, TypeOK
  <2>4. QED
    BY <2>1, <2>2, <2>3 DEF SpentIsBarred, TypeOK
<1>7. CASE Tick
  <2>1. \A t \in Threads : thread'[t].pc = thread[t].pc
    BY <1>7 DEF Tick, TypeOK
  <2>2. QED
    BY <1>7, <2>1 DEF Tick, SpentIsBarred, TypeOK
<1>8. CASE UNCHANGED vars
  BY <1>8 DEF vars, SpentIsBarred
<1>9. QED
  BY <1>1, <1>2, <1>3, <1>4, <1>5, <1>6, <1>7, <1>8 DEF Next, Step

\* While the circuit is open no thread sends twice.
THEOREM OneSpillPerThread == Spec => OneRequestSpills
<1>1. Init => SpentIsBarred
  BY DEF Init, SpentIsBarred
<1>2. TypeOK /\ SpentIsBarred /\ [Next]_vars => SpentIsBarred'
  BY SpentStep
<1>3. SpentIsBarred =>
        \A t \in Threads :
          thread[t].pc = "send" /\ thread'[t].pc = "sent" /\ tripped => t \notin spilled
  BY DEF SpentIsBarred
<1>4. QED
  BY <1>1, <1>2, <1>3, ClientTypeCorrect, PTL DEF Spec, OneRequestSpills

-----------------------------------------------------------------------------
(* The throttle.  The timestamps that are left are the newest of those     *)
(* remembered; the others are at least a window old.                       *)

Linked(left, all) ==
  /\ Len(left) <= Len(all)
  /\ \A i \in 1..(Len(all) - Len(left)) : all[i] >= Window
  /\ \A i \in 1..Len(left) : left[i] = all[Len(all) - Len(left) + i]

LEMMA LinkedRest ==
  ASSUME TypeOK, Linked(stamps, recent), NEW k \in 0..Len(stamps), IsPopped(k)
  PROVE  Linked(Rest(k), recent)
<1> DEFINE d == Len(recent) - Len(stamps)
<1>1. Len(stamps) \in Nat /\ Len(recent) \in Nat /\ d \in Nat
  BY DEF TypeOK, Linked
<1>2. Len(Rest(k)) = Len(stamps) - k
  BY RestType
<1>3. \A i \in 1..(d + k) : recent[i] >= Window
  <2> SUFFICES ASSUME NEW i \in 1..(d + k) PROVE recent[i] >= Window
    OBVIOUS
  <2>1. CASE i <= d
    BY <1>1, <2>1 DEF Linked
  <2>2. CASE i > d
    <3>1. i - d \in 1..k /\ i - d \in 1..Len(stamps)
      BY <1>1, <2>2
    <3>2. recent[i] = stamps[i - d]
      BY <1>1, <3>1 DEF Linked
    <3>3. QED
      BY <3>1, <3>2 DEF IsPopped
  <2>3. QED
    BY <1>1, <2>1, <2>2
<1>4. \A i \in 1..Len(Rest(k)) : Rest(k)[i] = recent[d + k + i]
  <2> SUFFICES ASSUME NEW i \in 1..Len(Rest(k)) PROVE Rest(k)[i] = recent[d + k + i]
    OBVIOUS
  <2>1. Rest(k)[i] = stamps[k + i] /\ k + i \in 1..Len(stamps)
    BY <1>1, <1>2, RestType
  <2>2. QED
    BY <1>1, <2>1 DEF Linked
<1>5. Len(recent) - Len(Rest(k)) = d + k
  BY <1>1, <1>2
<1>6. QED
  BY <1>1, <1>2, <1>3, <1>4, <1>5 DEF Linked

LEMMA LinkedAppend ==
  ASSUME NEW left \in Ages, NEW all \in Ages, Linked(left, all)
  PROVE  Linked(Append(left, 0), Append(all, 0))
<1>1. Len(left) \in Nat /\ Len(all) \in Nat /\ Len(left) <= Len(all)
  BY DEF Ages, Linked
<1>2. \A i \in 1..(Len(all) - Len(left)) : Append(all, 0)[i] >= Window
  BY <1>1, AppendAges DEF Linked
<1>3. ASSUME NEW i \in 1..(Len(left) + 1)
      PROVE  Append(left, 0)[i] = Append(all, 0)[Len(all) - Len(left) + i]
  <2>1. CASE i <= Len(left)
    <3>1. Len(all) - Len(left) + i \in 1..Len(all) /\ i \in 1..Len(left)
      BY <1>1, <2>1
    <3>2. QED
      BY <3>1, AppendAges DEF Linked
  <2>2. CASE i = Len(left) + 1
    <3>1. Len(all) - Len(left) + i = Len(all) + 1
      BY <1>1, <2>2
    <3>2. QED
      BY <2>2, <3>1, AppendAges
  <2>3. QED
    BY <1>1, <2>1, <2>2
<1>4. /\ Len(Append(left, 0)) = Len(left) + 1
      /\ Len(Append(all, 0)) = Len(all) + 1
      /\ Len(Append(all, 0)) - Len(Append(left, 0)) = Len(all) - Len(left)
  BY <1>1, AppendAges
<1>5. \A i \in 1..Len(Append(left, 0)) :
        Append(left, 0)[i] =
          Append(all, 0)[Len(Append(all, 0)) - Len(Append(left, 0)) + i]
  BY <1>3, <1>4
<1>6. \A i \in 1..(Len(Append(all, 0)) - Len(Append(left, 0))) :
        Append(all, 0)[i] >= Window
  BY <1>2, <1>4
<1>7. Len(Append(left, 0)) <= Len(Append(all, 0))
  BY <1>1, <1>4
<1>8. QED
  BY <1>5, <1>6, <1>7 DEF Linked

LEMMA LinkedTail ==
  ASSUME NEW left \in Ages, NEW all \in Ages, Linked(left, all), Len(left) < Len(all)
  PROVE  Linked(left, Tail(all))
<1>1. Len(left) \in Nat /\ Len(all) \in Nat /\ Len(all) > 0
  BY DEF Ages
<1>2. Len(Tail(all)) = Len(all) - 1
  BY <1>1 DEF Ages
<1>3. \A i \in 1..(Len(all) - 1) : Tail(all)[i] = all[i + 1]
  BY <1>1 DEF Ages
<1>4. \A i \in 1..(Len(all) - 1 - Len(left)) : Tail(all)[i] >= Window
  <2> SUFFICES ASSUME NEW i \in 1..(Len(all) - 1 - Len(left))
               PROVE  Tail(all)[i] >= Window
    OBVIOUS
  <2>1. i \in 1..(Len(all) - 1) /\ i + 1 \in 1..(Len(all) - Len(left))
    BY <1>1
  <2>2. QED
    BY <1>3, <2>1 DEF Linked
<1>5. \A i \in 1..Len(left) : left[i] = Tail(all)[Len(all) - 1 - Len(left) + i]
  <2> SUFFICES ASSUME NEW i \in 1..Len(left)
               PROVE  left[i] = Tail(all)[Len(all) - 1 - Len(left) + i]
    OBVIOUS
  <2>1. Len(all) - 1 - Len(left) + i \in 1..(Len(all) - 1)
    BY <1>1
  <2>2. Len(all) - 1 - Len(left) + i + 1 = Len(all) - Len(left) + i
    BY <1>1
  <2>3. QED
    BY <1>3, <2>1, <2>2 DEF Linked
<1>6. QED
  BY <1>1, <1>2, <1>4, <1>5 DEF Linked

LEMMA LinkedOlder ==
  ASSUME NEW left \in Ages, NEW all \in Ages, Linked(left, all)
  PROVE  Linked(Older(left, Window), Older(all, Window))
<1>1. Len(left) \in Nat /\ Len(all) \in Nat /\ Len(left) <= Len(all)
  BY DEF Ages, Linked
<1>2. \A i \in 1..(Len(all) - Len(left)) : Older(all, Window)[i] >= Window
  <2> SUFFICES ASSUME NEW i \in 1..(Len(all) - Len(left))
               PROVE  Older(all, Window)[i] >= Window
    OBVIOUS
  <2>1. i \in 1..Len(all) /\ all[i] \in 0..Window /\ all[i] >= Window
    <3>1. i \in 1..Len(all)
      BY <1>1
    <3>2. all[i] >= Window
      BY DEF Linked
    <3>3. all[i] \in 0..Window
      BY <3>1, ElementOfSeq DEF Ages
    <3>4. QED
      BY <3>1, <3>2, <3>3
  <2>2. LesserOf(all[i] + 1, Window) >= Window
    BY <2>1, ClientAssumption DEF LesserOf
  <2>3. QED
    BY <2>1, <2>2, OlderType
<1>3. \A i \in 1..Len(left) :
        Older(left, Window)[i] = Older(all, Window)[Len(all) - Len(left) + i]
  BY <1>1, OlderType DEF Linked
<1>4. QED
  BY <1>1, <1>2, <1>3, OlderType DEF Linked

ThrottleInv ==
  RateLimit > 0 =>
    Linked(stamps, recent) /\ Len(stamps) <= RateLimit /\ Len(recent) <= RateLimit

\* What a reservation makes of the two sequences, and what it needs.
LEMMA ReserveStep ==
  ASSUME TypeOK, RateLimit > 0, NEW rest \in Ages, Linked(rest, recent),
         Len(rest) < RateLimit, Len(recent) <= RateLimit, Reserve(rest)
  PROVE  ThrottleInv' /\ (Len(recent) = RateLimit => recent[1] >= Window)
<1>1. recent \in Ages /\ Len(recent) \in Nat /\ Len(rest) \in Nat /\ RateLimit \in Nat
  BY ClientAssumption DEF TypeOK, Ages
<1>2. Linked(Append(rest, 0), Append(recent, 0))
  BY <1>1, LinkedAppend
<1>3. /\ Append(rest, 0) \in Ages /\ Append(recent, 0) \in Ages
      /\ Len(Append(rest, 0)) = Len(rest) + 1
      /\ Len(Append(recent, 0)) = Len(recent) + 1
  BY <1>1, AppendAges
<1>4. CASE Len(recent) < RateLimit
  <2>1. stamps' = Append(rest, 0) /\ recent' = Append(recent, 0)
    BY <1>1, <1>3, <1>4 DEF Reserve, Remembered
  <2>2. QED
    BY <1>1, <1>2, <1>3, <1>4, <2>1 DEF ThrottleInv
<1>5. CASE Len(recent) = RateLimit
  <2>1. stamps' = Append(rest, 0) /\ recent' = Tail(Append(recent, 0))
    BY <1>1, <1>3, <1>5 DEF Reserve, Remembered
  <2>2. Linked(Append(rest, 0), Tail(Append(recent, 0)))
    <3>1. Len(Append(rest, 0)) < Len(Append(recent, 0))
      BY <1>1, <1>3, <1>5
    <3>2. QED
      BY <1>2, <1>3, <3>1, LinkedTail
  <2>3. Len(Tail(Append(recent, 0))) = Len(recent)
    BY <1>1, <1>3 DEF Ages
  <2>4. recent[1] >= Window
    BY <1>1, <1>5 DEF Linked
  <2>5. QED
    BY <1>1, <1>3, <1>5, <2>1, <2>2, <2>3, <2>4 DEF ThrottleInv
<1>6. QED
  BY <1>1, <1>4, <1>5

\* A thread goes ahead only where there is room.
LEMMA RoomInRest ==
  ASSUME TypeOK, RateLimit > 0, NEW k \in 0..Len(stamps), IsPopped(k),
         NEW pause \in LowPause..HighPause, SleepNeeded(Rest(k), pause) <= 0
  PROVE  Len(Rest(k)) < RateLimit
<1> SUFFICES ASSUME Len(Rest(k)) >= RateLimit PROVE FALSE
  BY RestType, ClientAssumption DEF Ages
<1>1. Len(stamps) \in Nat /\ Len(Rest(k)) = Len(stamps) - k /\ k < Len(stamps)
  <2>1. Len(stamps) \in Nat
    BY LenProperties DEF TypeOK
  <2>2. Len(Rest(k)) = Len(stamps) - k
    BY RestType
  <2>3. Len(stamps) - k > 0 /\ k \in Nat
    BY <2>1, <2>2, ClientAssumption
  <2>4. QED
    BY <2>1, <2>2, <2>3
<1>2. stamps[k + 1] \in 0..Window /\ stamps[k + 1] < Window
  <2>1. k + 1 \in 1..Len(stamps) /\ stamps \in Seq(0..Window)
    BY <1>1 DEF TypeOK
  <2>2. stamps[k + 1] \in 0..Window
    BY <2>1, ElementOfSeq
  <2>3. QED
    BY <1>1, <2>2 DEF IsPopped
<1>3. Rest(k)[1] = stamps[k + 1]
  BY <1>1, RestType
<1>4. GreaterOf(MinInterval, pause) - since \in Int
  <2>1. MinInterval \in Int
    BY ClientAssumption DEF MinInterval
  <2>2. since \in Int
    BY LongAgoNat DEF TypeOK
  <2>3. QED
    BY <2>1, <2>2, ClientAssumption, Comparisons
<1>5. SleepNeeded(Rest(k), pause) >= Window - Rest(k)[1]
  BY <1>2, <1>3, <1>4, Comparisons, ClientAssumption DEF SleepNeeded
<1>6. SleepNeeded(Rest(k), pause) \in Int
  BY <1>2, <1>3, <1>4, Comparisons, ClientAssumption DEF SleepNeeded
<1>7. QED
  BY <1>2, <1>3, <1>5, <1>6, ClientAssumption

\* One look at the throttle.
LEMMA LookStep ==
  ASSUME TypeOK, ThrottleInv, NEW t \in Threads, Look(t)
  PROVE  /\ ThrottleInv'
         /\ RateLimit > 0 /\ Len(recent) = RateLimit /\ thread'[t].pc = "send"
              => recent[1] >= Window
         /\ \A u \in Threads : u # t => thread'[u] = thread[u]
<1>1. PICK k \in 0..Len(stamps), pause \in LowPause..HighPause :
        /\ IsPopped(k)
        /\ \/ /\ SleepNeeded(Rest(k), pause) <= 0
              /\ Reserve(Rest(k)) /\ StepTo(t, "send")
           \/ /\ SleepNeeded(Rest(k), pause) > 0
              /\ Sleep(t, "sleep", SleepNeeded(Rest(k), pause))
              /\ stamps' = Rest(k) /\ UNCHANGED <<since, recent>>
  BY DEF Look
<1>2. \A u \in Threads : u # t => thread'[u] = thread[u]
  BY <1>1 DEF StepTo, Sleep, TypeOK
<1>3. CASE RateLimit > 0
  <2>1. Rest(k) \in Ages /\ Len(Rest(k)) <= Len(stamps) /\ Len(stamps) \in Nat
    BY <1>1, RestType DEF TypeOK
  <2>2. Linked(Rest(k), recent)
    BY <1>1, <1>3, LinkedRest DEF ThrottleInv
  <2>3. CASE SleepNeeded(Rest(k), pause) <= 0 /\ Reserve(Rest(k))
    BY <1>1, <1>2, <1>3, <2>1, <2>2, <2>3, RoomInRest, ReserveStep DEF ThrottleInv
  <2>4. CASE /\ Sleep(t, "sleep", SleepNeeded(Rest(k), pause))
             /\ stamps' = Rest(k) /\ UNCHANGED <<since, recent>>
    <3>1. thread'[t].pc = "sleep"
      BY <2>4 DEF Sleep, TypeOK
    <3>2. Len(stamps') <= RateLimit
      BY <1>3, <2>1, <2>4, ClientAssumption DEF ThrottleInv, Ages
    <3>3. ThrottleInv'
      BY <1>3, <2>2, <2>4, <3>2 DEF ThrottleInv
    <3>4. QED
      BY <1>2, <3>1, <3>3
  <2>5. QED
    BY <1>1, <2>3, <2>4
<1>4. QED
  BY <1>2, <1>3 DEF ThrottleInv

LEMMA ThrottleStep ==
  ASSUME TypeOK, ThrottleInv, [Next]_vars
  PROVE  ThrottleInv'
<1>1. ASSUME NEW t \in Threads, Look(t) PROVE ThrottleInv'
  BY <1>1, LookStep
<1>2. ASSUME NEW t \in Threads,
             \/ Request(t) \/ Check(t) \/ WakeUp(t) \/ Send(t)
             \/ Succeed(t) \/ Fail(t) \/ Rejected(t) \/ Again(t)
      PROVE  ThrottleInv'
  <2>1. UNCHANGED <<stamps, recent>>
    BY <1>2 DEF Request, Check, WakeUp, Send, Succeed, Fail, Rejected, Again, client
  <2>2. QED
    BY <2>1 DEF ThrottleInv
<1>3. CASE Tick
  <2>1. CASE RateLimit > 0
    <3>1. stamps \in Ages /\ recent \in Ages
      BY DEF TypeOK, Ages
    <3>2. stamps' = Older(stamps, Window) /\ recent' = Older(recent, Window)
      BY <1>3 DEF Tick
    <3>3. Linked(stamps', recent')
      BY <2>1, <3>1, <3>2, LinkedOlder DEF ThrottleInv
    <3>4. Len(stamps') = Len(stamps) /\ Len(recent') = Len(recent)
      BY <3>1, <3>2, OlderType
    <3>5. QED
      BY <2>1, <3>3, <3>4 DEF ThrottleInv
  <2>2. QED
    BY <2>1 DEF ThrottleInv
<1>4. CASE UNCHANGED vars
  BY <1>4 DEF vars, ThrottleInv
<1>5. QED
  BY <1>1, <1>2, <1>3, <1>4 DEF Next, Step

\* No window holds more reservations than the rate limit, however many threads
\* share the client.
THEOREM ThrottleBoundsRate == Spec => RateHolds
<1> DEFINE Kept ==
      \A t \in Threads :
        /\ thread[t].pc \in {"wait", "sleep"} /\ thread'[t].pc = "send"
        /\ RateLimit > 0 /\ Len(recent) = RateLimit
        => recent[1] >= Window
<1>1. Init => ThrottleInv
  BY ClientAssumption DEF Init, ThrottleInv, Linked
<1>2. TypeOK /\ ThrottleInv /\ [Next]_vars => ThrottleInv'
  BY ThrottleStep
<1>3. TypeOK /\ ThrottleInv /\ [Next]_vars => Kept
  <2> SUFFICES ASSUME TypeOK, ThrottleInv, [Next]_vars, NEW t \in Threads,
                      thread[t].pc \in {"wait", "sleep"}, thread'[t].pc = "send",
                      RateLimit > 0, Len(recent) = RateLimit
               PROVE  recent[1] >= Window
    OBVIOUS
  <2>1. ASSUME NEW u \in Threads, Look(u) PROVE recent[1] >= Window
    <3>1. u = t
      BY <2>1, LookStep
    <3>2. QED
      BY <2>1, <3>1, LookStep
  <2>2. ASSUME NEW u \in Threads, Request(u) \/ Send(u) \/ WakeUp(u) \/ Again(u) PROVE FALSE
    BY <2>2 DEF Request, Send, WakeUp, Again, StepTo, TypeOK
  <2>3. ASSUME NEW u \in Threads, Check(u) PROVE FALSE
    <3>1. thread[u].pc = "check"
      BY <2>3 DEF Check
    <3>2. u # t
      BY <3>1
    <3>3. thread'[t] = thread[t]
      BY <2>3, <3>2 DEF Check, StepTo, Leave, TypeOK
    <3>4. QED
      BY <3>3
  <2>4. ASSUME NEW u \in Threads, Succeed(u) \/ Fail(u) \/ Rejected(u) PROVE FALSE
    <3>1. thread[u].pc = "sent"
      BY <2>4 DEF Succeed, Fail, Rejected
    <3>2. u # t
      BY <3>1
    <3>3. thread'[t] = thread[t]
      BY <2>4, <3>2 DEF Succeed, Fail, Rejected, Leave, TryAgain, TypeOK
    <3>4. QED
      BY <3>3
  <2>5. CASE Tick \/ UNCHANGED vars
    BY <2>5 DEF Tick, vars, TypeOK
  <2>6. QED
    BY <2>1, <2>2, <2>3, <2>4, <2>5 DEF Next, Step
<1>4. QED
  BY <1>1, <1>2, <1>3, ClientTypeCorrect, PTL DEF Spec, RateHolds
=============================================================================
