---------------------------- MODULE ServicesProofs ----------------------------
(***************************************************************************)
(* The alerts, the Bilibili login, the outputs of a task and the           *)
(* monitoring of workers, for any number of senders, requests, editors,    *)
(* runs and processes.                                                     *)
(* What they promise is stated in the modules extended here; the modules   *)
(* themselves are instances.                                               *)
(***************************************************************************)
EXTENDS AlertPromises, LoginPromises, OutputPromises, MonitoringPromises,
        FiniteSetTheorems, FunctionTheorems, SequenceTheorems, TLAPS

CONSTANTS
  Channels,                               \* of Alerts
  Requests, Pasted, Profiles,             \* of BilibiliLogin
  Weights, Runs,                          \* of TaskOutputs
  Processes, Batches, Stages              \* of Monitoring

VARIABLES
  via, reached,
  loginPc, cookie, profile, found,
  copy, held, run, runs,
  process, beats, redis, adding, stages

A == INSTANCE Alerts
L == INSTANCE BilibiliLogin WITH pc <- loginPc
O == INSTANCE TaskOutputs
M == INSTANCE Monitoring

-----------------------------------------------------------------------------
(* Alerts. *)

\* While Redis answers for a key and no claim was given back wrongly, whoever
\* works on it holds its claim and has shown what has been shown of it.
Exclusive(k) ==
  /\ \A s \in Senders : A!Working(s, k) =>
       /\ claim[k] = s
       /\ reached[s] => shown[k] = 1
       /\ ~reached[s] => shown[k] = 0
  /\ claim[k] = Nobody => shown[k] = 0
  /\ shown[k] <= 1

\* A sender that clears has been served by no channel; one that was served has
\* shown its alert, also when Redis does not answer.
Told ==
  \A s \in Senders :
    /\ next[s] = Channels + 1 => ~via[s]
    /\ via[s] => reached[s]
    /\ next[s] # 0 /\ reached[s] => shown[event[s]] > 0

AlertInv ==
  /\ A!TypeOK /\ Told /\ A!SilenceHasReason
  /\ \A k \in Keys \ (blind \cup misread) : Exclusive(k)

-----------------------------------------------------------------------------
LEMMA AlertInit ==
  ASSUME A!Assumption, A!Init
  PROVE  AlertInv
<1>1. A!TypeOK
  BY DEF A!Assumption, A!Init, A!TypeOK
<1>2. Told
  <2>1. /\ next = [s \in Senders |-> 0] /\ via = [s \in Senders |-> FALSE]
        /\ Channels + 1 # 0
    BY DEF A!Assumption, A!Init
  <2>2. \A s \in Senders : next[s] = 0 /\ ~via[s]
    BY <2>1, Zenon
  <2>3. QED
    BY <2>1, <2>2, Zenon DEF Told
<1>3. \A k \in Keys \ (blind \cup misread) : Exclusive(k)
  BY DEF A!Assumption, A!Init, Exclusive, A!Working
<1>4. A!SilenceHasReason
  BY DEF A!Init, A!SilenceHasReason
<1>5. QED
  BY <1>1, <1>2, <1>3, <1>4 DEF AlertInv

LEMMA AlertSent ==
  ASSUME A!Assumption, AlertInv, NEW s \in Senders, NEW k \in Keys, A!Alert(s, k)
  PROVE  AlertInv'
<1> USE DEF AlertInv
<1>1. CASE A!Claimed(s, k)
  <2>1. /\ next[s] = 0 /\ Channels > 0 /\ claim[k] = Nobody
        /\ claim' = [claim EXCEPT ![k] = s] /\ event' = [event EXCEPT ![s] = k]
        /\ next' = [next EXCEPT ![s] = 1] /\ via' = [via EXCEPT ![s] = FALSE]
        /\ reached' = [reached EXCEPT ![s] = FALSE] /\ misread' = misread
        /\ blind' = blind /\ stuck' = stuck /\ shown' = shown
    BY <1>1 DEF A!Alert, A!Claimed, A!Begin
  <2>2. A!TypeOK'
    BY <2>1 DEF A!Assumption, A!TypeOK
  <2>3. Told'
    BY <2>1 DEF A!Assumption, A!TypeOK, Told
  <2>4. \A j \in Keys \ (blind \cup misread)' : Exclusive(j)'
    <3> SUFFICES ASSUME NEW j \in Keys \ (blind \cup misread)'
                 PROVE  Exclusive(j)'
      OBVIOUS
    <3>1. Exclusive(j)
      BY <2>1
    <3>2. CASE j = k
      BY <2>1, <3>1, <3>2 DEF A!Assumption, A!TypeOK, Exclusive, A!Working
    <3>3. CASE j # k
      BY <2>1, <3>1, <3>3 DEF A!Assumption, A!TypeOK, Exclusive, A!Working
    <3>4. QED
      BY <3>2, <3>3
  <2>5. A!SilenceHasReason'
    BY <2>1 DEF A!Assumption, A!TypeOK, A!SilenceHasReason, A!Working
  <2>6. QED
    BY <2>2, <2>3, <2>4, <2>5
<1>2. CASE A!Dropped(s, k)
  <2>1. UNCHANGED A!vars
    BY <1>2 DEF A!Alert, A!Dropped, A!vars
  <2>2. QED
    BY <2>1 DEF A!vars, A!TypeOK, Told, Exclusive, A!SilenceHasReason, A!Working
<1>3. CASE A!Unanswered(s, k)
  <2>1. /\ next[s] = 0 /\ Channels > 0 /\ event' = [event EXCEPT ![s] = k]
        /\ next' = [next EXCEPT ![s] = 1] /\ via' = [via EXCEPT ![s] = FALSE]
        /\ reached' = [reached EXCEPT ![s] = FALSE] /\ misread' = misread
        /\ blind' = blind \cup {k} /\ stuck' = stuck /\ shown' = shown
        /\ \/ claim' = claim
           \/ claim[k] = Nobody /\ claim' = [claim EXCEPT ![k] = s]
    BY <1>3 DEF A!Alert, A!Unanswered, A!Begin
  <2>2. A!TypeOK'
    BY <2>1 DEF A!Assumption, A!TypeOK
  <2>3. Told'
    BY <2>1 DEF A!Assumption, A!TypeOK, Told
  <2>4. \A j \in Keys \ (blind \cup misread)' : Exclusive(j)'
    BY <2>1 DEF A!Assumption, A!TypeOK, Exclusive, A!Working
  <2>5. A!SilenceHasReason'
    BY <2>1 DEF A!Assumption, A!TypeOK, A!SilenceHasReason, A!Working
  <2>6. QED
    BY <2>2, <2>3, <2>4, <2>5
<1>4. QED
  BY <1>1, <1>2, <1>3 DEF A!Alert

LEMMA AlertDelivered ==
  ASSUME A!Assumption, AlertInv, NEW s \in Senders, A!Deliver(s)
  PROVE  AlertInv'
<1> USE DEF AlertInv
<1> DEFINE k == event[s]
<1>1. PICK ok \in BOOLEAN, told \in BOOLEAN :
        /\ ok => told
        /\ via' = [via EXCEPT ![s] = @ \/ ok]
        /\ reached' = [reached EXCEPT ![s] = @ \/ told]
        /\ shown' = [shown EXCEPT ![k] =
                       IF told /\ ~reached[s] /\ @ < 2 THEN @ + 1 ELSE @]
        /\ next' = [next EXCEPT ![s] = IF next[s] = Channels /\ via'[s] THEN 0 ELSE @ + 1]
  BY DEF A!Deliver
<1>2. /\ next[s] \in 1..Channels /\ claim' = claim /\ event' = event
      /\ blind' = blind /\ stuck' = stuck /\ misread' = misread
  BY DEF A!Deliver
<1>3. /\ k \in Keys /\ A!Working(s, k)
      /\ via'[s] = (via[s] \/ ok) /\ reached'[s] = (reached[s] \/ told)
      /\ shown[k] \in 0..2 /\ shown[k] <= shown'[k]
      /\ \A j \in Keys : j # k => shown'[j] = shown[j]
      /\ \A r \in Senders : r # s => /\ next'[r] = next[r] /\ via'[r] = via[r]
                                     /\ reached'[r] = reached[r]
  BY <1>1, <1>2 DEF A!Assumption, A!TypeOK, A!Working
<1>4. shown'[k] = IF told /\ ~reached[s] /\ shown[k] < 2 THEN shown[k] + 1 ELSE shown[k]
  BY <1>1, <1>3 DEF A!TypeOK
<1>5. next'[s] = IF next[s] = Channels /\ via'[s] THEN 0 ELSE next[s] + 1
  BY <1>1 DEF A!TypeOK
<1>6. A!TypeOK'
  <2>1. via' \in [Senders -> BOOLEAN] /\ reached' \in [Senders -> BOOLEAN]
    BY <1>1, Zenon DEF A!TypeOK
  <2>2. next' \in [Senders -> 0..(Channels + 1)]
    BY <1>1, <1>2 DEF A!Assumption, A!TypeOK
  <2>3. shown' \in [Keys -> 0..2]
    BY <1>1, <1>3 DEF A!TypeOK
  <2>4. QED
    BY <1>2, <2>1, <2>2, <2>3 DEF A!TypeOK
<1>7. Told'
  <2> SUFFICES ASSUME NEW r \in Senders
               PROVE  /\ next'[r] = Channels + 1 => ~via'[r]
                      /\ via'[r] => reached'[r]
                      /\ next'[r] # 0 /\ reached'[r] => shown'[event[r]] > 0
    BY <1>2 DEF Told
  <2>1. CASE r = s
    <3>1. next'[s] = Channels + 1 => ~via'[s]
      BY <1>2, <1>5 DEF A!Assumption
    <3>2. via'[s] => reached'[s]
      BY <1>1, <1>3, Zenon DEF Told
    <3>3. reached'[s] => shown'[k] > 0
      <4>1. CASE reached[s]
        BY <4>1, <1>2, <1>3, <1>4 DEF A!Assumption, Told
      <4>2. CASE ~reached[s] /\ told
        BY <4>2, <1>3, <1>4
      <4>3. CASE ~reached[s] /\ ~told
        BY <4>3, <1>3, Zenon
      <4>4. QED
        BY <4>1, <4>2, <4>3
    <3>4. QED
      BY <2>1, <3>1, <3>2, <3>3
  <2>2. CASE r # s
    <3>1. event[r] \in Keys /\ shown[event[r]] \in 0..2 /\ shown'[event[r]] \in 0..2
      BY <1>6 DEF A!TypeOK
    <3>2. shown[event[r]] <= shown'[event[r]]
      BY <1>3, <3>1
    <3>3. QED
      BY <2>2, <1>3, <3>1, <3>2 DEF Told
  <2>3. QED
    BY <2>1, <2>2
<1>8. \A j \in Keys \ (blind \cup misread)' : Exclusive(j)'
  <2> SUFFICES ASSUME NEW j \in Keys \ (blind \cup misread)
               PROVE  Exclusive(j)'
    BY <1>2
  <2>1. Exclusive(j)
    OBVIOUS
  <2>2. CASE j = k
    <3>1. claim[k] = s /\ (reached[s] => shown[k] = 1) /\ (~reached[s] => shown[k] = 0)
      BY <2>1, <2>2, <1>3 DEF Exclusive
    <3>2. (reached'[s] => shown'[k] = 1) /\ (~reached'[s] => shown'[k] = 0) /\ shown'[k] <= 1
      <4>1. CASE reached[s]
        <5>1. reached'[s] /\ shown[k] = 1
          BY <4>1, <3>1, <1>3, Zenon
        <5>2. shown'[k] = 1
          BY <4>1, <5>1, <1>4
        <5>3. QED
          BY <5>1, <5>2
      <4>2. CASE ~reached[s] /\ told
        <5>1. reached'[s] /\ shown[k] = 0
          BY <4>2, <3>1, <1>3, Zenon
        <5>2. shown'[k] = 1
          BY <4>2, <5>1, <1>4
        <5>3. QED
          BY <5>1, <5>2
      <4>3. CASE ~reached[s] /\ ~told
        <5>1. ~reached'[s] /\ shown[k] = 0
          BY <4>3, <3>1, <1>3, Zenon
        <5>2. shown'[k] = 0
          BY <4>3, <5>1, <1>4
        <5>3. QED
          BY <5>1, <5>2
      <4>4. QED
        BY <4>1, <4>2, <4>3
    <3>3. \A r \in Senders : A!Working(r, k)' => r = s
      BY <2>1, <2>2, <1>2, <1>3, <3>1 DEF Exclusive, A!Working
    <3>4. QED
      BY <2>2, <1>2, <3>1, <3>2, <3>3 DEF A!Assumption, Exclusive
  <2>3. CASE j # k
    <3>1. shown'[j] = shown[j] /\ claim'[j] = claim[j]
      BY <2>3, <1>2, <1>3
    <3>2. \A r \in Senders : A!Working(r, j)' => A!Working(r, j) /\ reached'[r] = reached[r]
      BY <2>3, <1>2, <1>3 DEF A!Working
    <3>3. QED
      BY <2>1, <3>1, <3>2 DEF Exclusive
  <2>4. QED
    BY <2>2, <2>3
<1>9. A!SilenceHasReason'
  <2> SUFFICES ASSUME NEW j \in Keys \ stuck, claim[j] # Nobody
               PROVE  shown'[j] > 0 \/ A!Working(claim[j], j)'
    BY <1>2 DEF A!SilenceHasReason
  <2>1. claim[j] \in Senders /\ shown[j] \in 0..2 /\ shown'[j] \in 0..2
    BY <1>6 DEF A!TypeOK
  <2>2. shown[j] <= shown'[j]
    BY <1>3, <2>1
  <2>3. CASE shown[j] > 0
    BY <2>1, <2>2, <2>3
  <2>4. CASE A!Working(claim[j], j) /\ claim[j] # s
    BY <2>1, <2>4, <1>2, <1>3 DEF A!Working
  <2>5. CASE A!Working(claim[j], j) /\ claim[j] = s
    <3>1. j = k
      BY <2>5 DEF A!Working
    <3>2. CASE next'[s] # 0
      BY <2>5, <3>1, <3>2, <1>2 DEF A!Working
    <3>3. CASE next'[s] = 0
      <4>1. via'[s]
        BY <3>3, <1>2, <1>5 DEF A!Assumption
      <4>2. reached'[s] /\ next[s] # 0
        BY <4>1, <1>1, <1>2, <1>3, Zenon DEF A!Working, Told
      <4>3. CASE reached[s]
        BY <4>2, <4>3, <3>1, <1>3, <1>4 DEF Told
      <4>4. CASE ~reached[s] /\ told
        BY <4>4, <3>1, <1>3, <1>4
      <4>5. QED
        BY <4>2, <4>3, <4>4, <1>3, Zenon
    <3>4. QED
      BY <3>2, <3>3
  <2>6. QED
    BY <2>3, <2>4, <2>5 DEF A!SilenceHasReason
<1>10. QED
  BY <1>6, <1>7, <1>8, <1>9

LEMMA AlertCleared ==
  ASSUME A!Assumption, AlertInv, NEW s \in Senders, A!Clear(s)
  PROVE  AlertInv'
<1> USE DEF AlertInv
<1> DEFINE k == event[s]
<1>1. /\ next[s] = Channels + 1 /\ next' = [next EXCEPT ![s] = 0]
      /\ event' = event /\ via' = via /\ reached' = reached /\ shown' = shown
      /\ misread' = misread \cup {j \in {k} : reached[s]}
  BY DEF A!Clear
<1>2. \/ claim' = [claim EXCEPT ![k] = Nobody] /\ blind' = blind /\ stuck' = stuck
      \/ /\ blind' = blind \cup {k} /\ stuck' = stuck \cup {k}
         /\ (claim' = claim \/ claim' = [claim EXCEPT ![k] = Nobody])
  BY DEF A!Clear, A!Cleared
<1>3. k \in Keys /\ A!Working(s, k)
  BY <1>1 DEF A!Assumption, A!TypeOK, Told, A!Working
<1>4. A!TypeOK'
  BY <1>1, <1>2, <1>3 DEF A!Assumption, A!TypeOK
<1>5. Told'
  BY <1>1 DEF A!Assumption, A!TypeOK, Told
<1>6. \A j \in Keys \ (blind \cup misread)' : Exclusive(j)'
  <2> SUFFICES ASSUME NEW j \in Keys \ (blind \cup misread)'
               PROVE  Exclusive(j)'
    OBVIOUS
  <2>1. Exclusive(j) /\ shown'[j] = shown[j]
    BY <1>1, <1>2
  <2>2. CASE j = k
    <3>0. ~reached[s]
      BY <2>2, <1>1
    <3>1. claim[k] = s /\ shown[k] = 0 /\ claim'[k] = Nobody
      BY <2>1, <2>2, <3>0, <1>2, <1>3 DEF A!TypeOK, Exclusive
    <3>2. \A r \in Senders : ~(next'[r] # 0 /\ event'[r] = j)
      BY <2>1, <2>2, <3>1, <1>1 DEF A!TypeOK, Exclusive, A!Working
    <3>3. shown'[j] = 0
      BY <2>1, <2>2, <3>1
    <3>4. QED
      BY <3>2, <3>3 DEF Exclusive, A!Working
  <2>3. CASE j # k
    <3>1. claim'[j] = claim[j]
      BY <2>3, <1>2 DEF A!TypeOK
    <3>2. \A r \in Senders : A!Working(r, j)' => A!Working(r, j)
      BY <1>1 DEF A!TypeOK, A!Working
    <3>3. QED
      BY <2>1, <3>1, <3>2, <1>1 DEF Exclusive
  <2>4. QED
    BY <2>2, <2>3
<1>7. A!SilenceHasReason'
  <2> SUFFICES ASSUME NEW j \in Keys \ stuck', claim'[j] # Nobody
               PROVE  shown'[j] > 0 \/ (next'[claim'[j]] # 0 /\ event'[claim'[j]] = j)
    BY Zenon DEF A!SilenceHasReason, A!Working
  <2>1. j # k /\ j \in Keys \ stuck /\ claim'[j] = claim[j]
    BY <1>2, <1>3 DEF A!TypeOK
  <2>2. shown[j] > 0 \/ A!Working(claim[j], j)
    BY <2>1 DEF A!SilenceHasReason
  <2>3. A!Working(claim[j], j) => claim[j] # s
    BY <2>1 DEF A!Working
  <2>4. claim[j] \in Senders
    BY <2>1 DEF A!TypeOK
  <2>5. QED
    BY <2>1, <2>2, <2>3, <2>4, <1>1 DEF A!TypeOK, A!Working
<1>8. QED
  BY <1>4, <1>5, <1>6, <1>7

LEMMA SenderDies ==
  ASSUME A!Assumption, AlertInv, NEW s \in Senders, A!Dies(s)
  PROVE  AlertInv'
<1> USE DEF AlertInv
<1>1. /\ stuck' = stuck \cup {k \in {event[s]} : claim[k] = s}
      /\ next' = [next EXCEPT ![s] = 0]
      /\ claim' = claim /\ event' = event /\ via' = via /\ reached' = reached
      /\ shown' = shown /\ blind' = blind /\ misread' = misread
  BY DEF A!Dies
<1>2. \A r \in Senders, k \in Keys : A!Working(r, k)' <=> A!Working(r, k) /\ r # s
  BY <1>1 DEF A!TypeOK, A!Working
<1>3. A!TypeOK'
  BY <1>1 DEF A!Assumption, A!TypeOK
<1>4. Told'
  BY <1>1 DEF A!Assumption, A!TypeOK, Told
<1>5. \A k \in Keys \ (blind \cup misread)' : Exclusive(k)'
  BY <1>1, <1>2 DEF Exclusive
<1>6. A!SilenceHasReason'
  <2> SUFFICES ASSUME NEW k \in Keys \ stuck', claim[k] # Nobody
               PROVE  shown[k] > 0 \/ (next'[claim[k]] # 0 /\ event'[claim[k]] = k)
    BY <1>1 DEF A!SilenceHasReason, A!Working
  <2>1. claim[k] \in Senders /\ k \in Keys \ stuck
    BY <1>1 DEF A!TypeOK
  <2>2. shown[k] > 0 \/ A!Working(claim[k], k)
    BY <2>1 DEF A!SilenceHasReason
  <2>3. A!Working(claim[k], k) => claim[k] # s
    BY <1>1 DEF A!Working
  <2>4. QED
    BY <2>1, <2>2, <2>3, <1>1 DEF A!TypeOK, A!Working
<1>7. QED
  BY <1>3, <1>4, <1>5, <1>6

LEMMA WindowElapses ==
  ASSUME A!Assumption, AlertInv, NEW k \in Keys, A!Elapse(k)
  PROVE  AlertInv'
<1> USE DEF AlertInv
<1>1. /\ \A s \in Senders : ~A!Working(s, k)
      /\ claim' = [claim EXCEPT ![k] = Nobody] /\ shown' = [shown EXCEPT ![k] = 0]
      /\ blind' = blind \ {k} /\ stuck' = stuck \ {k}
      /\ misread' = misread \ {k}
      /\ event' = event /\ next' = next /\ via' = via /\ reached' = reached
  BY DEF A!Elapse
<1>2. A!TypeOK'
  BY <1>1 DEF A!TypeOK
<1>3. Told'
  BY <1>1 DEF A!TypeOK, Told, A!Working
<1>4. \A j \in Keys \ (blind \cup misread)' : Exclusive(j)'
  BY <1>1 DEF A!TypeOK, Exclusive, A!Working
<1>5. A!SilenceHasReason'
  BY <1>1 DEF A!TypeOK, A!SilenceHasReason, A!Working
<1>6. QED
  BY <1>2, <1>3, <1>4, <1>5

LEMMA AlertNext ==
  ASSUME A!Assumption, AlertInv, [A!Next]_(A!vars)
  PROVE  AlertInv'
<1>1. CASE \E s \in Senders : A!Deliver(s) \/ A!Clear(s) \/ A!Dies(s)
  BY <1>1, AlertDelivered, AlertCleared, SenderDies
<1>2. CASE \E s \in Senders, k \in Keys : A!Alert(s, k)
  BY <1>2, AlertSent
<1>3. CASE \E k \in Keys : A!Elapse(k)
  BY <1>3, WindowElapses
<1>4. CASE UNCHANGED A!vars
  BY <1>4 DEF A!vars, AlertInv, A!TypeOK, Told, Exclusive, A!SilenceHasReason, A!Working
<1>5. QED
  BY <1>1, <1>2, <1>3, <1>4 DEF A!Next

-----------------------------------------------------------------------------
\* The invariant of all that follows: types, exclusive claims, and a reason for
\* every claim that is left.
THEOREM AlertsInvariant ==
  ASSUME A!Assumption
  PROVE  A!Spec => []AlertInv
<1>1. A!Init => AlertInv
  BY AlertInit
<1>2. AlertInv /\ [A!Next]_(A!vars) => AlertInv'
  BY AlertNext
<1>3. QED
  BY <1>1, <1>2, PTL DEF A!Spec

\* As long as Redis answers and no sender has taken a shown alert for a refused
\* one, an alert of a kind is shown once in a window, by whatever number of workers
\* and channels (send_alert, _claim_duplicate_alert).
THEOREM OneAlert ==
  ASSUME A!Assumption
  PROVE  A!Spec => []OneAlertPerWindow
<1>1. AlertInv => OneAlertPerWindow
  BY DEF AlertInv, Exclusive, OneAlertPerWindow
<1>2. QED
  BY <1>1, AlertsInvariant, PTL

\* A claim that silences a kind of alert stands for an alert that was shown or
\* is under way, unless its sender died or could not delete it.
THEOREM NoSilenceWithoutReason ==
  ASSUME A!Assumption
  PROVE  A!Spec => []SilenceHasReason
<1>1. AlertInv => SilenceHasReason
  BY DEF AlertInv, A!SilenceHasReason, A!Working, SilenceHasReason, Working
<1>2. QED
  BY <1>1, AlertsInvariant, PTL

-----------------------------------------------------------------------------
(* The Bilibili login. *)

\* The account Bilibili named is that of the cookie's session.
Matches(c, p) == p \in Accounts => c[Session] = p

LoginInv ==
  /\ L!TypeOK
  /\ row # None => Matches(row.cookie, row.profile)
  /\ \A r \in Requests : Matches(cookie[r], profile[r])
  /\ \A r \in Requests : loginPc[r] \in {"idle", "validate"} => profile[r] = None

-----------------------------------------------------------------------------
LEMMA EmptyCookie ==
  ASSUME L!Assumption
  PROVE  L!Empty \in L!Cookies
BY DEF L!Assumption, L!Empty, L!Cookies, L!Fields

\* The stored cookie merged into that of the environment is a cookie.
LEMMA ResolvedType ==
  ASSUME L!Assumption, LoginInv
  PROVE  L!Resolved \in L!Cookies
<1>1. Environment \in L!Cookies
  BY DEF L!Assumption
<1>2. row # None => row.cookie \in L!Cookies
  BY DEF LoginInv, L!TypeOK, L!Rows
<1>3. QED
  BY <1>1, <1>2 DEF L!Resolved, L!Cookies

LEMMA LoginInit ==
  ASSUME L!Assumption, L!Init
  PROVE  LoginInv
<1>1. L!TypeOK
  BY EmptyCookie DEF L!Init, L!TypeOK, L!ProfileNames
<1>2. \A r \in Requests : Matches(cookie[r], profile[r])
  BY EmptyCookie DEF L!Assumption, L!Init, Matches
<1>3. QED
  BY <1>1, <1>2 DEF L!Init, LoginInv

\* A request takes a cookie.
LEMMA LoginAccepted ==
  ASSUME L!Assumption, LoginInv, NEW r \in Requests, loginPc[r] = "idle",
         NEW c \in L!Cookies, L!Accept(r, c)
  PROVE  LoginInv'
<1>1. /\ cookie' = [cookie EXCEPT ![r] = c]
      /\ loginPc' = [loginPc EXCEPT ![r] = "validate"]
      /\ row' = row /\ profile' = profile /\ found' = found
  BY DEF L!Accept
<1>2. L!TypeOK'
  BY <1>1 DEF LoginInv, L!TypeOK
<1>3. \A q \in Requests : Matches(cookie'[q], profile'[q])
  BY <1>1 DEF L!Assumption, LoginInv, L!TypeOK, Matches
<1>4. \A q \in Requests : loginPc'[q] \in {"idle", "validate"} => profile'[q] = None
  BY <1>1 DEF LoginInv, L!TypeOK
<1>5. row' # None => Matches(row'.cookie, row'.profile)
  BY <1>1 DEF LoginInv
<1>6. QED
  BY <1>2, <1>3, <1>4, <1>5 DEF LoginInv

LEMMA LoginValidated ==
  ASSUME L!Assumption, LoginInv, NEW r \in Requests, L!Validate(r)
  PROVE  LoginInv'
<1>1. PICK answer \in L!Answers(cookie[r]) : profile' = [profile EXCEPT ![r] = answer]
  BY DEF L!Validate
<1>2. /\ loginPc' = [loginPc EXCEPT ![r] = "select"]
      /\ row' = row /\ cookie' = cookie /\ found' = found
  BY DEF L!Validate
<1>3. answer \in L!ProfileNames /\ (answer \in Accounts => cookie[r][Session] = answer)
  BY DEF L!Assumption, LoginInv, L!TypeOK, L!Answers, L!ProfileNames, L!Cookies, L!Fields
<1>4. L!TypeOK'
  BY <1>1, <1>2, <1>3 DEF LoginInv, L!TypeOK
<1>5. \A q \in Requests : Matches(cookie'[q], profile'[q])
  BY <1>1, <1>2, <1>3 DEF LoginInv, L!TypeOK, Matches
<1>6. \A q \in Requests : loginPc'[q] \in {"idle", "validate"} => profile'[q] = None
  BY <1>1, <1>2 DEF LoginInv, L!TypeOK
<1>7. row' # None => Matches(row'.cookie, row'.profile)
  BY <1>2 DEF LoginInv
<1>8. QED
  BY <1>4, <1>5, <1>6, <1>7 DEF LoginInv

LEMMA LoginSelected ==
  ASSUME L!Assumption, LoginInv, NEW r \in Requests, L!Select(r)
  PROVE  LoginInv'
<1>1. /\ found' = [found EXCEPT ![r] = row]
      /\ loginPc' = [loginPc EXCEPT ![r] = "write"]
      /\ row' = row /\ cookie' = cookie /\ profile' = profile
  BY DEF L!Select
<1>2. \A q \in Requests : found'[q] = None \/ found'[q] \in L!Rows
  BY <1>1 DEF LoginInv, L!TypeOK
<1>3. L!TypeOK'
  BY <1>1, <1>2 DEF LoginInv, L!TypeOK
<1>4. \A q \in Requests : loginPc'[q] \in {"idle", "validate"} => profile'[q] = None
  BY <1>1 DEF LoginInv, L!TypeOK
<1>5. QED
  BY <1>1, <1>3, <1>4 DEF LoginInv

LEMMA LoginWritten ==
  ASSUME L!Assumption, LoginInv, NEW r \in Requests, L!Write(r)
  PROVE  LoginInv'
<1>1. /\ loginPc' = [loginPc EXCEPT ![r] = "idle"]
      /\ cookie' = [cookie EXCEPT ![r] = L!Empty]
      /\ profile' = [profile EXCEPT ![r] = None] /\ found' = [found EXCEPT ![r] = None]
      /\ row' = row \/ row' = [cookie |-> cookie[r], profile |-> profile[r]]
  BY DEF L!Write, L!Stored
<1>2. /\ cookie[r] \in L!Cookies /\ profile[r] \in L!ProfileNames
      /\ Matches(cookie[r], profile[r])
  BY DEF LoginInv, L!TypeOK
<1>3. row' # None => row' \in L!Rows
  BY <1>1, <1>2 DEF LoginInv, L!TypeOK, L!Rows
<1>4. \A q \in Requests : found'[q] = None \/ found'[q] \in L!Rows
  BY <1>1 DEF LoginInv, L!TypeOK
<1>5. L!TypeOK'
  BY <1>1, <1>3, <1>4, EmptyCookie DEF LoginInv, L!TypeOK, L!ProfileNames
<1>6. row' # None => Matches(row'.cookie, row'.profile)
  BY <1>1, <1>2 DEF LoginInv
<1>7. \A q \in Requests : Matches(cookie'[q], profile'[q])
  BY <1>1, EmptyCookie DEF L!Assumption, LoginInv, L!TypeOK, Matches
<1>8. \A q \in Requests : loginPc'[q] \in {"idle", "validate"} => profile'[q] = None
  BY <1>1 DEF LoginInv, L!TypeOK
<1>9. QED
  BY <1>5, <1>6, <1>7, <1>8 DEF LoginInv

LEMMA LoginNext ==
  ASSUME L!Assumption, LoginInv, [L!Next]_(L!vars)
  PROVE  LoginInv'
<1>1. ASSUME NEW r \in Requests, L!Submit(r)
      PROVE  LoginInv'
  <2>1. PICK c \in Pasted \cup {L!Empty, L!Resolved} : L!Accept(r, c)
    BY <1>1 DEF L!Submit
  <2>2. c \in L!Cookies
    BY <1>1, <2>1, EmptyCookie, ResolvedType DEF L!Assumption
  <2>3. QED
    BY <1>1, <2>1, <2>2, LoginAccepted DEF L!Submit
<1>2. ASSUME NEW r \in Requests, L!Import(r) \/ L!LogInInWindow(r)
      PROVE  LoginInv'
  <2>1. PICK c \in Profiles : L!Accept(r, c)
    BY <1>2 DEF L!Import, L!LogInInWindow
  <2>2. c \in L!Cookies
    BY <2>1 DEF L!Assumption
  <2>3. QED
    BY <1>2, <2>1, <2>2, LoginAccepted DEF L!Import, L!LogInInWindow
<1>3. ASSUME NEW r \in Requests, L!Validate(r) \/ L!Select(r) \/ L!Write(r)
      PROVE  LoginInv'
  BY <1>3, LoginValidated, LoginSelected, LoginWritten
<1>4. CASE UNCHANGED L!vars
  BY <1>4 DEF L!vars, LoginInv, L!TypeOK
<1>5. QED
  BY <1>1, <1>2, <1>3, <1>4 DEF L!Next

-----------------------------------------------------------------------------
\* Types, and every cookie that is stored or on its way there has the session of
\* the account beside it.
THEOREM LoginInvariant ==
  ASSUME L!Assumption
  PROVE  L!Spec => []LoginInv
<1>1. L!Init => LoginInv
  BY LoginInit
<1>2. LoginInv /\ [L!Next]_(L!vars) => LoginInv'
  BY LoginNext
<1>3. QED
  BY <1>1, <1>2, PTL DEF L!Spec

\* The account on the settings page is the one whose session a crawl sends,
\* whatever requests overlapped, whatever fields the cookies lack and whatever the
\* environment holds (update_bilibili_runtime_auth_config,
\* resolve_bilibili_auth_settings).
THEOREM ProfileShownIsLogin ==
  ASSUME L!Assumption
  PROVE  L!Spec => []ProfileIsOfLogin
<1>1. ASSUME LoginInv
      PROVE  ProfileIsOfLogin
  <2> SUFFICES ASSUME row # None, row.profile \in Accounts
               PROVE  Resolved[Session] = row.profile
    BY DEF ProfileIsOfLogin
  <2>1. row.cookie[Session] = row.profile
    BY <1>1 DEF LoginInv, Matches
  <2>2. row.profile # None /\ Session \in Fields
    BY DEF L!Assumption, Fields
  <2>3. QED
    BY <2>1, <2>2 DEF Resolved
<1>2. QED
  BY <1>1, LoginInvariant, PTL

-----------------------------------------------------------------------------
(* Analysis, report and weights of a task. *)

\* A session that is about to report has its own analysis in its copy, computed
\* with the weights of the copy; one that has reported has its own report too.
Own(s) ==
  /\ pc[s] \in {"report", "finish"} =>
       /\ copy[s].snapshot # O!NoResult
       /\ copy[s].snapshot.weights = copy[s].weights
  /\ pc[s] = "finish" => copy[s].report = copy[s].snapshot

\* A worker whose run no other has interfered with holds the status of the task,
\* and the rows have not changed since its analysis of them.
Undisturbed(w) ==
  sole[w] =>
    /\ pc[w] \in {"admit", "crawl", "store", "statistics", "report", "finish"} =>
         status = held[w]
    /\ pc[w] \in {"report", "finish"} => copy[w].snapshot.rows = rows

OutputInv ==
  /\ O!TypeOK
  /\ \A s \in O!Sessions : Own(s)
  /\ \A w \in Workers : Undisturbed(w)

-----------------------------------------------------------------------------
LEMMA NoOutputsTyped ==
  ASSUME O!Assumption
  PROVE  O!NoOutputs \in O!Outputs /\ O!NoResult \in O!Results
BY DEF O!Assumption, O!NoOutputs, O!NoResult, O!Outputs, O!Results

LEMMA ComputedTyped ==
  ASSUME O!TypeOK, NEW s \in O!Sessions
  PROVE  O!Computed(s) \in O!Results /\ O!Computed(s) # O!NoResult
<1>1. rows \in 0..Runs /\ copy[s].weights \in Weights
  BY DEF O!TypeOK, O!Outputs
<1>2. O!Computed(s) \in O!Results
  BY <1>1 DEF O!Computed, O!Results
<1>3. O!Computed(s).rows # O!NoResult.rows
  BY <1>1 DEF O!Computed, O!NoResult, O!Assumption
<1>4. QED
  BY <1>2, <1>3

LEMMA OutputInit ==
  ASSUME O!Assumption, O!Init
  PROVE  OutputInv
<1>1. O!TypeOK
  BY NoOutputsTyped DEF O!Assumption, O!Init, O!TypeOK, O!Sessions
<1>2. QED
  BY <1>1 DEF O!Init, OutputInv, Own, Undisturbed, O!Sessions

\* What holds of a session that does not move, and whose task is not disturbed.
LEMMA OthersUndisturbed ==
  ASSUME OutputInv, NEW w \in Workers,
         pc'[w] = pc[w], copy'[w] = copy[w], held'[w] = held[w],
         sole'[w] => sole[w] /\ status' = status /\ rows' = rows
  PROVE  Undisturbed(w)'
BY DEF OutputInv, Undisturbed

LEMMA OthersOwn ==
  ASSUME OutputInv, NEW s \in O!Sessions, pc'[s] = pc[s], copy'[s] = copy[s]
  PROVE  Own(s)'
BY DEF OutputInv, Own, O!NoResult

\* Whoever interferes leaves no other worker alone, and its own run as it was.
LEMMA Interference ==
  ASSUME O!TypeOK, NEW s \in O!Sessions, O!Interfere(s)
  PROVE  /\ sole' \in [Workers -> BOOLEAN]
         /\ \A w \in Workers : sole'[w] => sole[w]
         /\ s \notin Editors => \A w \in Workers : w # s => ~sole'[w]
BY DEF O!TypeOK, O!Interfere

\* Workers and editors analyse and report alike.
LEMMA OutputAnalysed ==
  ASSUME O!Assumption, OutputInv, NEW s \in O!Sessions, O!Analyse(s)
  PROVE  OutputInv'
<1>1. /\ pc[s] = "statistics" /\ pc' = [pc EXCEPT ![s] = "report"]
      /\ copy' = [copy EXCEPT ![s] = [copy[s] EXCEPT !.snapshot = O!Computed(s)]]
      /\ column' = copy'[s]
      /\ status' = status /\ rows' = rows /\ held' = held /\ run' = run /\ runs' = runs
      /\ O!Interfere(s)
  BY DEF O!Analyse, O!Save, O!Written, O!Go
<1>2. O!Computed(s) \in O!Results /\ O!Computed(s) # O!NoResult
  BY ComputedTyped DEF OutputInv
<1>3. copy[s] \in O!Outputs
  BY DEF OutputInv, O!TypeOK
<1>4. [copy[s] EXCEPT !.snapshot = O!Computed(s)] \in O!Outputs
  BY <1>2, <1>3 DEF O!Outputs
<1>5. copy'[s] = [copy[s] EXCEPT !.snapshot = O!Computed(s)]
  BY <1>1 DEF OutputInv, O!TypeOK
<1>6. /\ sole' \in [Workers -> BOOLEAN]
      /\ \A w \in Workers : sole'[w] => sole[w]
  BY <1>1, Interference DEF OutputInv
<1>7. O!TypeOK'
  BY <1>1, <1>4, <1>5, <1>6 DEF OutputInv, O!TypeOK
<1>8. /\ copy'[s].snapshot = O!Computed(s)
      /\ copy'[s].weights = copy[s].weights
  BY <1>3, <1>5 DEF O!Outputs
<1>9. \A t \in O!Sessions \ {s} : pc'[t] = pc[t] /\ copy'[t] = copy[t]
  BY <1>1 DEF OutputInv, O!TypeOK
<1>10. Own(s)'
  BY <1>1, <1>2, <1>8 DEF OutputInv, O!TypeOK, Own, O!Computed, O!NoResult
<1>11. \A t \in O!Sessions : Own(t)'
  BY <1>9, <1>10, OthersOwn
<1>12. \A w \in Workers : Undisturbed(w)'
  <2> SUFFICES ASSUME NEW w \in Workers
               PROVE  Undisturbed(w)'
    OBVIOUS
  <2>1. CASE w = s
    BY <2>1, <1>1, <1>6, <1>8 DEF OutputInv, O!TypeOK, Undisturbed, O!Computed
  <2>2. CASE w # s
    <3>1. pc'[w] = pc[w] /\ copy'[w] = copy[w]
      BY <2>2, <1>9 DEF O!Sessions
    <3>2. QED
      BY <3>1, <1>1, <1>6, OthersUndisturbed
  <2>3. QED
    BY <2>1, <2>2
<1>13. QED
  BY <1>7, <1>11, <1>12 DEF OutputInv

LEMMA OutputReported ==
  ASSUME O!Assumption, OutputInv, NEW s \in O!Sessions, O!Report(s)
  PROVE  OutputInv'
<1>1. copy[s] \in O!Outputs /\ Own(s)
  BY DEF OutputInv, O!TypeOK
<1>2. pc[s] = "report" /\ O!Reported(s) = copy[s].snapshot
  BY <1>1 DEF O!Report, O!Reported, Own
<1>3. /\ pc' = [pc EXCEPT ![s] = "finish"]
      /\ copy' = [copy EXCEPT ![s] = [copy[s] EXCEPT !.report = copy[s].snapshot]]
      /\ column' = copy'[s]
      /\ status' = status /\ rows' = rows /\ held' = held /\ run' = run /\ runs' = runs
      /\ O!Interfere(s)
  BY <1>2 DEF O!Report, O!Save, O!Written, O!Go
<1>4. [copy[s] EXCEPT !.report = copy[s].snapshot] \in O!Outputs
  BY <1>1 DEF O!Outputs
<1>5. copy'[s] = [copy[s] EXCEPT !.report = copy[s].snapshot]
  BY <1>3 DEF OutputInv, O!TypeOK
<1>6. /\ sole' \in [Workers -> BOOLEAN]
      /\ \A w \in Workers : sole'[w] => sole[w]
  BY <1>3, Interference DEF OutputInv
<1>7. O!TypeOK'
  BY <1>3, <1>4, <1>5, <1>6 DEF OutputInv, O!TypeOK
<1>8. /\ copy'[s].report = copy[s].snapshot /\ copy'[s].snapshot = copy[s].snapshot
      /\ copy'[s].weights = copy[s].weights
  BY <1>1, <1>5 DEF O!Outputs
<1>9. \A t \in O!Sessions \ {s} : pc'[t] = pc[t] /\ copy'[t] = copy[t]
  BY <1>3 DEF OutputInv, O!TypeOK
<1>10. Own(s)'
  BY <1>1, <1>2, <1>8 DEF Own, O!NoResult
<1>11. \A t \in O!Sessions : Own(t)'
  BY <1>9, <1>10, OthersOwn
<1>12. \A w \in Workers : Undisturbed(w)'
  <2> SUFFICES ASSUME NEW w \in Workers
               PROVE  Undisturbed(w)'
    OBVIOUS
  <2>1. CASE w = s
    BY <2>1, <1>2, <1>3, <1>6, <1>8 DEF OutputInv, O!TypeOK, Undisturbed
  <2>2. CASE w # s
    <3>1. pc'[w] = pc[w] /\ copy'[w] = copy[w]
      BY <2>2, <1>9 DEF O!Sessions
    <3>2. QED
      BY <3>1, <1>3, <1>6, OthersUndisturbed
  <2>3. QED
    BY <2>1, <2>2
<1>13. QED
  BY <1>7, <1>11, <1>12 DEF OutputInv

-----------------------------------------------------------------------------
\* A step of a worker: what it makes of its own session.
WorkersStep(w) ==
  O!Begin(w) \/ O!Admit(w) \/ O!Reset(w) \/ O!Store(w) \/ O!Finish(w) \/ O!Fail(w)

LEMMA WorkerTyped ==
  ASSUME O!Assumption, OutputInv, NEW w \in Workers, WorkersStep(w)
  PROVE  /\ \E step \in {"idle", "admit", "crawl", "store", "statistics", "done"} :
              pc' = [pc EXCEPT ![w] = step]
         /\ \E c \in O!Outputs : copy' = [copy EXCEPT ![w] = c]
         /\ \E h \in {"QUEUED", "RUNNING"} \cup O!Terminal : held' = [held EXCEPT ![w] = h]
         /\ O!TypeOK'
<1>1. w \in O!Sessions /\ O!NoOutputs \in O!Outputs
  BY NoOutputsTyped DEF O!Sessions
<1>2. \E step \in {"idle", "admit", "crawl", "store", "statistics", "done"} :
        pc' = [pc EXCEPT ![w] = step]
  BY DEF WorkersStep, O!Begin, O!Admit, O!Reset, O!Store, O!Finish, O!Fail,
         O!Go, O!End, O!EndRun
<1>3. \E c \in O!Outputs : copy' = [copy EXCEPT ![w] = c]
  <2>1. \/ copy' = copy \/ copy' = [copy EXCEPT ![w] = column]
        \/ copy' = [copy EXCEPT ![w] = O!NoOutputs]
    BY DEF WorkersStep, O!Begin, O!Admit, O!Reset, O!Store, O!Finish, O!Fail, O!End, O!EndRun
  <2>2. copy[w] \in O!Outputs /\ column \in O!Outputs /\ copy = [copy EXCEPT ![w] = copy[w]]
    BY <1>1 DEF OutputInv, O!TypeOK
  <2>3. QED
    BY <1>1, <2>1, <2>2
<1>4. \E h \in {"QUEUED", "RUNNING"} \cup O!Terminal : held' = [held EXCEPT ![w] = h]
  <2>1. \/ held' = held \/ held' = [held EXCEPT ![w] = status]
        \/ held' = [held EXCEPT ![w] = "RUNNING"] \/ held' = [held EXCEPT ![w] = "QUEUED"]
    BY DEF WorkersStep, O!Begin, O!Admit, O!Reset, O!Store, O!Finish, O!Fail, O!EndRun
  <2>2. held = [held EXCEPT ![w] = held[w]]
    BY DEF OutputInv, O!TypeOK
  <2>3. QED
    BY <2>1, <2>2 DEF OutputInv, O!TypeOK
<1>5. rows' \in 0..Runs /\ runs' \in 0..Runs /\ run' \in [Workers -> 0..Runs]
  <2>1. rows' \in 0..Runs
    BY DEF O!Assumption, OutputInv, O!TypeOK, WorkersStep, O!Begin, O!Admit, O!Reset,
           O!Store, O!Finish, O!Fail
  <2>2. \/ runs' = runs /\ (run' = run \/ run' = [run EXCEPT ![w] = 0])
        \/ runs < Runs /\ runs' = runs + 1 /\ run' = [run EXCEPT ![w] = runs + 1]
    BY DEF WorkersStep, O!Begin, O!Admit, O!Reset, O!Store, O!Finish, O!Fail, O!EndRun
  <2>3. QED
    BY <2>1, <2>2 DEF O!Assumption, OutputInv, O!TypeOK
<1>6. column' \in O!Outputs
  BY <1>1 DEF OutputInv, O!TypeOK, WorkersStep, O!Begin, O!Admit, O!Reset, O!Store,
              O!Finish, O!Fail, O!Written
<1>7. status' \in {"QUEUED", "RUNNING"} \cup O!Terminal
  BY DEF OutputInv, O!TypeOK, WorkersStep, O!Begin, O!Admit, O!Reset, O!Store,
         O!Finish, O!Fail, O!Terminal
<1>8. sole' \in [Workers -> BOOLEAN]
  BY DEF OutputInv, O!TypeOK, WorkersStep, O!Begin, O!Admit, O!Reset, O!Store,
         O!Finish, O!Fail, O!Interfere, O!InterfereAll
<1>9. pc' \in [O!Sessions -> {"idle", "admit", "crawl", "store", "weigh", "statistics",
                              "report", "finish", "done"}]
  BY <1>2 DEF OutputInv, O!TypeOK
<1>10. copy' \in [O!Sessions -> O!Outputs]
  BY <1>3 DEF OutputInv, O!TypeOK
<1>11. held' \in [Workers -> {"QUEUED", "RUNNING"} \cup O!Terminal]
  BY <1>4 DEF OutputInv, O!TypeOK
<1>12. O!TypeOK'
  BY <1>5, <1>6, <1>7, <1>8, <1>9, <1>10, <1>11 DEF O!TypeOK
<1>13. QED
  BY <1>2, <1>3, <1>4, <1>12

\* A worker that is alone holds the status after its step as before it.
LEMMA WorkerHolds ==
  ASSUME O!Assumption, OutputInv, NEW w \in Workers, WorkersStep(w), sole'[w],
         pc'[w] \in {"admit", "crawl", "store", "statistics", "report", "finish"}
  PROVE  status' = held'[w]
<1>1. w \in O!Sessions
  BY DEF O!Sessions
<1>2. CASE O!Begin(w)
  BY <1>2 DEF O!Begin, OutputInv, O!TypeOK
<1>3. CASE O!Admit(w)
  <2>1. sole[w] /\ pc[w] = "admit"
    BY <1>3 DEF O!Admit, O!Interfere
  <2>2. status = held[w]
    BY <2>1 DEF OutputInv, Undisturbed
  <2>3. QED
    BY <1>3, <2>2 DEF O!Admit, OutputInv, O!TypeOK
<1>4. CASE O!Reset(w) \/ O!Store(w)
  <2>1. sole[w] /\ pc[w] \in {"crawl", "store"} /\ status' = status /\ held' = held
    BY <1>4 DEF O!Reset, O!Store, O!Interfere
  <2>2. QED
    BY <2>1 DEF OutputInv, Undisturbed
<1>5. CASE O!Finish(w) \/ O!Fail(w)
  BY <1>1, <1>5 DEF O!Finish, O!Fail, O!EndRun, O!End, O!Go, OutputInv, O!TypeOK
<1>6. QED
  BY <1>2, <1>3, <1>4, <1>5 DEF WorkersStep

LEMMA OutputOfWorker ==
  ASSUME O!Assumption, OutputInv, NEW w \in Workers, WorkersStep(w)
  PROVE  OutputInv'
<1>1. PICK step \in {"idle", "admit", "crawl", "store", "statistics", "done"} :
        pc' = [pc EXCEPT ![w] = step]
  BY WorkerTyped
<1>2. w \in O!Sessions /\ Workers \subseteq O!Sessions /\ w \notin Editors
  BY DEF O!Assumption, O!Sessions
<1>3. pc'[w] = step
  BY <1>1, <1>2 DEF OutputInv, O!TypeOK
<1>4. \A s \in O!Sessions \ {w} : pc'[s] = pc[s] /\ copy'[s] = copy[s]
  <2>1. PICK c : copy' = [copy EXCEPT ![w] = c]
    BY WorkerTyped
  <2>2. DOMAIN pc = O!Sessions /\ DOMAIN copy = O!Sessions
    BY DEF OutputInv, O!TypeOK
  <2>3. QED
    BY <1>1, <2>1, <2>2
<1>5. \A v \in Workers \ {w} : held'[v] = held[v]
  BY WorkerTyped DEF OutputInv, O!TypeOK
<1>6. Own(w)'
  BY <1>3 DEF Own
<1>7. \A s \in O!Sessions : Own(s)'
  BY <1>4, <1>6, OthersOwn
<1>8. Undisturbed(w)'
  BY <1>3, WorkerHolds DEF Undisturbed
<1>9. \A v \in Workers \ {w} : sole'[v] => sole[v] /\ status' = status /\ rows' = rows
  BY <1>2 DEF OutputInv, O!TypeOK, WorkersStep, O!Begin, O!Admit, O!Reset, O!Store,
              O!Finish, O!Fail, O!Interfere, O!InterfereAll
<1>10. \A v \in Workers : Undisturbed(v)'
  BY <1>2, <1>4, <1>5, <1>8, <1>9, OthersUndisturbed
<1>11. QED
  BY <1>7, <1>10, WorkerTyped DEF OutputInv

LEMMA OutputOfEditor ==
  ASSUME O!Assumption, OutputInv, NEW e \in Editors,
         O!Load(e) \/ O!Weigh(e) \/ O!Edited(e) \/ O!Abandon(e)
  PROVE  OutputInv'
<1>1. e \in O!Sessions /\ copy[e] \in O!Outputs /\ column \in O!Outputs
      /\ O!NoOutputs \in O!Outputs
  BY NoOutputsTyped DEF OutputInv, O!TypeOK, O!Sessions
<1>2. /\ \E step \in {"weigh", "statistics", "done"} : pc' = [pc EXCEPT ![e] = step]
      /\ \E c \in O!Outputs : copy' = [copy EXCEPT ![e] = c]
      /\ column' \in O!Outputs
      /\ UNCHANGED <<status, rows, sole, held, run, runs>>
  <2>1. CASE O!Load(e)
    BY <1>1, <2>1 DEF O!Load, O!Go
  <2>2. CASE O!Weigh(e)
    <3>1. PICK w \in Weights : O!Save(e, "weights", w)
      BY <2>2 DEF O!Weigh
    <3>2. [copy[e] EXCEPT !.weights = w] \in O!Outputs
      BY <1>1, <3>1 DEF O!Outputs
    <3>3. copy' = [copy EXCEPT ![e] = [copy[e] EXCEPT !.weights = w]] /\ column' = copy'[e]
      BY <3>1 DEF O!Save, O!Written
    <3>4. column' \in O!Outputs
      BY <1>1, <3>2, <3>3 DEF OutputInv, O!TypeOK
    <3>5. QED
      BY <2>2, <3>2, <3>3, <3>4 DEF O!Weigh, O!Go
  <2>3. CASE O!Edited(e)
    BY <1>1, <2>3 DEF O!Edited, O!Written, O!End, O!Go
  <2>4. CASE O!Abandon(e)
    BY <1>1, <2>4 DEF O!Abandon, O!End, O!Go
  <2>5. QED
    BY <2>1, <2>2, <2>3, <2>4
<1>3. O!TypeOK'
  BY <1>1, <1>2 DEF OutputInv, O!TypeOK
<1>4. \A s \in O!Sessions \ {e} : pc'[s] = pc[s] /\ copy'[s] = copy[s]
  BY <1>2 DEF OutputInv, O!TypeOK
<1>5. Own(e)'
  BY <1>1, <1>2 DEF OutputInv, O!TypeOK, Own
<1>6. \A s \in O!Sessions : Own(s)'
  BY <1>4, <1>5, OthersOwn
<1>7. \A w \in Workers : w \in O!Sessions \ {e}
  BY DEF O!Assumption, O!Sessions
<1>8. \A w \in Workers : Undisturbed(w)'
  BY <1>2, <1>4, <1>7, OthersUndisturbed
<1>9. QED
  BY <1>3, <1>6, <1>8 DEF OutputInv

LEMMA OutputNext ==
  ASSUME O!Assumption, OutputInv, [O!Next]_(O!vars)
  PROVE  OutputInv'
<1>1. CASE \E w \in Workers : WorkersStep(w)
  BY <1>1, OutputOfWorker
<1>2. CASE \E e \in Editors : O!Load(e) \/ O!Weigh(e) \/ O!Edited(e) \/ O!Abandon(e)
  BY <1>2, OutputOfEditor
<1>3. CASE \E s \in O!Sessions : O!Analyse(s) \/ O!Report(s)
  BY <1>3, OutputAnalysed, OutputReported
<1>4. CASE O!Requeue
  <2>1. /\ sole' = [w \in Workers |-> FALSE] /\ status' = "QUEUED"
        /\ UNCHANGED <<rows, column, pc, copy, held, run, runs>>
    BY <1>4 DEF O!Requeue, O!InterfereAll
  <2>2. O!TypeOK'
    BY <2>1 DEF OutputInv, O!TypeOK
  <2>3. QED
    BY <2>1, <2>2, OthersOwn, OthersUndisturbed DEF OutputInv
<1>5. CASE UNCHANGED O!vars
  <2>1. O!TypeOK'
    BY <1>5 DEF O!vars, OutputInv, O!TypeOK
  <2>2. QED
    BY <1>5, <2>1, OthersOwn, OthersUndisturbed DEF O!vars, OutputInv
<1>6. QED
  BY <1>1, <1>2, <1>3, <1>4, <1>5 DEF O!Next, WorkersStep

\* A session that has reported and commits leaves its own results to the pages.
LEMMA CommitAgrees ==
  ASSUME NEW s \in O!Sessions, Own(s), pc[s] = "finish",
         column' = copy[s], status' \in Terminal
  PROVE  Agree' /\ ServedAnalysis' = copy[s].snapshot
<1>1. /\ column'.snapshot # NoResult /\ column'.report = column'.snapshot
      /\ column'.snapshot.weights = column'.weights
  BY DEF Own, NoResult, O!NoResult
<1>2. NoResult' = NoResult /\ Terminal' = Terminal
  BY DEF NoResult, Terminal
<1>3. ServedAnalysis' = column'.snapshot
  BY <1>1, <1>2 DEF ServedAnalysis
<1>4. ServedReport' = column'.report
  BY <1>1, <1>2 DEF ServedReport
<1>5. QED
  BY <1>1, <1>3, <1>4 DEF Agree

-----------------------------------------------------------------------------
\* Types, and who has which results in its copy of extra_params.
THEOREM OutputsInvariant ==
  ASSUME O!Assumption
  PROVE  O!Spec => []OutputInv
<1>1. O!Init => OutputInv
  BY OutputInit
<1>2. OutputInv /\ [O!Next]_(O!vars) => OutputInv'
  BY OutputNext
<1>3. QED
  BY <1>1, <1>2, PTL DEF O!Spec

\* When a run ends that no other of the task overlapped, the pages show the
\* analysis and the report of its own rows, however many users edited weights
\* during it and whatever status the task had before (run_crawl_task).
THEOREM RunFinishesWithOwnOutputs ==
  ASSUME O!Assumption
  PROVE  O!Spec => FinishedWithOwnOutputs
<1>1. ASSUME OutputInv, [O!Next]_(O!vars)
      PROVE  \A w \in Workers : pc[w] = "finish" /\ pc'[w] = "done" /\ sole[w] =>
               Agree' /\ ServedAnalysis'.rows = rows'
  <2> SUFFICES ASSUME NEW w \in Workers, pc[w] = "finish", pc'[w] = "done", sole[w]
               PROVE  Agree' /\ ServedAnalysis'.rows = rows'
    OBVIOUS
  <2>1. w \in O!Sessions /\ w \notin Editors
    BY DEF O!Assumption, O!Sessions
  <2>2. O!Finish(w)
    <3>1. ~O!Requeue /\ pc' # pc
      BY DEF O!Requeue
    <3>2. CASE \E v \in Workers : WorkersStep(v)
      BY <2>1, <3>2, <1>1 DEF OutputInv, O!TypeOK, WorkersStep, O!Begin, O!Admit, O!Reset,
                              O!Store, O!Fail, O!Finish, O!Go, O!End, O!EndRun
    <3>3. CASE \E e \in Editors : O!Load(e) \/ O!Weigh(e) \/ O!Edited(e) \/ O!Abandon(e)
      BY <2>1, <3>3, <1>1 DEF OutputInv, O!TypeOK, O!Load, O!Weigh, O!Edited, O!Abandon,
                              O!Go, O!End
    <3>4. CASE \E s \in O!Sessions : O!Analyse(s) \/ O!Report(s)
      BY <2>1, <3>4, <1>1 DEF OutputInv, O!TypeOK, O!Analyse, O!Report, O!Go
    <3>5. QED
      BY <1>1, <3>1, <3>2, <3>3, <3>4 DEF O!Next, O!vars, WorkersStep
  <2>3. PICK final \in Terminal :
          status' = (IF held[w] = final THEN status ELSE final) /\ column' = copy[w]
    BY <1>1, <2>1, <2>2 DEF O!Finish, O!Written, O!EndRun, O!End, O!Go, OutputInv, O!TypeOK,
                            Terminal, O!Terminal
  <2>4. status = held[w] /\ copy[w].snapshot.rows = rows /\ rows' = rows
    BY <1>1, <2>2 DEF OutputInv, Undisturbed, O!Finish
  <2>5. status' \in Terminal
    BY <2>3, <2>4
  <2>6. Agree' /\ ServedAnalysis' = copy[w].snapshot
    BY <1>1, <2>1, <2>3, <2>5, CommitAgrees DEF OutputInv
  <2>7. QED
    BY <2>4, <2>6
<1>2. ASSUME OutputInv, [O!Next]_(O!vars)
      PROVE  [\A w \in Workers : pc[w] = "finish" /\ pc'[w] = "done" /\ sole[w] =>
                Agree' /\ ServedAnalysis'.rows = rows']_shared
  BY <1>1, <1>2
<1>3. QED
  BY <1>2, OutputsInvariant, PTL DEF O!Spec, FinishedWithOwnOutputs

\* When an edit of the weights ends, and the task still is one that has ended,
\* analysis and report are those of the weights it then has, whatever else
\* wrote them meanwhile (update_task_analysis_weights).
THEOREM EditFinishesWithOwnOutputs ==
  ASSUME O!Assumption
  PROVE  O!Spec => EditLeavesOwnOutputs
<1>1. ASSUME OutputInv, [O!Next]_(O!vars)
      PROVE  \A e \in Editors : pc[e] = "finish" /\ pc'[e] = "done" /\ status' \in Terminal =>
               Agree'
  <2> SUFFICES ASSUME NEW e \in Editors, pc[e] = "finish", pc'[e] = "done", status' \in Terminal
               PROVE  Agree'
    OBVIOUS
  <2>1. e \in O!Sessions /\ e \notin Workers
    BY DEF O!Assumption, O!Sessions
  <2>2. O!Edited(e)
    <3>1. ~O!Requeue /\ pc' # pc
      BY DEF O!Requeue
    <3>2. CASE \E v \in Workers : WorkersStep(v)
      BY <2>1, <3>2, <1>1, WorkerTyped DEF OutputInv, O!TypeOK, WorkersStep, O!Begin, O!Admit,
           O!Reset, O!Store, O!Fail, O!Finish, O!Go, O!End, O!EndRun
    <3>3. CASE \E d \in Editors : O!Load(d) \/ O!Weigh(d) \/ O!Edited(d) \/ O!Abandon(d)
      BY <2>1, <3>3, <1>1 DEF OutputInv, O!TypeOK, O!Load, O!Weigh, O!Edited, O!Abandon, O!Go, O!End
    <3>4. CASE \E s \in O!Sessions : O!Analyse(s) \/ O!Report(s)
      BY <2>1, <3>4, <1>1 DEF OutputInv, O!TypeOK, O!Analyse, O!Report, O!Go
    <3>5. QED
      BY <1>1, <3>1, <3>2, <3>3, <3>4 DEF O!Next, O!vars, WorkersStep
  <2>3. column' = copy[e]
    BY <2>2 DEF O!Edited, O!Written
  <2>4. QED
    BY <1>1, <2>1, <2>3, CommitAgrees DEF OutputInv
<1>2. ASSUME OutputInv, [O!Next]_(O!vars)
      PROVE  [\A e \in Editors : pc[e] = "finish" /\ pc'[e] = "done" /\ status' \in Terminal =>
                Agree']_shared
  BY <1>1, <1>2
<1>3. QED
  BY <1>2, OutputsInvariant, PTL DEF O!Spec, EditLeavesOwnOutputs

-----------------------------------------------------------------------------
(* Monitoring. *)

\* What a process has still to add of a stage: its total before its failures,
\* of which there are no more.
CallsInv ==
  \A p \in Processes :
    /\ Len(adding[p]) <= 2
    /\ Len(adding[p]) = 2 =>
         /\ adding[p][1][1] = "total" /\ adding[p][2][1] = "failure"
         /\ adding[p][2][2] <= adding[p][1][2]

\* Failures a process has still to add, when their total has been added
Owed(p) ==
  IF adding[p] # <<>> /\ adding[p][1][1] = "failure" THEN adding[p][1][2] ELSE 0

OwedFailures == UNION {{p} \X (1..Owed(p)) : p \in Processes}

\* The totals that have been added cover the failures that are still owed.
CountersInv ==
  IsFiniteSet(OwedFailures)
  /\ (~missed => counts.failure + Cardinality(OwedFailures) <= counts.total)

ProbeInv ==
  /\ steady \subseteq beats
  /\ probe.pc = "read" => steady \subseteq probe.keys
  /\ probe.pc = "done" /\ probe.ok => steady \subseteq probe.workers

MonitorInv == M!TypeOK /\ CallsInv /\ CountersInv /\ ProbeInv

-----------------------------------------------------------------------------
(* The failures owed *)

LEMMA UpTo ==
  ASSUME NEW n \in Nat
  PROVE  IsFiniteSet(1..n) /\ Cardinality(1..n) = n
<1>1. CASE n = 0
  BY <1>1, FS_Interval
<1>2. CASE n # 0
  BY <1>2, FS_Interval
<1>3. QED
  BY <1>1, <1>2

LEMMA OwedMembers ==
  ASSUME NEW x
  PROVE  x \in OwedFailures <=> \E p \in Processes : \E k \in 1..Owed(p) : x = <<p, k>>
BY DEF OwedFailures

\* When one process owes n failures where it owed m, the sum changes by n - m.
LEMMA OwedChanged ==
  ASSUME IsFiniteSet(OwedFailures), NEW p \in Processes, NEW n \in Nat,
         Owed(p) \in Nat, Owed(p)' = n,
         \A q \in Processes \ {p} : Owed(q)' = Owed(q)
  PROVE  /\ IsFiniteSet(OwedFailures') /\ Cardinality(OwedFailures') \in Nat
         /\ Cardinality(OwedFailures) \in Nat
         /\ Cardinality(OwedFailures') + Owed(p) = Cardinality(OwedFailures) + n
<1> DEFINE Others == {x \in OwedFailures : x[1] # p}
           Row(m) == {p} \X (1..m)
<1>1. ASSUME NEW m \in Nat
      PROVE  IsFiniteSet(Row(m)) /\ Cardinality(Row(m)) = m /\ Others \cap Row(m) = {}
  <2>1. IsFiniteSet(1..m) /\ Cardinality(1..m) = m
    BY UpTo
  <2>2. IsFiniteSet({p}) /\ Cardinality({p}) = 1
    BY FS_Singleton
  <2>3. IsFiniteSet(Row(m)) /\ Cardinality(Row(m)) = 1 * m
    BY <2>1, <2>2, FS_Product
  <2>4. \A x \in Row(m) : x[1] = p
    OBVIOUS
  <2>5. QED
    BY <2>3, <2>4
<1>2. IsFiniteSet(Others) /\ Cardinality(Others) \in Nat
  <2>1. Others \in SUBSET OwedFailures
    OBVIOUS
  <2>2. QED
    BY <2>1, FS_Subset, FS_CardinalityType
<1>3. OwedFailures = Others \cup Row(Owed(p))
  <2>1. ASSUME NEW x \in OwedFailures
        PROVE  x \in Others \/ x \in Row(Owed(p))
    <3>1. PICK q \in Processes : \E k \in 1..Owed(q) : x = <<q, k>>
      BY OwedMembers
    <3>2. QED
      BY <3>1
  <2>2. ASSUME NEW x \in Row(Owed(p))
        PROVE  x \in OwedFailures
    <3>1. PICK k \in 1..Owed(p) : x = <<p, k>>
      OBVIOUS
    <3>2. QED
      BY <3>1, OwedMembers
  <2>3. QED
    BY <2>1, <2>2
<1>4. OwedFailures' = Others \cup Row(n)
  <2>1. \A x : x \in OwedFailures' <=>
          \E q \in Processes : \E k \in 1..(Owed(q)') : x = <<q, k>>
    BY DEF OwedFailures
  <2>2. ASSUME NEW x \in OwedFailures'
        PROVE  x \in Others \/ x \in Row(n)
    <3>1. PICK q \in Processes : \E k \in 1..(Owed(q)') : x = <<q, k>>
      BY <2>1
    <3>2. CASE q = p
      BY <3>1, <3>2
    <3>3. CASE q # p
      <4>1. PICK k \in 1..(Owed(q)') : x = <<q, k>>
        BY <3>1
      <4>2. k \in 1..Owed(q) /\ x[1] = q /\ x = <<q, k>>
        BY <3>3, <4>1
      <4>3. x \in OwedFailures
        BY <4>2, OwedMembers
      <4>4. QED
        BY <3>3, <4>2, <4>3
    <3>4. QED
      BY <3>2, <3>3
  <2>3. ASSUME NEW x \in Others
        PROVE  x \in OwedFailures'
    <3>1. PICK q \in Processes : \E k \in 1..Owed(q) : x = <<q, k>>
      BY OwedMembers
    <3>2. q # p /\ \E k \in 1..(Owed(q)') : x = <<q, k>>
      BY <3>1
    <3>3. QED
      BY <2>1, <3>1, <3>2
  <2>4. ASSUME NEW x \in Row(n)
        PROVE  x \in OwedFailures'
    <3>1. PICK k \in 1..n : x = <<p, k>>
      OBVIOUS
    <3>2. QED
      BY <2>1, <3>1
  <2>5. QED
    BY <2>2, <2>3, <2>4
<1>5. ASSUME NEW m \in Nat
      PROVE  /\ IsFiniteSet(Others \cup Row(m))
             /\ Cardinality(Others \cup Row(m)) = Cardinality(Others) + m
  <2> DEFINE R == Row(m)
  <2>1. IsFiniteSet(R) /\ Cardinality(R) = m /\ Others \cap R = {}
    BY <1>1
  <2> HIDE DEF Others, R
  <2>2. /\ IsFiniteSet(Others \cup R)
        /\ Cardinality(Others \cup R) = Cardinality(Others) + Cardinality(R) - Cardinality(Others \cap R)
    BY <1>2, <2>1, FS_Union
  <2>3. Cardinality(Others \cap R) = 0
    BY <2>1, FS_EmptySet
  <2>4. Cardinality(Others \cup R) = Cardinality(Others) + m
    BY <1>2, <2>1, <2>2, <2>3
  <2>5. QED
    BY <2>2, <2>4 DEF R
<1> HIDE DEF Others, Row
<1>6. IsFiniteSet(OwedFailures') /\ Cardinality(OwedFailures') = Cardinality(Others) + n
  BY <1>4, <1>5
<1>7. Cardinality(OwedFailures) = Cardinality(Others) + Owed(p)
  BY <1>3, <1>5
<1>8. QED
  BY <1>2, <1>6, <1>7

LEMMA OwedSame ==
  ASSUME UNCHANGED adding
  PROVE  OwedFailures' = OwedFailures
BY DEF OwedFailures, Owed

LEMMA OwedType ==
  ASSUME M!TypeOK, NEW p \in Processes
  PROVE  Owed(p) \in Nat
<1>1. CASE adding[p] = <<>>
  BY <1>1 DEF Owed
<1>2. CASE adding[p] # <<>>
  <2>1. adding[p] \in Seq({"total", "failure"} \X Nat)
    BY DEF M!TypeOK
  <2>2. adding[p][1] \in {"total", "failure"} \X Nat
    BY <1>2, <2>1, EmptySeq, LenProperties, ElementOfSeq
  <2>3. QED
    BY <2>2 DEF Owed
<1>3. QED
  BY <1>1, <1>2

\* The calls of a stage: none, or its total, with or without failures to follow
LEMMA CallsShape ==
  ASSUME M!Assumption, NEW b \in Batches
  PROVE  \/ M!Calls(b) = <<>>
         \/ b.total > 0 /\ M!Calls(b) = << <<"total", b.total>> >>
         \/ b.total > 0 /\ b.failure \in 1..b.total
            /\ M!Calls(b) = << <<"total", b.total>>, <<"failure", b.failure>> >>
<1>1. b.total \in Nat /\ b.failure \in 0..b.total
  BY DEF M!Assumption
<1>2. CASE b.total = 0
  <2>1. M!Call("total", b.total) = <<>> /\ M!Call("failure", b.failure) = <<>>
    BY <1>1, <1>2 DEF M!Call
  <2>2. <<>> \o <<>> = <<>>
    <3>1. <<>> \in Seq(Nat)
      BY EmptySeq
    <3>2. QED
      BY <3>1, ConcatEmptySeq
  <2>3. QED
    BY <2>1, <2>2 DEF M!Calls
<1>3. CASE b.total > 0 /\ b.failure = 0
  <2> DEFINE one == << <<"total", b.total>> >>
  <2>1. M!Call("total", b.total) = one /\ M!Call("failure", b.failure) = <<>>
    BY <1>1, <1>3 DEF M!Call
  <2>2. one \in Seq({"total", "failure"} \X Nat)
    BY <1>1
  <2> HIDE DEF one
  <2>3. one \o <<>> = one
    BY <2>2, ConcatEmptySeq
  <2>4. M!Calls(b) = one
    BY <2>1, <2>3 DEF M!Calls
  <2>5. QED
    BY <1>3, <2>4 DEF one
<1>4. CASE b.total > 0 /\ b.failure > 0
  <2> DEFINE one == << <<"total", b.total>> >>
             two == << <<"failure", b.failure>> >>
             both == << <<"total", b.total>>, <<"failure", b.failure>> >>
             S == {"total", "failure"} \X Nat
  <2>1. M!Calls(b) = one \o two
    BY <1>1, <1>4 DEF M!Call, M!Calls
  <2>2. /\ one \in Seq(S) /\ two \in Seq(S) /\ both \in Seq(S)
        /\ Len(one) = 1 /\ Len(two) = 1 /\ Len(both) = 2
        /\ one[1] = both[1] /\ two[1] = both[2]
    BY <1>1
  <2> HIDE DEF one, two, both
  <2>3. /\ one \o two \in Seq(S) /\ Len(one \o two) = 2
        /\ (one \o two)[1] = both[1] /\ (one \o two)[2] = both[2]
    <3>1. /\ one \o two \in Seq(S) /\ Len(one \o two) = Len(one) + Len(two)
          /\ \A k \in 1..(Len(one) + Len(two)) :
               (one \o two)[k] = IF k <= Len(one) THEN one[k] ELSE two[k - Len(one)]
      BY <2>2, ConcatProperties
    <3>2. QED
      BY <2>2, <3>1
  <2>4. \A k \in 1..2 : (one \o two)[k] = both[k]
    BY <2>3
  <2>5. one \o two = both
    BY <2>2, <2>3, <2>4, SeqEqual
  <2>6. QED
    BY <1>1, <1>4, <2>1, <2>5 DEF both
<1>5. QED
  BY <1>1, <1>2, <1>3, <1>4

-----------------------------------------------------------------------------
(* Every step keeps the invariant *)

LEMMA MonitorInit ==
  ASSUME M!Assumption, M!Init
  PROVE  MonitorInv
<1>1. M!TypeOK
  <2>1. <<>> \in Seq({"total", "failure"} \X Nat)
    BY EmptySeq
  <2>2. adding \in [Processes -> Seq({"total", "failure"} \X Nat)]
    BY <2>1 DEF M!Init
  <2>3. counts \in [total : Nat, failure : Nat]
    BY DEF M!Init
  <2>4. probe \in [pc : {"idle", "scan", "read", "done", "raised"}, ok : BOOLEAN,
                   keys : SUBSET Processes, workers : SUBSET Processes]
    BY DEF M!Init, M!NoProbe
  <2>5. process \in [Processes -> {"unborn", "alive", "dead"}]
    BY DEF M!Init
  <2>6. beats \subseteq Processes /\ steady \subseteq Processes /\ stages \in 0..Stages
    BY DEF M!Init, M!Assumption
  <2>7. redis \in BOOLEAN /\ missed \in BOOLEAN
    BY DEF M!Init
  <2>8. QED
    BY <2>2, <2>3, <2>4, <2>5, <2>6, <2>7 DEF M!TypeOK
<1>2. CallsInv
  BY DEF M!Init, CallsInv
<1>3. CountersInv
  <2>1. \A p \in Processes : Owed(p) = 0
    BY DEF M!Init, Owed
  <2>2. OwedFailures = {}
    BY <2>1, OwedMembers
  <2>3. QED
    BY <2>2, FS_EmptySet DEF M!Init, CountersInv
<1>4. ProbeInv
  BY DEF M!Init, ProbeInv, M!NoProbe
<1>5. QED
  BY <1>1, <1>2, <1>3, <1>4 DEF MonitorInv

\* Steps that leave what is still to be added, and the counters, alone
LEMMA CountersAlone ==
  ASSUME CallsInv, CountersInv, UNCHANGED <<adding, counts, missed>>
  PROVE  CallsInv' /\ CountersInv'
<1>1. OwedFailures' = OwedFailures
  BY OwedSame
<1>2. QED
  BY <1>1 DEF CallsInv, CountersInv

LEMMA BeatKeeps ==
  ASSUME M!Assumption, MonitorInv, NEW p \in Processes, M!Beat(p)
  PROVE  MonitorInv'
<1>1. M!TypeOK'
  BY DEF MonitorInv, M!TypeOK, M!Beat
<1>2. CallsInv' /\ CountersInv'
  BY CountersAlone DEF MonitorInv, M!Beat
<1>3. ProbeInv'
  BY DEF MonitorInv, ProbeInv, M!Beat
<1>4. QED
  BY <1>1, <1>2, <1>3 DEF MonitorInv

LEMMA ExpireKeeps ==
  ASSUME M!Assumption, MonitorInv, NEW p \in Processes, M!Expire(p)
  PROVE  MonitorInv'
<1>1. M!TypeOK'
  BY DEF MonitorInv, M!TypeOK, M!Expire
<1>2. CallsInv' /\ CountersInv'
  BY CountersAlone DEF MonitorInv, M!Expire
<1>3. ProbeInv'
  BY DEF MonitorInv, ProbeInv, M!Expire
<1>4. QED
  BY <1>1, <1>2, <1>3 DEF MonitorInv

LEMMA InterruptedKeeps ==
  ASSUME M!Assumption, MonitorInv, M!Interrupted
  PROVE  MonitorInv'
<1>1. M!TypeOK'
  BY DEF MonitorInv, M!TypeOK, M!Interrupted
<1>2. CallsInv' /\ CountersInv'
  BY CountersAlone DEF MonitorInv, M!Interrupted
<1>3. ProbeInv'
  BY DEF MonitorInv, ProbeInv, M!Interrupted
<1>4. QED
  BY <1>1, <1>2, <1>3 DEF MonitorInv

\* What a process has still to add is replaced by `calls`.
LEMMA AddingReplaced ==
  ASSUME CallsInv, NEW p \in Processes, NEW calls, adding \in [Processes -> Seq({"total", "failure"} \X Nat)],
         adding' = [adding EXCEPT ![p] = calls], Len(calls) <= 2,
         Len(calls) = 2 => /\ calls[1][1] = "total" /\ calls[2][1] = "failure"
                           /\ calls[2][2] <= calls[1][2]
  PROVE  CallsInv' /\ \A q \in Processes \ {p} : Owed(q)' = Owed(q)
<1>1. adding'[p] = calls /\ \A q \in Processes \ {p} : adding'[q] = adding[q]
  OBVIOUS
<1>2. CallsInv'
  <2> SUFFICES ASSUME NEW q \in Processes
               PROVE  /\ Len(adding'[q]) <= 2
                      /\ Len(adding'[q]) = 2 =>
                           /\ adding'[q][1][1] = "total" /\ adding'[q][2][1] = "failure"
                           /\ adding'[q][2][2] <= adding'[q][1][2]
    BY DEF CallsInv
  <2>1. CASE q = p
    BY <1>1, <2>1
  <2>2. CASE q # p
    BY <1>1, <2>2 DEF CallsInv
  <2>3. QED
    BY <2>1, <2>2
<1>3. \A q \in Processes \ {p} : Owed(q)' = Owed(q)
  BY <1>1 DEF Owed
<1>4. QED
  BY <1>2, <1>3

LEMMA DiesKeeps ==
  ASSUME M!Assumption, MonitorInv, NEW p \in Processes, M!Dies(p)
  PROVE  MonitorInv'
<1>0. <<>> \in Seq({"total", "failure"} \X Nat) /\ Len(<<>>) = 0
  BY EmptySeq
<1>1. M!TypeOK'
  <2>1. adding' \in [Processes -> Seq({"total", "failure"} \X Nat)]
    BY <1>0 DEF MonitorInv, M!TypeOK, M!Dies
  <2>2. process' \in [Processes -> {"unborn", "alive", "dead"}] /\ missed' \in BOOLEAN
    BY DEF MonitorInv, M!TypeOK, M!Dies
  <2>3. UNCHANGED <<beats, redis, counts, stages, probe>> /\ steady' \subseteq steady
    BY DEF M!Dies
  <2>4. QED
    BY <2>1, <2>2, <2>3 DEF MonitorInv, M!TypeOK
<1>2. CallsInv' /\ \A q \in Processes \ {p} : Owed(q)' = Owed(q)
  <2>1. PICK calls : calls = <<>>
    OBVIOUS
  <2>2. /\ CallsInv /\ adding \in [Processes -> Seq({"total", "failure"} \X Nat)]
        /\ adding' = [adding EXCEPT ![p] = calls] /\ Len(calls) <= 2 /\ Len(calls) # 2
    BY <1>0, <2>1 DEF MonitorInv, M!TypeOK, M!Dies
  <2>3. QED
    BY <2>2, AddingReplaced
<1>3. CountersInv'
  <2>1. Owed(p) \in Nat
    BY OwedType DEF MonitorInv
  <2>2. Owed(p)' = 0
    BY DEF MonitorInv, M!TypeOK, M!Dies, Owed
  <2>3. IsFiniteSet(OwedFailures)
    BY DEF MonitorInv, CountersInv
  <2>4. /\ IsFiniteSet(OwedFailures') /\ Cardinality(OwedFailures') \in Nat
        /\ Cardinality(OwedFailures) \in Nat
        /\ Cardinality(OwedFailures') + Owed(p) = Cardinality(OwedFailures) + 0
    BY <1>2, <2>1, <2>2, <2>3, OwedChanged
  <2>5. counts.failure \in Nat /\ counts.total \in Nat
    BY DEF MonitorInv, M!TypeOK
  <2>6. ~missed' => ~missed
    BY DEF MonitorInv, M!TypeOK, M!Dies
  <2>7. counts' = counts
    BY DEF M!Dies
  <2>8. QED
    BY <2>1, <2>4, <2>5, <2>6, <2>7 DEF MonitorInv, CountersInv
<1>4. ProbeInv'
  BY DEF MonitorInv, ProbeInv, M!Dies
<1>5. QED
  BY <1>1, <1>2, <1>3, <1>4 DEF MonitorInv

LEMMA RecordKeeps ==
  ASSUME M!Assumption, MonitorInv, NEW p \in Processes, M!Record(p)
  PROVE  MonitorInv'
<1>1. PICK b \in Batches : adding' = [adding EXCEPT ![p] = M!Calls(b)]
  BY DEF M!Record
<1> DEFINE S == {"total", "failure"} \X Nat
<1>2. PICK calls : calls = M!Calls(b)
  OBVIOUS
<1>3. /\ calls \in Seq(S) /\ Len(calls) <= 2
      /\ Len(calls) = 2 => /\ calls[1][1] = "total" /\ calls[2][1] = "failure"
                           /\ calls[2][2] <= calls[1][2]
      /\ calls # <<>> => calls[1][1] = "total"
  <2>1. b.total \in Nat /\ b.failure \in 0..b.total
    BY DEF M!Assumption
  <2>2. CASE M!Calls(b) = <<>>
    BY <1>2, <2>2, EmptySeq
  <2>3. CASE b.total > 0 /\ M!Calls(b) = << <<"total", b.total>> >>
    BY <1>2, <2>1, <2>3
  <2>4. CASE /\ b.total > 0 /\ b.failure \in 1..b.total
             /\ M!Calls(b) = << <<"total", b.total>>, <<"failure", b.failure>> >>
    BY <1>2, <2>1, <2>4
  <2>5. QED
    BY <2>2, <2>3, <2>4, CallsShape
<1>4. M!TypeOK'
  <2>1. adding' \in [Processes -> Seq(S)]
    BY <1>1, <1>2, <1>3 DEF MonitorInv, M!TypeOK
  <2>2. stages' \in 0..Stages
    BY DEF MonitorInv, M!TypeOK, M!Record, M!Assumption
  <2>3. UNCHANGED <<process, beats, redis, counts, missed, probe, steady>>
    BY DEF M!Record
  <2>4. QED
    BY <2>1, <2>2, <2>3 DEF MonitorInv, M!TypeOK
<1>5. CallsInv' /\ \A q \in Processes \ {p} : Owed(q)' = Owed(q)
  BY <1>1, <1>2, <1>3, AddingReplaced DEF MonitorInv, M!TypeOK
<1>6. CountersInv'
  <2>1. Owed(p) = 0
    BY DEF M!Record, Owed
  <2>2. Owed(p)' = 0
    BY <1>1, <1>2, <1>3 DEF MonitorInv, M!TypeOK, Owed
  <2>3. IsFiniteSet(OwedFailures)
    BY DEF MonitorInv, CountersInv
  <2>4. /\ IsFiniteSet(OwedFailures') /\ Cardinality(OwedFailures') \in Nat
        /\ Cardinality(OwedFailures) \in Nat
        /\ Cardinality(OwedFailures') + Owed(p) = Cardinality(OwedFailures) + 0
    BY <1>5, <2>1, <2>2, <2>3, OwedChanged
  <2>5. counts' = counts /\ missed' = missed
    BY DEF M!Record
  <2>6. Cardinality(OwedFailures') = Cardinality(OwedFailures)
    BY <2>1, <2>4
  <2>7. QED
    BY <2>4, <2>5, <2>6 DEF MonitorInv, CountersInv
<1>7. ProbeInv'
  BY DEF MonitorInv, ProbeInv, M!Record
<1>8. QED
  BY <1>4, <1>5, <1>6, <1>7 DEF MonitorInv

\* A call that a process has still to make, and what remains after it
LEMMA NextCall ==
  ASSUME CallsInv, M!TypeOK, NEW p \in Processes, adding[p] # <<>>
  PROVE  \E a, t \in Seq({"total", "failure"} \X Nat) :
           /\ a = adding[p] /\ t = Tail(adding[p])
           /\ a[1] \in {"total", "failure"} \X Nat
           /\ Len(a) \in 1..2 /\ Len(t) = Len(a) - 1
           /\ Len(a) = 2 => t # <<>> /\ t[1] = a[2]
                            /\ a[2] \in {"total", "failure"} \X Nat
           /\ Len(a) = 1 => t = <<>>
<1> DEFINE S == {"total", "failure"} \X Nat
<1>1. PICK a \in Seq(S) : a = adding[p]
  BY DEF M!TypeOK
<1>2. PICK t : t = Tail(a)
  OBVIOUS
<1> HIDE DEF S
<1>3. a # <<>> /\ Len(a) <= 2
  BY <1>1 DEF CallsInv
<1>4. Len(a) \in Nat /\ Len(a) # 0
  BY <1>3, EmptySeq
<1>5. /\ t \in Seq(S) /\ Len(t) = Len(a) - 1
      /\ \A k \in 1..Len(t) : t[k] = a[k + 1]
  BY <1>2, <1>3, HeadTailProperties
<1>6. \A k \in 1..Len(a) : a[k] \in S
  BY ElementOfSeq
<1>7. Len(<<>>) = 0 /\ \A s \in Seq(S) : s # <<>> => Len(s) \in Nat \ {0}
  BY EmptySeq
<1>8. Len(a) = 1 => t = <<>>
  BY <1>5, <1>7
<1>9. Len(a) = 2 => t # <<>> /\ t[1] = a[2]
  BY <1>5, <1>7
<1>10. a[1] \in S /\ (Len(a) = 2 => a[2] \in S) /\ Len(a) \in 1..2
  <2>1. PICK n : n = Len(a)
    OBVIOUS
  <2>2. n \in Nat /\ n # 0 /\ n <= 2
    BY <1>3, <1>4, <2>1
  <2>3. n \in 1..2 /\ 1 \in 1..n /\ (n = 2 => 2 \in 1..n)
    BY <2>2
  <2>4. QED
    BY <1>6, <2>1, <2>3
<1>11. t = Tail(adding[p])
  BY <1>1, <1>2
<1>12. QED
  BY <1>1, <1>5, <1>8, <1>9, <1>10, <1>11 DEF S

\* What the call leaves owed
LEMMA OwedAfterCall ==
  ASSUME CallsInv, M!TypeOK, NEW p \in Processes, adding[p] # <<>>,
         adding' = [adding EXCEPT ![p] = Tail(@)]
  PROVE  /\ Owed(p) \in Nat /\ Owed(p)' \in Nat
         /\ adding[p][1][1] = "failure" =>
              Owed(p) = adding[p][1][2] /\ Owed(p)' = 0
         /\ adding[p][1][1] = "total" => Owed(p) = 0 /\ Owed(p)' <= adding[p][1][2]
<1> DEFINE S == {"total", "failure"} \X Nat
<1>1. PICK a, t \in Seq(S) :
        /\ a = adding[p] /\ t = Tail(adding[p])
        /\ a[1] \in S /\ Len(a) \in 1..2 /\ Len(t) = Len(a) - 1
        /\ Len(a) = 2 => t # <<>> /\ t[1] = a[2] /\ a[2] \in S
        /\ Len(a) = 1 => t = <<>>
  BY NextCall
<1>2. adding'[p] = t
  BY <1>1 DEF M!TypeOK
<1>3. Owed(p) \in Nat
  BY OwedType
<1>4. /\ a[1][1] = "failure" => Owed(p) = a[1][2]
      /\ a[1][1] = "total" => Owed(p) = 0
      /\ adding[p][1] = a[1] /\ a[1][2] \in Nat
  BY <1>1 DEF Owed
<1>5. CASE Len(a) = 1
  <2>1. Owed(p)' = 0
    BY <1>1, <1>2, <1>5 DEF Owed
  <2>2. QED
    BY <1>3, <1>4, <2>1
<1>6. CASE Len(a) = 2
  <2>1. a[1][1] = "total" /\ a[2][1] = "failure" /\ a[2][2] <= a[1][2]
    BY <1>1, <1>6 DEF CallsInv
  <2>2. a[2][2] \in Nat
    BY <1>1, <1>6
  <2>3. Owed(p)' = a[2][2]
    BY <1>1, <1>2, <1>6, <2>1 DEF Owed
  <2>4. QED
    BY <1>3, <1>4, <2>1, <2>2, <2>3
<1>7. QED
  BY <1>1, <1>5, <1>6

LEMMA IncrementKeeps ==
  ASSUME M!Assumption, MonitorInv, NEW p \in Processes, M!Increment(p)
  PROVE  MonitorInv'
<1>1. M!TypeOK /\ CallsInv /\ adding[p] # <<>> /\ adding' = [adding EXCEPT ![p] = Tail(@)]
  BY DEF MonitorInv, M!Increment
<1>2. PICK call : call = adding[p][1]
  OBVIOUS
<1>3. PICK rest \in Seq({"total", "failure"} \X Nat) :
        /\ call \in {"total", "failure"} \X Nat
        /\ rest = Tail(adding[p]) /\ Len(rest) <= 1 /\ Len(rest) # 2
  <2>1. PICK a, t \in Seq({"total", "failure"} \X Nat) :
          /\ a = adding[p] /\ t = Tail(adding[p])
          /\ a[1] \in {"total", "failure"} \X Nat
          /\ Len(a) \in 1..2 /\ Len(t) = Len(a) - 1
    BY <1>1, NextCall
  <2>2. call = a[1]
    BY <1>2, <2>1
  <2>3. Len(t) <= 1 /\ Len(t) # 2
    <3>1. PICK n : n = Len(a)
      OBVIOUS
    <3>2. n \in 1..2 /\ Len(t) = n - 1
      BY <2>1, <3>1
    <3>3. QED
      BY <3>2
  <2>4. WITNESS t \in Seq({"total", "failure"} \X Nat)
  <2>5. QED
    BY <2>1, <2>2, <2>3
<1>4. \/ /\ redis /\ counts' = [counts EXCEPT ![call[1]] = @ + call[2]] /\ missed' = missed
      \/ ~redis /\ missed' = TRUE /\ counts' = counts
  BY <1>2 DEF M!Increment
<1>5. M!TypeOK'
  <2>1. adding' \in [Processes -> Seq({"total", "failure"} \X Nat)]
    BY <1>1, <1>3 DEF M!TypeOK
  <2>2. counts' \in [total : Nat, failure : Nat] /\ missed' \in BOOLEAN
    <3>1. call[1] \in {"total", "failure"} /\ call[2] \in Nat
      BY <1>3
    <3>2. /\ counts \in [total : Nat, failure : Nat] /\ missed \in BOOLEAN
          /\ counts.total \in Nat /\ counts.failure \in Nat
      BY <1>1 DEF M!TypeOK
    <3>3. CASE call[1] = "total"
      <4>1. PICK n \in Nat : n = counts.total + call[2]
        BY <3>1, <3>2
      <4>2. counts' = counts \/ counts' = [counts EXCEPT !.total = n]
        BY <1>4, <3>3, <4>1
      <4>3. missed' \in BOOLEAN
        BY <1>4, <3>2
      <4>4. QED
        BY <3>2, <4>2, <4>3
    <3>4. CASE call[1] = "failure"
      <4>1. PICK n \in Nat : n = counts.failure + call[2]
        BY <3>1, <3>2
      <4>2. counts' = counts \/ counts' = [counts EXCEPT !.failure = n]
        BY <1>4, <3>4, <4>1
      <4>3. missed' \in BOOLEAN
        BY <1>4, <3>2
      <4>4. QED
        BY <3>2, <4>2, <4>3
    <3>5. QED
      BY <3>1, <3>3, <3>4
  <2>3. UNCHANGED <<process, beats, redis, stages, probe, steady>>
    BY DEF M!Increment
  <2>4. QED
    BY <1>1, <2>1, <2>2, <2>3 DEF M!TypeOK
<1>6. CallsInv' /\ \A q \in Processes \ {p} : Owed(q)' = Owed(q)
  <2>1. /\ adding \in [Processes -> Seq({"total", "failure"} \X Nat)]
        /\ adding' = [adding EXCEPT ![p] = rest] /\ Len(rest) <= 2 /\ Len(rest) # 2
    BY <1>1, <1>3, LenProperties DEF M!TypeOK
  <2>2. QED
    BY <1>1, <2>1, AddingReplaced
<1>7. CountersInv'
  <2>1. /\ Owed(p) \in Nat /\ Owed(p)' \in Nat
        /\ call[1] = "failure" => Owed(p) = call[2] /\ Owed(p)' = 0
        /\ call[1] = "total" => Owed(p) = 0 /\ Owed(p)' <= call[2]
    BY <1>1, <1>2, OwedAfterCall
  <2>2. PICK n \in Nat : n = Owed(p)'
    BY <2>1
  <2>3. IsFiniteSet(OwedFailures)
    BY DEF MonitorInv, CountersInv
  <2>4. /\ IsFiniteSet(OwedFailures') /\ Cardinality(OwedFailures') \in Nat
        /\ Cardinality(OwedFailures) \in Nat
        /\ Cardinality(OwedFailures') + Owed(p) = Cardinality(OwedFailures) + n
    BY <1>6, <2>1, <2>2, <2>3, OwedChanged
  <2> SUFFICES ASSUME ~missed'
               PROVE  counts'.failure + Cardinality(OwedFailures') <= counts'.total
    BY <2>4 DEF CountersInv
  <2>5. ~missed /\ counts' = [counts EXCEPT ![call[1]] = @ + call[2]]
    BY <1>4
  <2>6. counts.failure + Cardinality(OwedFailures) <= counts.total
    BY <2>5 DEF MonitorInv, CountersInv
  <2>7. counts.failure \in Nat /\ counts.total \in Nat /\ counts \in [total : Nat, failure : Nat]
    BY <1>1 DEF M!TypeOK
  <2>8. CASE call[1] = "failure"
    <3>1. counts'.failure = counts.failure + call[2] /\ counts'.total = counts.total
      BY <2>5, <2>7, <2>8
    <3>2. Cardinality(OwedFailures') + call[2] = Cardinality(OwedFailures)
      BY <1>3, <2>1, <2>2, <2>4, <2>8
    <3>3. call[2] \in Nat
      BY <1>3
    <3>4. QED
      BY <2>4, <2>6, <2>7, <3>1, <3>2, <3>3, SMTT(20)
  <2>9. CASE call[1] = "total"
    <3>1. counts'.total = counts.total + call[2] /\ counts'.failure = counts.failure
      BY <2>5, <2>7, <2>9
    <3>2. /\ Cardinality(OwedFailures') = Cardinality(OwedFailures) + n
          /\ n <= call[2]
      BY <2>1, <2>2, <2>4, <2>9
    <3>3. call[2] \in Nat
      BY <1>3
    <3>4. QED
      BY <2>2, <2>4, <2>6, <2>7, <3>1, <3>2, <3>3, SMTT(20)
  <2>10. QED
    BY <1>3, <2>8, <2>9
<1>8. ProbeInv'
  BY DEF MonitorInv, ProbeInv, M!Increment
<1>9. QED
  BY <1>5, <1>6, <1>7, <1>8 DEF MonitorInv

\* The steps of the probe touch the probe alone.
LEMMA StepKeeps ==
  ASSUME MonitorInv, NEW from, NEW new, M!Step(from, new), steady' \subseteq Processes,
         new \in [pc : {"idle", "scan", "read", "done", "raised"}, ok : BOOLEAN,
                   keys : SUBSET Processes, workers : SUBSET Processes]
  PROVE  M!TypeOK' /\ CallsInv' /\ CountersInv'
<1>1. M!TypeOK'
  BY DEF MonitorInv, M!TypeOK, M!Step
<1>2. CallsInv' /\ CountersInv'
  BY CountersAlone DEF MonitorInv, M!Step
<1>3. QED
  BY <1>1, <1>2

LEMMA ProbeKeeps ==
  ASSUME M!Assumption, MonitorInv, M!Ping \/ M!Scan \/ M!Read \/ M!Forget
  PROVE  MonitorInv'
<1>1. CASE M!Ping
  <2> DEFINE new == [M!NoProbe EXCEPT !.ok = redis, !.pc = IF redis THEN "scan" ELSE "done"]
  <2>1. /\ new.pc = (IF redis THEN "scan" ELSE "done") /\ new.ok = redis
        /\ new \in [pc : {"idle", "scan", "read", "done", "raised"}, ok : BOOLEAN,
                     keys : SUBSET Processes, workers : SUBSET Processes]
    BY DEF M!NoProbe, MonitorInv, M!TypeOK
  <2>2. steady' = {p \in beats : process[p] = "alive"} /\ M!Step("idle", new)
    BY <1>1 DEF M!Ping
  <2> HIDE DEF new
  <2>3. M!TypeOK' /\ CallsInv' /\ CountersInv'
    BY <2>1, <2>2, StepKeeps DEF MonitorInv, M!TypeOK
  <2>4. ProbeInv'
    BY <2>1, <2>2 DEF ProbeInv, M!Step
  <2>5. QED
    BY <2>3, <2>4 DEF MonitorInv
<1>2. CASE M!Scan
  <2>1. PICK new : new = IF redis THEN [probe EXCEPT !.keys = beats,
                                                      !.pc = IF beats = {} THEN "done" ELSE "read"]
                           ELSE [probe EXCEPT !.pc = "raised"]
    OBVIOUS
  <2>2. /\ new \in [pc : {"idle", "scan", "read", "done", "raised"}, ok : BOOLEAN,
                     keys : SUBSET Processes, workers : SUBSET Processes]
        /\ new.pc \in {"done", "read", "raised"}
        /\ new.pc = "read" => new.keys = beats
        /\ new.pc = "done" => beats = {}
    BY <2>1 DEF MonitorInv, M!TypeOK
  <2>3. UNCHANGED steady /\ M!Step("scan", new)
    BY <1>2, <2>1 DEF M!Scan
  <2>4. M!TypeOK' /\ CallsInv' /\ CountersInv'
    BY <2>2, <2>3, StepKeeps DEF MonitorInv, M!TypeOK
  <2>5. ProbeInv'
    BY <2>2, <2>3 DEF MonitorInv, ProbeInv, M!Step
  <2>6. QED
    BY <2>4, <2>5 DEF MonitorInv
<1>3. CASE M!Read
  <2>1. PICK new : new = IF redis THEN [probe EXCEPT !.workers = probe.keys \cap beats,
                                                      !.pc = "done"]
                           ELSE [probe EXCEPT !.pc = "raised"]
    OBVIOUS
  <2>2. /\ new \in [pc : {"idle", "scan", "read", "done", "raised"}, ok : BOOLEAN,
                     keys : SUBSET Processes, workers : SUBSET Processes]
        /\ new.pc \in {"done", "raised"}
        /\ new.pc = "done" => new.workers = probe.keys \cap beats
    BY <2>1 DEF MonitorInv, M!TypeOK
  <2>3. UNCHANGED steady /\ M!Step("read", new)
    BY <1>3, <2>1 DEF M!Read
  <2>4. M!TypeOK' /\ CallsInv' /\ CountersInv'
    BY <2>2, <2>3, StepKeeps DEF MonitorInv, M!TypeOK
  <2>5. ProbeInv'
    BY <2>2, <2>3 DEF MonitorInv, ProbeInv, M!Step
  <2>6. QED
    BY <2>4, <2>5 DEF MonitorInv
<1>4. CASE M!Forget
  <2>1. M!NoProbe \in [pc : {"idle", "scan", "read", "done", "raised"}, ok : BOOLEAN,
                     keys : SUBSET Processes, workers : SUBSET Processes]
    BY DEF M!NoProbe
  <2>2. steady' = {} /\ M!Step(probe.pc, M!NoProbe)
    BY <1>4 DEF M!Forget
  <2>3. M!TypeOK' /\ CallsInv' /\ CountersInv'
    BY <2>1, <2>2, StepKeeps
  <2>4. ProbeInv'
    BY <2>2 DEF ProbeInv, M!Step
  <2>5. QED
    BY <2>3, <2>4 DEF MonitorInv
<1>5. QED
  BY <1>1, <1>2, <1>3, <1>4

LEMMA MonitorNext ==
  ASSUME M!Assumption, MonitorInv, [M!Next]_(M!vars)
  PROVE  MonitorInv'
<1>1. CASE UNCHANGED M!vars
  <2>1. CallsInv' /\ CountersInv'
    BY <1>1, CountersAlone DEF MonitorInv, M!vars
  <2>2. M!TypeOK' /\ ProbeInv'
    BY <1>1 DEF MonitorInv, M!vars, M!TypeOK, ProbeInv
  <2>3. QED
    BY <2>1, <2>2 DEF MonitorInv
<1>2. ASSUME NEW p \in Processes,
             M!Beat(p) \/ M!Expire(p) \/ M!Dies(p) \/ M!Record(p) \/ M!Increment(p)
      PROVE  MonitorInv'
  BY <1>2, BeatKeeps, ExpireKeeps, DiesKeeps, RecordKeeps, IncrementKeeps
<1>3. CASE M!Interrupted \/ M!Ping \/ M!Scan \/ M!Read \/ M!Forget
  BY <1>3, InterruptedKeeps, ProbeKeeps
<1>4. QED
  BY <1>1, <1>2, <1>3 DEF M!Next

\* The monitoring keeps the types of its state and the invariant above.
THEOREM MonitoringInvariant ==
  ASSUME M!Assumption
  PROVE  M!Spec => []MonitorInv
<1>1. M!Init => MonitorInv
  BY MonitorInit
<1>2. MonitorInv /\ [M!Next]_(M!vars) => MonitorInv'
  BY MonitorNext
<1>3. QED
  BY <1>1, <1>2, PTL DEF M!Spec

\* However heartbeats, expiries, deaths and failing calls fall between the
\* calls of a probe, the probe reports every worker that was there all the
\* time (collect_monitoring_snapshot).
THEOREM SteadyWorkersAreCounted ==
  ASSUME M!Assumption
  PROVE  M!Spec => []SteadyWorkersCounted
<1>1. MonitorInv => SteadyWorkersCounted
  <2> SUFFICES ASSUME MonitorInv, probe.pc = "done", probe.ok
               PROVE  /\ steady \subseteq probe.workers
                      /\ Cardinality(steady) >= Expected => HealthStatus = "ok"
    BY DEF SteadyWorkersCounted
  <2>1. steady \subseteq probe.workers
    BY DEF MonitorInv, ProbeInv
  <2>2. ASSUME Cardinality(steady) >= Expected
        PROVE  HealthStatus = "ok"
    <3>1. IsFiniteSet(probe.workers)
      <4>1. probe.workers \in SUBSET Processes
        BY DEF MonitorInv, M!TypeOK
      <4>2. IsFiniteSet(Processes)
        BY DEF M!Assumption, M!IsFiniteSet, IsFiniteSet
      <4>3. QED
        BY <4>1, <4>2, FS_Subset
    <3>2. /\ Cardinality(steady) <= Cardinality(probe.workers)
          /\ Cardinality(steady) \in Nat /\ Cardinality(probe.workers) \in Nat
      BY <2>1, <3>1, FS_Subset, FS_CardinalityType
    <3>3. QED
      BY <2>2, <3>2 DEF HealthStatus, M!Assumption
  <2>3. QED
    BY <2>1, <2>2
<1>2. QED
  BY <1>1, MonitoringInvariant, PTL

\* Whatever the order in which the workers' calls arrive and whoever dies
\* between two of his, the failures counted never exceed the total unless a
\* call was lost (record_ai_batch_outcomes, _increment_hash_counter).
THEOREM FailuresWithinTotal ==
  ASSUME M!Assumption
  PROVE  M!Spec => []AiRatioAtMostOne
<1>1. MonitorInv => AiRatioAtMostOne
  <2> SUFFICES ASSUME MonitorInv, ~missed
               PROVE  counts.failure <= counts.total
    BY DEF AiRatioAtMostOne
  <2>1. counts.failure \in Nat /\ counts.total \in Nat
    BY DEF MonitorInv, M!TypeOK
  <2>2. Cardinality(OwedFailures) \in Nat
    BY FS_CardinalityType DEF MonitorInv, CountersInv
  <2>3. counts.failure + Cardinality(OwedFailures) <= counts.total
    BY DEF MonitorInv, CountersInv
  <2>4. QED
    BY <2>1, <2>2, <2>3
<1>2. QED
  BY <1>1, MonitoringInvariant, PTL

=============================================================================
