------------------------- MODULE ExecutionGateProofs -------------------------
(***************************************************************************)
(* Proofs about ExecutionGate for any number of tasks and calls, any limit *)
(* and any bound on faults and deaths.                                     *)
(***************************************************************************)
EXTENDS ExecutionGate, FiniteSetTheorems, FunctionTheorems, TLAPS

(* Redis and the slots of the calls. *)

LEMMA MembersFinite == IsFiniteSet(Members) /\ Cardinality(Members) \in Nat
<1>1. Members \in SUBSET Owners
  BY DEF Members
<1>2. QED
  BY <1>1, GateAssumption, FS_Subset, FS_CardinalityType

LEMMA NewCallType == NewCall \in Calls
BY GateAssumption DEF NewCall, Calls

LEMMA PastType ==
  ASSUME NEW pc \in {"held", "done"}
  PROVE  Past(pc) \in Calls /\ Past(pc).pc = pc /\ ~Past(pc).dirty
BY NewCallType DEF Past, NewCall, Calls

LEMMA AgainType ==
  ASSUME TypeOK, NEW c \in Callers, NEW pc \in {"look", "full"}
  PROVE  Again(c, pc) \in Calls /\ Again(c, pc).pc = pc
BY NewCallType DEF Again, NewCall, Calls, TypeOK

LEMMA RemoveType ==
  ASSUME TypeOK, NEW gone, Remove(gone)
  PROVE  /\ expiry' \in [Owners -> Scores]
         /\ Members' = Members \ gone
BY GateAssumption DEF TypeOK, Remove, Scores, Members

\* One caller moves, and the others are at most marked.
LEMMA MovesEffect ==
  ASSUME TypeOK, NEW c \in Callers, NEW next \in Calls, NEW changed,
         Moves(c, next, changed)
  PROVE  /\ call' \in [Callers -> Calls]
         /\ call'[c].pc = next.pc
         /\ call'[c].owners = next.owners
         /\ \A d \in Callers : d # c => /\ call'[d].pc = call[d].pc
                                        /\ call'[d].owners = call[d].owners
                                        /\ call'[d].dirty \/ ~call[d].dirty
         /\ changed # {} =>
              \A d \in Callers : call'[d].pc \in Watching => call'[d].dirty
         /\ changed = {} => call' = [call EXCEPT ![c] = next]
<1> DEFINE moved == [call EXCEPT ![c] = next]
<1>1. moved \in [Callers -> Calls]
  BY DEF TypeOK
<1>2. \A d \in Callers : call'[d] = IF changed # {} /\ moved[d].pc \in Watching
                                      THEN [moved[d] EXCEPT !.dirty = TRUE] ELSE moved[d]
  BY DEF Moves
<1>3. call' \in [Callers -> Calls]
  <2>1. \A d \in Callers : call'[d] \in Calls
    <3> HIDE DEF moved
    <3>1. \A x \in Calls : [x EXCEPT !.dirty = TRUE] \in Calls
      BY DEF Calls
    <3>2. QED
      BY <1>1, <1>2, <3>1
  <2>2. QED
    BY <2>1 DEF Moves
<1>4. \A d \in Callers : /\ call'[d].pc = moved[d].pc
                         /\ call'[d].owners = moved[d].owners
                         /\ call'[d].dirty \/ ~moved[d].dirty
                         /\ changed # {} /\ moved[d].pc \in Watching => call'[d].dirty
  <2> HIDE DEF moved
  <2>1. QED
    BY <1>1, <1>2 DEF Calls
<1>5. changed = {} => call' = moved
  <2> HIDE DEF moved
  <2>1. QED
    BY <1>1, <1>2, <1>3
<1>6. QED
  BY <1>3, <1>4, <1>5 DEF TypeOK

LEMMA EnteredType ==
  ASSUME TypeOK, NEW c \in Callers, expiry' = Entered(c)
  PROVE  /\ expiry' \in [Owners -> Scores]
         /\ Members' = Members \cup {TaskOf[c]}
<1>1. /\ call[c].stamp + Lease \in Scores
      /\ call[c].stamp + Lease # 0 /\ TaskOf[c] \in Owners
  BY GateAssumption DEF TypeOK, Calls, Scores
<1>2. QED
  BY <1>1 DEF Entered, TypeOK, Members

-----------------------------------------------------------------------------
(* Type correctness. *)

LEMMA CallMoves ==
  ASSUME TypeOK, NEW c \in Callers, NEW slot \in Calls,
         call' = [call EXCEPT ![c] = slot]
  PROVE  call' \in [Callers -> Calls]
BY DEF TypeOK

LEMMA FaultType ==
  ASSUME TypeOK, RedisError PROVE faults' \in 0..MaxFault
BY GateAssumption DEF TypeOK, RedisError

LEMMA StepToType ==
  ASSUME TypeOK, NEW c \in Callers, NEW pc, StepTo(c, pc),
         pc \in {"look", "watch", "running", "leaving"}
  PROVE  call' \in [Callers -> Calls]
BY DEF TypeOK, StepTo, Calls

LEMMA PastMoveType ==
  ASSUME TypeOK, NEW c \in Callers, NEW pc \in {"held", "done"},
         call' = [call EXCEPT ![c] = Past(pc)]
  PROVE  call' \in [Callers -> Calls]
BY PastType DEF TypeOK

LEMMA CallType ==
  ASSUME TypeOK, NEW c \in Callers, Call(c) PROVE TypeOK'
<1>1. CASE Limit = 0
  BY <1>1, PastMoveType DEF Call, TypeOK
<1>2. CASE Limit # 0
  <2>1. now + Wait \in 0..Horizon
    BY GateAssumption DEF Call, TypeOK
  <2>2. call' \in [Callers -> Calls]
    BY <1>2, <2>1 DEF Call, TypeOK, Calls
  <2>3. QED
    BY <2>2 DEF Call, TypeOK
<1>3. QED
  BY <1>1, <1>2

LEMMA LookType ==
  ASSUME TypeOK, NEW c \in Callers, Look(c) PROVE TypeOK'
<1>1. Members \in SUBSET Owners
  BY DEF Members
<1>2. call' \in [Callers -> Calls]
  <2>1. CASE StepTo(c, "watch")
    BY <2>1, StepToType
  <2>2. CASE call' = [call EXCEPT ![c].owners = Members,
                        ![c].pc = IF Members = {} THEN "watch" ELSE "judge"]
    <3> DEFINE slot == [call[c] EXCEPT !.owners = Members,
                          !.pc = IF Members = {} THEN "watch" ELSE "judge"]
    <3>1. slot \in Calls
      BY <1>1 DEF TypeOK, Calls
    <3>2. call' = [call EXCEPT ![c] = slot]
      BY <2>2 DEF TypeOK
    <3>3. QED
      BY <3>1, <3>2, CallMoves
  <2>3. QED
    BY <2>1, <2>2 DEF Look
<1>3. faults' \in 0..MaxFault
  BY FaultType DEF Look, TypeOK
<1>4. QED
  BY <1>2, <1>3 DEF Look, TypeOK

LEMMA JudgeType ==
  ASSUME TypeOK, NEW c \in Callers, Judge(c) PROVE TypeOK'
<1>1. PICK failed \in SUBSET {o \in call[c].owners :
                                status[o] = "active" /\ Abandoned(o)} :
        /\ status' = [o \in Owners |->
                        IF o \in failed THEN "settled" ELSE status[o]]
        /\ call' = [call EXCEPT
              ![c].owners = {o \in call[c].owners : status[o] # "active"} \cup failed,
              ![c].pc = IF {o \in call[c].owners : status[o] # "active"} \cup failed = {}
                          THEN "watch" ELSE "sweep"]
  BY DEF Judge
<1> DEFINE stale == {o \in call[c].owners : status[o] # "active"} \cup failed
<1>2. stale \in SUBSET Owners
  BY DEF TypeOK, Calls
<1>3. call' = [call EXCEPT ![c].owners = stale,
                 ![c].pc = IF stale = {} THEN "watch" ELSE "sweep"]
  BY <1>1
<1>4. call' \in [Callers -> Calls]
  <2> HIDE DEF stale
  <2> DEFINE slot == [call[c] EXCEPT !.owners = stale,
                        !.pc = IF stale = {} THEN "watch" ELSE "sweep"]
  <2>1. slot \in Calls
    BY <1>2 DEF TypeOK, Calls
  <2>2. call' = [call EXCEPT ![c] = slot]
    BY <1>3 DEF TypeOK
  <2>3. QED
    BY <2>1, <2>2, CallMoves
<1>5. QED
  BY <1>1, <1>4 DEF Judge, TypeOK

\* What Sweep does, besides the fault it may count.
LEMMA SweepEffect ==
  ASSUME TypeOK, NEW c \in Callers, NEW o \in Owners, Sweep(c, o)
  PROVE  \E next \in Calls :
           /\ next.owners = call[c].owners \ {o}
           /\ next.pc \in {"watch", "sweep"}
           /\ \/ Remove({o}) /\ Moves(c, next, {o} \cap Members)
              \/ UNCHANGED expiry /\ Moves(c, next, {})
<1> DEFINE rest == call[c].owners \ {o}
           next == [call[c] EXCEPT !.owners = rest,
                      !.pc = IF rest = {} THEN "watch" ELSE "sweep"]
<1>1. /\ next \in Calls /\ next.owners = rest
      /\ next.pc \in {"watch", "sweep"}
  BY DEF TypeOK, Calls
<1>2. \/ Remove({o}) /\ Moves(c, next, {o} \cap Members)
      \/ UNCHANGED expiry /\ Moves(c, next, {})
  BY DEF Sweep
<1>3. QED
  BY <1>1, <1>2

LEMMA SweepType ==
  ASSUME TypeOK, NEW c \in Callers, NEW o \in Owners, Sweep(c, o) PROVE TypeOK'
<1>1. PICK next \in Calls :
        \/ Remove({o}) /\ Moves(c, next, {o} \cap Members)
        \/ UNCHANGED expiry /\ Moves(c, next, {})
  BY SweepEffect
<1>2. call' \in [Callers -> Calls] /\ expiry' \in [Owners -> Scores]
  BY <1>1, MovesEffect, RemoveType DEF TypeOK
<1>3. faults' \in 0..MaxFault
  BY FaultType DEF Sweep, TypeOK
<1>4. QED
  BY <1>2, <1>3 DEF Sweep, TypeOK

LEMMA WatchType ==
  ASSUME TypeOK, NEW c \in Callers, Watch(c) PROVE TypeOK'
<1> DEFINE slot == [call[c] EXCEPT !.pc = "evict", !.stamp = now]
<1>0. slot \in Calls /\ call' = [call EXCEPT ![c] = slot]
  BY DEF Watch, TypeOK, Calls
<1>1. call' \in [Callers -> Calls]
  BY <1>0, CallMoves
<1>2. QED
  BY <1>1 DEF Watch, TypeOK

LEMMA EvictEffect ==
  ASSUME TypeOK, NEW c \in Callers, Evict(c)
  PROVE  \E next \in Calls :
           /\ next.pc = "count" /\ next.owners = call[c].owners
           /\ Remove(Expired(call[c].stamp))
           /\ Moves(c, next, Expired(call[c].stamp))
<1> DEFINE next == [call[c] EXCEPT !.pc = "count"]
<1>1. next \in Calls /\ next.pc = "count" /\ next.owners = call[c].owners
  BY DEF TypeOK, Calls
<1>2. QED
  BY <1>1 DEF Evict

LEMMA EvictType ==
  ASSUME TypeOK, NEW c \in Callers, Evict(c) PROVE TypeOK'
<1>1. call' \in [Callers -> Calls] /\ expiry' \in [Owners -> Scores]
  BY EvictEffect, MovesEffect, RemoveType
<1>2. QED
  BY <1>1 DEF Evict, TypeOK

LEMMA CountType ==
  ASSUME TypeOK, NEW c \in Callers, Count(c) PROVE TypeOK'
<1>1. [call[c] EXCEPT !.pc = "exec"] \in Calls
  BY DEF TypeOK, Calls
<1>2. call' \in [Callers -> Calls]
  BY <1>1, AgainType DEF Count, TypeOK
<1>3. QED
  BY <1>2 DEF Count, TypeOK

LEMMA ExecType ==
  ASSUME TypeOK, NEW c \in Callers, Exec(c) PROVE TypeOK'
<1>1. CASE call[c].dirty
  BY <1>1, AgainType DEF Exec, TypeOK
<1>2. CASE ~call[c].dirty
  BY <1>2, PastType, EnteredType, MovesEffect DEF Exec, TypeOK
<1>3. QED
  BY <1>1, <1>2

LEMMA PassOnErrorType ==
  ASSUME TypeOK, NEW c \in Callers, PassOnError(c) PROVE TypeOK'
<1>1. call' \in [Callers -> Calls] /\ expiry' \in [Owners -> Scores]
  BY PastType, EnteredType, MovesEffect DEF PassOnError, TypeOK
<1>2. faults' \in 0..MaxFault
  BY FaultType DEF PassOnError
<1>3. QED
  BY <1>1, <1>2 DEF PassOnError, TypeOK

LEMMA ReleaseType ==
  ASSUME TypeOK, NEW c \in Callers, Release(c) PROVE TypeOK'
<1>1. call' \in [Callers -> Calls] /\ expiry' \in [Owners -> Scores]
  <2>1. CASE Moves(c, Past("done"), {}) /\ UNCHANGED expiry
    BY <2>1, PastType, MovesEffect DEF TypeOK
  <2>2. CASE Remove({TaskOf[c]}) /\ Moves(c, Past("done"), {TaskOf[c]} \cap Members)
    BY <2>2, PastType, MovesEffect, RemoveType
  <2>3. QED
    BY <2>1, <2>2 DEF Release
<1>2. faults' \in 0..MaxFault
  BY FaultType DEF Release, TypeOK
<1>3. QED
  BY <1>1, <1>2 DEF Release, TypeOK

LEMMA OtherTypes ==
  ASSUME TypeOK, NEW c \in Callers,
         \/ Retry(c) \/ Saturated(c) \/ Run(c) \/ Refuse(c) \/ End(c) \/ Dies(c)
  PROVE  TypeOK'
<1>1. CASE Retry(c) \/ Run(c) \/ Refuse(c)
  BY <1>1, StepToType DEF Retry, Run, Refuse, TypeOK
<1>2. CASE Saturated(c)
  BY <1>2, PastMoveType DEF Saturated, TypeOK
<1>3. CASE End(c)
  BY <1>3, StepToType DEF End, TypeOK
<1>4. CASE Dies(c)
  <2>1. deaths' \in 0..MaxDeath
    BY <1>4, GateAssumption DEF Dies, TypeOK
  <2>2. call' \in [Callers -> Calls]
    BY <1>4, PastMoveType DEF Dies
  <2>3. QED
    BY <1>4, <2>1, <2>2 DEF Dies, TypeOK
<1>5. QED
  BY <1>1, <1>2, <1>3, <1>4

LEMMA TypeStep == TypeOK /\ [Next]_vars => TypeOK'
<1> SUFFICES ASSUME TypeOK, [Next]_vars PROVE TypeOK'
  OBVIOUS
<1>1. ASSUME NEW c \in Callers, CallStep(c) PROVE TypeOK'
  BY <1>1, CallType, LookType, JudgeType, SweepType, WatchType, EvictType,
     CountType, ExecType, PassOnErrorType, ReleaseType, OtherTypes
     DEF CallStep, Acquire
<1>2. ASSUME NEW o \in Owners, Interrupt(o) PROVE TypeOK'
  BY <1>2 DEF Interrupt, TypeOK
<1>3. ASSUME Tick PROVE TypeOK'
  BY <1>3, GateAssumption DEF Tick, TypeOK
<1>4. ASSUME UNCHANGED vars PROVE TypeOK'
  BY <1>4 DEF vars, TypeOK
<1>5. QED
  BY <1>1, <1>2, <1>3, <1>4 DEF Next

\* The set, the rows and the calls keep their types.
THEOREM GateTypeCorrect == Spec => []TypeOK
<1>1. Init => TypeOK
  BY GateAssumption, NewCallType DEF Init, TypeOK, Scores
<1>2. QED
  BY <1>1, TypeStep, PTL DEF Spec

-----------------------------------------------------------------------------
(* The bound on the slots.  The bound alone is not inductive: EXEC adds a  *)
(* member on the strength of a count made earlier.  What carries the count *)
(* over is the watch, as long as the connection is not marked the set is   *)
(* the one that was counted.                                               *)

Granted(c) == call[c].pc = "exec" /\ ~call[c].dirty

CountStillHolds == \A c \in Callers : Granted(c) => HasRoom(c)

BoundInv == TypeOK /\ CountStillHolds /\ SlotBound

\* A step leaves the set alone, or marks everybody who watches it.
Steady == Members' = Members /\ \A d \in Callers : Granted(d)' => HasRoom(d)

Marked ==
  /\ \A d \in Callers : call'[d].pc \in Watching => call'[d].dirty
  /\ SlotBound'

LEMMA SteadyKeeps == ASSUME BoundInv, TypeOK', Steady PROVE BoundInv'
BY DEF BoundInv, Steady, CountStillHolds, HasRoom, SlotBound

LEMMA MarkedKeeps == ASSUME TypeOK', Marked PROVE BoundInv'
BY DEF BoundInv, Marked, CountStillHolds, Granted, Watching

\* One call moves to a slot that is not about to EXEC; the set stays.
LEMMA QuietMove ==
  ASSUME BoundInv, NEW c \in Callers, NEW slot, slot.pc # "exec",
         call' = [call EXCEPT ![c] = slot], UNCHANGED expiry
  PROVE  Steady
BY DEF BoundInv, TypeOK, CountStillHolds, Steady, Granted, Members

LEMMA QuietStepTo ==
  ASSUME BoundInv, NEW c \in Callers, NEW pc, pc # "exec", StepTo(c, pc),
         UNCHANGED expiry
  PROVE  Steady
<1> DEFINE slot == [call[c] EXCEPT !.pc = pc]
<1>1. slot.pc = pc /\ call' = [call EXCEPT ![c] = slot]
  BY DEF StepTo, BoundInv, TypeOK, Calls
<1>2. QED
  BY <1>1, QuietMove

LEMMA FewerMembers ==
  ASSUME SlotBound, Members' \subseteq Members PROVE SlotBound'
<1>1. Members \in SUBSET Owners /\ Members' \in SUBSET Members
  BY DEF Members
<1>2. Cardinality(Members') <= Cardinality(Members)
  BY <1>1, MembersFinite, FS_Subset
<1>3. IsFiniteSet(Members')
  BY <1>1, MembersFinite, FS_Subset
<1>4. Cardinality(Members') \in Nat
  BY <1>3, FS_CardinalityType
<1>5. QED
  BY <1>2, <1>4, MembersFinite, GateAssumption DEF SlotBound

\* The sweeps, the eviction and the release.
LEMMA RemovalKeepsBound ==
  ASSUME BoundInv, NEW c \in Callers, NEW next \in Calls, next.pc # "exec",
         NEW gone, Remove(gone), Moves(c, next, gone \cap Members)
  PROVE  Steady \/ Marked
<1>1. TypeOK
  BY DEF BoundInv
<1>2. Members' = Members \ gone
  BY <1>1, RemoveType
<1>3. CASE gone \cap Members = {}
  <2>1. Members' = Members
    BY <1>2, <1>3
  <2>2. call' = [call EXCEPT ![c] = next]
    BY <1>1, <1>3, MovesEffect
  <2>3. QED
    BY <2>1, <2>2 DEF Steady, Granted, BoundInv, TypeOK, CountStillHolds
<1>4. CASE gone \cap Members # {}
  <2>1. \A d \in Callers : call'[d].pc \in Watching => call'[d].dirty
    BY <1>1, <1>4, MovesEffect
  <2>2. SlotBound'
    BY <1>2, FewerMembers DEF BoundInv
  <2>3. QED
    BY <2>1, <2>2 DEF Marked
<1>5. QED
  BY <1>3, <1>4

\* The EXEC that is not refused.
LEMMA EntryKeepsBound ==
  ASSUME BoundInv, NEW c \in Callers, Granted(c), expiry' = Entered(c),
         Moves(c, Past("held"), {TaskOf[c]})
  PROVE  Marked
<1>1. TypeOK /\ HasRoom(c) /\ TaskOf[c] \in Owners
  BY GateAssumption DEF BoundInv, CountStillHolds
<1>2. \A d \in Callers : call'[d].pc \in Watching => call'[d].dirty
  BY <1>1, PastType, MovesEffect
<1>3. Members' = Members \cup {TaskOf[c]}
  BY <1>1, EnteredType
<1>4. Cardinality(Members') = IF TaskOf[c] \in Members THEN Cardinality(Members)
                              ELSE Cardinality(Members) + 1
  BY <1>3, MembersFinite, FS_AddElement
<1>5. SlotBound'
  BY <1>1, <1>4, MembersFinite, GateAssumption DEF BoundInv, SlotBound, HasRoom
<1>6. QED
  BY <1>2, <1>5 DEF Marked

LEMMA CallKeepsBound ==
  ASSUME BoundInv, NEW c \in Callers, CallStep(c) PROVE Steady \/ Marked
<1>0. TypeOK
  BY DEF BoundInv
<1>1. CASE Call(c)
  <2>1. CASE Limit = 0
    BY <1>1, <2>1, PastType, QuietMove DEF Call
  <2>2. CASE Limit # 0
    <3> DEFINE slot == [call[c] EXCEPT !.pc = "look", !.deadline = now + Wait]
    <3>1. slot.pc = "look" /\ call' = [call EXCEPT ![c] = slot]
      BY <1>0, <1>1, <2>2 DEF Call, TypeOK, Calls
    <3>2. QED
      BY <1>1, <3>1, QuietMove DEF Call
  <2>3. QED
    BY <2>1, <2>2
<1>2. CASE Look(c)
  <2>1. CASE StepTo(c, "watch")
    BY <1>2, <2>1, QuietStepTo DEF Look
  <2>2. CASE ~StepTo(c, "watch")
    <3> DEFINE slot == [call[c] EXCEPT !.owners = Members,
                          !.pc = IF Members = {} THEN "watch" ELSE "judge"]
    <3>1. slot.pc # "exec" /\ call' = [call EXCEPT ![c] = slot]
      BY <1>0, <1>2, <2>2 DEF Look, TypeOK, Calls
    <3>2. QED
      BY <1>2, <3>1, QuietMove DEF Look
  <2>3. QED
    BY <2>1, <2>2
<1>3. CASE Judge(c)
  <2>1. PICK stale : call' = [call EXCEPT ![c].owners = stale,
                                ![c].pc = IF stale = {} THEN "watch" ELSE "sweep"]
    BY <1>3 DEF Judge
  <2> DEFINE slot == [call[c] EXCEPT !.owners = stale,
                        !.pc = IF stale = {} THEN "watch" ELSE "sweep"]
  <2>2. slot.pc # "exec" /\ call' = [call EXCEPT ![c] = slot]
    BY <1>0, <2>1 DEF TypeOK, Calls
  <2>3. QED
    BY <1>3, <2>2, QuietMove DEF Judge
<1>4. ASSUME NEW o \in Owners, Sweep(c, o) PROVE Steady \/ Marked
  <2>1. PICK next \in Calls :
          /\ next.pc \in {"watch", "sweep"}
          /\ \/ Remove({o}) /\ Moves(c, next, {o} \cap Members)
             \/ UNCHANGED expiry /\ Moves(c, next, {})
    BY <1>0, <1>4, SweepEffect
  <2>2. CASE Remove({o}) /\ Moves(c, next, {o} \cap Members)
    BY <2>1, <2>2, RemovalKeepsBound
  <2>3. CASE UNCHANGED expiry /\ Moves(c, next, {})
    <3>1. call' = [call EXCEPT ![c] = next]
      BY <1>0, <2>3, MovesEffect
    <3>2. QED
      BY <2>1, <2>3, <3>1, QuietMove
  <2>4. QED
    BY <2>1, <2>2, <2>3
<1>5. CASE Watch(c)
  <2> DEFINE slot == [call[c] EXCEPT !.pc = "evict", !.stamp = now]
  <2>1. slot.pc = "evict" /\ call' = [call EXCEPT ![c] = slot]
    BY <1>0, <1>5 DEF Watch, TypeOK, Calls
  <2>2. QED
    BY <1>5, <2>1, QuietMove DEF Watch
<1>6. CASE Evict(c)
  <2>1. PICK next \in Calls : /\ next.pc = "count"
                              /\ Remove(Expired(call[c].stamp))
                              /\ Moves(c, next, Expired(call[c].stamp))
    BY <1>0, <1>6, EvictEffect
  <2>2. Expired(call[c].stamp) \cap Members = Expired(call[c].stamp)
    BY DEF Expired
  <2>3. QED
    BY <2>1, <2>2, RemovalKeepsBound
<1>7. CASE Count(c)
  <2>1. CASE HasRoom(c)
    <3>1. call' = [call EXCEPT ![c] = [call[c] EXCEPT !.pc = "exec"]]
      BY <1>7, <2>1 DEF Count
    <3>2. QED
      BY <1>0, <1>7, <2>1, <3>1
         DEF Count, Steady, Granted, BoundInv, TypeOK, CountStillHolds, Members
  <2>2. CASE ~HasRoom(c)
    BY <1>0, <1>7, <2>2, AgainType, QuietMove DEF Count
  <2>3. QED
    BY <2>1, <2>2
<1>8. CASE Exec(c)
  <2>1. CASE call[c].dirty
    BY <1>0, <1>8, <2>1, AgainType, QuietMove DEF Exec
  <2>2. CASE ~call[c].dirty
    BY <1>8, <2>2, EntryKeepsBound DEF Exec, Granted
  <2>3. QED
    BY <2>1, <2>2
<1>9. CASE PassOnError(c)
  <2>1. CASE Moves(c, Past("held"), {}) /\ UNCHANGED expiry
    <3>1. call' = [call EXCEPT ![c] = Past("held")]
      BY <1>0, <2>1, PastType, MovesEffect
    <3>2. QED
      BY <2>1, <3>1, PastType, QuietMove
  <2>2. CASE ~(Moves(c, Past("held"), {}) /\ UNCHANGED expiry)
    BY <1>9, <2>2, EntryKeepsBound DEF PassOnError, Granted
  <2>3. QED
    BY <2>1, <2>2
<1>10. CASE Retry(c) \/ Run(c) \/ Refuse(c) \/ End(c)
  BY <1>10, QuietStepTo DEF Retry, Run, Refuse, End
<1>11. CASE Saturated(c) \/ Dies(c)
  BY <1>11, PastType, QuietMove DEF Saturated, Dies
<1>12. CASE Release(c)
  <2>1. CASE Remove({TaskOf[c]}) /\ Moves(c, Past("done"), {TaskOf[c]} \cap Members)
    BY <2>1, PastType, RemovalKeepsBound
  <2>2. CASE Moves(c, Past("done"), {}) /\ UNCHANGED expiry
    <3>1. call' = [call EXCEPT ![c] = Past("done")]
      BY <1>0, <2>2, PastType, MovesEffect
    <3>2. QED
      BY <2>2, <3>1, PastType, QuietMove
  <2>3. QED
    BY <1>12, <2>1, <2>2 DEF Release
<1>13. QED
  BY <1>1, <1>2, <1>3, <1>4, <1>5, <1>6, <1>7, <1>8, <1>9, <1>10, <1>11, <1>12
     DEF CallStep, Acquire

\* However the workers' transactions, sweeps, evictions, releases, crashes
\* and Redis errors interleave, the set never outgrows the limit.
THEOREM SlotsBounded == Spec => []SlotBound
<1>1. Init => BoundInv
  <2> SUFFICES ASSUME Init PROVE BoundInv
    OBVIOUS
  <2>1. TypeOK
    BY GateAssumption, NewCallType DEF Init, TypeOK, Scores
  <2>2. Members = {}
    BY DEF Init, Members
  <2>3. QED
    BY <2>1, <2>2, FS_EmptySet, GateAssumption
       DEF Init, BoundInv, CountStillHolds, Granted, NewCall, SlotBound
<1>2. BoundInv /\ [Next]_vars => BoundInv'
  <2> SUFFICES ASSUME BoundInv, [Next]_vars PROVE BoundInv'
    OBVIOUS
  <2>1. TypeOK'
    BY TypeStep DEF BoundInv
  <2>2. Steady \/ Marked
    <3>1. ASSUME NEW c \in Callers, CallStep(c) PROVE Steady \/ Marked
      BY <3>1, CallKeepsBound
    <3>2. ASSUME UNCHANGED <<expiry, call>> PROVE Steady
      BY <3>2 DEF BoundInv, CountStillHolds, Steady, Granted, Members
    <3>3. QED
      BY <3>1, <3>2 DEF Next, Interrupt, Tick, vars
  <2>3. QED
    BY <2>1, <2>2, SteadyKeeps, MarkedKeeps
<1>3. BoundInv => SlotBound
  BY DEF BoundInv
<1>4. QED
  BY <1>1, <1>2, <1>3, PTL DEF Spec

-----------------------------------------------------------------------------
(* No slot is left behind.  As long as nothing has failed, each member has *)
(* a call that is going to release it.                                     *)

WillRelease(c) == call[c].pc \in {"held", "running", "leaving"}

SlotsOwned ==
  faults = 0 /\ deaths = 0 =>
    \A o \in Members : \E c \in Callers : TaskOf[c] = o /\ WillRelease(c)

\* A call that is not releasing moves on, and the set gains nothing.
LEMMA OwnedAfterMove ==
  ASSUME TypeOK, SlotsOwned, NEW c \in Callers,
         faults' = 0 => faults = 0, deaths' = 0 => deaths = 0,
         \A d \in Callers : d # c => call'[d].pc = call[d].pc,
         Members' \subseteq Members,
         WillRelease(c) => WillRelease(c)' \/ TaskOf[c] \notin Members'
  PROVE  SlotsOwned'
BY DEF SlotsOwned, WillRelease

LEMMA FaultsGrow ==
  ASSUME TypeOK, NEW c \in Callers, CallStep(c)
  PROVE  (faults' = 0 => faults = 0) /\ (deaths' = 0 => deaths = 0)
<1>1. RedisError => faults' # 0
  BY GateAssumption DEF RedisError, TypeOK
<1>2. deaths' = deaths \/ Dies(c)
  BY DEF CallStep, Acquire, Call, Look, Judge, Sweep, Watch, Evict, Count, Exec,
     Retry, Saturated, PassOnError, Run, Refuse, End, Release
<1>3. faults' = faults \/ RedisError
  BY DEF CallStep, Acquire, Call, Look, Judge, Sweep, Watch, Evict, Count, Exec,
     Retry, Saturated, PassOnError, Run, Refuse, End, Release, Dies
<1>4. Dies(c) => deaths' # 0
  BY GateAssumption DEF Dies, TypeOK
<1>5. QED
  BY <1>1, <1>2, <1>3, <1>4

LEMMA CallKeepsOwned ==
  ASSUME TypeOK, SlotBound, SlotsOwned, NEW c \in Callers, CallStep(c)
  PROVE  SlotsOwned'
<1>0. (faults' = 0 => faults = 0) /\ (deaths' = 0 => deaths = 0)
  BY FaultsGrow
<1>1. CASE Exec(c) /\ ~call[c].dirty
  <2>1. Members' = Members \cup {TaskOf[c]}
    BY <1>1, EnteredType DEF Exec
  <2>2. /\ call'[c].pc = "held"
        /\ \A d \in Callers : d # c => call'[d].pc = call[d].pc
    BY <1>1, PastType, MovesEffect DEF Exec
  <2>3. call[c].pc = "exec"
    BY <1>1 DEF Exec
  <2>4. QED
    BY <1>0, <2>1, <2>2, <2>3 DEF SlotsOwned, WillRelease
<1>2. CASE PassOnError(c)
  <2>1. faults' # 0
    BY <1>2, GateAssumption DEF PassOnError, RedisError, TypeOK
  <2>2. QED
    BY <2>1 DEF SlotsOwned
<1>3. CASE Release(c)
  <2>1. CASE Remove({TaskOf[c]}) /\ Moves(c, Past("done"), {TaskOf[c]} \cap Members)
    <3>1. Members' = Members \ {TaskOf[c]}
      BY <2>1, RemoveType
    <3>2. \A d \in Callers : d # c => call'[d].pc = call[d].pc
      BY <2>1, PastType, MovesEffect
    <3>3. QED
      BY <1>0, <3>1, <3>2, OwnedAfterMove
  <2>2. CASE RedisError
    <3>1. faults' # 0
      BY <2>2, GateAssumption DEF RedisError, TypeOK
    <3>2. QED
      BY <3>1 DEF SlotsOwned
  <2>3. CASE Limit = 0 /\ UNCHANGED expiry
    <3>1. Members = {}
      BY <2>3, MembersFinite, FS_EmptySet DEF SlotBound
    <3>2. Members' = {}
      BY <2>3, <3>1 DEF Members
    <3>3. QED
      BY <3>2 DEF SlotsOwned
  <2>4. QED
    BY <1>3, <2>1, <2>2, <2>3 DEF Release
<1>4. CASE Dies(c)
  <2>1. deaths' # 0
    BY <1>4 DEF Dies, TypeOK
  <2>2. QED
    BY <2>1 DEF SlotsOwned
<1>5. ASSUME NEW o \in Owners, Sweep(c, o) PROVE SlotsOwned'
  <2>1. PICK next \in Calls :
          \/ Remove({o}) /\ Moves(c, next, {o} \cap Members)
          \/ UNCHANGED expiry /\ Moves(c, next, {})
    BY <1>5, SweepEffect
  <2>2. \A d \in Callers : d # c => call'[d].pc = call[d].pc
    BY <2>1, MovesEffect
  <2>3. Members' \subseteq Members
    BY <2>1, RemoveType DEF Members
  <2>4. ~WillRelease(c)
    BY <1>5 DEF Sweep, WillRelease
  <2>5. QED
    BY <1>0, <2>2, <2>3, <2>4, OwnedAfterMove
<1>6. CASE Evict(c)
  <2>1. PICK next \in Calls : /\ Remove(Expired(call[c].stamp))
                              /\ Moves(c, next, Expired(call[c].stamp))
    BY <1>6, EvictEffect
  <2>2. \A d \in Callers : d # c => call'[d].pc = call[d].pc
    BY <2>1, MovesEffect
  <2>3. Members' \subseteq Members
    BY <2>1, RemoveType
  <2>4. ~WillRelease(c)
    BY <1>6 DEF Evict, WillRelease
  <2>5. QED
    BY <1>0, <2>2, <2>3, <2>4, OwnedAfterMove
<1>7. CASE \/ Call(c) \/ Look(c) \/ Judge(c) \/ Watch(c) \/ Count(c)
           \/ (Exec(c) /\ call[c].dirty) \/ Retry(c) \/ Saturated(c)
  <2>1. Members' = Members
    BY <1>7 DEF Call, Look, Judge, Watch, Count, Exec, Retry, Saturated, Members
  <2>2. \A d \in Callers : d # c => call'[d].pc = call[d].pc
    BY <1>7 DEF Call, Look, Judge, Watch, Count, Exec, Retry, Saturated, StepTo, TypeOK
  <2>3. ~WillRelease(c)
    BY <1>7 DEF Call, Look, Judge, Watch, Count, Exec, Retry, Saturated, WillRelease
  <2>4. QED
    BY <1>0, <2>1, <2>2, <2>3, OwnedAfterMove
<1>8. CASE Run(c) \/ Refuse(c) \/ End(c)
  <2>1. Members' = Members /\ \A d \in Callers : d # c => call'[d].pc = call[d].pc
    BY <1>8 DEF Run, Refuse, End, StepTo, Members, TypeOK
  <2>2. call'[c].pc \in {"running", "leaving"}
    BY <1>8 DEF Run, Refuse, End, StepTo, TypeOK, Calls
  <2>3. QED
    BY <1>0, <2>1, <2>2, OwnedAfterMove DEF WillRelease
<1>9. QED
  BY <1>1, <1>2, <1>3, <1>4, <1>5, <1>6, <1>7, <1>8 DEF CallStep, Acquire

\* Once every call is over the set is empty, if Redis never failed and no
\* worker was killed.
THEOREM NoSlotLeaks == Spec => []NoLeakedSlot
<1>1. Init => SlotsOwned
  BY DEF Init, SlotsOwned, Members
<1>2. TypeOK /\ SlotBound /\ SlotsOwned /\ [Next]_vars => SlotsOwned'
  <2> SUFFICES ASSUME TypeOK, SlotBound, SlotsOwned, [Next]_vars PROVE SlotsOwned'
    OBVIOUS
  <2>1. ASSUME NEW c \in Callers, CallStep(c) PROVE SlotsOwned'
    BY <2>1, CallKeepsOwned
  <2>2. ASSUME UNCHANGED <<expiry, call, faults, deaths>> PROVE SlotsOwned'
    BY <2>2 DEF SlotsOwned, WillRelease, Members
  <2>3. QED
    BY <2>1, <2>2 DEF Next, Interrupt, Tick, vars
<1>3. SlotsOwned => NoLeakedSlot
  BY DEF SlotsOwned, NoLeakedSlot, Over, WillRelease, Members
<1>4. QED
  BY <1>1, <1>2, <1>3, GateTypeCorrect, SlotsBounded, PTL DEF Spec

-----------------------------------------------------------------------------
(***************************************************************************)
(* When the gate keeps its promise: as long as nobody pauses, cancels,     *)
(* deletes or resumes a task, each task is dispatched once, Redis answers  *)
(* and no call outlives its lease, ExecutionGate implements SlotPool,      *)
(* workers killed at any point included.                                   *)
(***************************************************************************)

Calm ==
  /\ Limit # 0 /\ MaxFault = 0 /\ ~Interrupts /\ Lease > Horizon
  /\ \A c, d \in Callers : TaskOf[c] = TaskOf[d] => c = d

(* The inductive invariant: a call that holds a slot is in the set; its    *)
(* task is active until it leaves; what is to be swept out is not active;  *)
(* no lease ends; and no call has yet to begin whose task has been seen.   *)

HoldersAreMembers ==
  \A c \in Callers : call[c].pc \in {"held", "running"} => TaskOf[c] \in Members

ActiveUntilLeaving ==
  \A c \in Callers :
    call[c].pc \notin {"leaving", "done"} => status[TaskOf[c]] = "active"

SweptIsOver ==
  \A c \in Callers : call[c].pc = "sweep" =>
    \A o \in call[c].owners : status[o] # "active"

NoLeaseEnds == \A o \in Members : expiry[o] > Horizon

SeenHasBegun ==
  \A d \in Callers : call[d].pc = "idle" =>
    /\ TaskOf[d] \notin Members
    /\ \A c \in Callers : TaskOf[d] \notin call[c].owners

CalmInv ==
  /\ TypeOK
  /\ HoldersAreMembers /\ ActiveUntilLeaving /\ SweptIsOver
  /\ NoLeaseEnds /\ SeenHasBegun

LEMMA CalmInit == ASSUME Calm, Init PROVE CalmInv
<1>1. TypeOK
  BY GateAssumption, NewCallType DEF Init, TypeOK, Scores
<1>2. QED
  BY <1>1, GateAssumption
     DEF Init, CalmInv, HoldersAreMembers, ActiveUntilLeaving, SweptIsOver,
         NoLeaseEnds, SeenHasBegun, NewCall, Members

\* A call moves to a slot, the set and the rows stay.
LEMMA CalmMove ==
  ASSUME CalmInv, TypeOK', NEW c \in Callers, NEW slot,
         call' = [call EXCEPT ![c] = slot], UNCHANGED <<expiry, status>>,
         slot.pc # "idle", slot.pc # "sweep",
         slot.pc \in {"held", "running"} => TaskOf[c] \in Members,
         slot.pc \notin {"leaving", "done"} => call[c].pc \notin {"leaving", "done"},
         slot.owners \subseteq call[c].owners \cup Members
  PROVE  CalmInv'
<1>1. /\ call'[c] = slot
      /\ \A d \in Callers : d # c => call'[d] = call[d]
      /\ Members' = Members
  BY DEF CalmInv, TypeOK, Members
<1>2. HoldersAreMembers'
  BY <1>1 DEF CalmInv, HoldersAreMembers
<1>3. ActiveUntilLeaving' /\ SweptIsOver'
  BY <1>1 DEF CalmInv, ActiveUntilLeaving, SweptIsOver
<1>4. NoLeaseEnds' /\ SeenHasBegun'
  BY <1>1 DEF CalmInv, NoLeaseEnds, SeenHasBegun
<1>5. QED
  BY <1>2, <1>3, <1>4 DEF CalmInv

LEMMA CalmStepTo ==
  ASSUME CalmInv, TypeOK', NEW c \in Callers, NEW pc, StepTo(c, pc),
         UNCHANGED <<expiry, status>>,
         pc \in {"look", "watch", "running", "leaving"},
         pc = "running" => TaskOf[c] \in Members,
         pc # "leaving" => call[c].pc \notin {"leaving", "done"}
  PROVE  CalmInv'
<1> DEFINE slot == [call[c] EXCEPT !.pc = pc]
<1>1. /\ slot.pc = pc /\ slot.owners = call[c].owners
      /\ call' = [call EXCEPT ![c] = slot]
  BY DEF StepTo, CalmInv, TypeOK, Calls
<1> HIDE DEF slot
<1>2. QED
  BY <1>1, CalmMove

LEMMA PastOwners == Past("held").owners = {} /\ Past("done").owners = {}
BY DEF Past, NewCall

LEMMA AgainOwners ==
  ASSUME NEW c, NEW pc PROVE Again(c, pc).owners = {}
BY DEF Again, NewCall

\* A call ends, and with it perhaps the status of its task.
LEMMA CalmEnds ==
  ASSUME Calm, CalmInv, TypeOK', NEW c \in Callers, NEW slot,
         call' = [call EXCEPT ![c] = slot], UNCHANGED expiry,
         slot.pc \in {"leaving", "done"}, slot.owners \subseteq call[c].owners,
         status' = [status EXCEPT ![TaskOf[c]] = "settled"] \/ UNCHANGED status
  PROVE  CalmInv'
<1>1. /\ call'[c] = slot
      /\ \A d \in Callers : d # c => call'[d] = call[d] /\ TaskOf[d] # TaskOf[c]
      /\ Members' = Members /\ TaskOf \in [Callers -> Owners]
  BY GateAssumption DEF CalmInv, TypeOK, Members, Calm
<1>2. \A o \in Owners : /\ status'[o] = "active" => status[o] = "active"
                        /\ o # TaskOf[c] => status'[o] = status[o]
  BY DEF CalmInv, TypeOK
<1>3. HoldersAreMembers'
  BY <1>1 DEF CalmInv, HoldersAreMembers
<1>4. ActiveUntilLeaving'
  BY <1>1, <1>2 DEF CalmInv, ActiveUntilLeaving
<1>5. SweptIsOver'
  BY <1>1, <1>2 DEF CalmInv, SweptIsOver, TypeOK, Calls
<1>6. NoLeaseEnds' /\ SeenHasBegun'
  BY <1>1 DEF CalmInv, NoLeaseEnds, SeenHasBegun
<1>7. QED
  BY <1>3, <1>4, <1>5, <1>6 DEF CalmInv

\* Owners leave the set whose calls hold no slot.
LEMMA CalmRemoval ==
  ASSUME CalmInv, TypeOK', NEW c \in Callers, NEW next \in Calls,
         NEW gone, Remove(gone), Moves(c, next, gone \cap Members),
         UNCHANGED status,
         \A d \in Callers : call'[d].pc \in {"held", "running"} => TaskOf[d] \notin gone,
         next.pc \in {"watch", "sweep", "count", "done"},
         next.pc # "done" => call[c].pc \notin {"leaving", "done"},
         next.pc = "sweep" => call[c].pc = "sweep",
         next.owners \subseteq call[c].owners
  PROVE  CalmInv'
<1>0. TypeOK
  BY DEF CalmInv
<1>1. Members' = Members \ gone /\ \A o \in Members' : expiry'[o] = expiry[o]
  BY <1>0, RemoveType DEF Remove, Members
<1>2. /\ call'[c].pc = next.pc /\ call'[c].owners = next.owners
      /\ \A d \in Callers : d # c => /\ call'[d].pc = call[d].pc
                                     /\ call'[d].owners = call[d].owners
  BY <1>0, MovesEffect
<1>3. HoldersAreMembers'
  BY <1>1, <1>2 DEF CalmInv, HoldersAreMembers
<1>4. ActiveUntilLeaving'
  BY <1>2 DEF CalmInv, ActiveUntilLeaving
<1>5. SweptIsOver'
  BY <1>2 DEF CalmInv, SweptIsOver
<1>6. NoLeaseEnds' /\ SeenHasBegun'
  BY <1>1, <1>2 DEF CalmInv, NoLeaseEnds, SeenHasBegun
<1>7. QED
  BY <1>3, <1>4, <1>5, <1>6 DEF CalmInv

-----------------------------------------------------------------------------
(* The steps of a call. *)

LEMMA CalmJudge ==
  ASSUME Calm, CalmInv, TypeOK', NEW c \in Callers, Judge(c) PROVE CalmInv'
<1>1. PICK failed \in SUBSET {o \in call[c].owners :
                                status[o] = "active" /\ Abandoned(o)} :
        /\ status' = [o \in Owners |->
                        IF o \in failed THEN "settled" ELSE status[o]]
        /\ call' = [call EXCEPT
              ![c].owners = {o \in call[c].owners : status[o] # "active"} \cup failed,
              ![c].pc = IF {o \in call[c].owners : status[o] # "active"} \cup failed = {}
                          THEN "watch" ELSE "sweep"]
  BY DEF Judge
<1> DEFINE stale == {o \in call[c].owners : status[o] # "active"} \cup failed
<1>2. /\ stale \subseteq call[c].owners /\ call[c].owners \subseteq Owners
      /\ \A o \in stale : status'[o] # "active"
  BY <1>1 DEF CalmInv, TypeOK, Calls
<1>3. /\ call'[c].owners = stale /\ call'[c].pc \in {"watch", "sweep"}
      /\ \A d \in Callers : d # c => call'[d] = call[d]
  <2>1. call' = [call EXCEPT ![c].owners = stale,
                   ![c].pc = IF stale = {} THEN "watch" ELSE "sweep"]
    BY <1>1
  <2> HIDE DEF stale
  <2>2. QED
    BY <2>1 DEF CalmInv, TypeOK, Calls
<1>4. \A d \in Callers : TaskOf[d] \in failed => call[d].pc = "done"
  BY <1>1 DEF Abandoned, CalmInv, SeenHasBegun
<1>5. \A o \in Owners : status'[o] = "active" => status[o] = "active"
  BY <1>1
<1>6. Members' = Members /\ UNCHANGED expiry /\ call[c].pc = "judge"
  BY DEF Judge, Members
<1> HIDE DEF stale
<1>7. HoldersAreMembers'
  BY <1>3, <1>6 DEF CalmInv, HoldersAreMembers
<1>8. ActiveUntilLeaving'
  <2>1. \A d \in Callers : call'[d].pc \notin {"leaving", "done"} =>
          call[d].pc \notin {"leaving", "done"}
    BY <1>3, <1>6
  <2>2. \A d \in Callers : TaskOf[d] \in Owners
    BY GateAssumption
  <2>3. QED
    BY <1>1, <1>4, <2>1, <2>2 DEF CalmInv, ActiveUntilLeaving
<1>9. SweptIsOver'
  BY <1>2, <1>3, <1>5 DEF CalmInv, SweptIsOver, TypeOK, Calls
<1>10. NoLeaseEnds' /\ SeenHasBegun'
  BY <1>2, <1>3, <1>6 DEF CalmInv, NoLeaseEnds, SeenHasBegun
<1>11. QED
  BY <1>7, <1>8, <1>9, <1>10 DEF CalmInv

LEMMA CalmExec ==
  ASSUME Calm, CalmInv, TypeOK', NEW c \in Callers, Exec(c) PROVE CalmInv'
<1>0. TypeOK /\ call[c].pc = "exec" /\ UNCHANGED status
  BY DEF Exec, CalmInv
<1>1. CASE call[c].dirty
  BY <1>0, <1>1, AgainType, AgainOwners, CalmMove DEF Exec
<1>2. CASE ~call[c].dirty
  <2>1. Members' = Members \cup {TaskOf[c]}
    BY <1>0, <1>2, EnteredType DEF Exec
  <2>2. /\ call'[c].pc = "held" /\ call'[c].owners = {}
        /\ \A d \in Callers : d # c => /\ call'[d].pc = call[d].pc
                                       /\ call'[d].owners = call[d].owners
                                       /\ TaskOf[d] # TaskOf[c]
    BY <1>0, <1>2, PastType, PastOwners, MovesEffect DEF Exec, Calm
  <2>3. HoldersAreMembers' /\ ActiveUntilLeaving' /\ SweptIsOver'
    BY <1>0, <2>1, <2>2
       DEF CalmInv, HoldersAreMembers, ActiveUntilLeaving, SweptIsOver
  <2>4. SeenHasBegun'
    BY <2>1, <2>2 DEF CalmInv, SeenHasBegun
  <2>5. NoLeaseEnds'
    <3>1. call[c].stamp + Lease > Horizon
      BY <1>0, GateAssumption DEF TypeOK, Calls, Calm
    <3>2. \A o \in Owners : expiry'[o] = IF o = TaskOf[c] THEN call[c].stamp + Lease
                                                         ELSE expiry[o]
      BY <1>0, <1>2 DEF Exec, Entered, TypeOK
    <3>3. Members' \subseteq Owners /\ \A o \in Members' : o # TaskOf[c] => o \in Members
      BY <2>1 DEF Members
    <3>4. QED
      BY <3>1, <3>2, <3>3 DEF CalmInv, NoLeaseEnds
  <2>6. QED
    BY <2>3, <2>4, <2>5 DEF CalmInv
<1>3. QED
  BY <1>1, <1>2

LEMMA CalmCallStep ==
  ASSUME Calm, CalmInv, TypeOK', NEW c \in Callers, CallStep(c) PROVE CalmInv'
<1>0. TypeOK /\ ~RedisError
  BY DEF CalmInv, TypeOK, Calm, RedisError
<1>1. CASE Call(c)
  <2> DEFINE slot == [call[c] EXCEPT !.pc = "look", !.deadline = now + Wait]
  <2>1. /\ slot.pc = "look" /\ slot.owners = call[c].owners
        /\ call' = [call EXCEPT ![c] = slot]
    BY <1>0, <1>1 DEF Call, TypeOK, Calls, Calm
  <2> HIDE DEF slot
  <2>2. QED
    BY <1>1, <2>1, CalmMove DEF Call
<1>2. CASE Look(c)
  <2> DEFINE slot == [call[c] EXCEPT !.owners = Members,
                        !.pc = IF Members = {} THEN "watch" ELSE "judge"]
  <2>1. /\ slot.pc \in {"watch", "judge"} /\ slot.owners = Members
        /\ call' = [call EXCEPT ![c] = slot]
    BY <1>0, <1>2 DEF Look, TypeOK, Calls
  <2> HIDE DEF slot
  <2>2. QED
    BY <1>2, <2>1, CalmMove DEF Look
<1>3. CASE Judge(c)
  BY <1>3, CalmJudge
<1>4. ASSUME NEW o \in Owners, Sweep(c, o) PROVE CalmInv'
  <2> DEFINE rest == call[c].owners \ {o}
             next == [call[c] EXCEPT !.owners = rest,
                        !.pc = IF rest = {} THEN "watch" ELSE "sweep"]
  <2>1. /\ next \in Calls /\ next.owners = rest /\ next.pc \in {"watch", "sweep"}
    BY <1>0 DEF TypeOK, Calls
  <2>2. /\ Remove({o}) /\ Moves(c, next, {o} \cap Members) /\ UNCHANGED status
        /\ call[c].pc = "sweep" /\ status[o] # "active"
    BY <1>0, <1>4 DEF Sweep, CalmInv, SweptIsOver
  <2> HIDE DEF next
  <2>3. \A d \in Callers : call'[d].pc \in {"held", "running"} => TaskOf[d] # o
    <3>1. \A d \in Callers : call'[d].pc \in {"held", "running"} =>
            call[d].pc \in {"held", "running"}
      BY <1>0, <2>1, <2>2, MovesEffect
    <3>2. QED
      BY <2>2, <3>1 DEF CalmInv, ActiveUntilLeaving
  <2>4. QED
    BY <2>1, <2>2, <2>3, CalmRemoval
<1>5. CASE Watch(c)
  <2> DEFINE slot == [call[c] EXCEPT !.pc = "evict", !.stamp = now]
  <2>1. /\ slot.pc = "evict" /\ slot.owners = call[c].owners
        /\ call' = [call EXCEPT ![c] = slot]
    BY <1>0, <1>5 DEF Watch, TypeOK, Calls
  <2> HIDE DEF slot
  <2>2. QED
    BY <1>5, <2>1, CalmMove DEF Watch
<1>6. CASE Evict(c)
  <2>1. PICK next \in Calls : /\ next.pc = "count" /\ next.owners = call[c].owners
                              /\ Remove(Expired(call[c].stamp))
                              /\ Moves(c, next, Expired(call[c].stamp))
    BY <1>0, <1>6, EvictEffect
  <2>2. Expired(call[c].stamp) = {}
    BY <1>0, GateAssumption
       DEF Expired, CalmInv, NoLeaseEnds, TypeOK, Calls, Members, Scores
  <2>3. Remove({}) /\ Moves(c, next, {} \cap Members)
    BY <2>1, <2>2
  <2>4. UNCHANGED status /\ call[c].pc = "evict"
    BY <1>6 DEF Evict
  <2>5. QED
    BY <2>1, <2>3, <2>4, CalmRemoval
<1>7. CASE Count(c)
  <2>1. [call[c] EXCEPT !.pc = "exec"].pc = "exec"
        /\ [call[c] EXCEPT !.pc = "exec"].owners = call[c].owners
    BY <1>0 DEF TypeOK, Calls
  <2>2. CASE HasRoom(c)
    BY <1>7, <2>1, <2>2, CalmMove DEF Count
  <2>3. CASE ~HasRoom(c)
    BY <1>0, <1>7, <2>3, AgainType, AgainOwners, CalmMove DEF Count
  <2>4. QED
    BY <2>2, <2>3
<1>8. CASE Exec(c)
  BY <1>8, CalmExec
<1>9. CASE Retry(c) \/ Run(c) \/ Refuse(c)
  BY <1>9, CalmStepTo DEF Retry, Run, Refuse, CalmInv, HoldersAreMembers
<1>10. CASE Saturated(c)
  <2>1. status[TaskOf[c]] = "active"
    BY <1>10 DEF Saturated, CalmInv, ActiveUntilLeaving
  <2>2. status' = [status EXCEPT ![TaskOf[c]] = "settled"]
    BY <1>10, <2>1 DEF Saturated
  <2>3. QED
    BY <1>10, <2>2, PastType, PastOwners, CalmEnds DEF Saturated
<1>11. CASE Dies(c)
  BY <1>11, PastType, PastOwners, CalmEnds DEF Dies
<1>12. CASE End(c)
  <2> DEFINE slot == [call[c] EXCEPT !.pc = "leaving"]
  <2>1. /\ slot.pc = "leaving" /\ slot.owners = call[c].owners
        /\ call' = [call EXCEPT ![c] = slot]
    BY <1>0, <1>12 DEF End, StepTo, TypeOK, Calls
  <2> HIDE DEF slot
  <2>2. QED
    BY <1>12, <2>1, CalmEnds DEF End
<1>13. CASE Release(c)
  <2>1. /\ Remove({TaskOf[c]}) /\ Moves(c, Past("done"), {TaskOf[c]} \cap Members)
        /\ UNCHANGED status
    BY <1>0, <1>13 DEF Release, Calm
  <2>2. \A d \in Callers : call'[d].pc \in {"held", "running"} =>
          TaskOf[d] \notin {TaskOf[c]}
    BY <1>0, <2>1, PastType, MovesEffect DEF Calm
  <2>3. QED
    BY <2>1, <2>2, PastType, PastOwners, CalmRemoval
<1>14. CASE PassOnError(c)
  BY <1>0, <1>14 DEF PassOnError
<1>15. QED
  BY <1>1, <1>2, <1>3, <1>4, <1>5, <1>6, <1>7, <1>8, <1>9, <1>10, <1>11, <1>12,
     <1>13, <1>14 DEF CallStep, Acquire

LEMMA CalmNext ==
  ASSUME Calm, CalmInv, [Next]_vars PROVE CalmInv'
<1>1. TypeOK'
  BY TypeStep DEF CalmInv
<1>2. ASSUME NEW c \in Callers, CallStep(c) PROVE CalmInv'
  BY <1>1, <1>2, CalmCallStep
<1>3. ASSUME UNCHANGED <<expiry, status, call>> PROVE CalmInv'
  BY <1>1, <1>3 DEF CalmInv, HoldersAreMembers, ActiveUntilLeaving, SweptIsOver,
     NoLeaseEnds, SeenHasBegun, Members
<1>4. QED
  BY <1>2, <1>3 DEF Next, Interrupt, Tick, vars, Calm

-----------------------------------------------------------------------------
(* The refinement.  The tasks of the running calls are different members,  *)
(* so a call that is about to run finds fewer than Limit running.          *)

LEMMA RoomToRun ==
  ASSUME Calm, CalmInv, SlotBound, NEW c \in Callers, call[c].pc = "held"
  PROVE  Cardinality(Running) < Limit
<1> DEFINE S == Running \cup {c}
           f == [d \in S |-> TaskOf[d]]
<1>1. f \in [S -> Members] /\ c \notin Running
  BY DEF Running, CalmInv, HoldersAreMembers
<1>2. \A a, b \in S : f[a] = f[b] => a = b
  BY DEF Running, Calm
<1> HIDE DEF f
<1>3. f \in Injection(S, Members)
  BY <1>1, <1>2, Fun_IsInj
<1>4. IsFiniteSet(S) /\ Cardinality(S) <= Cardinality(Members)
  BY <1>3, MembersFinite, FS_Injection
<1>5. IsFiniteSet(Running)
  BY <1>4, FS_Subset
<1>6. Cardinality(S) = Cardinality(Running) + 1 /\ Cardinality(Running) \in Nat
  BY <1>1, <1>5, FS_AddElement, FS_CardinalityType
<1>7. QED
  BY <1>4, <1>6, MembersFinite, GateAssumption DEF SlotBound

\* One call moves at a time; only Run begins to execute a task.
LEMMA OneMoves ==
  ASSUME TypeOK, NEW c \in Callers, CallStep(c)
  PROVE  /\ \A d \in Callers : d # c => call'[d].pc = call[d].pc
         /\ call'[c].pc = "running" => Run(c)
<1> DEFINE Goal == /\ \A d \in Callers : d # c => call'[d].pc = call[d].pc
                   /\ call'[c].pc = "running" => Run(c)
<1>1. ASSUME NEW slot, call' = [call EXCEPT ![c] = slot], slot.pc # "running"
      PROVE  Goal
  BY <1>1 DEF TypeOK
<1>2. ASSUME NEW pc, StepTo(c, pc), pc # "running" PROVE Goal
  BY <1>2 DEF StepTo, TypeOK, Calls
<1>3. ASSUME NEW next \in Calls, NEW changed, Moves(c, next, changed),
             next.pc # "running"
      PROVE  Goal
  BY <1>3, MovesEffect
<1>4. \A pc : Past(pc).pc = pc /\ Again(c, pc).pc = pc
  BY DEF Past, Again, NewCall
<1>5. CASE Call(c)
  <2> DEFINE slot == [call[c] EXCEPT !.pc = "look", !.deadline = now + Wait]
  <2>1. CASE Limit = 0
    BY <1>1, <1>4, <1>5, <2>1 DEF Call
  <2>2. CASE Limit # 0
    <3>1. slot.pc = "look" /\ call' = [call EXCEPT ![c] = slot]
      BY <1>5, <2>2 DEF Call, TypeOK, Calls
    <3> HIDE DEF slot
    <3>2. QED
      BY <1>1, <3>1
  <2>3. QED
    BY <2>1, <2>2
<1>6. CASE Look(c)
  <2> DEFINE slot == [call[c] EXCEPT !.owners = Members,
                        !.pc = IF Members = {} THEN "watch" ELSE "judge"]
  <2>1. \/ StepTo(c, "watch")
        \/ slot.pc # "running" /\ call' = [call EXCEPT ![c] = slot]
    BY <1>6 DEF Look, TypeOK, Calls
  <2> HIDE DEF slot
  <2>2. QED
    BY <1>1, <1>2, <2>1
<1>7. CASE Judge(c)
  <2>1. PICK stale : call' = [call EXCEPT ![c].owners = stale,
                       ![c].pc = IF stale = {} THEN "watch" ELSE "sweep"]
    BY <1>7 DEF Judge
  <2> DEFINE slot == [call[c] EXCEPT !.owners = stale,
                        !.pc = IF stale = {} THEN "watch" ELSE "sweep"]
  <2>2. slot.pc # "running" /\ call' = [call EXCEPT ![c] = slot]
    BY <2>1 DEF TypeOK, Calls
  <2> HIDE DEF slot
  <2>3. QED
    BY <1>1, <2>2
<1>8. ASSUME NEW o \in Owners, Sweep(c, o) PROVE Goal
  BY <1>3, <1>8, SweepEffect
<1>9. CASE Watch(c)
  <2> DEFINE slot == [call[c] EXCEPT !.pc = "evict", !.stamp = now]
  <2>1. slot.pc # "running" /\ call' = [call EXCEPT ![c] = slot]
    BY <1>9 DEF Watch, TypeOK, Calls
  <2> HIDE DEF slot
  <2>2. QED
    BY <1>1, <2>1
<1>10. CASE Evict(c)
  BY <1>3, <1>10, EvictEffect
<1>11. CASE Count(c)
  <2>1. [call[c] EXCEPT !.pc = "exec"].pc = "exec"
    BY DEF TypeOK, Calls
  <2>2. CASE HasRoom(c)
    BY <1>1, <1>11, <2>1, <2>2 DEF Count
  <2>3. CASE ~HasRoom(c)
    BY <1>1, <1>4, <1>11, <2>3 DEF Count
  <2>4. QED
    BY <2>2, <2>3
<1>12. CASE Exec(c) \/ PassOnError(c)
  BY <1>1, <1>3, <1>4, <1>12, PastType DEF Exec, PassOnError
<1>13. CASE Retry(c) \/ Refuse(c) \/ End(c)
  BY <1>2, <1>13 DEF Retry, Refuse, End
<1>14. CASE Saturated(c) \/ Dies(c)
  BY <1>1, <1>4, <1>14 DEF Saturated, Dies
<1>15. CASE Release(c)
  BY <1>3, <1>4, <1>15, PastType DEF Release
<1>16. CASE Run(c)
  BY <1>16 DEF Run, StepTo, TypeOK, Calls
<1>17. QED
  BY <1>5, <1>6, <1>7, <1>8, <1>9, <1>10, <1>11, <1>12, <1>13, <1>14, <1>15,
     <1>16 DEF CallStep, Acquire

LEMMA StepRefines ==
  ASSUME Calm, CalmInv, SlotBound, [Next]_vars PROVE [Pool!Next]_Running
<1>0. TypeOK
  BY DEF CalmInv
<1>1. ASSUME NEW c \in Callers, CallStep(c) PROVE [Pool!Next]_Running
  <2>1. /\ \A d \in Callers : d # c => call'[d].pc = call[d].pc
        /\ call'[c].pc = "running" => Run(c)
    BY <1>0, <1>1, OneMoves
  <2>2. CASE call'[c].pc = "running"
    <3>1. call[c].pc = "held"
      BY <2>1, <2>2 DEF Run
    <3>2. Cardinality(Running) < Limit
      BY <3>1, RoomToRun
    <3>3. Running' = Running \cup {c} /\ c \notin Running
      BY <2>1, <2>2, <3>1 DEF Running
    <3>4. QED
      BY <3>2, <3>3 DEF Pool!Next, Pool!Enter, Pool!Cardinality, Cardinality
  <2>3. CASE call'[c].pc # "running" /\ call[c].pc = "running"
    <3>1. Running' = Running \ {c} /\ c \in Running
      BY <2>1, <2>3 DEF Running
    <3>2. QED
      BY <3>1 DEF Pool!Next, Pool!Leave
  <2>4. CASE call'[c].pc # "running" /\ call[c].pc # "running"
    BY <2>1, <2>4 DEF Running
  <2>5. QED
    BY <2>2, <2>3, <2>4
<1>2. ASSUME UNCHANGED call PROVE [Pool!Next]_Running
  BY <1>2 DEF Running
<1>3. QED
  BY <1>1, <1>2 DEF Next, Interrupt, Tick, vars

(* Calm gates keep the promise of the setting: the calls that execute a    *)
(* task never outnumber worker_global_task_concurrency, killed workers     *)
(* included (TaskExecutionGate with run_crawl_task's use of it).           *)
THEOREM CalmGateIsAPool == ASSUME Calm PROVE Spec => PoolSpec
<1>1. Init => CalmInv /\ Pool!Init
  BY CalmInit DEF Pool!Init, Init, NewCall, Running
<1>2. CalmInv /\ [Next]_vars => CalmInv'
  BY CalmNext
<1>3. CalmInv /\ SlotBound /\ [Next]_vars => [Pool!Next]_Running
  BY StepRefines
<1>4. Spec => []SlotBound
  BY SlotsBounded
<1>5. QED
  BY <1>1, <1>2, <1>3, <1>4, PTL DEF Spec, PoolSpec, Pool!Spec

===============================================================================
