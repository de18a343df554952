--------------------------- MODULE AiAnalysisProofs ---------------------------
(***************************************************************************)
(* AiAnalysis for any number of videos, batches, models and attempts: its  *)
(* types, that the counts of a run add up to the summaries it has made,    *)
(* and what follows for the number and the final status that are shown.    *)
(***************************************************************************)
EXTENDS AiAnalysis, FiniteSetTheorems, FunctionTheorems, SequenceTheorems, TLAPS

Waiting == ToSet(queue)
Made == {v \in targets : Merged(v) # "none"}
Failed == {v \in targets \ Waiting : Merged(v) = "none"}

\* A run that clears the summaries, or keeps those there are, never makes a
\* summary for a video that has one.
Additive == whole \/ reuse

QueueInv == IsInjective(queue) /\ Waiting \subseteq targets

NothingTwice ==
  /\ \A v \in Videos : draft[v] # "none" => v \in targets \ Waiting
  /\ Additive => /\ \A v \in Videos : draft[v] # "none" => summary[v] = "none"
                 /\ \A v \in Waiting : summary[v] = "none"

\* What the counts of the run stand for, over all its batches
CountsInv ==
  phase \notin {"idle", "load"} =>
    /\ Additive => Analyzed = Cardinality(Made)
    /\ whole => counts.cached = 0 /\ counts.failure = Cardinality(Failed)

PhaseInv ==
  /\ phase \in {"assert", "ask", "control", "fallback"} => queue # <<>>
  /\ phase \in {"idle", "load", "resolve", "done"} => queue = <<>> /\ draft = Empty
  /\ phase = "load" /\ whole => summary = Empty
  /\ phase \in {"resolve", "done"} => analyzed = Analyzed
  /\ phase = "done" /\ whole => finalStatus = Resolved

IInv == TypeOK /\ QueueInv /\ NothingTwice /\ CountsInv /\ PhaseInv

-----------------------------------------------------------------------------
(* The queue *)

LEMMA SetToSeqProperties ==
  ASSUME NEW S, IsFiniteSet(S)
  PROVE  /\ SetToSeq(S) \in Seq(S) /\ IsInjective(SetToSeq(S))
         /\ ToSet(SetToSeq(S)) = S
<1> DEFINE n == Cardinality(S)
           q == SetToSeq(S)
<1>1. n \in Nat /\ ExistsBijection(1..n, S)
  BY FS_CardinalityType
<1>2. PICK b \in Bijection(1..n, S) : TRUE
  BY <1>1 DEF ExistsBijection
<1>3. b \in [1..n -> S] /\ IsInjective(b)
  BY <1>2 DEF Bijection, Injection, IsInjective
<1>4. q \in [1..n -> S] /\ IsInjective(q)
  BY <1>3 DEF SetToSeq
<1>5. q \in Seq(S)
  BY <1>1, <1>4, IsASeq
<1>6. q \in Injection(1..n, S)
  BY <1>4 DEF Injection, IsInjective
<1>7. IsFiniteSet(1..n) /\ Cardinality(1..n) = n
  BY <1>1, FS_Interval
<1>8. q \in Surjection(1..n, S)
  BY <1>6, <1>7, FS_Injection
<1>9. ToSet(q) = S
  BY <1>4, <1>8 DEF ToSet, Surjection
<1>10. QED
  BY <1>4, <1>5, <1>9

LEMMA TailProperties ==
  ASSUME NEW S, NEW q \in Seq(S), q # <<>>, IsInjective(q)
  PROVE  /\ Tail(q) \in Seq(S) /\ IsInjective(Tail(q))
         /\ ToSet(Tail(q)) = ToSet(q) \ {q[1]}
         /\ q[1] \in ToSet(q) /\ q[1] \in S
<1>1. /\ Len(q) \in Nat \ {0} /\ DOMAIN q = 1..Len(q)
      /\ Tail(q) \in Seq(S) /\ DOMAIN Tail(q) = 1..(Len(q) - 1)
      /\ \A i \in 1..(Len(q) - 1) : Tail(q)[i] = q[i + 1]
  BY EmptySeq, HeadTailProperties, LenProperties
<1>2. IsInjective(Tail(q))
  BY <1>1 DEF IsInjective
<1>3. q[1] \in ToSet(q) /\ q[1] \in S
  BY <1>1, ElementOfSeq DEF ToSet
<1>4. ASSUME NEW x \in ToSet(Tail(q))
      PROVE  x \in ToSet(q) \ {q[1]}
  <2>1. PICK i \in 1..(Len(q) - 1) : x = q[i + 1]
    BY <1>1 DEF ToSet
  <2>2. QED
    BY <1>1, <2>1 DEF ToSet, IsInjective
<1>5. ASSUME NEW x \in ToSet(q) \ {q[1]}
      PROVE  x \in ToSet(Tail(q))
  <2>1. PICK i \in 1..Len(q) : x = q[i] /\ i # 1
    BY <1>1 DEF ToSet
  <2>2. i - 1 \in 1..(Len(q) - 1) /\ x = Tail(q)[i - 1]
    BY <1>1, <2>1
  <2>3. QED
    BY <1>1, <2>2 DEF ToSet
<1>6. QED
  BY <1>1, <1>2, <1>3, <1>4, <1>5

LEMMA EmptyQueue == ToSet(<<>>) = {} /\ IsInjective(<<>>)
BY DEF ToSet, IsInjective

LEMMA FiniteTargets ==
  ASSUME Assumption, TypeOK, NEW T \in SUBSET targets
  PROVE  IsFiniteSet(T) /\ Cardinality(T) \in Nat
<1>1. IsFiniteSet(targets)
  BY FS_Subset DEF Assumption, TypeOK
<1>2. QED
  BY <1>1, FS_Subset, FS_CardinalityType

-----------------------------------------------------------------------------
(* Every step preserves the invariant. *)

LEMMA InitIInv ==
  ASSUME Assumption, Init
  PROVE  IInv
<1>1. TypeOK
  <2>1. /\ runs \in 0..Runs /\ asked \in (1..Models) \X (1..MaxRetries)
        /\ summary \in [Videos -> {"none", "model", "heuristic"}]
        /\ draft \in [Videos -> {"none", "model", "heuristic"}]
    BY DEF Assumption, Init, Empty
  <2>2. counts \in [cached : Nat, success : Nat, failure : Nat] /\ queue \in Seq(Videos)
    BY EmptySeq DEF Init, NoCounts
  <2>3. /\ phase = "idle" /\ targets = {} /\ lost = 0 /\ analyzed = 0
        /\ finalStatus = "none" /\ whole \in BOOLEAN /\ halted \in BOOLEAN
        /\ reuse \in BOOLEAN /\ available \in BOOLEAN
    BY DEF Init
  <2>4. QED
    BY <2>1, <2>2, <2>3 DEF TypeOK
<1>2. QueueInv /\ NothingTwice
  BY EmptyQueue DEF Init, QueueInv, NothingTwice, Waiting, Empty
<1>3. CountsInv /\ PhaseInv
  BY DEF Init, CountsInv, PhaseInv
<1>4. QED
  BY <1>1, <1>2, <1>3 DEF IInv

LEMMA CrawlIInv ==
  ASSUME Assumption, IInv, Crawl
  PROVE  IInv'
<1>1. queue = <<>> /\ draft = Empty
  BY DEF IInv, PhaseInv, Crawl
<1>2. TypeOK'
  <2>1. TypeOK
    BY DEF IInv
  <2>2. UNCHANGED <<analyzed, draft, queue, counts, asked, finalStatus, reuse, available>>
    BY DEF Crawl, settings
  <2>3. /\ runs' \in 0..Runs
        /\ summary' \in [Videos -> {"none", "model", "heuristic"}]
    BY <2>1 DEF Crawl, TypeOK, Assumption, Cleared, Empty
  <2>4. /\ phase' = "load" /\ whole' = TRUE /\ halted' = FALSE
        /\ targets' \in SUBSET Videos /\ lost' \in 0..1
    BY DEF Crawl
  <2>5. QED
    BY <2>1, <2>2, <2>3, <2>4 DEF TypeOK
<1>3. QueueInv' /\ NothingTwice'
  BY <1>1, EmptyQueue DEF Crawl, QueueInv, NothingTwice, Waiting, Empty
<1>4. CountsInv' /\ PhaseInv'
  BY <1>1 DEF Crawl, CountsInv, PhaseInv, Cleared, Empty
<1>5. QED
  BY <1>2, <1>3, <1>4 DEF IInv

LEMMA RerunIInv ==
  ASSUME Assumption, IInv, Rerun
  PROVE  IInv'
<1>1. queue = <<>> /\ draft = Empty
  BY DEF IInv, PhaseInv, Rerun
<1>2. TypeOK'
  <2>1. TypeOK
    BY DEF IInv
  <2>2. UNCHANGED <<targets, lost, summary, analyzed, draft, queue, counts, asked,
                    finalStatus, reuse, available>>
    BY DEF Rerun, settings
  <2>3. runs' \in 0..Runs
    BY <2>1 DEF Rerun, TypeOK, Assumption
  <2>4. phase' = "load" /\ whole' = FALSE /\ halted' \in BOOLEAN
    BY DEF Rerun
  <2>5. QED
    BY <2>1, <2>2, <2>3, <2>4 DEF TypeOK
<1>3. QueueInv' /\ NothingTwice'
  BY <1>1, EmptyQueue DEF Rerun, QueueInv, NothingTwice, Waiting, Empty
<1>4. CountsInv' /\ PhaseInv'
  BY <1>1 DEF Rerun, CountsInv, PhaseInv, Empty
<1>5. QED
  BY <1>2, <1>3, <1>4 DEF IInv

\* The queue that is loaded holds the videos without a summary to be kept.
LEMMA LoadIInv ==
  ASSUME Assumption, IInv, Load
  PROVE  IInv'
<1> DEFINE cached == {v \in targets : Reusable(v)}
<1>1. /\ queue' = SetToSeq(targets \ cached) /\ draft' = Empty
      /\ counts' = [NoCounts EXCEPT !.cached = Cardinality(cached)]
      /\ analyzed' = Cardinality(cached)
      /\ phase' = IF queue' = <<>> THEN "resolve" ELSE "assert"
      /\ UNCHANGED <<job, summary, asked, finalStatus, halted, settings, runs>>
  BY DEF Load
<1>2. IsFiniteSet(targets \ cached) /\ Cardinality(cached) \in Nat
  BY FiniteTargets DEF IInv
<1>3. /\ queue' \in Seq(targets \ cached) /\ IsInjective(queue')
      /\ ToSet(queue') = targets \ cached
  BY <1>1, <1>2, SetToSeqProperties
<1>4. /\ counts'.cached = Cardinality(cached) /\ counts'.success = 0
      /\ counts'.failure = 0 /\ counts' \in [cached : Nat, success : Nat, failure : Nat]
  BY <1>1, <1>2 DEF NoCounts
<1>5. TypeOK'
  <2>1. queue' \in Seq(Videos)
    BY <1>3, SeqMonotonic DEF IInv, TypeOK
  <2>2. QED
    BY <1>1, <1>2, <1>4, <2>1 DEF IInv, TypeOK, Empty, job, settings
<1>6. QueueInv'
  BY <1>1, <1>3 DEF QueueInv, Waiting, job
<1>7. Additive' => \A v \in targets \ cached : summary[v] = "none"
  <2>1. whole => summary = Empty
    BY DEF Load, IInv, PhaseInv
  <2>2. QED
    BY <1>1, <2>1 DEF Additive, Reusable, Empty, IInv, TypeOK, job, settings
<1>8. NothingTwice'
  BY <1>1, <1>3, <1>7 DEF NothingTwice, Additive, Waiting, Empty, job, settings
<1>9. Made' = {v \in targets : summary[v] # "none"} /\ Failed' = {v \in cached : summary[v] = "none"}
  BY <1>1, <1>3 DEF Made, Failed, Merged, Waiting, Empty, job, IInv, TypeOK
<1>10. whole => cached = {}
  BY DEF Load, IInv, PhaseInv, Reusable, Empty, TypeOK
<1>11. CountsInv'
  <2>1. Additive' => Made' = cached
    BY <1>7, <1>9 DEF Reusable
  <2>2. Failed' = {}
    BY <1>9 DEF Reusable
  <2>3. Analyzed' = Cardinality(cached)
    BY <1>2, <1>4 DEF Analyzed
  <2>4. whole' => counts'.cached = 0
    BY <1>1, <1>4, <1>10, FS_EmptySet DEF job
  <2>5. counts'.failure = Cardinality(Failed')
    BY <1>4, <2>2, FS_EmptySet
  <2>6. QED
    BY <2>1, <2>3, <2>4, <2>5 DEF CountsInv
<1>12. PhaseInv'
  BY <1>1, <1>2, <1>4 DEF PhaseInv, Analyzed
<1>13. QED
  BY <1>5, <1>6, <1>8, <1>11, <1>12 DEF IInv

\* A step that makes no summary leaves what the counts stand for.
LEMMA CountsKept ==
  ASSUME IInv, UNCHANGED <<job, summary, draft, queue, counts, reuse>>
  PROVE  /\ QueueInv' /\ NothingTwice'
         /\ phase \notin {"idle", "load"} => CountsInv'
<1>1. UNCHANGED <<whole, targets, lost, summary, draft, queue, counts, reuse>>
  BY DEF job
<1>2. Made' = Made /\ Failed' = Failed /\ Waiting' = Waiting /\ Additive' = Additive
      /\ Analyzed' = Analyzed
  BY <1>1 DEF Made, Failed, Merged, Waiting, Additive, Analyzed
<1>3. QueueInv' /\ NothingTwice'
  BY <1>1, <1>2 DEF IInv, QueueInv, NothingTwice
<1>4. phase \notin {"idle", "load"} => CountsInv'
  BY <1>1, <1>2 DEF IInv, CountsInv
<1>5. QED
  BY <1>3, <1>4

LEMMA AbandonIInv ==
  ASSUME Assumption, IInv, Abandon,
         UNCHANGED <<job, summary, analyzed, finalStatus, halted, settings, runs>>
  PROVE  IInv'
<1>1. TypeOK'
  <2>1. TypeOK
    BY DEF IInv
  <2>2. UNCHANGED <<whole, targets, lost, summary, analyzed, finalStatus, halted, reuse,
                    available, runs>>
    BY DEF job, settings
  <2>3. /\ phase' = "idle" /\ queue' \in Seq(Videos)
        /\ draft' \in [Videos -> {"none", "model", "heuristic"}]
        /\ counts' \in [cached : Nat, success : Nat, failure : Nat]
        /\ asked' \in (1..Models) \X (1..MaxRetries)
    BY EmptySeq DEF Abandon, Empty, NoCounts, Assumption
  <2>4. QED
    BY <2>1, <2>2, <2>3 DEF TypeOK
<1>2. QueueInv' /\ NothingTwice'
  BY EmptyQueue DEF Abandon, QueueInv, NothingTwice, Waiting, Empty
<1>3. CountsInv' /\ PhaseInv'
  BY DEF Abandon, CountsInv, PhaseInv
<1>4. QED
  BY <1>1, <1>2, <1>3 DEF IInv

LEMMA CheckControlIInv ==
  ASSUME Assumption, IInv, CheckControl
  PROVE  IInv'
<1>1. CASE halted
  BY <1>1, AbandonIInv DEF CheckControl
<1>2. CASE ~halted
  <2>1. /\ phase = "assert" /\ phase' \in {"ask", "fallback"}
        /\ UNCHANGED <<whole, targets, lost, summary, analyzed, draft, queue, counts,
                       asked, finalStatus, halted, reuse, available, runs>>
    BY <1>2 DEF CheckControl, job, settings
  <2>2. TypeOK'
    BY <2>1 DEF IInv, TypeOK
  <2>3. QueueInv' /\ NothingTwice' /\ CountsInv'
    BY <2>1, CountsKept DEF job
  <2>4. PhaseInv'
    BY <2>1 DEF IInv, PhaseInv
  <2>5. QED
    BY <2>2, <2>3, <2>4 DEF IInv
<1>3. QED
  BY <1>1, <1>2

LEMMA AskIInv ==
  ASSUME Assumption, IInv, Ask
  PROVE  IInv'
<1>1. /\ phase = "ask" /\ phase' \in {"ask", "control", "fallback"}
      /\ UNCHANGED <<whole, targets, lost, summary, analyzed, draft, queue, counts,
                     finalStatus, halted, reuse, available, runs>>
  BY DEF Ask, job, settings
<1>2. asked' \in (1..Models) \X (1..MaxRetries)
  <2>1. asked \in (1..Models) \X (1..MaxRetries)
    BY DEF IInv, TypeOK
  <2>2. PICK m \in 1..Models, n \in 1..MaxRetries : asked = <<m, n>>
    BY <2>1
  <2>3. \/ asked' = <<1, 1>>
        \/ n < MaxRetries /\ asked' = <<m, n + 1>>
        \/ m < Models /\ asked' = <<m + 1, 1>>
    BY <2>2 DEF Ask, RetriesLeft
  <2>4. QED
    BY <2>3 DEF Assumption
<1>3. TypeOK'
  BY <1>1, <1>2 DEF IInv, TypeOK
<1>4. QueueInv' /\ NothingTwice' /\ CountsInv'
  BY <1>1, CountsKept DEF job
<1>5. PhaseInv'
  BY <1>1 DEF IInv, PhaseInv
<1>6. QED
  BY <1>3, <1>4, <1>5 DEF IInv

\* The head of the queue is settled: it moves from the waiting videos to those
\* with a summary or to those without one.
LEMMA SettleIInv ==
  ASSUME Assumption, IInv, phase \in {"control", "fallback"},
         NEW kind \in {"none", "model", "heuristic"}, Settle(kind),
         UNCHANGED <<job, summary, analyzed, asked, finalStatus, halted, settings, runs>>
  PROVE  IInv'
<1> DEFINE h == queue[1]
<1>1. UNCHANGED <<whole, targets, lost, summary, analyzed, asked, finalStatus, halted,
                  reuse, available, runs>>
  BY DEF job, settings
<1>2. /\ draft' = [draft EXCEPT ![h] = kind] /\ queue' = Tail(queue)
      /\ counts' = IF kind = "none" THEN [counts EXCEPT !.failure = @ + 1]
                                    ELSE [counts EXCEPT !.success = @ + 1]
      /\ phase' \in {"commit", "assert"}
      /\ queue' = <<>> => phase' = "commit"
  BY DEF Settle
<1>3. TypeOK
  BY DEF IInv
<1>4. queue \in Seq(Videos) /\ queue # <<>> /\ IsInjective(queue)
  BY DEF IInv, TypeOK, PhaseInv, QueueInv
<1>5. /\ queue' \in Seq(Videos) /\ IsInjective(queue') /\ Waiting' = Waiting \ {h}
      /\ h \in Waiting /\ h \in Videos
  BY <1>2, <1>4, TailProperties DEF Waiting
<1>6. h \in targets /\ draft[h] = "none" /\ (Additive => summary[h] = "none")
  BY <1>5 DEF IInv, QueueInv, NothingTwice
<1>7. /\ draft' \in [Videos -> {"none", "model", "heuristic"}]
      /\ \A v \in Videos : draft'[v] = IF v = h THEN kind ELSE draft[v]
  BY <1>2, <1>3 DEF TypeOK
<1>8. /\ counts' \in [cached : Nat, success : Nat, failure : Nat]
      /\ counts'.cached = counts.cached
      /\ counts'.success = IF kind = "none" THEN counts.success ELSE counts.success + 1
      /\ counts'.failure = IF kind = "none" THEN counts.failure + 1 ELSE counts.failure
  BY <1>2, <1>3 DEF TypeOK
<1>9. TypeOK'
  BY <1>1, <1>2, <1>3, <1>5, <1>7, <1>8 DEF TypeOK
<1>10. QueueInv'
  BY <1>1, <1>5 DEF IInv, QueueInv
<1>11. NothingTwice'
  BY <1>1, <1>5, <1>6, <1>7 DEF IInv, NothingTwice, Additive
<1>12. \A v \in Videos : Merged(v)' =
         IF v = h THEN IF kind = "none" THEN summary[h] ELSE kind ELSE Merged(v)
  BY <1>1, <1>7 DEF Merged
<1>13. Merged(h) = summary[h] /\ targets \subseteq Videos
  BY <1>3, <1>6 DEF Merged, TypeOK
<1>14. CountsInv'
  <2>1. IsFiniteSet(Made) /\ IsFiniteSet(Failed) /\ Cardinality(Made) \in Nat
        /\ Cardinality(Failed) \in Nat
    BY <1>3, FiniteTargets DEF Made, Failed
  <2>2. Additive => Analyzed' = Cardinality(Made')
    <3>1. CASE Additive /\ kind = "none"
      <4>1. Made' = Made
        BY <1>1, <1>6, <1>12, <1>13, <3>1 DEF Made
      <4>2. QED
        BY <1>8, <3>1, <4>1 DEF IInv, CountsInv, Analyzed
    <3>2. CASE Additive /\ kind # "none"
      <4>1. Made' = Made \cup {h} /\ h \notin Made
        BY <1>1, <1>6, <1>12, <1>13, <3>2 DEF Made
      <4>2. Cardinality(Made') = Cardinality(Made) + 1
        BY <2>1, <4>1, FS_AddElement
      <4>3. Analyzed' = Analyzed + 1
        BY <1>3, <1>8, <3>2 DEF Analyzed, TypeOK
      <4>4. QED
        BY <3>2, <4>2, <4>3 DEF IInv, CountsInv
    <3>3. QED
      BY <3>1, <3>2
  <2>3. whole => counts'.failure = Cardinality(Failed')
    <3>1. CASE whole /\ kind = "none"
      <4>1. Failed' = Failed \cup {h} /\ h \notin Failed
        BY <1>1, <1>5, <1>6, <1>12, <1>13, <3>1 DEF Failed, Additive
      <4>2. Cardinality(Failed') = Cardinality(Failed) + 1
        BY <2>1, <4>1, FS_AddElement
      <4>3. QED
        BY <1>8, <3>1, <4>2 DEF IInv, CountsInv
    <3>2. CASE whole /\ kind # "none"
      <4>1. Failed' = Failed
        BY <1>1, <1>5, <1>12, <1>13, <3>2 DEF Failed
      <4>2. QED
        BY <1>8, <3>2, <4>1 DEF IInv, CountsInv
    <3>3. QED
      BY <3>1, <3>2
  <2>4. whole => counts'.cached = 0
    BY <1>8 DEF IInv, CountsInv
  <2>5. QED
    BY <1>1, <2>2, <2>3, <2>4 DEF CountsInv, Additive
<1>15. PhaseInv'
  BY <1>2 DEF PhaseInv
<1>16. QED
  BY <1>9, <1>10, <1>11, <1>14, <1>15 DEF IInv

LEMMA ControlIInv ==
  ASSUME Assumption, IInv, Control \/ Fallback
  PROVE  IInv'
<1>1. CASE \E kind \in {"none", "model", "heuristic"} : Settle(kind)
  BY <1>1, SettleIInv DEF Control, Fallback
<1>2. CASE phase' = "fallback" /\ UNCHANGED <<draft, counts, queue>> /\ Control
  <2>1. /\ phase = "control" /\ phase' = "fallback"
        /\ UNCHANGED <<whole, targets, lost, summary, analyzed, draft, queue, counts,
                       asked, finalStatus, halted, reuse, available, runs>>
    BY <1>2 DEF Control, job, settings
  <2>2. TypeOK'
    BY <2>1 DEF IInv, TypeOK
  <2>3. QueueInv' /\ NothingTwice' /\ CountsInv'
    BY <2>1, CountsKept DEF job
  <2>4. PhaseInv'
    BY <2>1 DEF IInv, PhaseInv
  <2>5. QED
    BY <2>2, <2>3, <2>4 DEF IInv
<1>3. QED
  BY <1>1, <1>2 DEF Control, Fallback

\* A commit moves the summaries of the batch to the table.
LEMMA CommitBatchIInv ==
  ASSUME Assumption, IInv, CommitBatch
  PROVE  IInv'
<1>1. /\ phase = "commit" /\ phase' = IF queue = <<>> THEN "resolve" ELSE "assert"
      /\ summary' = [v \in Videos |-> Merged(v)] /\ analyzed' = Analyzed /\ draft' = Empty
      /\ UNCHANGED <<whole, targets, lost, queue, counts, asked, finalStatus, halted, reuse,
                     available, runs>>
  BY DEF CommitBatch, job, settings
<1>2. TypeOK
  BY DEF IInv
<1>3. summary' \in [Videos -> {"none", "model", "heuristic"}]
  BY <1>1, <1>2 DEF Merged, TypeOK
<1>4. TypeOK'
  <2>1. /\ phase' \in {"resolve", "assert"} /\ analyzed' \in Nat
        /\ draft' \in [Videos -> {"none", "model", "heuristic"}]
    BY <1>1, <1>2 DEF Analyzed, TypeOK, Empty
  <2>2. QED
    BY <1>1, <1>2, <1>3, <2>1 DEF TypeOK
<1>5. \A v \in Videos : Merged(v)' = Merged(v)
  BY <1>1 DEF Merged, Empty
<1>6. QueueInv' /\ Waiting' = Waiting
  BY <1>1 DEF IInv, QueueInv, Waiting
<1>7. NothingTwice'
  <2>1. \A v \in Waiting : v \in Videos /\ draft[v] = "none"
    BY <1>2 DEF IInv, NothingTwice, QueueInv, TypeOK
  <2>2. Additive => \A v \in Waiting : summary'[v] = "none"
    BY <1>1, <2>1 DEF IInv, NothingTwice, Merged
  <2>3. QED
    BY <1>1, <1>6, <2>2 DEF NothingTwice, Additive, Empty
<1>8. CountsInv'
  <2>1. Made' = Made /\ Failed' = Failed
    BY <1>1, <1>2, <1>5, <1>6 DEF Made, Failed, TypeOK
  <2>2. QED
    BY <1>1, <2>1 DEF IInv, CountsInv, Additive, Analyzed
<1>9. PhaseInv'
  BY <1>1 DEF PhaseInv, Analyzed
<1>10. QED
  BY <1>4, <1>6, <1>7, <1>8, <1>9 DEF IInv

LEMMA ResolveIInv ==
  ASSUME Assumption, IInv, Resolve \/ Again
  PROVE  IInv'
<1>1. /\ \/ phase = "resolve" /\ phase' = "done"
            /\ finalStatus' = IF whole THEN Resolved ELSE finalStatus
         \/ phase = "done" /\ phase' = "idle" /\ finalStatus' = finalStatus
      /\ UNCHANGED <<whole, targets, lost, summary, analyzed, draft, queue, counts,
                     asked, halted, reuse, available, runs>>
  BY DEF Resolve, Again, job, settings
<1>2. TypeOK'
  <2>1. TypeOK
    BY DEF IInv
  <2>2. finalStatus' \in {"none", "failed", "partial_success", "success"}
    BY <1>1, <2>1 DEF TypeOK, Resolved
  <2>3. phase' \in {"idle", "done"}
    BY <1>1
  <2>4. QED
    BY <1>1, <2>1, <2>2, <2>3 DEF TypeOK
<1>3. QueueInv' /\ NothingTwice' /\ CountsInv'
  BY <1>1, CountsKept DEF job
<1>4. PhaseInv'
  <2>1. Resolved' = Resolved /\ Analyzed' = Analyzed
    BY <1>1 DEF Resolved, Analyzed
  <2>2. QED
    BY <1>1, <2>1 DEF IInv, PhaseInv
<1>5. QED
  BY <1>2, <1>3, <1>4 DEF IInv

LEMMA NextIInv ==
  ASSUME Assumption, IInv, [Next]_vars
  PROVE  IInv'
<1>1. CASE UNCHANGED vars
  <2>1. UNCHANGED <<phase, whole, targets, lost, summary, analyzed, draft, queue, counts,
                    asked, finalStatus, halted, reuse, available, runs>>
    BY <1>1 DEF vars
  <2>2. TypeOK'
    BY <2>1 DEF IInv, TypeOK
  <2>3. QueueInv' /\ NothingTwice' /\ (phase \notin {"idle", "load"} => CountsInv')
    BY <2>1, CountsKept DEF job
  <2>4. CountsInv' /\ PhaseInv'
    BY <2>1, <2>3 DEF IInv, CountsInv, PhaseInv, Resolved, Analyzed
  <2>5. QED
    BY <2>2, <2>3, <2>4 DEF IInv
<1>2. CASE Crash
  BY <1>2, AbandonIInv DEF Crash
<1>3. CASE Next /\ ~Crash
  BY <1>3, CrawlIInv, RerunIInv, LoadIInv, CheckControlIInv, AskIInv, ControlIInv,
     CommitBatchIInv, ResolveIInv DEF Next
<1>4. QED
  BY <1>1, <1>2, <1>3

-----------------------------------------------------------------------------
\* The invariant of all that follows: types, what the counts stand for, and
\* that an additive run makes no summary twice.
THEOREM AiAnalysisInvariant ==
  ASSUME Assumption
  PROVE  Spec => []IInv
<1>1. Init => IInv
  BY InitIInv
<1>2. IInv /\ [Next]_vars => IInv'
  BY NextIInv
<1>3. QED
  BY <1>1, <1>2, PTL DEF Spec

\* The number of analysed videos that is shown when the summaries have been
\* made is that of the summaries stored (analyze_task).
THEOREM AnalyzedIsStored ==
  ASSUME Assumption
  PROVE  Spec => []AnalyzedMatchesSummaries
<1>1. ASSUME IInv, phase \in {"resolve", "done"}
      PROVE  Made = Summarised
  BY <1>1 DEF IInv, TypeOK, PhaseInv, Made, Summarised, Merged, Empty
<1>2. IInv => AnalyzedMatchesSummaries
  BY <1>1 DEF IInv, PhaseInv, CountsInv, Additive, AnalyzedMatchesSummaries
<1>3. QED
  BY <1>2, AiAnalysisInvariant, PTL

\* The final status of a run tells what it has stored, however many batches,
\* failed analyses and lost candidates it had (_resolve_final_task_status).
THEOREM StatusTellsWhatIsStored ==
  ASSUME Assumption
  PROVE  Spec => []FinalStatusTruthful
<1>1. ASSUME IInv, phase = "done", whole
      PROVE  /\ finalStatus = "failed" <=> (lost > 0 \/ targets # {}) /\ Summarised = {}
             /\ finalStatus = "success" <=> lost = 0 /\ Summarised = targets
  <2>1. TypeOK /\ finalStatus = Resolved /\ queue = <<>> /\ draft = Empty
    BY <1>1 DEF IInv, PhaseInv
  <2>2. Made = Summarised /\ Failed = targets \ Summarised
    BY <2>1, EmptyQueue DEF TypeOK, Made, Failed, Waiting, Summarised, Merged, Empty
  <2>3. counts.success = Cardinality(Summarised)
        /\ counts.failure = Cardinality(targets \ Summarised)
    BY <1>1, <2>1, <2>2 DEF IInv, CountsInv, Additive, Analyzed, TypeOK
  <2>4. IsFiniteSet(Summarised) /\ IsFiniteSet(targets \ Summarised)
    BY <2>1, FiniteTargets DEF Summarised
  <2>5. /\ counts.success = 0 <=> Summarised = {}
        /\ counts.failure = 0 <=> targets \ Summarised = {}
        /\ counts.failure \in Nat /\ lost \in 0..1
    BY <2>1, <2>3, <2>4, FS_EmptySet DEF TypeOK
  <2>6. Summarised \subseteq targets
    BY DEF Summarised
  <2>7. targets \ Summarised = {} <=> Summarised = targets
    BY <2>6
  <2>8. CASE Summarised = {}
    <3>1. counts.success = 0 /\ (counts.failure > 0 <=> targets # {})
      BY <2>5, <2>7, <2>8
    <3>2. finalStatus = IF lost > 0 \/ targets # {} THEN "failed" ELSE "success"
      BY <2>1, <3>1 DEF Resolved
    <3>3. QED
      BY <2>5, <2>8, <3>2
  <2>9. CASE Summarised # {}
    <3>1. targets # {} /\ counts.success # 0 /\ (counts.failure > 0 <=> Summarised # targets)
      BY <2>5, <2>6, <2>7, <2>9
    <3>2. finalStatus = IF lost > 0 \/ Summarised # targets THEN "partial_success" ELSE "success"
      BY <2>1, <3>1 DEF Resolved
    <3>3. QED
      BY <2>5, <2>9, <3>2
  <2>10. QED
    BY <2>8, <2>9
<1>2. IInv => FinalStatusTruthful
  BY <1>1 DEF FinalStatusTruthful
<1>3. QED
  BY <1>2, AiAnalysisInvariant, PTL

\* No step of a batch run that reuses results replaces a model's summary
\* (_should_reuse_existing_result, _upsert_ai_summary).
THEOREM ModelSummariesAreKept ==
  ASSUME Assumption
  PROVE  Spec => AiSummaryKept
<1>1. ASSUME IInv, [Next]_vars, NEW v \in DOMAIN summary,
             reuse, ~whole', summary[v] = "model"
      PROVE  summary'[v] = "model"
  <2>1. v \in Videos /\ (draft[v] # "none" => summary[v] = "none")
    BY <1>1 DEF IInv, TypeOK, NothingTwice, Additive
  <2>2. CASE CommitBatch
    BY <1>1, <2>1, <2>2 DEF CommitBatch, Merged
  <2>3. CASE summary' = summary
    BY <1>1, <2>3
  <2>4. CASE Crawl
    BY <1>1, <2>4 DEF Crawl
  <2>5. QED
    BY <1>1, <2>2, <2>3, <2>4
       DEF Next, vars, Rerun, Load, CheckControl, Ask, Control, Fallback, Resolve, Again,
           Crash, job
<1>2. IInv /\ [Next]_vars =>
        [\A v \in DOMAIN summary :
           reuse /\ ~whole' /\ summary[v] = "model" => summary'[v] = "model"]_summary
  BY <1>1
<1>3. QED
  BY <1>2, AiAnalysisInvariant, PTL DEF Spec, AiSummaryKept

===============================================================================
