---------------------------- MODULE SearchPromises ----------------------------
(***************************************************************************)
(* What a run searches and selects: the keywords and the expansion they    *)
(* come from, which the row of the task keeps from one run to the next,    *)
(* and the selected candidates against all that the site returned.         *)
(***************************************************************************)
EXTENDS Integers, Sequences, FiniteSets

CONSTANTS
  Source,       \* the task's keyword
  Casefold,     \* the casefold of every word
  SynonymCount, \* requested_synonym_count
  Recent,       \* videos whose date passes the published_within_days filter
  Limit         \* requested_video_limit

VARIABLES
  stage,      \* where run_task is
  expansion,  \* keyword_expansion in the task's row: status and synonyms
  keywords,   \* search_keywords_used
  seen,       \* all_candidates as the site returned them
  candidates, \* selected_candidates
  total       \* total_candidates of the row

\* What is searched is the task's keyword first and then at most SynonymCount
\* other words, no two of them alike when case is ignored; other words are
\* searched only if the expansion succeeded.  This holds in every run of a
\* task, also when the expansion was stored by an earlier one.
KeywordsWellFormed ==
  stage = "search" =>
    /\ keywords[1] = Source /\ Len(keywords) <= SynonymCount + 1
    /\ \A i, j \in 1..Len(keywords) :
         Casefold[keywords[i]] = Casefold[keywords[j]] => i = j
    /\ Len(keywords) > 1 <=> expansion.status = "success"

Occurrences(b) == {seen[i] : i \in {j \in 1..Len(seen) : seen[j].bvid = b}}
Keywords(c) == {c.matched[k] : k \in 1..Len(c.matched)}

\* Each selected video appears once, with every keyword that led to it and
\* the best of its ranks, although the objects were merged twice in place;
\* the task's own keyword is its primary one when it led to it.
CandidatesMerged ==
  stage = "selected" =>
    \A i \in 1..Len(candidates) :
      LET c == candidates[i]
          every == UNION {Keywords(o) : o \in Occurrences(c.bvid)}
      IN /\ \A j \in 1..Len(candidates) : candidates[j].bvid = c.bvid => j = i
         /\ Keywords(c) = every /\ Len(c.matched) = Cardinality(every)
         /\ \A o \in Occurrences(c.bvid) : c.rank <= o.rank
         /\ \E o \in Occurrences(c.bvid) : c.rank = o.rank
         /\ Source \in every => c.primary = Source
         /\ every # {} => c.primary \in every

\* The selection has no gap: it is full or holds every recent video that was
\* found, a video that was left out does not rank before one that was taken,
\* and the count in the row is that of all the videos to choose from.
SelectionIsBest ==
  stage = "selected" =>
    LET taken  == {candidates[i].bvid : i \in 1..Len(candidates)}
        choice == {seen[i].bvid : i \in 1..Len(seen)} \cap Recent
    IN /\ taken \subseteq choice /\ total = Cardinality(choice)
       /\ Len(candidates) = Limit \/ taken = choice
       /\ \A b \in choice \ taken : \A o \in Occurrences(b) :
            \A i \in 1..Len(candidates) : candidates[i].rank <= o.rank

=============================================================================
