---------------------------- MODULE CandidateSearch ----------------------------
(***************************************************************************)
(* The first half of CrawlPipelineService.run_task: the keyword is         *)
(* expanded with the help of the language model, every keyword is searched *)
(* page by page (or the hot lists are read), the candidates are merged by  *)
(* video, filtered by their date, and the first ones are selected.         *)
(*                                                                         *)
(* Merging changes the candidate objects in place and it runs twice, once  *)
(* in _collect_keyword_candidates and once in run_task, over the same      *)
(* objects.                                                                *)
(***************************************************************************)
EXTENDS SearchPromises, FiniteSets, SequencesExt, Listing

CONSTANTS
  Bvids,        \* videos of the site, and "" when a result names none
  Words,        \* strings the model may answer, after trimming
  Answers,      \* lists of words the model may return
  PageResults,  \* what a page may list: videos, each with its rank_index or 1
  Sizes,        \* page sizes that a page of search results may state
  PageSize,     \* page_size of the hot list
  MaxPages,     \* max_pages
  Runs          \* bound on the runs of the pipeline

Assumption ==
  /\ IsFiniteSet(Bvids) /\ Recent \subseteq Bvids
  /\ Source \in Words /\ Casefold \in [Words -> Words]
  /\ Answers \subseteq Seq(Words)
  /\ PageResults \subseteq Seq([bvid : Bvids, index : Nat])
  /\ Sizes \cup {SynonymCount, PageSize, MaxPages, Limit} \subseteq Nat \ {0}
  /\ Runs \in Nat

VARIABLES
  mode,       \* "keyword", "sitewide" or "partition": the task's options
  enabled,    \* enable_keyword_synonym_expansion
  at,         \* position of the keyword being searched
  page,       \* next page of it
  found,      \* the objects of seen as merging left them
  runs        \* runs still to come

vars == <<mode, enabled, expansion, stage, keywords, at, page, seen, found,
          candidates, total, runs>>

Expansion(status, synonyms) == [status |-> status, synonyms |-> synonyms]

\* _build_initial_keyword_expansion_payload
Initial == Expansion(IF enabled THEN "pending" ELSE "skipped", <<>>)

Init ==
  /\ mode \in {"keyword", "sitewide", "partition"} /\ enabled \in BOOLEAN
  /\ expansion = Initial
  /\ stage = "idle" /\ keywords = <<>> /\ at = 1 /\ page = 1
  /\ seen = <<>> /\ found = <<>> /\ candidates = <<>> /\ total = 0
  /\ runs = Runs

-----------------------------------------------------------------------------
(* Keyword expansion *)

\* The places at which a loop over words meets one for the first time, as far
\* as key tells words apart, the task's keyword being known from the start.
Firsts(words, key) ==
  {i \in 1..Len(words) :
     key[words[i]] # key[Source] /\ \A j \in 1..(i - 1) : key[words[j]] # key[words[i]]}

Exactly == [w \in Words |-> w]

\* Mutant of Cleaned: words are compared without casefold.
CleanedExactly(answer) == Upto(SynonymCount, Picked(answer, Firsts(answer, Exactly)))

\* _clean_synonyms: the first words that differ from the keyword and from each
\* other when case is ignored
Cleaned(answer) == Upto(SynonymCount, Picked(answer, Firsts(answer, Casefold)))

\* _normalize_search_keywords over expanded_keywords
SearchKeywords(e) == <<Source>> \o Picked(e.synonyms, Firsts(e.synonyms, Exactly))

\* A run begins, and its hot lists need no keyword.  A stored expansion is
\* used again, whatever its outcome was, unless it is still pending.
Start ==
  /\ stage = "idle" /\ runs > 0
  /\ runs' = runs - 1
  /\ IF mode # "keyword"
       THEN stage' = "hot" /\ keywords' = <<>>
       ELSE IF expansion.status = "pending"
         THEN stage' = "expand" /\ keywords' = <<>>
         ELSE stage' = "search" /\ keywords' = SearchKeywords(expansion)
  /\ at' = 1 /\ page' = 1 /\ seen' = <<>> /\ found' = <<>>
  /\ candidates' = <<>>
  /\ UNCHANGED <<mode, enabled, expansion, total>>

\* expand_keyword: the model answers a list, or it is not available, fails,
\* answers something else, or nothing that remains after cleaning
\* ("fallback"); any other error is "failed".
Expand ==
  /\ stage = "expand"
  /\ expansion' \in {Expansion(s, <<>>) : s \in {"fallback", "failed"}}
       \cup {Expansion("success", Cleaned(a)) :
               a \in {b \in Answers : Cleaned(b) # <<>>}}
  /\ keywords' = SearchKeywords(expansion')
  /\ stage' = "search"
  /\ UNCHANGED <<mode, enabled, at, page, seen, found, candidates, total, runs>>

-----------------------------------------------------------------------------
(* Pages of results *)

Candidate(bvid, rank, matched) ==
  [bvid |-> bvid, rank |-> rank, matched |-> matched,
   primary |-> IF matched = <<>> THEN "" ELSE matched[1]]

\* parse_search_page_data: the pages before it are taken to have the size that
\* this one states.
Listed(results, size, matched) ==
  [i \in 1..Len(results) |->
     Candidate(results[i].bvid, (page - 1) * size + results[i].index, matched)]

\* parse_popular_page_data and parse_partition_ranking_data: by position
ByPosition(results) == [i \in 1..Len(results) |-> [results[i] EXCEPT !.index = i]]

\* unique_bvids: what the candidates of the keyword being searched name
Unique(all) ==
  {all[i].bvid : i \in {j \in 1..Len(all) : all[j].matched = <<keywords[at]>>}} \ {""}

\* One page of search_keyword.  The last page of the site, enough videos or
\* max_pages end the keyword.
SearchPage ==
  /\ stage = "search"
  /\ \E results \in PageResults, size \in Sizes, last \in BOOLEAN :
       LET new    == Listed(results, size, <<keywords[at]>>)
           enough == Cardinality(Unique(seen \o new)) >= Limit
       IN /\ seen' = seen \o new
          /\ IF enough \/ last \/ page = MaxPages
               THEN /\ page' = 1 /\ at' = at + 1
                    /\ stage' = IF at = Len(keywords) THEN "merge" ELSE "search"
               ELSE page' = page + 1 /\ UNCHANGED <<at, stage>>
  /\ UNCHANGED <<mode, enabled, expansion, keywords, found, candidates, total, runs>>

\* One page of fetch_sitewide_hot, or the list of fetch_partition_hot.  The
\* candidates are counted, duplicates included, and cut at the limit.
HotPage ==
  /\ stage = "hot"
  /\ \E results \in PageResults, last \in BOOLEAN :
       LET all == seen \o Listed(ByPosition(results), PageSize, <<>>)
       IN IF mode = "partition" \/ last \/ Len(all) >= Limit \/ page = MaxPages
            THEN /\ seen' = Upto(Limit, all)
                 /\ found' = seen' /\ stage' = "select" /\ UNCHANGED page
            ELSE seen' = all /\ page' = page + 1 /\ UNCHANGED <<found, stage>>
  /\ UNCHANGED <<mode, enabled, expansion, keywords, at, candidates, total, runs>>

\* A page that neither the HTTP client nor the browser can fetch, or a crash,
\* ends the run.
Abort ==
  /\ stage \in {"expand", "search", "hot", "merge", "select"}
  /\ stage' = "idle"
  /\ UNCHANGED <<mode, enabled, expansion, keywords, at, page, seen, found,
                 candidates, total, runs>>

-----------------------------------------------------------------------------
(* dedupe_search_candidates *)

\* _resolve_primary_matched_keyword; every candidate has a primary keyword
\* or none has.
Primary(left, right, matched) ==
  IF Source \in ToSet(matched) THEN Source
  ELSE IF left.rank <= right.rank THEN left.primary ELSE right.primary

\* Mutant of Merged: the keywords of the other candidate are lost.
MergedAlone(left, right) ==
  LET first == IF left.rank <= right.rank THEN left ELSE right
  IN [first EXCEPT !.primary = Primary(left, right, first.matched)]

\* _merge_candidates: what becomes of the object it returns
Merged(left, right) ==
  LET matched == left.matched \o
        Picked(right.matched, {i \in 1..Len(right.matched) :
                                 right.matched[i] \notin ToSet(left.matched)})
      first == IF left.rank <= right.rank THEN left ELSE right
  IN [first EXCEPT !.matched = matched,
                   !.primary = Primary(left, right, matched)]

\* The loop over the candidates.  held maps a video to the position of the
\* object that stands for it, 0 for none.
Absorb(state, i) ==
  LET new == state.objects[i]
      j   == state.held[new.bvid]
      k   == IF j # 0 /\ state.objects[j].rank <= new.rank THEN j ELSE i
  IN [objects |-> IF j = 0 THEN state.objects
                  ELSE [state.objects EXCEPT ![k] = Merged(state.objects[j], new)],
      held    |-> [state.held EXCEPT ![new.bvid] = k]]

\* Its state after each turn
Absorbed(objects) ==
  LET after[n \in 0..Len(objects)] ==
        IF n = 0 THEN [objects |-> objects, held |-> [b \in Bvids |-> 0]]
                 ELSE Absorb(after[n - 1], n)
  IN after

Dedupe(objects) == Absorbed(objects)[Len(objects)]

\* Position at which a video occurs first: the order of the dictionary.
FirstAt(objects, b) == CHOOSE i \in 1..Len(objects) :
  objects[i].bvid = b /\ \A j \in 1..(i - 1) : objects[j].bvid # b

\* The object that stands for a video in the end
Held(objects, b) == LET end == Dedupe(objects) IN end.objects[end.held[b]]

\* sorted by rank, which is stable
Before(objects, b, c) ==
  \/ Held(objects, b).rank < Held(objects, c).rank
  \/ /\ Held(objects, b).rank = Held(objects, c).rank
     /\ FirstAt(objects, b) < FirstAt(objects, c)

\* The values of the dictionary in the order of their ranks
Deduped(objects) ==
  LET merged == {b \in Bvids : Dedupe(objects).held[b] # 0}
      order == Sorted(merged, [c \in merged |-> {b \in merged : Before(objects, b, c)}])
  IN [i \in 1..Len(order) |-> Held(objects, order[i])]

\* The end of _collect_keyword_candidates, which returns all_candidates and
\* not what it merged.
Merge ==
  /\ stage = "merge"
  /\ found' = Dedupe(seen).objects
  /\ stage' = "select"
  /\ UNCHANGED <<mode, enabled, expansion, keywords, at, page, seen, candidates,
                 total, runs>>

\* _filter_candidates_by_publish_time
Filtered(merged) ==
  Picked(merged, {i \in 1..Len(merged) : merged[i].bvid \in Recent})

\* Mutant of Chosen: the limit is applied before the dates are.
ChosenFirst(merged) == Filtered(Upto(Limit, merged))

\* filtered_candidates[: task.requested_video_limit]
Chosen(merged) == Upto(Limit, Filtered(merged))

Select ==
  /\ stage = "select"
  /\ LET merged == Deduped(found)
     IN candidates' = Chosen(merged) /\ total' = Len(Filtered(merged))
  /\ stage' = "selected"
  /\ UNCHANGED <<mode, enabled, expansion, keywords, at, page, seen, found, runs>>

\* The task is resumed, or its message is delivered again.
Again ==
  /\ stage = "selected" /\ stage' = "idle"
  /\ UNCHANGED <<mode, enabled, expansion, keywords, at, page, seen, found,
                 candidates, total, runs>>

\* retry_task: a new task, which takes over a successful expansion only.
Retry ==
  /\ stage = "idle" /\ mode = "keyword" /\ expansion.status \in {"fallback", "failed"}
  /\ expansion' = Initial
  /\ total' = 0
  /\ UNCHANGED <<mode, enabled, stage, keywords, at, page, seen, found, candidates, runs>>

Next ==
  \/ Start \/ Expand \/ SearchPage \/ HotPage \/ Abort \/ Merge \/ Select
  \/ Again \/ Retry

Spec == Init /\ [][Next]_vars

-----------------------------------------------------------------------------
CandidateSet ==
  [bvid : Bvids, rank : Nat, matched : Seq(Words), primary : Words \cup {""}]

TypeOK ==
  /\ mode \in {"keyword", "sitewide", "partition"} /\ enabled \in BOOLEAN
  /\ expansion.status \in {"skipped", "pending", "success", "fallback", "failed"}
  /\ expansion.synonyms \in Seq(Words)
  /\ stage \in {"idle", "expand", "search", "hot", "merge", "select", "selected"}
  /\ keywords \in Seq(Words) /\ at \in Nat /\ page \in 1..MaxPages
  /\ \A s \in {seen, found, candidates} : s \in Seq(CandidateSet)
  /\ total \in Nat /\ runs \in 0..Runs

=============================================================================
