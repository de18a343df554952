---------------------------- MODULE AuthorRanking ----------------------------
(***************************************************************************)
(* How PopularAuthorAnalysisService scores the authors of a task's videos  *)
(* and whom it chooses: the best ones overall, and those who have most     *)
(* videos of a topic.  And what the analysis owes to those chosen.         *)
(*                                                                         *)
(* A video is [mid, name, topic, heat, composite], name being casefolded   *)
(* and Unknown standing for a missing mid, name or topic.  The engagement  *)
(* rate is left out of the scores.                                         *)
(***************************************************************************)
EXTENDS FiniteSetsExt, SequencesExt, Listing

CONSTANTS
  Topics,      \* topics with an insight, in order
  TotalCount,  \* hot_author_total_count
  PerTopic,    \* topic_hot_author_count
  VideoLimit,  \* hot_author_video_limit
  Unknown      \* no mid, no name, no topic

VARIABLES
  doing,     \* idle, page, detail, ask, done, failed
  insights,  \* the videos analysed
  profiles   \* popular_authors: [author, videos]

-----------------------------------------------------------------------------
(* Authors of the videos *)

\* _author_key
Key(v) == IF v.mid # Unknown THEN <<"mid", v.mid>> ELSE <<"name", v.name>>

\* dict.fromkeys: each element at its first place.
Distinct(s) == Picked(s, {i \in 1..Len(s) : \A j \in 1..(i - 1) : s[j] # s[i]})

\* _aggregate_authors: in the order in which they occur, videos without an
\* author skipped.
Named(all) == {i \in 1..Len(all) : all[i].mid # Unknown \/ all[i].name # Unknown}
Of(all, author) == {i \in Named(all) : Key(all[i]) = author}
Authors(all) == Distinct(Picked([i \in 1..Len(all) |-> Key(all[i])], Named(all)))

Sum(all, S, field) ==
  LET upto[n \in 0..Len(all)] ==
        IF n = 0 THEN 0 ELSE upto[n - 1] + (IF n \in S THEN all[n][field] ELSE 0)
  IN upto[Len(all)]

\* A figure of an author
Figure(all, author, of) ==
  IF of = "count" THEN Cardinality(Of(all, author)) ELSE Sum(all, Of(all, author), of)

\* _normalize, in percent
Percent(x, max) ==
  IF max <= 0 \/ x <= 0 THEN 0 ELSE IF x > max THEN 100 ELSE (x * 100) \div max

\* _score_authors
Popularity(all, author) ==
  LET share(of) == Percent(Figure(all, author, of),
                           Max({Figure(all, a, of) : a \in ToSet(Authors(all))}))
  IN 40 * share("heat") + 30 * share("composite") + 20 * share("count")

-----------------------------------------------------------------------------
(* Authors chosen *)

\* Descending by the figures in turn; equals stay in their order.
Exceeds(a, b) == \E i \in 1..Len(a) : a[i] > b[i] /\ \A h \in 1..(i - 1) : a[h] = b[h]
Ranked(s, figures) ==
  LET ahead == [i \in 1..Len(s) |->
                  {j \in 1..Len(s) : \/ Exceeds(figures[s[j]], figures[s[i]])
                                     \/ figures[s[j]] = figures[s[i]] /\ j < i}]
      order == Sorted(1..Len(s), ahead)
  IN [k \in 1..Len(s) |-> s[order[k]]]

\* ranked_authors, of which hot_author_total_count are taken.
Overall(all) ==
  Upto(TotalCount,
       Ranked(Authors(all),
              [a \in ToSet(Authors(all)) |->
                 <<Popularity(all, a), Figure(all, a, "heat"),
                   Figure(all, a, "composite"), Figure(all, a, "count")>>]))

\* _build_topic_hot_authors: the authors with most videos of the topic.
About(all, author, topic) == {i \in Of(all, author) : all[i].topic = topic}
OfTopic(all, topic) ==
  LET authors == Authors(all)
      writers == Picked(authors, {i \in 1..Len(authors) : About(all, authors[i], topic) # {}})
  IN Upto(PerTopic,
          Ranked(writers,
                 [a \in ToSet(authors) |->
                    <<Cardinality(About(all, a, topic)),
                      Sum(all, About(all, a, topic), "heat"), Popularity(all, a)>>]))

\* selected_keys, to which every topic adds its authors
SelectedKeys(all) ==
  Overall(all) \o FlattenSeq([n \in 1..Len(Topics) |-> OfTopic(all, Topics[n])])

\* Most popular first
ByPopularity(all, authors) ==
  Ranked(authors, [a \in ToSet(Authors(all)) |->
                     <<Popularity(all, a), Figure(all, a, "heat"), Figure(all, a, "count")>>])

\* Mutant of SelectedAggregates: an author chosen twice is profiled twice.
SelectedTwice(all) == ByPopularity(all, SelectedKeys(all))

\* selected_aggregates
SelectedAggregates(all) == ByPopularity(all, Distinct(SelectedKeys(all)))

-----------------------------------------------------------------------------
\* An analysis that completes has profiled once every author among the best
\* overall or named under a topic, and nobody else, most popular first, each
\* with no more videos than asked for (build_for_task,
\* _build_topic_hot_authors, _fetch_author_videos).
AuthorsProfiledOnce ==
  doing = "done" =>
    LET authors == [i \in 1..Len(profiles) |-> profiles[i].author]
        named == ToSet(Overall(insights)) \cup UNION {ToSet(OfTopic(insights, t)) : t \in ToSet(Topics)}
    IN /\ ToSet(authors) = named /\ Len(authors) = Cardinality(named)
       /\ \A i, j \in 1..Len(authors) :
            i < j => Popularity(insights, authors[i]) >= Popularity(insights, authors[j])
       /\ \A i \in 1..Len(profiles) : Len(profiles[i].videos) <= VideoLimit

=============================================================================
