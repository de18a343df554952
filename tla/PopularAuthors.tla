---------------------------- MODULE PopularAuthors ----------------------------
(***************************************************************************)
(* PopularAuthorAnalysisService.build_for_task: authors are chosen as in   *)
(* AuthorRanking, and each of them is profiled: its list of videos is      *)
(* paged (BilibiliUploaderSpider), each video's detail is fetched, and a   *)
(* model is asked for summaries.                                           *)
(*                                                                         *)
(* A detail that cannot be fetched is replaced by what the list said of    *)
(* the video; a page that cannot be fetched, directly or in the browser,   *)
(* ends the whole analysis with an exception.  Style tags and texts are    *)
(* left out.                                                               *)
(***************************************************************************)
EXTENDS AuthorRanking

CONSTANTS
  Insights,    \* the lists of videos that a task may have
  Uploaded,    \* pages of an author's list that may be answered
  PageSize,
  MaxPages,    \* bound on an author's pages
  Bvids,       \* videos that an author's list or a model may name
  Runs         \* bound on the analyses

Assumption ==
  /\ Insights \subseteq
       Seq([mid : STRING, name : STRING, topic : STRING, heat : Nat, composite : Nat])
  /\ Topics \in Seq(STRING)
  /\ Uploaded \subseteq Seq(Bvids) /\ IsFiniteSet(Bvids)
  /\ {TotalCount, PerTopic, VideoLimit, Runs} \subseteq Nat
  /\ {PageSize, MaxPages} \subseteq Nat \ {0}

VARIABLES
  queue,     \* chosen authors still to be profiled
  page,      \* pages of the first of them read so far, and their number
  listed,    \* its list
  videos,    \* its videos as [bvid, text], text being where the summary is from
  runs       \* analyses still to come

vars == <<doing, insights, queue, page, listed, videos, profiles, runs>>

Init ==
  /\ doing = "idle" /\ insights = <<>> /\ queue = <<>> /\ page = [read |-> 0, of |-> 1]
  /\ listed = <<>> /\ videos = <<>> /\ profiles = <<>> /\ runs = Runs

-----------------------------------------------------------------------------
(* The analysis *)

\* An author without a mid has no list: _fetch_author_videos returns at once.
Opening(authors) ==
  IF authors = <<>> THEN "done" ELSE IF authors[1][1] = "mid" THEN "page" ELSE "ask"

\* The author's profile is complete; the next one's turn.
Profile(described) ==
  /\ profiles' = Append(profiles, [author |-> Head(queue), videos |-> described])
  /\ queue' = Tail(queue) /\ doing' = Opening(Tail(queue))
  /\ page' = [read |-> 0, of |-> 1] /\ listed' = <<>> /\ videos' = <<>>
  /\ UNCHANGED <<insights, runs>>

Start ==
  /\ doing \in {"idle", "done", "failed"} /\ runs > 0 /\ runs' = runs - 1
  /\ \E all \in Insights :
       LET chosen == SelectedAggregates(all)
       IN /\ insights' = all
          /\ \/ queue' = chosen /\ doing' = Opening(chosen) /\ profiles' = <<>>
             \* The request for an interim analysis: no author is fetched
             \* (_build_source_only_author_read).
             \/ /\ queue' = <<>> /\ doing' = "done"
                /\ profiles' = [i \in DOMAIN chosen |-> [author |-> chosen[i], videos |-> <<>>]]
  /\ page' = [read |-> 0, of |-> 1] /\ listed' = <<>> /\ videos' = <<>>

\* fetch_page: the list may have grown or shrunk since the page before.
FetchPage ==
  /\ doing = "page" /\ page.read < page.of /\ Len(listed) < VideoLimit
  /\ \E bvids \in Uploaded, of \in 1..MaxPages :
       /\ Len(bvids) <= PageSize
       /\ listed' = listed \o bvids /\ page' = [read |-> page.read + 1, of |-> of]
  /\ UNCHANGED <<doing, insights, queue, videos, profiles, runs>>

\* The HTTP client and the browser have failed; nothing catches the exception.
PageFails ==
  /\ doing = "page" /\ page.read < page.of /\ Len(listed) < VideoLimit
  /\ doing' = "failed"
  /\ UNCHANGED <<insights, queue, page, listed, videos, profiles, runs>>

PagesRead ==
  /\ doing = "page" /\ ~(page.read < page.of /\ Len(listed) < VideoLimit)
  /\ listed' = Upto(VideoLimit, listed) /\ doing' = "detail"
  /\ UNCHANGED <<insights, queue, page, videos, profiles, runs>>

\* fetch_video_detail, or the candidate's own data when that fails.
FetchDetail ==
  /\ doing = "detail" /\ Len(videos) < Len(listed)
  /\ \E text \in {"detail", "candidate"} :
       videos' = Append(videos, [bvid |-> listed[Len(videos) + 1], text |-> text])
  /\ UNCHANGED <<doing, insights, queue, page, listed, profiles, runs>>

DetailsRead ==
  /\ doing = "detail" /\ Len(videos) = Len(listed) /\ doing' = "ask"
  /\ UNCHANGED <<insights, queue, page, listed, videos, profiles, runs>>

\* generate_json and _AuthorAiEnvelope: the model describes some of the
\* videos, perhaps others that nobody asked about; a video that it leaves out
\* keeps its own text.
Ask ==
  /\ doing = "ask" /\ videos # <<>>
  /\ \E said \in SUBSET Bvids :
       Profile([i \in DOMAIN videos |->
         [videos[i] EXCEPT !.text = IF videos[i].bvid \in said THEN "model" ELSE @]])

\* No model, an error or an answer of another shape (_build_author_ai_fallback);
\* also an author without videos.
AskFails == doing = "ask" /\ Profile(videos)

Next ==
  \/ Start \/ FetchPage \/ PageFails \/ PagesRead \/ FetchDetail \/ DetailsRead
  \/ Ask \/ AskFails

Spec == Init /\ [][Next]_vars

-----------------------------------------------------------------------------
(* Properties *)

\* The analysis and what it has collected are of their types.
TypeOK ==
  /\ doing \in {"idle", "page", "detail", "ask", "done", "failed"}
  /\ insights \in Insights \cup {<<>>}
  /\ ToSet(queue) \subseteq ToSet(Authors(insights))
  /\ page \in [read : 0..MaxPages, of : 1..MaxPages] /\ listed \in Seq(Bvids)
  /\ ToSet(videos) \subseteq [bvid : Bvids, text : {"detail", "candidate"}]
  /\ {p.author : p \in ToSet(profiles)} \subseteq ToSet(Authors(insights))
  /\ runs \in 0..Runs

=============================================================================
