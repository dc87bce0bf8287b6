----------------------------- MODULE BoardFeed -----------------------------
(***************************************************************************)
(* What the board-service shows of its boards: the lists that a reader     *)
(* pages through, the daily issue briefing, which reads rows and source    *)
(* bodies in two transactions, and the production package of a ranking.    *)
(* Meanwhile the crawler rescores boards, time makes them inactive, the    *)
(* analysis gives them tags and summaries, and a scheduler records the     *)
(* ranking of a day.                                                       *)
(***************************************************************************)
EXTENDS Integers, Sequences, FiniteSets, SequencesExt, BoardRanking, IssueBriefing, ShortsPackage

CONSTANTS
  Boards,          \* numbers, in the order of their ids
  Created,         \* created_at of a board: boards may share one
  TieOrders,       \* what a query may order equal rows by: functions of Boards
  Site, Url, Title, Tags,    \* functions of Boards; Tags once analysed
  TextOfTitle, Summary,      \* the texts of ShortsPackage
  Today,           \* boards created since midnight in Seoul
  Scores,          \* scores; those of all boards decay at one rate
  Bodies,          \* what contents of a board may be
  Starts,          \* the boards at the start
  PageSizes, Filters,        \* requests for lists; a filter is a set of sites
  Limit,           \* of the briefing, 1..10
  MaxChanges       \* bound on the changes of boards

ASSUME FeedAssumption ==
  /\ Boards \subseteq Nat \ {0} /\ IsFiniteSet(Boards)
  /\ Created \in [Boards -> Int] /\ TieOrders \subseteq [Boards -> Int]
  /\ \A tie \in TieOrders : \A b, c \in Boards : b # c => tie[b] # tie[c]
  /\ Site \in [Boards -> Int] /\ Scores \subseteq Int /\ Today \subseteq Boards
  /\ \A b \in Boards : Title[b].key \in Int /\ Title[b].length \in Int
  /\ TextOfTitle \in [Boards -> Seq(BOOLEAN)] /\ Summary \in [Boards -> Seq(BOOLEAN)]
  /\ Starts \subseteq [Boards -> [score : Scores, likes : Nat, active : BOOLEAN,
                                  analysed : BOOLEAN, contents : Bodies]]
  /\ PageSizes \subseteq Nat \ {0} /\ Limit \in 1..10 /\ MaxChanges \in Nat
  /\ TopLimit \in Nat \ {0}

VARIABLES
  board,     \* board[b]: the row of b
  history,   \* the recorded ranking of a past day: daily_top10_snapshots
  reader,    \* a reader paging through a list
  briefing,  \* a request for the briefing
  package,   \* the last package, and the ranking it was built from
  changes    \* changes of boards (bound)

vars == <<board, history, reader, briefing, package, changes>>

NoReader == [daily |-> FALSE, size |-> 0, filter |-> {}, pages |-> <<>>, steady |-> TRUE]
NoBriefing == [phase |-> "idle", posts |-> {}, first |-> <<>>, issues |-> <<>>, excerpts |-> {}]
NoPackage == [ranking |-> <<>>, outcome |-> {}]

Init ==
  /\ board \in Starts
  /\ history = <<>>
  /\ reader = NoReader
  /\ briefing = NoBriefing
  /\ package = NoPackage
  /\ changes = 0

-----------------------------------------------------------------------------
(* The boards change *)

Change(b, row) ==
  /\ changes < MaxChanges
  /\ row # board[b]
  /\ board' = [board EXCEPT ![b] = row]
  /\ reader' = [reader EXCEPT !.steady = reader = NoReader]
  /\ changes' = changes + 1
  /\ UNCHANGED <<history, briefing, package>>

Crawl(b, score, contents) ==
  Change(b, [board[b] EXCEPT !.score = score, !.active = TRUE, !.contents = contents])

\* 48 hours, or 7 days for the daily list, without activity.
Age(b) == Change(b, [board[b] EXCEPT !.active = FALSE])
Analyse(b) == Change(b, [board[b] EXCEPT !.analysed = TRUE])

-----------------------------------------------------------------------------
(* Lists *)

\* Requests share nothing but the boards: one of them is under way at a time.
Free == reader = NoReader /\ briefing = NoBriefing /\ package = NoPackage

\* ORDER BY of the lists: the daily one prefers the most liked of equals.
RowKey(b, daily) ==
  <<-board[b].score, IF daily THEN -board[b].likes ELSE -Created[b], -Created[b]>>

\* Rows with one key come in an order of the query's own, here by tie.
RowBefore(b, c, daily, tie) ==
  Precedes(Append(RowKey(b, daily), tie[b]), Append(RowKey(c, daily), tie[c]))
Rows(S, daily, tie) == Ordered(S, {p \in S \X S : RowBefore(p[1], p[2], daily, tie)})

Slice(s, from, to) == SubSeq(s, from, IF to < Len(s) THEN to ELSE Len(s))

Candidate(b) ==
  [id |-> b, site |-> Site[b], score |-> board[b].score,
   created |-> Created[b], active |-> board[b].active]

\* Faulty: a page of each site, whatever the offset.
SiteCandidatesOfPage(daily, target, size, tie) ==
  UNION {ToSet(Slice(Rows({b \in Boards : Site[b] = s}, daily, tie), 1, size)) :
           s \in {Site[b] : b \in Boards}}

\* The first target rows of each site.
SiteCandidates(daily, target, size, tie) ==
  UNION {ToSet(Slice(Rows({b \in Boards : Site[b] = s}, daily, tie), 1, target)) :
           s \in {Site[b] : b \in Boards}}

BalancedBoards(daily, target, size, tie) ==
  LET selected == BalanceSiteExposure(
                    {Candidate(b) : b \in SiteCandidates(daily, target, size, tie)}, target) IN
  [i \in DOMAIN selected |-> selected[i].id]

\* A page of a list; only the unfiltered list is balanced.
ListBoards(daily, index, size, filter, tie) ==
  LET offset == index * size IN
  Slice(IF filter = {} THEN BalancedBoards(daily, offset + size, size, tie)
        ELSE Rows({b \in Boards : Site[b] \in filter}, daily, tie),
        offset + 1, offset + size)

OpenList(daily, size, filter) ==
  /\ Free
  /\ \E tie \in TieOrders :
       reader' = [daily |-> daily, size |-> size, filter |-> filter, steady |-> TRUE,
                  pages |-> <<ListBoards(daily, 0, size, filter, tie)>>]
  /\ UNCHANGED <<board, history, briefing, package, changes>>

\* The reader goes on while pages are full.
ReadPage ==
  /\ reader # NoReader
  /\ Len(Last(reader.pages)) = reader.size
  /\ \E tie \in TieOrders :
       reader' = [reader EXCEPT !.pages =
         Append(@, ListBoards(reader.daily, Len(@), reader.size, reader.filter, tie))]
  /\ UNCHANGED <<board, history, briefing, package, changes>>

CloseList ==
  /\ reader # NoReader
  /\ reader' = NoReader
  /\ UNCHANGED <<board, history, briefing, package, changes>>

-----------------------------------------------------------------------------
(* The briefing *)

Post(b) ==
  [id |-> b, site |-> Site[b], url |-> Url[b], created |-> Created[b], title |-> Title[b],
   tags |-> IF board[b].analysed THEN Tags[b] ELSE {},
   source |-> IF board[b].analysed THEN "ai" ELSE "pending"]

\* Faulty: a body for every post that waits for its analysis.
ExcerptIdsOfAll(posts, issues) == {p.id : p \in {q \in posts : q.source = "pending"}}

\* The posts listed under an issue that has no summary.
ExcerptIds(posts, issues) ==
  UNION {issues[r].examples : r \in {q \in DOMAIN issues : issues[q].source = "pending"}}

ReadPosts ==
  /\ Free
  /\ LET posts == {Post(b) : b \in Today}
         issues == BuildIssueBriefing(posts, Limit) IN
     briefing' = [phase |-> IF ExcerptIds(posts, issues) = {} THEN "answered" ELSE "grouped",
                  posts |-> posts, first |-> issues, issues |-> issues, excerpts |-> {}]
  /\ UNCHANGED <<board, history, reader, package, changes>>

ReadBodies ==
  /\ briefing.phase = "grouped"
  /\ LET ids == ExcerptIds(briefing.posts, briefing.first)
         excerpts == {p.id : p \in {q \in briefing.posts :
                        q.id \in ids /\ HasExcerpt(board[q.id].contents, q.title)}}
         enriched == {IF p.id \in excerpts THEN [p EXCEPT !.source = "source_excerpt"] ELSE p :
                        p \in briefing.posts} IN
     briefing' = [briefing EXCEPT !.phase = "answered", !.excerpts = excerpts,
                    !.issues = BuildIssueBriefing(enriched, Limit)]
  /\ UNCHANGED <<board, history, reader, package, changes>>

CloseBriefing ==
  /\ briefing.phase = "answered"
  /\ briefing' = NoBriefing
  /\ UNCHANGED <<board, history, reader, package, changes>>

-----------------------------------------------------------------------------
(* Packages *)

\* The scheduler records the ranking of the day that ends.
RecordDay ==
  /\ history = <<>>
  /\ \E tie \in TieOrders : history' = ListBoards(TRUE, 0, TopLimit, {}, tie)
  /\ UNCHANGED <<board, reader, briefing, package, changes>>

PackageBoard(b) ==
  [id |-> b, url |-> Url[b], title |-> TextOfTitle[b],
   summary |-> IF board[b].analysed THEN Summary[b] ELSE <<>>,
   tags |-> IF board[b].analysed THEN {t.key : t \in Tags[b]} ELSE {}]

\* Faulty: the boards of the day as they rank now.
DailyHistoryOfToday == Rows(ToSet(history), TRUE, Created)

\* The recorded ranks, the boards as they are now.
DailyHistory == history

\* Not found without a board; ValueError when a narration does not fit.
BuildPackage(ranking, recorded) ==
  /\ Free
  /\ ranking # <<>>
  /\ \E built \in Packages([r \in DOMAIN ranking |-> PackageBoard(ranking[r])]) :
       package' = [ranking |-> recorded,
                   outcome |-> {p \in {built} : TimingsValid(p.scenes)}]
  /\ UNCHANGED <<board, history, reader, briefing, changes>>

ClosePackage ==
  /\ package # NoPackage
  /\ package' = NoPackage
  /\ UNCHANGED <<board, history, reader, briefing, changes>>

BuildLive ==
  \E tie \in TieOrders :
    LET live == ListBoards(TRUE, 0, TopLimit, {}, tie) IN BuildPackage(live, live)
BuildHistorical == BuildPackage(DailyHistory, history)

Next ==
  \/ \E b \in Boards : Age(b) \/ Analyse(b)
                       \/ \E score \in Scores, contents \in Bodies : Crawl(b, score, contents)
  \/ \E daily \in BOOLEAN, size \in PageSizes, filter \in Filters : OpenList(daily, size, filter)
  \/ ReadPage \/ CloseList
  \/ ReadPosts \/ ReadBodies \/ CloseBriefing
  \/ RecordDay \/ BuildLive \/ BuildHistorical \/ ClosePackage

Spec == Init /\ [][Next]_vars

-----------------------------------------------------------------------------
(* Properties *)

Selection == {b \in Boards : reader.filter = {} \/ Site[b] \in reader.filter}
Exhausted == reader # NoReader /\ Len(Last(reader.pages)) < reader.size

NothingTwice ==
  \A p, q \in DOMAIN reader.pages :
    \A i \in DOMAIN reader.pages[p], j \in DOMAIN reader.pages[q] :
      reader.pages[p][i] = reader.pages[q][j] => p = q /\ i = j
NothingMissing ==
  Exhausted => UNION {ToSet(reader.pages[p]) : p \in DOMAIN reader.pages} = Selection

\* In every site the order of the rows is that of the candidates, and the
\* board at its head is active unless none is.
Regular ==
  \A b, c \in Boards : Site[b] = Site[c] /\ b # c =>
    /\ Precedes(RowKey(b, reader.daily), RowKey(c, reader.daily))
         => /\ Ahead(Candidate(b), Candidate(c))
            /\ board[c].active => \E d \in Boards : 
                 Site[d] = Site[b] /\ board[d].active
                 /\ ~Precedes(RowKey(b, reader.daily), RowKey(d, reader.daily))

\* No query of the list has rows with one key: it has the boards of the filter
\* or, without one, of a site.
KeysDiffer ==
  \A b, c \in Selection :
    b # c /\ (reader.filter # {} \/ Site[b] = Site[c])
      => RowKey(b, reader.daily) # RowKey(c, reader.daily)

\* Page by page, with a limit on the rows of each site that grows with the
\* page, a reader of boards that do not change meanwhile sees each of them
\* once, when no two rows tie and, in the unfiltered list, no site has an
\* inactive board ahead of its active ones.
PagesStable ==
  reader.steady /\ KeysDiffer /\ (reader.filter # {} \/ Regular)
    => NothingTwice /\ NothingMissing

\* What the comments of ranking.py say of every list, here of one whose rows
\* do not tie: pages stay together wherever inactive boards are.
PagesComplete == reader.steady /\ KeysDiffer => NothingTwice /\ NothingMissing

\* Reading bodies gives summaries to issues and changes nothing else of them:
\* the issues for which bodies were read are those of the answer; an issue
\* stays without a summary only if no post listed under it has prose.
BriefingKeepsIssues ==
  briefing.phase = "answered" =>
    /\ Len(briefing.issues) = Len(briefing.first)
    /\ \A r \in DOMAIN briefing.issues :
         LET before == briefing.first[r] after == briefing.issues[r] IN
         /\ [after EXCEPT !.source = before.source, !.summarised = before.summarised] = before
         /\ before.source = "ai" => after = before
         /\ after.source = "pending" => after.examples \cap briefing.excerpts = {}

\* A package is always built: its narrations fit their scenes, the scenes abut
\* and count the ranks down, and the ranks are those of its ranking.
PackageRenders ==
  package # NoPackage =>
    /\ package.outcome # {}
    /\ \A p \in package.outcome : LET n == Len(p.sources) IN
       /\ [r \in 1..n |-> p.sources[r].id] = package.ranking
       /\ \A i \in 1..(n + 1) :
            p.scenes[i + 1].start = p.scenes[i].start + p.scenes[i].duration
       /\ [i \in 1..n |-> p.scenes[i + 1].rank] = Reverse([r \in 1..n |-> r])
       /\ p.duration = p.scenes[n + 2].start + p.scenes[n + 2].duration
=============================================================================
