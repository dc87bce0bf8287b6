--------------------------- MODULE IssueBriefing ---------------------------
(***************************************************************************)
(* build_issue_briefing: today's posts of public interest grouped into     *)
(* issues.  A post has an id, a site, a url, a time, the source of its     *)
(* summary, tags, and a title: a key that orders titles, a length, its     *)
(* significant terms, and the signals that the patterns of the code find   *)
(* in it; a tag has a key, its signals, and whether it names an event      *)
(* (several terms and not a generic one).                                  *)
(***************************************************************************)
EXTENDS Integers, Sequences, FiniteSets, SequencesExt, FiniteSetsExt, BoardRanking

-----------------------------------------------------------------------------
(* Source excerpts *)

MinExcerpt == 20   \* letters and digits

\* The blocks that hold source prose: text, and no instruction to a model.
ProseBlock(block) == block.kind = "text" /\ ~block.instruction /\ ~block.marked

\* Is there an excerpt?  Lines count once, the title and source footers never.
HasExcerpt(contents, title) ==
  LET lines == UNION {block.lines : block \in {b \in contents : ProseBlock(b)}}
      shown == {l \in lines : l.key # title.key /\ ~l.footer} IN
  MapThenSumSet(LAMBDA l : l.letters, shown) >= MinExcerpt

-----------------------------------------------------------------------------
(* Posts of public interest *)

EventTags(p) == {t \in p.tags : t.event}
Signals(p) == p.title.signals \cup UNION {t.signals : t \in p.tags}

\* "school": an event word that a teaser may use, "company": an event of the
\* industry, whatever its games; a game board's url is a signal of entertainment.
IsSocial(p) ==
  LET adult == "adult" \in p.title.signals
      civic == Signals(p) \cap {"public", "harm"} # {} IN
  /\ adult => civic
  /\ IF "entertainment" \in Signals(p) THEN "company" \in Signals(p)
     ELSE adult \/ Signals(p) \cap {"social", "public", "school"} # {}

SummaryPriority(p) ==
  CASE p.source = "ai" -> 2 [] p.source = "source_excerpt" -> 1 [] p.source = "pending" -> 0

\* One mention of a source: the best summary, then the newest copy.
MentionKey(p) == <<-SummaryPriority(p), -p.created, p.id>>
UniqueMentions(posts) ==
  LET social == {p \in posts : IsSocial(p)} IN
  {p \in social : \A q \in social \ {p} :
     q.site = p.site /\ q.url = p.url => Precedes(MentionKey(p), MentionKey(q))}

BriefingKey(p) ==
  <<IF EventTags(p) # {} THEN 0 ELSE 1, p.title.length, p.title.key, p.id>>

\* The mentions in the order in which they are grouped.
OrderedMentions(posts) ==
  LET mentions == UniqueMentions(posts) IN
  Ordered(mentions, {p \in mentions \X mentions : Precedes(BriefingKey(p[1]), BriefingKey(p[2]))})

-----------------------------------------------------------------------------
(* Groups *)

\* The group that title_groups remembers for the title of p: that of the first post with it.
TitleGroup(groups, p) ==
  {g \in DOMAIN groups : \E q \in ToSet(groups[g]) :
     /\ q.title.key = p.title.key
     /\ \A h \in DOMAIN groups : \A r \in ToSet(groups[h]) :
          r.title.key = p.title.key => ~Precedes(BriefingKey(r), BriefingKey(q))}

\* How well a post matches a group, as a fraction; 0 when it does not.  All
\* but the title is compared with the first post of the group.
Match(p, groups, g) ==
  LET first == groups[g][1]
      shared == Cardinality(p.title.terms \cap first.title.terms)
      all == Cardinality(p.title.terms \cup first.title.terms) IN
  IF g \in TitleGroup(groups, p) THEN <<1, 1>>
  ELSE IF EventTags(p) \cap EventTags(first) # {} THEN <<9, 10>>
  ELSE IF shared >= 2 /\ 20 * shared >= 9 * all THEN <<shared, all>>
  ELSE <<0, 1>>

Better(m, n) == m[1] * n[2] > n[1] * m[2]

\* The first of the best matching groups takes the post.
Placed(groups, p) ==
  LET matching == {g \in DOMAIN groups : Match(p, groups, g)[1] > 0}
      best == {g \in matching : \A h \in matching :
                 /\ ~Better(Match(p, groups, h), Match(p, groups, g))
                 /\ h < g => Better(Match(p, groups, g), Match(p, groups, h))} IN
  IF matching = {} THEN Append(groups, <<p>>)
  ELSE [g \in DOMAIN groups |-> IF g \in best THEN Append(groups[g], p) ELSE groups[g]]

\* The groups of the first n candidates, for each n.
Groupings(candidates) ==
  LET prefix[n \in 0..Len(candidates)] ==
        IF n = 0 THEN <<>> ELSE Placed(prefix[n - 1], candidates[n]) IN
  prefix

SitesOfGroup(group) == {p.site : p \in ToSet(group)}
Newest(group) ==
  LET times == {p.created : p \in ToSet(group)} IN
  CHOOSE t \in times : \A u \in times : u <= t

\* Equal groups stay in the order in which they were formed.
GroupKey(groups, g) ==
  <<-Len(groups[g]), -Cardinality(SitesOfGroup(groups[g])), -Newest(groups[g]),
    groups[g][1].title.key, g>>

Groups(posts) ==
  LET candidates == OrderedMentions(posts)
      formed == Groupings(candidates)[Len(candidates)]
      ids == DOMAIN formed
      order == Ordered(ids, {p \in ids \X ids :
                 Precedes(GroupKey(formed, p[1]), GroupKey(formed, p[2]))}) IN
  [r \in ids |-> formed[order[r]]]

-----------------------------------------------------------------------------
(* Issues *)

\* Shortest headline first.
HeadlineKey(p) == <<p.title.length, p.title.key, p.id>>
Headlines(group) ==
  Ordered(ToSet(group), {p \in ToSet(group) \X ToSet(group) :
                           Precedes(HeadlineKey(p[1]), HeadlineKey(p[2]))})

\* One example of a site, of three sites at most.
Examples(group) ==
  LET ordered == Headlines(group)
      first == {i \in DOMAIN ordered : \A j \in 1..(i - 1) : ordered[j].site # ordered[i].site} IN
  {ordered[i] : i \in {k \in first : Cardinality({j \in first : j < k}) < 3}}

Representative(group) == Headlines(group)[1]

IssueSource(group) ==
  LET sources == {p.source : p \in ToSet(group)} IN
  IF "ai" \in sources THEN "ai"
  ELSE IF "source_excerpt" \in sources THEN "source_excerpt" ELSE "pending"

Issue(group) ==
  [id |-> Representative(group).id, source |-> IssueSource(group), count |-> Len(group),
   sites |-> SitesOfGroup(group), examples |-> {p.id : p \in Examples(group)},
   summarised |-> {p.id : p \in {q \in ToSet(group) : q.source = IssueSource(group)}}]

\* The issues in the order of their ranks.
BuildIssueBriefing(posts, limit) ==
  LET groups == Groups(posts) IN
  [r \in 1..(IF limit < Len(groups) THEN limit ELSE Len(groups)) |-> Issue(groups[r])]
=============================================================================
