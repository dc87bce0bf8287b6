--------------------------- MODULE ShortsPackage ---------------------------
(***************************************************************************)
(* build_top10_shorts_package: the production package of a ranking.  A     *)
(* text is the sequence of its characters, TRUE for a letter or a digit;   *)
(* prompts and fixed wording are left out.  A board has title and summary, *)
(* such texts, a url (positive: a public http address) and a set of tags.  *)
(***************************************************************************)
EXTENDS Integers, Sequences, FiniteSets, SequencesExt

CONSTANTS
  TopLimit,       \* TOP10_LIMIT
  MaxHashtags,    \* 8, three of them fixed
  FixedHashtags   \* #오늘의TOP10 or #커뮤니티TOP10, #커뮤니티이슈, #Shorts

IntroSeconds == 3
RankSceneSeconds == 5
OutroSeconds == 6
NarrationCharactersPerSecond == 6
RankNarrationMaxCharacters == 30
HookCharacters == 16    \* spoken characters of the hook, at its longest
OutroCharacters == 21

Spoken(n) == [i \in 1..n |-> TRUE]
Silent(n) == [i \in 1..n |-> FALSE]

\* The last character of a clipped text is an ellipsis.
Clip(text, max) ==
  IF Len(text) <= max THEN text ELSE SubSeq(text, 1, max - 1) \o Silent(1)

SpokenIn(text) == Cardinality({i \in DOMAIN text : text[i]})

\* Rounded to tenths of a second.
NarrationTenths(spoken) == (20 * spoken + NarrationCharactersPerSecond)
                             \div (2 * NarrationCharactersPerSecond)

RankDigits(rank) == IF rank < 10 THEN 1 ELSE 2
DefaultTitle(rank) ==
  Spoken(3) \o Silent(1) \o Spoken(RankDigits(rank)) \o Silent(1) \o Spoken(3)

Source(board, rank) ==
  [rank |-> rank, id |-> board.id, url |-> board.url,
   title |-> IF board.title = <<>> THEN DefaultTitle(rank) ELSE Clip(board.title, 100),
   summary |-> Clip(board.summary, 400),
   hasSummary |-> board.summary # <<>>, isValid |-> board.url > 0]

Sources(boards) ==
  [r \in 1..(IF Len(boards) < TopLimit THEN Len(boards) ELSE TopLimit) |-> Source(boards[r], r)]

DuplicateSourceRanks(sources) ==
  {r \in DOMAIN sources : \E q \in 1..(r - 1) :
     sources[q].id = sources[r].id \/ sources[q].url = sources[r].url}

\* Faulty: the parts are clipped, the sentence is not.
RankNarrationUnclipped(source) ==
  LET rank == Spoken(RankDigits(source.rank) + 1) \o Silent(2) IN
  IF source.hasSummary
  THEN rank \o Clip(source.title, 16) \o Silent(2) \o Clip(source.summary, 20)
  ELSE rank \o Clip(source.title, 30) \o Spoken(3) \o Silent(1)

\* "<rank>위, <title>. <summary>" or "<rank>위, <title>입니다."
RankNarration(source) ==
  LET rank == Spoken(RankDigits(source.rank) + 1) \o Silent(2) IN
  Clip(IF source.hasSummary
       THEN rank \o Clip(source.title, 16) \o Silent(2) \o Clip(source.summary, 20)
       ELSE rank \o Clip(source.title, 30) \o Spoken(3) \o Silent(1),
       RankNarrationMaxCharacters)

Scene(order, start, duration, spoken, rank) ==
  [order |-> order, start |-> start, duration |-> duration, spoken |-> spoken, rank |-> rank]

\* The countdown: the last rank comes first.
RankingScenes(sources) ==
  [i \in DOMAIN sources |->
     LET source == sources[Len(sources) + 1 - i] IN
     Scene(i + 1, IntroSeconds + (i - 1) * RankSceneSeconds, RankSceneSeconds,
           SpokenIn(RankNarration(source)), source.rank)]

OutroStart(sources) == IntroSeconds + Len(sources) * RankSceneSeconds

Scenes(sources) ==
  <<Scene(1, 0, IntroSeconds, HookCharacters, 0)>> \o RankingScenes(sources)
  \o <<Scene(Len(sources) + 2, OutroStart(sources), OutroSeconds, OutroCharacters, 0)>>

\* _validate_scene_timings raises ValueError otherwise.
TimingsValid(scenes) ==
  \A i \in DOMAIN scenes : NarrationTenths(scenes[i].spoken) <= 10 * scenes[i].duration

Hashtags(boards) ==
  LET more == UNION {boards[i].tags : i \in DOMAIN boards} \ FixedHashtags
      room == MaxHashtags - Cardinality(FixedHashtags) IN
  {FixedHashtags \cup some : some \in
     IF Cardinality(more) <= room THEN {more}
     ELSE {s \in SUBSET more : Cardinality(s) = room}}

\* The packages of a ranking: which tags remain depends on their order.
Packages(boards) ==
  LET sources == Sources(boards)
      missing == {r \in DOMAIN sources : ~sources[r].hasSummary}
      invalid == {r \in DOMAIN sources : ~sources[r].isValid} IN
  [sources : {sources}, scenes : {Scenes(sources)}, hashtags : Hashtags(boards),
   duration : {OutroStart(sources) + OutroSeconds}, missing : {missing},
   dataReady : {Len(sources) = TopLimit /\ missing = {} /\ invalid = {}
                /\ DuplicateSourceRanks(sources) = {}}]
=============================================================================
