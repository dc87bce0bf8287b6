---------------------------- MODULE MCBoardFeed ----------------------------
(* Instance of BoardFeed for TLC: five boards of two sites.  Boards 2 and 3  *)
(* are copies of one post and share its created_at, so that their rows tie   *)
(* while their scores are equal; 1 and 4 report one event in different       *)
(* words; a tag joins 5 to them; the title of 2 and 3 is a civic event of a  *)
(* game.                                                                     *)
EXTENDS BoardFeed, TLC

FiveBoards == 1..5
SiteOf == <<1, 1, 1, 2, 2>>
CreatedAt == <<1, 2, 2, 3, 4>>
TwoOrders == {[b \in FiveBoards |-> b], [b \in FiveBoards |-> -b]}
UrlOf == <<11, 12, 12, 14, 0>>

Headline(key, length, terms, signals) ==
  [key |-> key, length |-> length, terms |-> terms, signals |-> signals]
TitleOf ==
  <<Headline(1, 4, {"fire", "harbour", "night"}, {"public"}),
    Headline(2, 3, {"studio", "strike"}, {"entertainment", "company"}),
    Headline(2, 3, {"studio", "strike"}, {"entertainment", "company"}),
    Headline(3, 2, {"fire", "harbour", "crews"}, {"public"}),
    Headline(4, 5, {"smoke"}, {"adult", "public"})>>

EventTag == [key |-> "harbourfire", event |-> TRUE, signals |-> {}]
SocialTag == [key |-> "society", event |-> FALSE, signals |-> {"social"}]
TagsOf == <<{EventTag, SocialTag}, {SocialTag}, {SocialTag}, {}, {EventTag}>>

TextOf == [b \in FiveBoards |-> Spoken(IF b = 1 THEN 40 ELSE 6 * (b - 2))]
SummaryOf == [b \in FiveBoards |-> Spoken(18 + b)]

Line(key, letters, footer) == [key |-> key, letters |-> letters, footer |-> footer]
Block(kind, instruction, marked, lines) ==
  [kind |-> kind, instruction |-> instruction, marked |-> marked, lines |-> lines]
Prose == {Block("text", FALSE, FALSE, {Line(1, 12, FALSE), Line(9, 21, FALSE)})}
NoProse == {Block("image", FALSE, FALSE, {Line(9, 40, FALSE)}),
            Block("text", TRUE, FALSE, {Line(9, 40, FALSE)}),
            Block("text", FALSE, TRUE, {Line(9, 40, FALSE)}),
            Block("text", FALSE, FALSE, {Line(9, 19, FALSE), Line(8, 30, TRUE)})}
TwoBodies == {Prose, NoProse}

Start(scores, idle, analysed, prose) ==
  [b \in FiveBoards |->
     [score |-> scores[b], likes |-> 6 - b, active |-> b \notin idle,
      analysed |-> b \in analysed, contents |-> IF b \in prose THEN Prose ELSE NoProse]]

TwoStarts ==
  {Start(<<6, 6, 6, 5, 5>>, {}, {}, {2}), Start(<<6, 5, 6, 6, 5>>, {3}, {1, 4}, {3, 5})}

TwoSites == {{}, {1}}
ThreeFixed == {"today", "issues", "shorts"}
=============================================================================
