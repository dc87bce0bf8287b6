--------------------------- MODULE AnalysisInput ---------------------------
(***************************************************************************)
(* What board-service makes of the stored contents of a board before a     *)
(* model sees them: blocks are normalised, the body is weighed, the text is *)
(* cut to a character budget.                                              *)
(*                                                                         *)
(* A text is a record of what this code measures in it; its characters are *)
(* left out.  A rendered text is the sequence of the lengths of its lines. *)
(***************************************************************************)
EXTENDS Integers, SequencesExt

CONSTANTS
  Marker,      \* length of TRUNCATION_MARKER
  MinPart,     \* MIN_TRUNCATED_PART_CHARS
  Tag,         \* length of the "[image] " put before the text of a medium
  MinTitle,    \* MIN_TITLE_SIGNAL_FOR_PARTIAL_REMOVAL
  MinBody,     \* AI_ANALYSIS_MIN_BODY_CHARS
  MinLetters,  \* AI_ANALYSIS_MIN_LANGUAGE_CHARS
  Inside,      \* <<s, t>>: signal s occurs within signal t
  NoText       \* None, or a text that strip() empties

\* signal: identity of the casefolded alphanumeric characters, a sequence of
\* pieces; chars, letters: how many of them, and how many are alphabetic.
\* ref: the text parses as a URL, or as the path of a media file.
\* title: how the signal lies to that of the title.
Text == [signal: Seq(Nat), len: Nat \ {0}, chars: Nat, letters: Nat,
         ref: {"no", "url", "path"}, title: {"apart", "same", "starts", "ends"}]

MediaKinds == {"image", "video"}

\* A block of the JSON column; path: what media_path names.  An unusable file is
\* damaged, of another format, outside the media root, or beyond the limits on bytes
\* and pixels; that a usable one is missing is not the block's doing.
Block == [kind: MediaKinds \cup {"text"}, text: Text \cup {NoText},
          alt: Text \cup {NoText}, path: {"none", "unusable", "usable"}, url: BOOLEAN]

ASSUME InputAssumption ==
  /\ {Marker, MinPart, Tag, MinTitle, MinBody, MinLetters} \subseteq Nat \ {0}
  /\ NoText \notin Text

-----------------------------------------------------------------------------
(* Sequences *)

\* The sum of the first n members, for each n.
Sums(s) == LET sum[n \in 0..Len(s)] == IF n = 0 THEN 0 ELSE sum[n - 1] + s[n] IN sum

SumSeq(s) == Sums(s)[Len(s)]

\* The members at the places in S, of the first n, for each n.
Picks(s, S) ==
  LET pick[n \in 0..Len(s)] ==
        IF n = 0 THEN <<>>
        ELSE IF n \in S THEN Append(pick[n - 1], s[n]) ELSE pick[n - 1]
  IN  pick

Pick(s, S) == Picks(s, S)[Len(s)]

-----------------------------------------------------------------------------
(* Normalisation *)

FirstText(s, t) == IF s # NoText THEN s ELSE t

TextBlock(t) == [kind |-> "text", text |-> t, alt |-> NoText, path |-> "none",
                 url |-> FALSE]

NormalizeBlock(b) ==
  IF b.kind \in MediaKinds THEN b ELSE TextBlock(FirstText(b.text, b.alt))

Empty(b) == b.text = NoText /\ b.alt = NoText /\ b.path = "none" /\ ~b.url

NormalizeContents(contents) ==
  LET blocks == [i \in DOMAIN contents |-> NormalizeBlock(contents[i])]
  IN  Pick(blocks, {i \in DOMAIN blocks : ~Empty(blocks[i])})

\* The text that an image gets once the vision model has read v on it.
Joined(t, v) ==
  [signal  |-> t.signal \o v.signal,
   len     |-> t.len + 1 + v.len,
   chars   |-> t.chars + v.chars,
   letters |-> t.letters + v.letters,
   ref     |-> IF t.ref = "url" THEN "url" ELSE v.ref,
   title   |-> IF t.title \in {"same", "starts"} THEN "starts"
               ELSE IF v.title \in {"same", "ends"} THEN "ends" ELSE "apart"]

Enriched(b, v) ==
  [b EXCEPT !.text = IF b.text = NoText \/ <<v.signal, b.text.signal>> \in Inside
                     THEN v ELSE Joined(b.text, v)]

-----------------------------------------------------------------------------
(* Sufficiency of the body *)

\* _without_title_signal
WithoutTitle(t, title) ==
  IF title = NoText \/ title.chars = 0 \/ t.title = "apart" THEN t
  ELSE IF t.title = "same" THEN [t EXCEPT !.chars = 0, !.letters = 0]
  ELSE IF title.chars < MinTitle THEN t
  ELSE [t EXCEPT !.signal = Append(@, 0), !.chars = @ - title.chars,
                 !.letters = @ - title.letters]

\* Each signal counts once, whichever blocks repeat it.
BodySignals(blocks, title) ==
  LET texts == {b.text : b \in ToSet(blocks)} \cup {b.alt : b \in ToSet(blocks)}
      net == {WithoutTitle(t, title) : t \in {u \in texts \ {NoText} : u.ref = "no"}}
  IN  {[signal |-> t.signal, chars |-> t.chars, letters |-> t.letters] :
         t \in {u \in net : u.chars > 0}}

HasSufficientBody(blocks, title) ==
  LET signals == BodySignals(blocks, title)
  IN  /\ MapThenSumSet(LAMBDA s : s.chars, signals) >= MinBody
      /\ MapThenSumSet(LAMBDA s : s.letters, signals) >= MinLetters

-----------------------------------------------------------------------------
(* Truncation *)

\* Length of the parts joined by newlines.
Rendered(parts) == IF parts = <<>> THEN 0 ELSE SumSeq(parts) + Len(parts) - 1

\* Title first, then the text of every block that has one.
LlmParts(title, blocks) ==
  LET text(b) == FirstText(b.text, b.alt)
      length(b) == text(b).len + (IF b.kind \in MediaKinds THEN Tag ELSE 0)
      with == {i \in DOMAIN blocks : text(blocks[i]) # NoText}
  IN  (IF title = NoText THEN <<>> ELSE <<title.len>>)
      \o Pick([i \in DOMAIN blocks |-> IF i \in with THEN length(blocks[i]) ELSE 0], with)

\* The length of a value clipped to max: its head, an ellipsis, its tail.
ClipMiddle(len, max) ==
  LET head == (2 * (max - 1) + 2) \div 3
      tail == max - 1 - head
  IN  IF len <= max THEN len
      ELSE IF max <= 0 THEN 0
      ELSE IF max <= 3 THEN max
      ELSE head + 1 + (IF tail > 0 THEN tail ELSE 0)

\* The first and the last body parts, at most as many as get MinPart each.
SelectBodyParts(parts, budget) ==
  LET fit == (budget + 1) \div (MinPart + 1)
      most == IF fit > 1 THEN fit ELSE 1
      head == (most + 1) \div 2
      tail == most - head
  IN  IF budget <= 0 THEN <<>>
      ELSE IF Len(parts) <= most THEN parts
      ELSE SubSeq(parts, 1, head) \o SubSeq(parts, Len(parts) - tail + 1, Len(parts))

\* One turn of the loop: the parts no longer than an equal share of what remains
\* get their length.
FairTurn(lengths, s) ==
  LET fit == {i \in s.active : lengths[i] <= s.remaining \div Cardinality(s.active)}
  IN  IF s.active = {} \/ s.remaining <= 0 THEN s
      ELSE [active |-> s.active \ fit,
            remaining |-> s.remaining
              - SumSeq([i \in DOMAIN lengths |-> IF i \in fit THEN lengths[i] ELSE 0])]

\* The parts that have no limit yet, and what remains, after each turn.
FairTurns(lengths, budget) ==
  LET turn[k \in 0..Len(lengths)] ==
        IF k = 0 THEN [active |-> DOMAIN lengths, remaining |-> budget]
        ELSE FairTurn(lengths, turn[k - 1])
  IN  turn

\* Whoever is left when nobody fits divides what remains evenly, the first ones
\* taking the remainder.
FairPartLimits(lengths, budget) ==
  LET last == FairTurns(lengths, budget)[Len(lengths)]
      share == last.remaining \div Cardinality(last.active)
      extra == last.remaining % Cardinality(last.active)
      position(i) == Cardinality({j \in last.active : j < i})
  IN  [i \in DOMAIN lengths |->
         IF i \notin last.active THEN lengths[i]
         ELSE IF last.remaining <= 0 THEN 0
         ELSE share + (IF position(i) < extra THEN 1 ELSE 0)]

NonZero(lengths) == Pick(lengths, {i \in DOMAIN lengths : lengths[i] > 0})

\* Faulty: the newlines between the selected parts are not paid for.
CutForgettingNewlines(parts, max) ==
  LET budget == max - Head(parts) - Marker - 2
      selected == SelectBodyParts(Tail(parts), budget)
      limits == FairPartLimits(selected, budget)
      clipped == [i \in DOMAIN selected |-> ClipMiddle(selected[i], limits[i])]
      result == <<Head(parts)>> \o NonZero(clipped) \o <<Marker>>
  IN  IF max <= 0 THEN <<>>
      ELSE IF Head(parts) + Marker + 2 >= max \/ Len(parts) = 1
           THEN <<ClipMiddle(Head(parts), max)>>
      ELSE IF Rendered(result) <= max THEN result ELSE <<max>>

\* parts are longer than max: the first is kept, the others share what is left,
\* and the marker ends the text.
Cut(parts, max) ==
  LET budget == max - Head(parts) - Marker - 2
      selected == SelectBodyParts(Tail(parts), budget)
      content == budget - (IF Len(selected) > 1 THEN Len(selected) - 1 ELSE 0)
      limits == FairPartLimits(selected, IF content > 0 THEN content ELSE 0)
      clipped == [i \in DOMAIN selected |-> ClipMiddle(selected[i], limits[i])]
      result == <<Head(parts)>> \o NonZero(clipped) \o <<Marker>>
  IN  IF max <= 0 THEN <<>>
      ELSE IF Head(parts) + Marker + 2 >= max \/ Len(parts) = 1
           THEN <<ClipMiddle(Head(parts), max)>>
      ELSE IF Rendered(result) <= max THEN result ELSE <<max>>

TruncateAnalysisParts(parts, max) ==
  IF Rendered(parts) <= max THEN parts ELSE Cut(parts, max)

\* The copy in gpt-service, which receives the rendered text.
TruncateAnalysisContent(parts, max) ==
  IF Rendered(parts) <= max THEN parts ELSE Cut(parts, max)

-----------------------------------------------------------------------------
(* What truncation promises, defined without its algorithm *)

\* Shares of a budget are max-min fair: a part that was clipped got at least as
\* much as any other part, up to the one character of rounding.
MaxMinFair(lengths, limits, budget) ==
  /\ SumSeq(limits) = (IF SumSeq(lengths) < budget THEN SumSeq(lengths) ELSE budget)
  /\ \A i, j \in DOMAIN lengths :
       /\ limits[i] <= lengths[i]
       /\ limits[i] < lengths[i] => limits[j] <= limits[i] + 1
=============================================================================
