-------------------------- MODULE MCInferencePath --------------------------
(* Instance of InferencePath for TLC: boards that differ in what their text and *)
(* their images yield, and texts of many shapes for the truncation.            *)
EXTENDS InferencePath

Plain(signal, len, chars, letters, ref, title) ==
  [signal |-> signal, len |-> len, chars |-> chars, letters |-> letters,
   ref |-> ref, title |-> title]

Title == Plain(<<9>>, 4, 4, 4, "no", "same")
ShortTitle == Plain(<<8>>, 2, 2, 2, "no", "same")
Small == Plain(<<1>>, 3, 3, 2, "no", "apart")
TitleAgain == Plain(<<3>>, 8, 7, 6, "no", "starts")
Digits == Plain(<<6>>, 7, 7, 1, "no", "apart")
FileName == Plain(<<5>>, 5, 4, 3, "path", "apart")
LongReading == Plain(<<21>>, 8, 8, 7, "no", "apart")
ShortReading == Plain(<<22>>, 2, 2, 2, "no", "apart")

MCReadings == {LongReading, ShortReading}
MCInside == {<<ShortReading.signal, Small.signal>>}

MCBlock(kind, text, alt, path) ==
  [kind |-> kind, text |-> text, alt |-> alt, path |-> path, url |-> FALSE]
TextOf(t) == MCBlock("text", t, NoText, "none")
Picture(t) == MCBlock("image", t, NoText, "usable")
Broken == MCBlock("image", NoText, NoText, "unusable")

\* Boards whose body is too short without their images.
PictureBoards ==
  {[title |-> Title, contents |-> c] :
     c \in {<<TextOf(Small), Broken, Picture(NoText), Picture(NoText)>>,
            <<Picture(Small), TextOf(Title), Picture(FileName)>>,
            <<TextOf(TitleAgain), Broken>>,
            <<TextOf(Digits), MCBlock("video", NoText, Small, "none"), Picture(NoText)>>,
            <<TextOf(NoText)>>}}

\* Boards that are long enough, of many shapes, for the truncation.
Shapes == UNION {[1..n -> {1, 2, 6, 13}] : n \in 1..4}
TextBoards ==
  {[title |-> t, contents |-> [i \in DOMAIN s |->
      TextOf(Plain(<<i>>, s[i], s[i], s[i], "no", "apart"))]] :
     t \in {NoText, Title, ShortTitle}, s \in Shapes}

Case(board, caller, via, token, timeout, images) ==
  [board |-> board, caller |-> caller, via |-> via, token |-> token,
   timeout |-> timeout, images |-> images, longPrompt |-> FALSE]

PictureCases ==
  {Case(b, "worker", v, "right", t, 2) :
     b \in PictureBoards, v \in {"service", "direct"}, t \in ClientTimeouts}
  \cup {Case(b, "worker", "service", k, 6, n) :
          b \in PictureBoards, k \in {"wrong", "unset"}, n \in {0, 1}}
  \cup {Case(b, "endpoint", v, "right", 6, 2) :
          b \in PictureBoards, v \in {"service", "direct"}}

MCSetups ==
  PictureCases
  \cup {[Case(b, "endpoint", "service", "right", 6, 2) EXCEPT !.longPrompt = TRUE] :
          b \in PictureBoards}
  \cup {Case(b, "worker", "direct", "right", 6, 2) : b \in TextBoards}

MCCandidates == [analysis |-> <<1, 2>>, vision |-> <<2, 3>>]
MCEndpoints == <<1, 2>>
=============================================================================
