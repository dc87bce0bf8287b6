---------------------------- MODULE LeasedQueue ----------------------------
(***************************************************************************)
(* What the analysis queue promises of each board: one worker at a time    *)
(* holds it, with tries left; the worker gives it back done or failed, or  *)
(* loses it; and only an administrator reopens a failed board.  Nothing is *)
(* promised of a board once a claim of it has outlived its time, but that  *)
(* a stored result stays.                                                  *)
(***************************************************************************)
EXTENDS Integers

CONSTANTS Boards, Workers, MaxTries

VARIABLES
  status,    \* status[b]: pending, processing, done or failed, or lapsed
  holders,   \* holders[b]: the workers that hold b
  tries,     \* tries[b]: failures that count against b
  result     \* result[b]: b has a result

vars == <<status, holders, tries, result>>

Open(b) == status[b] = "pending" => tries[b] < MaxTries

Init ==
  /\ status \in [Boards -> {"pending", "done", "failed", "lapsed"}]
  /\ holders = [b \in Boards |-> {}]
  /\ tries \in [Boards -> Nat]
  /\ result \in [Boards -> BOOLEAN]
  /\ \A b \in Boards : Open(b)

\* A worker without a board takes one that nobody holds; a board with a result is
\* done at once.
Take(w, b) ==
  /\ \A c \in Boards : w \notin holders[c]
  /\ holders[b] = {}
  /\ status[b] \in {"pending", "failed"} /\ tries[b] < MaxTries
  /\ holders' = [holders EXCEPT ![b] = {w}]
  /\ status' = [status EXCEPT ![b] = IF result[b] THEN "done" ELSE "processing"]
  /\ UNCHANGED <<tries, result>>

GiveBack(w, b) ==
  /\ holders[b] = {w}
  /\ holders' = [holders EXCEPT ![b] = {}]

Answer(w, b) ==
  /\ GiveBack(w, b)
  /\ status[b] = "processing" /\ ~result[b]
  /\ status' = [status EXCEPT ![b] = "done"]
  /\ result' = [result EXCEPT ![b] = TRUE]
  /\ UNCHANGED tries

\* A board fails with its last try; a failure that does not count against it
\* leaves it one.
Fail(w, b) ==
  /\ GiveBack(w, b)
  /\ status[b] = "processing"
  /\ \E n \in {tries[b], tries[b] + 1} :
       /\ tries' = [tries EXCEPT ![b] = n]
       /\ \/ n < MaxTries /\ status' = [status EXCEPT ![b] = "pending"]
          \/ n = MaxTries /\ status' = [status EXCEPT ![b] = "failed"]
  /\ UNCHANGED result

\* The worker finds the board done, or dies: the board stays as it is.
Leave(w, b) ==
  /\ GiveBack(w, b)
  /\ UNCHANGED <<status, tries, result>>

Reopen(b) ==
  /\ status[b] = "failed" /\ holders[b] = {}
  /\ status' = [status EXCEPT ![b] = "pending"]
  /\ tries' = [tries EXCEPT ![b] = 0]
  /\ UNCHANGED <<holders, result>>

\* A board with a result is seen to be done.
Notice(b) ==
  /\ result[b] /\ status[b] \in {"pending", "failed"} /\ holders[b] = {}
  /\ status' = [status EXCEPT ![b] = "done"]
  /\ UNCHANGED <<holders, tries, result>>

Lapse(b) ==
  /\ status[b] = "processing"
  /\ status' = [status EXCEPT ![b] = "lapsed"]
  /\ holders' = [holders EXCEPT ![b] = {}]
  /\ tries' = [tries EXCEPT ![b] = 0]
  /\ UNCHANGED result

\* A worker that lost its claim answers after all.
AnswerLate(b) ==
  /\ status[b] = "lapsed"
  /\ result' = [result EXCEPT ![b] = TRUE]
  /\ UNCHANGED <<status, holders, tries>>

Next == \E b \in Boards :
  \/ \E w \in Workers : Take(w, b) \/ Answer(w, b) \/ Fail(w, b) \/ Leave(w, b)
  \/ Reopen(b) \/ Notice(b) \/ Lapse(b) \/ AnswerLate(b)

Spec == Init /\ [][Next]_vars
=============================================================================
