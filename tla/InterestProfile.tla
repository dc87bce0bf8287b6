--------------------------- MODULE InterestProfile ---------------------------
(***************************************************************************)
(* The interest profile of a board-service account and what a mutation     *)
(* does to it: clean_profile and apply_mutation, on data reduced to what   *)
(* decides.  Tags are sets, because their order is read nowhere; a moment  *)
(* is a number.                                                            *)
(***************************************************************************)
EXTENDS Integers, FiniteSets

CONSTANTS
  Tags,         \* normalised tags
  Signals,      \* kind of an event with its target: a board or a tag
  Tagged,       \* signals whose board has tags (the server looks them up)
  Retention,    \* RETENTION: 30 days
  Skew,         \* how far ahead a client's clock may be: 5 minutes
  Day,          \* length of a day
  EventLimit,   \* 500
  TagLimit      \* 100

ASSUME ProfileAssumption ==
  /\ Tagged \subseteq Signals
  /\ Retention \in Nat
  /\ Skew \in Nat
  /\ Day \in Nat \ {0}
  /\ EventLimit \in Nat
  /\ TagLimit \in Nat

Never == -1    \* resetAt = None: before every moment

FiniteSubsets(S) == {T \in SUBSET S : IsFiniteSet(T)}

Event == [signal: Signals, at: Nat]

Profile == [enabled: BOOLEAN, events: FiniteSubsets(Event), followed: FiniteSubsets(Tags),
            hidden: FiniteSubsets(Tags), resetAt: Nat \cup {Never}]

Kinds == {"record", "follow", "unfollow", "hide", "unhide", "reset", "enable",
          "disable", "merge"}

NewProfile ==
  [enabled |-> TRUE, events |-> {}, followed |-> {}, hidden |-> {}, resetAt |-> Never]

-----------------------------------------------------------------------------
(* clean_profile *)

\* Faulty: what the user erased by a reset is let in again.
CurrentForgetful(e, p, now) ==
  now - Retention <= e.at /\ e.at <= now + Skew /\ e.signal \in Tagged

Current(e, p, now) ==
  /\ now - Retention <= e.at /\ e.at <= now + Skew
  /\ e.at > p.resetAt
  /\ e.signal \in Tagged

SameSignal(e, f) == e.signal = f.signal /\ e.at \div Day = f.at \div Day

\* The latest ones; which of several events of one moment is left out is open.
Newest(E) ==
  IF Cardinality(E) <= EventLimit THEN E
  ELSE CHOOSE N \in SUBSET E :
         /\ Cardinality(N) = EventLimit
         /\ \A e \in N, f \in E \ N : f.at <= e.at

\* One signal of each kind per target and day, the latest.
CleanEvents(p, now) ==
  LET current == {e \in p.events : Current(e, p, now)}
  IN  Newest({e \in current : \A f \in current : SameSignal(e, f) => f.at <= e.at})

CleanProfile(p, now) == [p EXCEPT !.events = CleanEvents(p, now)]

-----------------------------------------------------------------------------
(* apply_mutation *)

\* Lists of tags keep their first TagLimit members: new tags get the room left.
Extend(S, T) ==
  IF Cardinality(S \cup T) <= TagLimit THEN S \cup T
  ELSE CHOOSE U \in SUBSET (S \cup T) : S \subseteq U /\ Cardinality(U) = TagLimit

Least(i, j) == IF i < j THEN i ELSE j

Merge(p, incoming) ==
  LET hidden == Extend(p.hidden, incoming.hidden)
  IN  [p EXCEPT !.events = IF p.enabled THEN @ \cup incoming.events ELSE @,
                !.hidden = hidden,
                !.followed = Extend(@, incoming.followed) \ hidden]

Hide(p, tag) == [p EXCEPT !.hidden = Extend(@, {tag}), !.followed = @ \ {tag}]

Effect(p, m, now) ==
  CASE m.kind = "reset" ->
         [NewProfile EXCEPT !.enabled = p.enabled, !.resetAt = Least(m.at, now)]
    [] m.kind = "enable" -> [p EXCEPT !.enabled = TRUE]
    [] m.kind = "disable" -> [p EXCEPT !.enabled = FALSE]
    [] m.kind = "record" ->
         IF p.enabled THEN [p EXCEPT !.events = @ \cup m.events] ELSE p
    [] m.kind = "merge" -> Merge(p, CleanProfile(m.profile, now))
    [] m.kind = "follow" ->
         [p EXCEPT !.followed = Extend(@, {m.tag}), !.hidden = @ \ {m.tag}]
    [] m.kind = "unfollow" -> [p EXCEPT !.followed = @ \ {m.tag}]
    [] m.kind = "hide" -> Hide(p, m.tag)
    [] m.kind = "unhide" -> [p EXCEPT !.hidden = @ \ {m.tag}]

\* Faulty: a late mutation meets no reset.
ApplicableLate(p, m, now) == now - Retention <= m.at /\ m.at <= now + Skew

\* A mutation that is too old, too far ahead, or from before the reset has no effect.
Applicable(p, m, now) ==
  /\ now - Retention <= m.at /\ m.at <= now + Skew
  /\ m.at > p.resetAt

ApplyMutation(p, m, now) ==
  LET clean == CleanProfile(p, now)
  IN  IF Applicable(clean, m, now) THEN CleanProfile(Effect(clean, m, now), now)
      ELSE clean

\* Faulty: the cleanup waits for the newest event.
NextCleanupLate(p) ==
  IF p.events = {} THEN Never
  ELSE (CHOOSE t \in {e.at : e \in p.events} : \A e \in p.events : t >= e.at)
         + Retention + 1

\* next_cleanup: when the oldest event expires, and a second.
NextCleanup(p) ==
  IF p.events = {} THEN Never
  ELSE (CHOOSE t \in {e.at : e \in p.events} : \A e \in p.events : t <= e.at)
         + Retention + 1
=============================================================================
