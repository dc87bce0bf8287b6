---------------------------- MODULE BoardRanking ----------------------------
(***************************************************************************)
(* balance_site_exposure: the order of a board list, in which every active *)
(* site opens once and a site that has appeared pays for each repetition.  *)
(* Identities, sites and times are numbers, compared as the code compares  *)
(* strings and timestamps.                                                 *)
(***************************************************************************)
EXTENDS Integers, Sequences, FiniteSets, SequencesExt

\* Tuples of numbers as Python compares them.
Precedes(k, l) ==
  \E i \in DOMAIN k : k[i] < l[i] /\ \A j \in 1..(i - 1) : k[j] = l[j]

\* The members of S in an order, a set of pairs.
Place(x, S, order) == 1 + Cardinality({y \in S : <<y, x>> \in order})
Ordered(S, order) == [k \in 1..Cardinality(S) |-> CHOOSE x \in S : Place(x, S, order) = k]

CleanScore(score) == IF score < 0 THEN 0 ELSE score
CandidateKey(c) == <<-CleanScore(c.score), -c.created, c.site, c.id>>
Ahead(c, d) == Precedes(CandidateKey(c), CandidateKey(d))
Foremost(S) == CHOOSE c \in S : \A d \in S \ {c} : Ahead(c, d)

SitesOf(S) == {c.site : c \in S}
BestOfSites(S) == {Foremost({c \in S : c.site = s}) : s \in SitesOf(S)}

FirstExposure(candidates) ==
  LET best == BestOfSites({c \in candidates : c.active}) IN
  Ordered(best, {p \in best \X best : Ahead(p[1], p[2])})

\* score / (1 + REPEAT_EXPOSURE_PENALTY * exposures), the penalty being 1/2.
Outranks(c, d, exposures) ==
  LET x == CleanScore(c.score) * (2 + exposures[d.site])
      y == CleanScore(d.score) * (2 + exposures[c.site]) IN
  x > y \/ (x = y /\ Ahead(c, d))

NextSelected(selected, candidates) ==
  LET available == BestOfSites(candidates \ ToSet(selected))
      exposures == [s \in SitesOf(candidates) |->
        Cardinality({i \in DOMAIN selected : selected[i].site = s})] IN
  CHOOSE c \in available : \A d \in available \ {c} : Outranks(c, d, exposures)

\* The first n of the order, for each n: the first exposures, then one by one.
Selections(candidates) ==
  LET first == FirstExposure(candidates)
      prefix[n \in 0..Cardinality(candidates)] ==
        IF n = 0 THEN <<>>
        ELSE LET selected == prefix[n - 1] IN
             Append(selected, IF n <= Len(first) THEN first[n]
                              ELSE NextSelected(selected, candidates)) IN
  prefix

\* The order of limit candidates; all of them when there are fewer.
BalanceSiteExposure(candidates, limit) ==
  Selections(candidates)[IF limit < Cardinality(candidates) THEN limit
                         ELSE Cardinality(candidates)]
=============================================================================
