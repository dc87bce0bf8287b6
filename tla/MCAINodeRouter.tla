--------------------------- MODULE MCAINodeRouter ---------------------------
(* Instances of AINodeRouter for TLC: nodes that differ in rank, priority and *)
(* weight, and the rows they start with.                                      *)
EXTENDS AINodeRouter, TLC

CONSTANTS n1, n2, analysis, chat

FreshNode ==
  [listed |-> "live", enabled |-> TRUE, health |-> "unknown", failures |-> 0,
   cooling |-> FALSE, limit |-> 2]

SingleRows == {[FreshNode EXCEPT !.limit = 1]}
\* A node, and one that is not there yet.
LeftRows == {FreshNode, [FreshNode EXCEPT !.listed = "never"]}
StartRows == LeftRows \cup SingleRows

RankOrder == (n1 :> 1) @@ (n2 :> 2)
OnePriority == (n1 :> 100) @@ (n2 :> 100)
Weights == (n1 :> 2) @@ (n2 :> 1)
\* r1 asks for analysis, the others for chat.
TwoCapabilities ==
  [r \in Requests |-> IF r = CHOOSE q \in Requests : TRUE THEN analysis ELSE chat]
ServesAll == [n \in Nodes |-> Capabilities]
=============================================================================
