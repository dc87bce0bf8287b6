------------------------- MODULE MCRefreshSessions -------------------------
(* Instance of RefreshSessions for TLC: two tabs of one browser and another *)
(* browser of the same account.                                             *)
EXTENDS RefreshSessions, TLC

CONSTANTS b1, b2, r1, r2, r3, t1, t2

Origin == (r1 :> b1) @@ (r2 :> b1) @@ (r3 :> b2)

\* Up to the names of tokens and browsers: if a legacy token is left, it is t2,
\* and the browser with two tabs has a token where the account is known.
MCInit ==
  /\ Init
  /\ account.legacy # t1
  /\ account.known => cookie[b1] # NoToken

MCSpec == MCInit /\ [][Next]_vars /\ Fairness
=============================================================================
