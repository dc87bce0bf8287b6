------------------------ MODULE RefreshSessionsProofs ------------------------
(***************************************************************************)
(* Proofs about RefreshSessions, for any account, browsers and requests:   *)
(* SessionsInv is inductive, and with it a token is exchanged once, a      *)
(* browser that lost no answer keeps its session, and no session ends but  *)
(* by its own rotation or expiry.                                          *)
(***************************************************************************)
EXTENDS RefreshSessions, TLAPS

USE SessionsAssumption DEF Tokens

\* Request r, neither committed nor answered, may become p: it holds locks that are
\* free, on rows that exist, and stands where RouteInv wants it.
InOrder(r, p) ==
  /\ req[r].pc \notin {"granted", "done"}
  /\ p.pc \notin {"new", "granted"} /\ p.result # "rotated"
  /\ p.pc # "done" => p.result = "none"
  /\ p.rows \subseteq stored
  /\ p.rows # {} \/ p.user => p.pc = "deleting"
  /\ \A q \in Requests \ {r} :
       p.rows \cap req[q].rows = {} /\ ~(p.user /\ req[q].user)
  /\ \/ p.token = req[r].token
     \/ p.token = cookie[BrowserOf[r]] /\ p.token # NoToken
  /\ p.now \subseteq expired
  /\ p.pc = "inserting" => p.token = NoToken /\ p.route = "login"
  /\ p.pc \in {"sent", "matching", "migrating"} => p.token \in Tokens
  /\ p.pc = "matching" => p.token \notin p.now
  /\ p.pc = "migrating" => p.token \notin stored
  /\ p.pc = "deleting" =>
       /\ p.route \in {"session", "legacy", "login"}
       /\ p.rows \subseteq p.now \cup {p.token}
       /\ p.route = "session" => p.token \in p.rows /\ ~p.user
       /\ p.route = "legacy" =>
            p.user /\ account.legacy = p.token /\ p.token \in Tokens \ stored
       /\ p.route = "login" => p.token = NoToken

\* A step that changes nothing but one request preserves SessionsInv if it leaves
\* that request in order.
LEMMA OwnStep ==
  ASSUME SessionsInv, NEW r \in Requests, NEW p \in Request, InOrder(r, p),
         req' = [req EXCEPT ![r] = p], faults' \in 0..MaxFaults,
         UNCHANGED <<account, stored, expired, cookie, cutOff>>
  PROVE  SessionsInv'
<1>1. /\ req \in [Requests -> Request]
      /\ req'[r] = p
      /\ \A q \in Requests \ {r} : req'[q] = req[q]
  BY DEF SessionsInv, TypeOK
<1>2. TypeOK'
  BY <1>1 DEF SessionsInv, TypeOK
<1>3. LocksInv'
  BY <1>1 DEF SessionsInv, InOrder, LocksInv
<1>4. RouteInv'
  BY <1>1 DEF SessionsInv, InOrder, RouteInv
<1>5. ~Rotated(r) /\ ~Rotated(r)'
  BY <1>1 DEF SessionsInv, InOrder, SecretInv, Rotated
<1>6. ConsumedInv'
  BY <1>1, <1>5 DEF SessionsInv, InOrder, ConsumedInv, Rotated, Live
<1>7. SecretInv'
  <2>1. \A q \in Requests : req[q].pc # "done" => p.token # q
    BY DEF SessionsInv, InOrder, SecretInv, OwnerInv, TypeOK
  <2>2. QED
    BY <1>1, <2>1 DEF SessionsInv, InOrder, SecretInv
<1>8. OwnerInv'
  BY <1>1 DEF SessionsInv, InOrder, OwnerInv
<1>9. RotatedOnce'
  BY <1>1, <1>5 DEF SessionsInv, InOrder, RotatedOnce, Rotated
<1>10. CookieIsLive'
  BY <1>1, <1>5 DEF SessionsInv, InOrder, CookieIsLive, Rotated, Live
<1>11. QED
  BY <1>2, <1>3, <1>4, <1>6, <1>7, <1>8, <1>9, <1>10 DEF SessionsInv

-----------------------------------------------------------------------------
(* The steps of one request *)

LEMMA RefreshStep ==
  ASSUME SessionsInv, NEW r \in Requests, Refresh(r)
  PROVE  SessionsInv'
<1>. DEFINE p == [req[r] EXCEPT !.pc = "sent", !.token = cookie[BrowserOf[r]]]
<1>1. /\ req[r] \in Request /\ faults \in 0..MaxFaults
      /\ cookie[BrowserOf[r]] \in Tokens
  BY DEF SessionsInv, TypeOK, Refresh
<1>2. p \in Request /\ req' = [req EXCEPT ![r] = p]
  BY <1>1 DEF Refresh, Request, Phases
<1>3. /\ req[r].result = "none" /\ req[r].rows = {} /\ ~req[r].user
      /\ req[r].now \subseteq expired
  BY <1>1 DEF SessionsInv, SecretInv, LocksInv, RouteInv, Refresh, Request
<1>4. /\ p.pc = "sent" /\ p.token = cookie[BrowserOf[r]] /\ p.now = req[r].now
      /\ p.result = "none" /\ p.rows = {} /\ ~p.user
  BY <1>1, <1>3 DEF Request
<1>. HIDE DEF p
<1>5. InOrder(r, p)
  BY <1>1, <1>2, <1>3, <1>4 DEF InOrder, Refresh
<1>6. QED
  BY <1>1, <1>2, <1>3, <1>4, <1>5, OwnStep DEF Refresh

\* A request that ends without cookies holds nothing any more.
LEMMA RolledBackStep ==
  ASSUME SessionsInv, NEW r \in Requests, NEW result \in {"denied", "error"},
         req' = [req EXCEPT ![r] = RolledBack(@, result)],
         req[r].pc \notin {"granted", "done"},
         UNCHANGED <<account, stored, expired, cookie, cutOff>>, faults' \in 0..MaxFaults
  PROVE  SessionsInv'
<1>. DEFINE p == RolledBack(req[r], result)
<1>1. req[r] \in Request /\ req[r].now \subseteq expired
  BY DEF SessionsInv, TypeOK, RouteInv
<1>2. /\ p \in Request /\ req' = [req EXCEPT ![r] = p]
      /\ p.pc = "done" /\ p.result = result /\ p.rows = {} /\ ~p.user
      /\ p.token = req[r].token /\ p.now = req[r].now
  BY <1>1 DEF RolledBack, Request, Phases, Results
<1>. HIDE DEF p
<1>3. InOrder(r, p)
  BY <1>1, <1>2 DEF InOrder
<1>4. QED
  BY <1>1, <1>2, <1>3, OwnStep

LEMMA DecodeStep ==
  ASSUME SessionsInv, NEW r \in Requests, Decode(r)
  PROVE  SessionsInv'
<1>. DEFINE p == [req[r] EXCEPT !.pc = "matching", !.now = expired]
<1>1. /\ req[r] \in Request /\ faults \in 0..MaxFaults
      /\ expired \in SUBSET Tokens
  BY DEF SessionsInv, TypeOK
<1>2. CASE req[r].token \in expired \/ ~account.known
  BY <1>1, <1>2, RolledBackStep DEF Decode
<1>3. CASE ~(req[r].token \in expired \/ ~account.known)
  <2>1. p \in Request /\ req' = [req EXCEPT ![r] = p]
    BY <1>1, <1>3 DEF Decode, Request, Phases
  <2>2. /\ req[r].result = "none" /\ req[r].rows = {} /\ ~req[r].user
        /\ req[r].token \in Tokens
    BY <1>1 DEF SessionsInv, SecretInv, LocksInv, RouteInv, Decode, Request
  <2>3. /\ p.pc = "matching" /\ p.token = req[r].token /\ p.now = expired
        /\ p.result = "none" /\ p.rows = {} /\ ~p.user
    BY <1>1, <2>2 DEF Request
  <2>. HIDE DEF p
  <2>4. InOrder(r, p)
    BY <1>1, <1>3, <2>1, <2>2, <2>3 DEF InOrder, Decode
  <2>5. QED
    BY <1>1, <1>3, <2>1, <2>2, <2>3, <2>4, OwnStep DEF Decode
<1>4. QED
  BY <1>2, <1>3

LEMMA MatchSessionStep ==
  ASSUME SessionsInv, NEW r \in Requests, MatchSession(r)
  PROVE  SessionsInv'
<1>. DEFINE t == req[r].token
            hit == [req[r] EXCEPT !.pc = "deleting", !.route = "session", !.rows = {t}]
            miss == [req[r] EXCEPT !.pc = "migrating"]
<1>1. /\ req[r] \in Request /\ faults \in 0..MaxFaults
      /\ req[r].result = "none" /\ req[r].rows = {} /\ ~req[r].user
      /\ t \in Tokens /\ t \notin req[r].now /\ req[r].now \subseteq expired
  BY DEF SessionsInv, TypeOK, SecretInv, LocksInv, RouteInv, MatchSession, Request
<1>2. CASE t \in stored \ req[r].now
  <2>1. hit \in Request /\ req' = [req EXCEPT ![r] = hit]
    BY <1>1, <1>2 DEF MatchSession, Request, Phases, Routes
  <2>2. /\ hit.pc = "deleting" /\ hit.route = "session" /\ hit.rows = {t}
        /\ hit.token = t /\ hit.now = req[r].now /\ hit.result = "none" /\ ~hit.user
    BY <1>1 DEF Request
  <2>3. \A q \in Requests \ {r} : t \notin req[q].rows
    BY <1>2 DEF MatchSession, RowLocked
  <2>. HIDE DEF hit
  <2>4. InOrder(r, hit)
    BY <1>1, <1>2, <2>1, <2>2, <2>3 DEF InOrder, MatchSession
  <2>5. QED
    BY <1>1, <1>2, <2>1, <2>2, <2>3, <2>4, OwnStep DEF MatchSession
<1>3. CASE t \notin stored \ req[r].now
  <2>1. miss \in Request /\ req' = [req EXCEPT ![r] = miss]
    BY <1>1, <1>3 DEF MatchSession, Request, Phases
  <2>2. /\ miss.pc = "migrating" /\ miss.token = t /\ miss.now = req[r].now
        /\ miss.result = "none" /\ miss.rows = {} /\ ~miss.user
    BY <1>1 DEF Request
  <2>. HIDE DEF miss
  <2>3. InOrder(r, miss)
    BY <1>1, <1>3, <2>1, <2>2 DEF InOrder, MatchSession
  <2>4. QED
    BY <1>1, <1>3, <2>1, <2>2, <2>3, OwnStep DEF MatchSession
<1>4. QED
  BY <1>2, <1>3

LEMMA MatchLegacyStep ==
  ASSUME SessionsInv, NEW r \in Requests, MatchLegacy(r)
  PROVE  SessionsInv'
<1>. DEFINE t == req[r].token
            p == [req[r] EXCEPT !.pc = "deleting", !.route = "legacy", !.user = TRUE]
<1>1. /\ req[r] \in Request /\ faults \in 0..MaxFaults
      /\ req[r].result = "none" /\ req[r].rows = {}
      /\ t \in Tokens \ stored /\ req[r].now \subseteq expired
  BY DEF SessionsInv, TypeOK, SecretInv, LocksInv, RouteInv, MatchLegacy, Request
<1>2. CASE account.legacy = t
  <2>1. p \in Request /\ req' = [req EXCEPT ![r] = p]
    BY <1>1, <1>2 DEF MatchLegacy, Request, Phases, Routes
  <2>2. /\ p.pc = "deleting" /\ p.route = "legacy" /\ p.rows = {} /\ p.user
        /\ p.token = t /\ p.now = req[r].now /\ p.result = "none"
    BY <1>1 DEF Request
  <2>3. \A q \in Requests \ {r} : ~req[q].user
    BY <1>2 DEF MatchLegacy, UserLocked
  <2>. HIDE DEF p
  <2>4. InOrder(r, p)
    BY <1>1, <1>2, <2>1, <2>2, <2>3 DEF InOrder, MatchLegacy
  <2>5. QED
    BY <1>1, <1>2, <2>1, <2>2, <2>3, <2>4, OwnStep DEF MatchLegacy
<1>3. CASE account.legacy # t
  BY <1>1, <1>3, RolledBackStep DEF MatchLegacy
<1>4. QED
  BY <1>2, <1>3

LEMMA CallbackStep ==
  ASSUME SessionsInv, NEW r \in Requests, Callback(r)
  PROVE  SessionsInv'
<1>1. /\ req[r] \in Request /\ faults \in 0..MaxFaults
      /\ account.known \in BOOLEAN /\ expired \in SUBSET Tokens
      /\ req[r].pc = "new" /\ req[r].result = "none"
      /\ req[r].rows = {} /\ ~req[r].user
  BY DEF SessionsInv, TypeOK, SecretInv, LocksInv, Callback, Request
<1>2. req[r].token = NoToken
  BY <1>1 DEF SessionsInv, RouteInv
<1>3. PICK renames \in BOOLEAN :
        req' = [req EXCEPT ![r] =
          [@ EXCEPT !.pc = IF account.known THEN "deleting" ELSE "inserting",
                    !.route = "login", !.renames = renames /\ account.known,
                    !.now = expired]]
  BY DEF Callback
<1>. DEFINE p == [req[r] EXCEPT !.pc = IF account.known THEN "deleting" ELSE "inserting",
                                !.route = "login",
                                !.renames = renames /\ account.known,
                                !.now = expired]
<1>4. p \in Request /\ req' = [req EXCEPT ![r] = p]
  BY <1>1, <1>3 DEF Request, Phases, Routes
<1>5. /\ p.pc \in {"deleting", "inserting"} /\ p.route = "login" /\ p.now = expired
      /\ p.token = NoToken /\ p.result = "none" /\ p.rows = {} /\ ~p.user
  BY <1>1, <1>2 DEF Request
<1>. HIDE DEF p
<1>6. InOrder(r, p)
  BY <1>1, <1>2, <1>5 DEF InOrder
<1>7. QED
  BY <1>1, <1>4, <1>6, OwnStep DEF Callback

LEMMA InsertUserStep ==
  ASSUME SessionsInv, NEW r \in Requests, InsertUser(r)
  PROVE  SessionsInv'
<1>. DEFINE p == [req[r] EXCEPT !.pc = "deleting", !.user = TRUE, !.now = expired]
<1>1. /\ req[r] \in Request /\ faults \in 0..MaxFaults
      /\ expired \in SUBSET Tokens
      /\ req[r].pc = "inserting" /\ req[r].result = "none" /\ req[r].rows = {}
      /\ req[r].route = "login" /\ req[r].token = NoToken
  BY DEF SessionsInv, TypeOK, SecretInv, LocksInv, RouteInv, InsertUser, Request
<1>2. CASE account.known
  BY <1>1, <1>2, RolledBackStep DEF InsertUser
<1>3. CASE ~account.known
  <2>1. p \in Request /\ req' = [req EXCEPT ![r] = p]
    BY <1>1, <1>3 DEF InsertUser, Request, Phases
  <2>2. /\ p.pc = "deleting" /\ p.route = "login" /\ p.now = expired /\ p.user
        /\ p.token = NoToken /\ p.result = "none" /\ p.rows = {}
    BY <1>1 DEF Request
  <2>3. \A q \in Requests \ {r} : ~req[q].user
    BY <1>3 DEF InsertUser, UserLocked
  <2>. HIDE DEF p
  <2>4. InOrder(r, p)
    BY <1>1, <2>2, <2>3 DEF InOrder
  <2>5. QED
    BY <1>1, <2>1, <2>4, OwnStep DEF InsertUser
<1>4. QED
  BY <1>2, <1>3

LEMMA DeleteExpiredStep ==
  ASSUME SessionsInv, NEW r \in Requests, NEW t \in Tokens, DeleteExpired(r, t)
  PROVE  SessionsInv'
<1>. DEFINE p == [req[r] EXCEPT !.rows = @ \cup {t}]
<1>1. /\ req[r] \in Request /\ faults \in 0..MaxFaults
      /\ req[r].pc = "deleting" /\ req[r].result = "none"
      /\ req[r].rows \subseteq stored /\ req[r].now \subseteq expired
      /\ t \in stored /\ t \in req[r].now
  BY DEF SessionsInv, TypeOK, SecretInv, LocksInv, RouteInv, DeleteExpired, ExpiredRows
<1>2. p \in Request /\ req' = [req EXCEPT ![r] = p]
  BY <1>1 DEF DeleteExpired, Request
<1>3. /\ p.pc = "deleting" /\ p.route = req[r].route /\ p.now = req[r].now
      /\ p.user = req[r].user /\ p.token = req[r].token /\ p.result = "none"
      /\ p.rows = req[r].rows \cup {t}
  BY <1>1 DEF Request
<1>4. \A q \in Requests \ {r} : t \notin req[q].rows
  BY DEF DeleteExpired, RowLocked
<1>5. \A q \in Requests \ {r} :
        req[r].rows \cap req[q].rows = {} /\ ~(req[r].user /\ req[q].user)
  BY DEF SessionsInv, LocksInv
<1>6. /\ req[r].route \in {"session", "legacy", "login"}
      /\ req[r].rows \subseteq req[r].now \cup {req[r].token}
      /\ req[r].route = "session" => req[r].token \in req[r].rows /\ ~req[r].user
      /\ req[r].route = "legacy" =>
           /\ req[r].user /\ account.legacy = req[r].token
           /\ req[r].token \in Tokens \ stored
      /\ req[r].route = "login" => req[r].token = NoToken
  BY <1>1 DEF SessionsInv, RouteInv
<1>. HIDE DEF p
<1>7. InOrder(r, p)
  BY <1>1, <1>3, <1>4, <1>5, <1>6 DEF InOrder
<1>8. QED
  BY <1>1, <1>2, <1>7, OwnStep DEF DeleteExpired

LEMMA FailStep ==
  ASSUME SessionsInv, NEW r \in Requests, Fail(r)
  PROVE  SessionsInv'
<1>1. faults' \in 0..MaxFaults
  BY DEF SessionsInv, TypeOK, Fail
<1>2. req[r].pc \notin {"granted", "done"}
  BY DEF Fail, InTransaction
<1>3. QED
  BY <1>1, <1>2, RolledBackStep DEF Fail

LEMMA BreakDeadlockStep ==
  ASSUME SessionsInv, NEW r \in Requests, BreakDeadlock(r)
  PROVE  SessionsInv'
<1>1. faults \in 0..MaxFaults
  BY DEF SessionsInv, TypeOK
<1>2. Blockers(r) # {}
  BY DEF BreakDeadlock, Deadlocked
<1>3. req[r].pc \notin {"granted", "done"}
  BY <1>2 DEF Blockers
<1>4. QED
  BY <1>1, <1>3, RolledBackStep DEF BreakDeadlock

-----------------------------------------------------------------------------
(* Commits, answers and time *)

\* What a commit does to its request and to the two places where tokens are kept.
LEMMA CommitEffect ==
  ASSUME SessionsInv, NEW r \in Requests, Commit(r)
  PROVE  /\ TypeOK'
         /\ \A q \in Requests \ {r} : req'[q] = req[q]
         /\ req'[r].pc = "granted" /\ req'[r].rows = {} /\ ~req'[r].user
         /\ req'[r].token = req[r].token /\ req'[r].now = req[r].now
         /\ req'[r].result = (IF req[r].route = "login" THEN "loggedIn" ELSE "rotated")
         /\ stored' = (stored \ req[r].rows) \cup {r}
         /\ account'.legacy \in {account.legacy, NoToken}
         /\ account'.legacy # account.legacy => account.legacy = req[r].token
         /\ Rotated(r)' => req[r].token \in Tokens /\ Live(req[r].token) /\ ~Live(req[r].token)'
<1>. DEFINE p == [req[r] EXCEPT !.pc = "granted", !.rows = {}, !.user = FALSE,
                    !.result = IF req[r].route = "login" THEN "loggedIn" ELSE "rotated"]
<1>1. /\ req \in [Requests -> Request] /\ req[r] \in Request
      /\ account.legacy \in OldTokens \cup {NoToken} /\ account.known \in BOOLEAN
      /\ stored \in SUBSET Tokens
      /\ req[r].pc = "deleting"
  BY DEF SessionsInv, TypeOK, Commit
<1>2. /\ p \in Request /\ p.pc = "granted" /\ p.rows = {} /\ ~p.user
      /\ p.token = req[r].token /\ p.now = req[r].now
      /\ p.result = (IF req[r].route = "login" THEN "loggedIn" ELSE "rotated")
  BY <1>1 DEF Request, Phases, Results
<1>3. req' = [req EXCEPT ![r] = p]
  BY DEF Commit
<1>. HIDE DEF p
<1>4. req'[r] = p /\ \A q \in Requests \ {r} : req'[q] = req[q]
  BY <1>1, <1>3
<1>5. /\ stored' = (stored \ req[r].rows) \cup {r}
      /\ account'.legacy = (IF WritesUser(r) /\ req[r].route # "login" THEN NoToken
                            ELSE account.legacy)
      /\ account' \in [known: BOOLEAN, legacy: OldTokens \cup {NoToken}]
  BY <1>1 DEF Commit
<1>6. TypeOK'
  <2>1. req' \in [Requests -> Request]
    BY <1>1, <1>2, <1>3
  <2>2. stored' \in SUBSET Tokens
    BY <1>1, <1>5
  <2>3. UNCHANGED <<expired, cookie, cutOff, faults>>
    BY DEF Commit
  <2>4. QED
    BY <1>5, <2>1, <2>2, <2>3 DEF SessionsInv, TypeOK
<1>7. /\ req[r].route \in {"session", "legacy", "login"}
      /\ req[r].rows \subseteq stored
      /\ req[r].route = "session" => req[r].token \in req[r].rows
      /\ req[r].route = "legacy" =>
           /\ req[r].user /\ account.legacy = req[r].token
           /\ req[r].token \in Tokens \ stored
  BY <1>1 DEF SessionsInv, RouteInv, LocksInv
<1>8. req[r].token # r
  BY <1>1 DEF SessionsInv, SecretInv
<1>9. req[r].user /\ req[r].route = "session" => account.legacy = req[r].token
  BY <1>1 DEF SessionsInv, RouteInv
<1>10. WritesUser(r) /\ req[r].route # "login" => account.legacy = req[r].token
  BY <1>7, <1>9 DEF WritesUser
<1>11. Rotated(r)' <=> req[r].route # "login"
  BY <1>2, <1>4 DEF Rotated
<1>12. ASSUME Rotated(r)'
       PROVE  req[r].token \in Tokens /\ Live(req[r].token) /\ ~Live(req[r].token)'
  <2>1. CASE req[r].route = "session"
    <3>1. req[r].token \in Tokens /\ Live(req[r].token)
      BY <1>1, <1>7, <2>1 DEF Live
    <3>2. account'.legacy # req[r].token
      BY <1>1, <1>5, <2>1, <3>1 DEF WritesUser
    <3>3. QED
      BY <1>2, <1>4, <1>5, <1>7, <1>8, <2>1, <3>1, <3>2 DEF Live
  <2>2. CASE req[r].route = "legacy"
    <3>1. account'.legacy = NoToken /\ NoToken \notin Tokens
      BY <1>5, <1>7, <2>2 DEF WritesUser
    <3>2. req[r].token \notin stored'
      BY <1>5, <1>7, <1>8, <2>2
    <3>3. req[r].token # account'.legacy
      BY <1>7, <2>2, <3>1
    <3>4. QED
      BY <1>2, <1>4, <1>7, <2>2, <3>2, <3>3 DEF Live
  <2>3. QED
    BY <1>7, <1>11, <1>12, <2>1, <2>2
<1>13. QED
  BY <1>2, <1>4, <1>5, <1>6, <1>10, <1>12

LEMMA CommitStep ==
  ASSUME SessionsInv, NEW r \in Requests, Commit(r)
  PROVE  SessionsInv'
<1>1. /\ TypeOK'
      /\ \A q \in Requests \ {r} : req'[q] = req[q]
      /\ req'[r].pc = "granted" /\ req'[r].rows = {} /\ ~req'[r].user
      /\ req'[r].token = req[r].token /\ req'[r].now = req[r].now
      /\ stored' = (stored \ req[r].rows) \cup {r}
      /\ account'.legacy \in {account.legacy, NoToken}
      /\ account'.legacy # account.legacy => account.legacy = req[r].token
      /\ Rotated(r)' => req[r].token \in Tokens /\ Live(req[r].token) /\ ~Live(req[r].token)'
  BY CommitEffect
<1>2. req[r].pc = "deleting" /\ UNCHANGED <<expired, cookie, cutOff>>
  BY DEF Commit
<1>3. \A q \in Requests : req'[q].token = req[q].token /\ req'[q].now = req[q].now
  BY <1>1
<1>4. LocksInv'
  BY <1>1 DEF SessionsInv, LocksInv
<1>5. \A q \in Requests \ {r} : Rotated(q)' <=> Rotated(q)
  BY <1>1 DEF Rotated
<1>6. \A q \in Requests : req[q].token # r
  BY <1>2 DEF SessionsInv, SecretInv
<1>7. RouteInv'
  <2>1. ASSUME NEW q \in Requests \ {r}, req[q].pc = "deleting", req[q].route = "legacy"
        PROVE  account'.legacy = req[q].token /\ req[q].token \in Tokens \ stored'
    <3>1. /\ req[q].user /\ account.legacy = req[q].token
          /\ req[q].token \in Tokens \ stored
      BY <2>1 DEF SessionsInv, RouteInv
    <3>2. ~WritesUser(r)
      BY <3>1 DEF Commit, UserLocked
    <3>3. account'.legacy = account.legacy
      BY <3>2 DEF Commit
    <3>4. QED
      BY <1>1, <1>6, <3>1, <3>3
  <2>2. \A q \in Requests : req[q].token \notin stored => req[q].token \notin stored'
    BY <1>1, <1>6
  <2>3. \A q \in Requests \ {r} :
          /\ req[q].now \subseteq expired
          /\ req[q].pc \in {"new", "inserting"} => req[q].token = NoToken
          /\ req[q].pc = "inserting" => req[q].route = "login"
          /\ req[q].pc \in {"sent", "matching", "migrating"} => req[q].token \in Tokens
          /\ req[q].pc = "matching" => req[q].token \notin req[q].now
          /\ req[q].pc = "migrating" => req[q].token \notin stored
          /\ req[q].pc = "deleting" =>
               /\ req[q].route \in {"session", "legacy", "login"}
               /\ req[q].rows \subseteq req[q].now \cup {req[q].token}
               /\ req[q].route = "session" => req[q].token \in req[q].rows /\ ~req[q].user
               /\ req[q].route = "legacy" => req[q].user
               /\ req[q].route = "login" => req[q].token = NoToken
    BY DEF SessionsInv, RouteInv
  <2>4. req[r].now \subseteq expired
    BY DEF SessionsInv, RouteInv
  <2>5. QED
    BY <1>1, <1>2, <2>1, <2>2, <2>3, <2>4 DEF RouteInv
<1>8. ConsumedInv'
  <2>1. ASSUME NEW q \in Requests \ {r}, Rotated(q)
        PROVE  req[q].token \in Tokens /\ req[q].token \notin stored' \cup {account'.legacy}
    <3>1. req[q].token \in Tokens /\ req[q].token \notin stored \cup {account.legacy}
      BY <2>1 DEF SessionsInv, ConsumedInv, Live
    <3>2. QED
      BY <1>1, <1>6, <3>1
  <2>2. QED
    BY <1>1, <1>3, <1>5, <2>1 DEF ConsumedInv, Live
<1>9. SecretInv'
  <2>1. \A q \in Requests \ {r} : q \notin stored => q \notin stored'
    BY <1>1
  <2>2. \A q \in Requests \ {r} :
          q \in stored \cup expired /\ req[q].pc = "granted" => q \in stored' \cup expired
    <3>1. req[r].rows \subseteq expired \cup {req[r].token}
      BY <1>2 DEF SessionsInv, RouteInv
    <3>2. \A q \in Requests : req[q].pc = "granted" => req[r].token # q
      BY DEF SessionsInv, SecretInv
    <3>3. QED
      BY <1>1, <3>1, <3>2
  <2>3. QED
    BY <1>1, <1>2, <1>3, <2>1, <2>2 DEF SessionsInv, SecretInv
<1>10. OwnerInv'
  BY <1>2, <1>3 DEF SessionsInv, OwnerInv
<1>11. RotatedOnce'
  <2>1. \A q \in Requests \ {r} : Rotated(q) /\ Rotated(r)' => req[q].token # req[r].token
    BY <1>1 DEF SessionsInv, ConsumedInv
  <2>2. \A p, q \in Requests : Rotated(p) /\ Rotated(q) /\ req[p].token = req[q].token => p = q
    BY DEF SessionsInv, RotatedOnce
  <2>3. \A p, q \in Requests :
          Rotated(p)' /\ Rotated(q)' /\ req[p].token = req[q].token => p = q
    BY <1>5, <2>1, <2>2
  <2>4. QED
    BY <1>3, <2>3 DEF RotatedOnce
<1>12. CookieIsLive'
  <2>1. SUFFICES ASSUME NEW b \in Browsers \ cutOff, cookie[b] \notin {NoToken} \cup expired
                 PROVE  \/ cookie[b] \in stored' \cup {account'.legacy}
                        \/ \E q \in Requests : /\ req'[q].pc = "granted" /\ Rotated(q)'
                                              /\ req'[q].token = cookie[b]
    BY <1>2 DEF CookieIsLive, Live
  <2>2. CASE Live(cookie[b]) /\ cookie[b] \notin stored' \cup {account'.legacy}
    <3>1. req[r].rows \subseteq expired \cup {req[r].token}
      BY <1>2 DEF SessionsInv, RouteInv
    <3>2. cookie[b] = req[r].token
      BY <1>1, <2>1, <2>2, <3>1 DEF Live
    <3>3. req[r].route # "login"
      BY <1>2, <2>1, <3>2 DEF SessionsInv, RouteInv
    <3>4. Rotated(r)'
      BY <3>3, CommitEffect DEF Rotated
    <3>5. QED
      BY <1>1, <3>2, <3>4
  <2>3. CASE ~Live(cookie[b])
    <3>1. PICK q \in Requests : /\ req[q].pc = "granted" /\ Rotated(q)
                               /\ req[q].token = cookie[b]
      BY <2>1, <2>3 DEF SessionsInv, CookieIsLive
    <3>2. q # r
      BY <1>2, <3>1
    <3>3. QED
      BY <1>1, <1>5, <3>1, <3>2
  <2>4. QED
    BY <2>2, <2>3
<1>13. QED
  BY <1>1, <1>4, <1>7, <1>8, <1>9, <1>10, <1>11, <1>12 DEF SessionsInv

\* A committed request is over, whether or not its answer arrives.
LEMMA EndStep ==
  ASSUME SessionsInv, NEW r \in Requests, req[r].pc = "granted",
         req' = [req EXCEPT ![r].pc = "done"],
         UNCHANGED <<account, stored, expired>>, faults' \in 0..MaxFaults,
         cookie' \in [Browsers -> Tokens \cup {NoToken}], cutOff' \in SUBSET Browsers
  PROVE  /\ TypeOK' /\ LocksInv' /\ RouteInv' /\ ConsumedInv' /\ RotatedOnce'
         /\ req'[r].pc = "done"
         /\ \A q \in Requests \ {r} : req'[q] = req[q]
         /\ \A q \in Requests : /\ req'[q].token = req[q].token
                               /\ req'[q].result = req[q].result
<1>1. req \in [Requests -> Request] /\ req[r] \in Request
  BY DEF SessionsInv, TypeOK
<1>2. req' = [req EXCEPT ![r] = [req[r] EXCEPT !.pc = "done"]]
  BY <1>1
<1>3. [req[r] EXCEPT !.pc = "done"] \in Request
  BY <1>1 DEF Request, Phases
<1>4. /\ req'[r].pc = "done" /\ req'[r].token = req[r].token /\ req'[r].now = req[r].now
      /\ req'[r].rows = req[r].rows /\ req'[r].user = req[r].user
      /\ req'[r].result = req[r].result
      /\ \A q \in Requests \ {r} : req'[q] = req[q]
  BY <1>1, <1>2 DEF Request
<1>5. TypeOK'
  BY <1>1, <1>2, <1>3 DEF SessionsInv, TypeOK
<1>6. LocksInv'
  BY <1>4 DEF SessionsInv, LocksInv
<1>7. RouteInv'
  BY <1>4 DEF SessionsInv, RouteInv
<1>8. ConsumedInv' /\ RotatedOnce'
  BY <1>4 DEF SessionsInv, ConsumedInv, RotatedOnce, Rotated, Live
<1>9. QED
  BY <1>4, <1>5, <1>6, <1>7, <1>8

LEMMA AnswerStep ==
  ASSUME SessionsInv, NEW r \in Requests, Answer(r)
  PROVE  SessionsInv'
<1>1. /\ req[r].pc = "granted" /\ BrowserOf[r] \in Browsers
      /\ UNCHANGED <<account, stored, expired, cutOff>>
      /\ cookie \in [Browsers -> Tokens \cup {NoToken}]
      /\ cookie' = [cookie EXCEPT ![BrowserOf[r]] = r]
      /\ faults' \in 0..MaxFaults /\ cutOff' \in SUBSET Browsers
  BY DEF Answer, SessionsInv, TypeOK
<1>2. /\ cookie' \in [Browsers -> Tokens \cup {NoToken}]
      /\ cookie'[BrowserOf[r]] = r
      /\ \A b \in Browsers \ {BrowserOf[r]} : cookie'[b] = cookie[b]
  BY <1>1
<1>3. /\ TypeOK' /\ LocksInv' /\ RouteInv' /\ ConsumedInv' /\ RotatedOnce'
      /\ req'[r].pc = "done"
      /\ \A q \in Requests \ {r} : req'[q] = req[q]
      /\ \A q \in Requests : /\ req'[q].token = req[q].token
                            /\ req'[q].result = req[q].result
  BY <1>1, <1>2, EndStep DEF Answer
<1>4. /\ r \in stored \cup expired /\ r # NoToken
      /\ \A q \in Requests : req[q].token # r
      /\ \A b \in Browsers : cookie[b] # r
  BY <1>1 DEF SessionsInv, SecretInv
<1>5. SecretInv'
  BY <1>1, <1>2, <1>3 DEF SessionsInv, SecretInv
<1>6. OwnerInv'
  BY <1>2, <1>3, <1>4 DEF SessionsInv, OwnerInv
<1>7. CookieIsLive'
  <2>1. SUFFICES ASSUME NEW b \in Browsers \ cutOff, cookie'[b] \notin {NoToken} \cup expired,
                        cookie'[b] \notin stored \cup {account.legacy}
                 PROVE  \E q \in Requests : /\ req'[q].pc = "granted" /\ Rotated(q)'
                                           /\ req'[q].token = cookie'[b]
    BY <1>1 DEF CookieIsLive, Live
  <2>2. b # BrowserOf[r]
    BY <1>2, <1>4, <2>1
  <2>3. PICK q \in Requests : req[q].pc = "granted" /\ Rotated(q) /\ req[q].token = cookie[b]
    BY <1>2, <2>1, <2>2 DEF SessionsInv, CookieIsLive, Live
  <2>4. q # r
    BY <1>2, <2>1, <2>2, <2>3 DEF SessionsInv, OwnerInv
  <2>5. QED
    BY <1>2, <1>3, <2>2, <2>3, <2>4 DEF Rotated
<1>8. QED
  BY <1>3, <1>5, <1>6, <1>7 DEF SessionsInv

LEMMA LoseStep ==
  ASSUME SessionsInv, NEW r \in Requests, Lose(r)
  PROVE  SessionsInv'
<1>1. /\ req[r].pc = "granted" /\ BrowserOf[r] \in Browsers
      /\ UNCHANGED <<account, stored, expired, cookie>>
      /\ cutOff' = cutOff \cup {BrowserOf[r]}
      /\ cookie' \in [Browsers -> Tokens \cup {NoToken}]
      /\ faults' \in 0..MaxFaults /\ cutOff' \in SUBSET Browsers
  BY DEF Lose, SessionsInv, TypeOK
<1>2. /\ TypeOK' /\ LocksInv' /\ RouteInv' /\ ConsumedInv' /\ RotatedOnce'
      /\ req'[r].pc = "done"
      /\ \A q \in Requests \ {r} : req'[q] = req[q]
      /\ \A q \in Requests : /\ req'[q].token = req[q].token
                            /\ req'[q].result = req[q].result
  BY <1>1, EndStep DEF Lose
<1>3. SecretInv'
  BY <1>1, <1>2 DEF SessionsInv, SecretInv
<1>4. OwnerInv'
  BY <1>1, <1>2 DEF SessionsInv, OwnerInv
<1>5. CookieIsLive'
  <2>1. SUFFICES ASSUME NEW b \in Browsers \ cutOff', cookie[b] \notin {NoToken} \cup expired,
                        cookie[b] \notin stored \cup {account.legacy}
                 PROVE  \E q \in Requests : /\ req'[q].pc = "granted" /\ Rotated(q)'
                                           /\ req'[q].token = cookie[b]
    BY <1>1 DEF CookieIsLive, Live
  <2>2. b \in Browsers \ cutOff /\ b # BrowserOf[r]
    BY <1>1, <2>1
  <2>3. PICK q \in Requests : req[q].pc = "granted" /\ Rotated(q) /\ req[q].token = cookie[b]
    BY <2>1, <2>2 DEF SessionsInv, CookieIsLive, Live
  <2>4. q # r
    BY <2>1, <2>2, <2>3 DEF SessionsInv, OwnerInv
  <2>5. QED
    BY <1>2, <2>3, <2>4 DEF Rotated
<1>6. QED
  BY <1>2, <1>3, <1>4, <1>5 DEF SessionsInv

LEMMA ExpireStep ==
  ASSUME SessionsInv, NEW t \in Tokens, Expire(t)
  PROVE  SessionsInv'
<1>1. /\ UNCHANGED <<account, stored, req, cookie, cutOff, faults>>
      /\ expired' = expired \cup {t}
  BY DEF Expire
<1>2. TypeOK'
  BY <1>1 DEF SessionsInv, TypeOK
<1>3. LocksInv' /\ ConsumedInv' /\ RotatedOnce'
  BY <1>1 DEF SessionsInv, LocksInv, ConsumedInv, RotatedOnce, Rotated, Live
<1>4. RouteInv'
  BY <1>1 DEF SessionsInv, RouteInv
<1>5. SecretInv' /\ OwnerInv'
  BY <1>1 DEF SessionsInv, SecretInv, OwnerInv
<1>6. CookieIsLive'
  BY <1>1 DEF SessionsInv, CookieIsLive, Rotated, Live
<1>7. QED
  BY <1>2, <1>3, <1>4, <1>5, <1>6 DEF SessionsInv

-----------------------------------------------------------------------------
(* The theorems *)

LEMMA InitSessions == Init => SessionsInv
<1>. SUFFICES ASSUME Init PROVE SessionsInv
  OBVIOUS
<1>1. NewRequest \in Request
  BY DEF NewRequest, Request, Phases, Routes, Results
<1>2. /\ \A r \in Requests : req[r] = NewRequest
      /\ NewRequest.pc = "new" /\ NewRequest.result = "none" /\ NewRequest.token = NoToken
      /\ NewRequest.rows = {} /\ NewRequest.now = {} /\ ~NewRequest.user
  BY DEF Init, NewRequest
<1>3. /\ \A b \in Browsers : cookie[b] \in stored \cup {account.legacy, NoToken}
      /\ stored \subseteq OldTokens /\ account.legacy \in OldTokens \cup {NoToken}
  BY DEF Init
<1>4. TypeOK
  BY <1>1 DEF Init, TypeOK
<1>5. LocksInv /\ RouteInv
  BY <1>2 DEF LocksInv, RouteInv
<1>6. ConsumedInv /\ RotatedOnce
  BY <1>2 DEF ConsumedInv, RotatedOnce, Rotated
<1>7. SecretInv
  BY <1>2, <1>3 DEF SecretInv
<1>8. OwnerInv
  BY <1>2 DEF OwnerInv, Init
<1>9. CookieIsLive
  BY <1>3 DEF CookieIsLive, Live
<1>10. QED
  BY <1>4, <1>5, <1>6, <1>7, <1>8, <1>9 DEF SessionsInv

LEMMA NextSessions == SessionsInv /\ [Next]_vars => SessionsInv'
<1>. SUFFICES ASSUME SessionsInv, [Next]_vars PROVE SessionsInv'
  OBVIOUS
<1>1. CASE UNCHANGED vars
  BY <1>1 DEF vars, SessionsInv, TypeOK, LocksInv, RouteInv, ConsumedInv, SecretInv,
              OwnerInv, RotatedOnce, CookieIsLive, Rotated, Live
<1>2. ASSUME NEW r \in Requests, Serve(r)
      PROVE  SessionsInv'
  BY <1>2, DecodeStep, MatchSessionStep, MatchLegacyStep, InsertUserStep,
     DeleteExpiredStep, CommitStep, FailStep, BreakDeadlockStep DEF Serve
<1>3. ASSUME NEW r \in Requests, Refresh(r) \/ Callback(r) \/ Answer(r) \/ Lose(r)
      PROVE  SessionsInv'
  BY <1>3, RefreshStep, CallbackStep, AnswerStep, LoseStep
<1>4. ASSUME NEW t \in Tokens, Expire(t)
      PROVE  SessionsInv'
  BY <1>4, ExpireStep
<1>5. QED
  BY <1>1, <1>2, <1>3, <1>4 DEF Next

\* The inductive invariant of the sessions.
THEOREM SessionsInvariant == Spec => []SessionsInv
<1>1. QED
  BY InitSessions, NextSessions, PTL DEF Spec

\* However many tabs and browsers refresh at once, and wherever a token is kept, it
\* is exchanged at most once.
THEOREM TokensRotateOnce == Spec => []RotatedOnce
<1>1. SessionsInv => RotatedOnce
  BY DEF SessionsInv
<1>2. QED
  BY <1>1, SessionsInvariant, PTL

\* A browser that got all its answers holds a token that is accepted or has expired,
\* or is about to get the successor.
THEOREM CookiesStayLive == Spec => []CookieIsLive
<1>1. SessionsInv => CookieIsLive
  BY DEF SessionsInv
<1>2. QED
  BY <1>1, SessionsInvariant, PTL

\* No login and no refresh ends the session of another browser.
THEOREM SessionsStay == Spec => SessionsSurvive
<1>. DEFINE Survive ==
       \A t \in stored \ stored' :
         t \in expired \/ \E r \in Requests : Rotated(r)' /\ req[r].token = t
<1>1. SessionsInv /\ [Next]_vars => [Survive]_vars
  <2>. SUFFICES ASSUME SessionsInv, Next PROVE Survive
    OBVIOUS
  <2>1. ASSUME NEW r \in Requests, Commit(r)
        PROVE  Survive
    <3>1. /\ stored' = (stored \ req[r].rows) \cup {r}
          /\ req'[r].result = (IF req[r].route = "login" THEN "loggedIn" ELSE "rotated")
      BY <2>1, CommitEffect
    <3>2. /\ req[r].rows \subseteq expired \cup {req[r].token}
          /\ req[r].route = "login" => req[r].token = NoToken
      BY <2>1 DEF SessionsInv, RouteInv, Commit
    <3>3. stored \subseteq Tokens
      BY DEF SessionsInv, TypeOK
    <3>4. QED
      BY <3>1, <3>2, <3>3 DEF Rotated
  <2>2. CASE UNCHANGED stored
    BY <2>2
  <2>3. (\E r \in Requests : Commit(r)) \/ UNCHANGED stored
    BY DEF Next, Serve, Refresh, Callback, Decode, MatchSession, MatchLegacy, InsertUser,
           DeleteExpired, Fail, BreakDeadlock, Answer, Lose, Expire
  <2>4. QED
    BY <2>1, <2>2, <2>3
<1>2. QED
  BY <1>1, SessionsInvariant, PTL DEF Spec, SessionsSurvive
=============================================================================
