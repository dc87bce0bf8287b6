--------------------------- MODULE RefreshSessions ---------------------------
(***************************************************************************)
(* The refresh tokens of one account of user-service: logins, rotations,   *)
(* the migration of the token that earlier versions kept in                *)
(* users.refresh_token, and the cookies of the account's browsers.         *)
(*                                                                         *)
(* A transaction is split at the statements that may wait for a row lock.  *)
(* The database runs at READ COMMITTED: a statement sees what is committed *)
(* when it runs, and one that waited evaluates its WHERE again.  Locks are *)
(* held until the commit, which applies all writes.                        *)
(***************************************************************************)
EXTENDS Integers, FiniteSets

CONSTANTS
  Requests,      \* login callbacks and refresh requests, each served once
  Browsers,
  BrowserOf,     \* BrowserOf[r]: where request r comes from
  OldTokens,     \* tokens issued by earlier processes
  Expiring,      \* bound on time: the tokens whose expiry may pass
  MaxFaults,     \* bound on failed transactions and lost answers
  NoToken

VARIABLES
  account,       \* the row in users: whether it exists, and its legacy token
  stored,        \* tokens whose hash is in user_sessions
  expired,       \* tokens whose expiry has passed
  req,           \* req[r]: the request and its transaction
  cookie,        \* cookie[b]: the refresh_token cookie of b
  cutOff,        \* history: browsers to which an answer with cookies got lost
  faults

vars == <<account, stored, expired, req, cookie, cutOff, faults>>

-----------------------------------------------------------------------------
(* Types *)

\* Every token has a random jti: the one that request r creates is called r.
Tokens == OldTokens \cup Requests

Phases == {"new", "sent", "matching", "migrating", "inserting", "deleting",
           "granted", "done"}
Routes == {"none", "session", "legacy", "login"}
Results == {"none", "rotated", "loggedIn", "denied", "error"}

\* token: the cookie that was presented; renames: the login changes the profile;
\* now: the tokens expired at the transaction's `now'; rows, user: the locks held.
Request == [pc: Phases, route: Routes, result: Results,
            token: Tokens \cup {NoToken}, renames: BOOLEAN,
            now: SUBSET Tokens, rows: SUBSET Tokens, user: BOOLEAN]

ASSUME SessionsAssumption ==
  /\ OldTokens \cap Requests = {}
  /\ NoToken \notin Tokens
  /\ Expiring \subseteq Tokens
  /\ BrowserOf \in [Requests -> Browsers]
  /\ MaxFaults \in Nat

\* Every row, request and cookie has its type.
TypeOK ==
  /\ account \in [known: BOOLEAN, legacy: OldTokens \cup {NoToken}]
  /\ stored \in SUBSET Tokens
  /\ expired \in SUBSET Tokens
  /\ req \in [Requests -> Request]
  /\ cookie \in [Browsers -> Tokens \cup {NoToken}]
  /\ cutOff \in SUBSET Browsers
  /\ faults \in 0..MaxFaults

NewRequest ==
  [pc |-> "new", route |-> "none", result |-> "none", token |-> NoToken,
   renames |-> FALSE, now |-> {}, rows |-> {}, user |-> FALSE]

\* Earlier processes left rows, a legacy token or no account at all; a browser
\* holds a token of its own that is stored in one of the two places, or none.
Init ==
  /\ account \in [known: BOOLEAN, legacy: OldTokens \cup {NoToken}]
  /\ stored \in SUBSET OldTokens
  /\ account.known \/ (stored = {} /\ account.legacy = NoToken)
  /\ expired = {}
  /\ req = [r \in Requests |-> NewRequest]
  /\ cookie \in [Browsers -> stored \cup {account.legacy, NoToken}]
  /\ \A a, b \in Browsers : cookie[a] = cookie[b] => a = b \/ cookie[a] = NoToken
  /\ cutOff = {}
  /\ faults = 0

-----------------------------------------------------------------------------
(* Row locks *)

RowLocked(r, t) == \E q \in Requests \ {r} : t \in req[q].rows
UserLocked(r) == \E q \in Requests \ {r} : req[q].user

\* Faulty variants, here and below, are the mistakes that the properties at the
\* end of this module rule out; no action uses them.
\* Faulty: the session is not closed, and its locks stay.
RolledBackOpen(p, result) == [p EXCEPT !.pc = "done", !.result = result]

\* The end of a request that sets no cookie: the transaction is rolled back.
RolledBack(p, result) ==
  [p EXCEPT !.pc = "done", !.result = result, !.rows = {}, !.user = FALSE]

-----------------------------------------------------------------------------
(* POST /api/auth/refresh *)

\* A browser sends its cookie, perhaps from several tabs at a time.
Refresh(r) ==
  /\ req[r].pc = "new"
  /\ cookie[BrowserOf[r]] # NoToken
  /\ req' = [req EXCEPT ![r] = [@ EXCEPT !.pc = "sent", !.token = cookie[BrowserOf[r]]]]
  /\ UNCHANGED <<account, stored, expired, cookie, cutOff, faults>>

\* rotate_session: a token that expired is refused before the database is asked.
Decode(r) ==
  /\ req[r].pc = "sent"
  /\ req' = [req EXCEPT ![r] =
       IF req[r].token \in expired \/ ~account.known THEN RolledBack(@, "denied")
       ELSE [@ EXCEPT !.pc = "matching", !.now = expired]]
  /\ UNCHANGED <<account, stored, expired, cookie, cutOff, faults>>

\* Faulty: the row is found by a SELECT first and then updated by its id.
MatchSessionUnlocked(r) ==
  /\ req[r].pc = "matching"
  /\ IF req[r].token \in stored \ req[r].now
     THEN req' = [req EXCEPT ![r] = [@ EXCEPT !.pc = "deleting", !.route = "session"]]
     ELSE req' = [req EXCEPT ![r] = [@ EXCEPT !.pc = "migrating"]]
  /\ UNCHANGED <<account, stored, expired, cookie, cutOff, faults>>

\* UPDATE user_sessions ... WHERE refresh_token_hash = :current AND expires_at > :now
MatchSession(r) ==
  LET t == req[r].token
  IN  /\ req[r].pc = "matching"
      /\ IF t \in stored \ req[r].now
         THEN /\ ~RowLocked(r, t)
              /\ req' = [req EXCEPT ![r] =
                   [@ EXCEPT !.pc = "deleting", !.route = "session", !.rows = {t}]]
         ELSE req' = [req EXCEPT ![r] = [@ EXCEPT !.pc = "migrating"]]
      /\ UNCHANGED <<account, stored, expired, cookie, cutOff, faults>>

\* UPDATE users SET refresh_token = NULL WHERE refresh_token = :legacy
MatchLegacy(r) ==
  /\ req[r].pc = "migrating"
  /\ IF account.legacy = req[r].token
     THEN /\ ~UserLocked(r)
          /\ req' = [req EXCEPT ![r] =
               [@ EXCEPT !.pc = "deleting", !.route = "legacy", !.user = TRUE]]
     ELSE req' = [req EXCEPT ![r] = RolledBack(@, "denied")]
  /\ UNCHANGED <<account, stored, expired, cookie, cutOff, faults>>

-----------------------------------------------------------------------------
(* GET /callback: create_refresh_session *)

\* SELECT the user; a known one may come back with another nickname or picture,
\* which is flushed at the commit.
Callback(r) ==
  /\ req[r].pc = "new"
  /\ \E renames \in BOOLEAN :
       req' = [req EXCEPT ![r] =
         [@ EXCEPT !.pc = IF account.known THEN "deleting" ELSE "inserting",
                   !.route = "login", !.renames = renames /\ account.known,
                   !.now = expired]]
  /\ UNCHANGED <<account, stored, expired, cookie, cutOff, faults>>

\* INSERT INTO users waits for another insert of the account and fails if that
\* one commits (uq_users_provider_user_id).
InsertUser(r) ==
  /\ req[r].pc = "inserting"
  /\ ~UserLocked(r) \/ account.known
  /\ req' = [req EXCEPT ![r] =
       IF account.known THEN RolledBack(@, "error")
       ELSE [@ EXCEPT !.pc = "deleting", !.user = TRUE, !.now = expired]]
  /\ UNCHANGED <<account, stored, expired, cookie, cutOff, faults>>

-----------------------------------------------------------------------------
(* The end of the three transactions *)

\* Faulty: DELETE has no condition on the expiry.
ExpiredRowsAll(r) == {t \in stored : t # req[r].token}

ExpiredRows(r) == {t \in stored : t \in req[r].now}

\* DELETE FROM user_sessions WHERE user_id = :id AND expires_at <= :now takes the
\* rows one by one, in no order that the statement fixes.
DeleteExpired(r, t) ==
  /\ req[r].pc = "deleting"
  /\ t \in ExpiredRows(r) \ req[r].rows
  /\ ~RowLocked(r, t)
  /\ req' = [req EXCEPT ![r].rows = @ \cup {t}]
  /\ UNCHANGED <<account, stored, expired, cookie, cutOff, faults>>

\* The commit writes the row in users: a migration clears it, a rotation clears it
\* if it still holds the token, a login flushes a changed profile or a new user.
WritesUser(r) ==
  \/ req[r].user
  \/ req[r].route = "session" /\ account.legacy = req[r].token
  \/ req[r].route = "login" /\ req[r].renames

\* Faulty: a login leaves the account its own session only.
CommitAlone(r) ==
  /\ req[r].pc = "deleting"
  /\ stored' = {r}
  /\ req' = [req EXCEPT ![r] =
       [@ EXCEPT !.pc = "granted", !.rows = {}, !.user = FALSE,
                 !.result = IF req[r].route = "login" THEN "loggedIn" ELSE "rotated"]]
  /\ UNCHANGED <<account, expired, cookie, cutOff, faults>>

\* The rows that are locked go - the rotated one gets a new hash, the expired ones
\* are deleted - and the new token is stored.
Commit(r) ==
  /\ req[r].pc = "deleting"
  /\ ExpiredRows(r) \subseteq req[r].rows
  /\ WritesUser(r) => ~UserLocked(r)
  /\ stored' = (stored \ req[r].rows) \cup {r}
  /\ account' = [known |-> TRUE,
                 legacy |-> IF WritesUser(r) /\ req[r].route # "login" THEN NoToken
                            ELSE account.legacy]
  /\ req' = [req EXCEPT ![r] =
       [@ EXCEPT !.pc = "granted", !.rows = {}, !.user = FALSE,
                 !.result = IF req[r].route = "login" THEN "loggedIn" ELSE "rotated"]]
  /\ UNCHANGED <<expired, cookie, cutOff, faults>>

-----------------------------------------------------------------------------
(* Answers, time and faults *)

\* Answers with cookies reach the browser in any order, or not at all.
Answer(r) ==
  /\ req[r].pc = "granted"
  /\ req' = [req EXCEPT ![r].pc = "done"]
  /\ cookie' = [cookie EXCEPT ![BrowserOf[r]] = r]
  /\ UNCHANGED <<account, stored, expired, cutOff, faults>>

Lose(r) ==
  /\ req[r].pc = "granted"
  /\ faults < MaxFaults
  /\ faults' = faults + 1
  /\ req' = [req EXCEPT ![r].pc = "done"]
  /\ cutOff' = cutOff \cup {BrowserOf[r]}
  /\ UNCHANGED <<account, stored, expired, cookie>>

\* A session and its token expire together: both carry the same exp.
Expire(t) ==
  /\ t \in Expiring \ expired
  /\ t \in stored \cup {account.legacy}
  /\ expired' = expired \cup {t}
  /\ UNCHANGED <<account, stored, req, cookie, cutOff, faults>>

InTransaction(r) == req[r].pc \in {"matching", "migrating", "inserting", "deleting"}

\* A statement fails or the process dies.
Fail(r) ==
  /\ InTransaction(r)
  /\ faults < MaxFaults
  /\ faults' = faults + 1
  /\ req' = [req EXCEPT ![r] = RolledBack(@, "error")]
  /\ UNCHANGED <<account, stored, expired, cookie, cutOff>>

\* The requests whose locks r waits for.
Blockers(r) ==
  LET pc == req[r].pc
      t == req[r].token
      left == ExpiredRows(r) \ req[r].rows
      onUser == {q \in Requests \ {r} : req[q].user}
  IN  IF pc = "matching" /\ t \in stored \ req[r].now
      THEN {q \in Requests \ {r} : t \in req[q].rows}
      ELSE IF \/ pc = "migrating" /\ account.legacy = t
              \/ pc = "inserting" /\ ~account.known
              \/ pc = "deleting" /\ left = {} /\ WritesUser(r)
      THEN onUser
      ELSE IF pc = "deleting" /\ \A u \in left : RowLocked(r, u)
      THEN {q \in Requests \ {r} : req[q].rows \cap left # {}}
      ELSE {}

\* The database ends one of the transactions that wait for each other.
Deadlocked(r) ==
  \E C \in SUBSET Requests :
    r \in C /\ \A q \in C : Blockers(q) # {} /\ Blockers(q) \subseteq C

BreakDeadlock(r) ==
  /\ Deadlocked(r)
  /\ req' = [req EXCEPT ![r] = RolledBack(@, "error")]
  /\ UNCHANGED <<account, stored, expired, cookie, cutOff, faults>>

-----------------------------------------------------------------------------
\* The steps of a request that reached the service.
Serve(r) ==
  \/ Decode(r)
  \/ MatchSession(r)
  \/ MatchLegacy(r)
  \/ InsertUser(r)
  \/ \E t \in Tokens : DeleteExpired(r, t)
  \/ Commit(r)
  \/ Fail(r)
  \/ BreakDeadlock(r)

Next ==
  \/ \E r \in Requests : Refresh(r) \/ Callback(r) \/ Serve(r) \/ Answer(r) \/ Lose(r)
  \/ \E t \in Tokens : Expire(t)

Spec == Init /\ [][Next]_vars

\* The service runs the statements of every request it took, and its answers travel.
Fairness ==
  \A r \in Requests : WF_vars(Serve(r)) /\ WF_vars(Answer(r) \/ Lose(r))

FairSpec == Spec /\ Fairness

-----------------------------------------------------------------------------
(* Properties *)

Rotated(r) == req[r].result = "rotated"
Live(t) == t \in stored \cup {account.legacy}

\* Whatever tabs, retries and places a token is kept in, one request at most
\* exchanges it for a new one.
RotatedOnce ==
  \A q, r \in Requests :
    Rotated(q) /\ Rotated(r) /\ req[q].token = req[r].token => q = r

\* A browser whose answers all arrived can go on: its cookie is still accepted,
\* or it expired, or the answer with its successor is on its way.  Denied and
\* failed requests and the logins of other browsers take nothing from it.
CookieIsLive ==
  \A b \in Browsers \ cutOff : cookie[b] \in {NoToken} \cup expired \/ Live(cookie[b])
    \/ \E r \in Requests : /\ req[r].pc = "granted" /\ Rotated(r)
                          /\ req[r].token = cookie[b]

\* A session ends only by its expiry or by its own rotation, never through a login
\* or a refresh of another browser.
SessionsSurvive ==
  [][\A t \in stored \ stored' :
       t \in expired \/ \E r \in Requests : Rotated(r)' /\ req[r].token = t]_vars

\* Every request that reached the service is answered, whatever locks it waits for
\* (each request comes once, so the service is quiet in the end).
EveryRequestEnds == <>[](\A r \in Requests : req[r].pc \in {"new", "done"})

\* The parts of the inductive invariant behind the three properties above.
\* A transaction holds locks only where it takes them, on rows that exist, and
\* two transactions never hold the same lock.
LocksInv ==
  /\ \A r \in Requests :
       /\ req[r].rows \subseteq stored
       /\ req[r].rows # {} \/ req[r].user => req[r].pc = "deleting"
  /\ \A q, r \in Requests : q # r =>
       req[q].rows \cap req[r].rows = {} /\ ~(req[q].user /\ req[r].user)

\* On its way a token is neither lost nor found twice, and a transaction that is
\* going to commit holds the place that its token is kept in, besides rows that
\* have expired.
RouteInv ==
  \A r \in Requests :
    /\ req[r].now \subseteq expired
    /\ req[r].pc \in {"new", "inserting"} => req[r].token = NoToken
    /\ req[r].pc = "inserting" => req[r].route = "login"
    /\ req[r].pc \in {"sent", "matching", "migrating"} => req[r].token \in Tokens
    /\ req[r].pc = "matching" => req[r].token \notin req[r].now
    /\ req[r].pc = "migrating" => req[r].token \notin stored
    /\ req[r].pc = "deleting" =>
         /\ req[r].route \in {"session", "legacy", "login"}
         /\ req[r].rows \subseteq req[r].now \cup {req[r].token}
         /\ req[r].route = "session" => req[r].token \in req[r].rows /\ ~req[r].user
         /\ req[r].route = "legacy" =>
              /\ req[r].user /\ account.legacy = req[r].token
              /\ req[r].token \in Tokens \ stored
         /\ req[r].route = "login" => req[r].token = NoToken

\* A token that was exchanged is dead in both places.
ConsumedInv ==
  \A r \in Requests : Rotated(r) => req[r].token \in Tokens /\ ~Live(req[r].token)

\* Nobody knows the token of a request before its answer.
SecretInv ==
  \A r \in Requests :
    /\ req[r].pc \notin {"granted", "done"} => req[r].result = "none" /\ r \notin stored
    /\ req[r].pc = "granted" => r \in stored \cup expired
    /\ req[r].pc # "done" =>
         /\ \A q \in Requests : req[q].token # r
         /\ \A b \in Browsers : cookie[b] # r

\* A token is in the hands of one browser.
OwnerInv ==
  \A b \in Browsers : cookie[b] # NoToken =>
    /\ \A a \in Browsers : cookie[a] = cookie[b] => a = b
    /\ \A r \in Requests : req[r].token = cookie[b] => b = BrowserOf[r]

\* The inductive invariant of the sessions.
SessionsInv ==
  /\ TypeOK /\ LocksInv /\ RouteInv /\ ConsumedInv /\ SecretInv /\ OwnerInv
  /\ RotatedOnce /\ CookieIsLive
=============================================================================
