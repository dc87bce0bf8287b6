------------------------------ MODULE Comments ------------------------------
(***************************************************************************)
(* Comments, replies and likes: the requests that api-gateway forwards to  *)
(* comment-service, and the like of a board that it forwards to            *)
(* board-service.  A handler reads rows, decides, and commits; PostgreSQL  *)
(* at READ COMMITTED lets other handlers commit between its statements,    *)
(* and the ORM then writes the counters computed from what was read.       *)
(***************************************************************************)
EXTENDS Integers, FiniteSets, SequencesExt

CONSTANTS
  Users,       \* accounts that the gateway can authenticate
  Requests,    \* requests; a comment that request r creates has the id r
  Seeds,       \* comments that are there at the start
  SeedRow,     \* SeedRow[c]: the row of a seed
  Boards,      \* board ids: the targets of board likes, and where comments are
  Limits,      \* how many roots a request may want on a page
  None,        \* no parent, no row
  Nobody       \* the identity of a request that is not authenticated

Ids == Seeds \cup Requests
Likeable == Ids \cup Boards

Rows == [parent : Ids \cup {None}, author : Users, board : Boards,
         text : Requests \cup {None}, deleted : BOOLEAN]

ASSUME CommentsAssumption ==
  /\ IsFiniteSet(Users)
  /\ IsFiniteSet(Ids)
  /\ Ids \cap (Boards \cup {None}) = {}
  /\ None \notin Boards \cup Rows
  /\ Seeds \cap Requests = {}
  /\ Nobody \notin Users
  /\ Limits \subseteq Int
  /\ SeedRow \in [Seeds -> Rows]
  /\ \A c \in Seeds : SeedRow[c].parent # None =>
       SeedRow[c].parent \in Seeds /\ SeedRow[SeedRow[c].parent].parent = None

VARIABLES
  comment,     \* comment[c]: the row of c in comments, or None
  likes,       \* likes[t]: like_count of a comment or of a board
  replies,     \* replies[c]: reply_count
  liked,       \* the rows <<t, u>> of comment_likes and board_likes
  order,       \* the comments by created_at, which a handler sets when it starts
  req,         \* req[r]: where the request stands
  overtakes    \* overtakes[<<n, t>>]: how often a commit that changed counter n
               \* of t fell between the read and the commit of another (history)

vars == <<comment, likes, replies, liked, order, req, overtakes>>

Ops == {"create", "update", "delete", "like"}
Phases == {"new", "read", "checked", "ready", "over"}

\* on: the comment, the board or the parent the request is about.  seen: the
\* counter as it was read.  liking: toggle_like found no like of the reader.
\* late: commits on that counter since the row was read (history).
Fresh == [phase |-> "new", op |-> "create", by |-> Nobody, on |-> None, board |-> None,
          seen |-> 0, liking |-> FALSE, late |-> 0]

Counters == {"likes", "replies"} \X Likeable

Live(c) == c \in Ids /\ comment[c] # None /\ ~comment[c].deleted
LiveReplies(p) == {c \in Ids : Live(c) /\ comment[c].parent = p}
Likers(t) == {u \in Users : <<t, u>> \in liked}

TypeOK ==
  /\ comment \in [Ids -> Rows \cup {None}]
  /\ likes \in [Likeable -> Nat]
  /\ replies \in [Ids -> Nat]
  /\ liked \subseteq Likeable \X Users
  /\ order \in Seq(Ids)
  /\ req \in [Requests ->
       [phase : Phases, op : Ops, by : Users \cup {Nobody},
        on : Likeable \cup {None}, board : Boards \cup {None}, seen : Nat,
        liking : BOOLEAN, late : Nat]]
  /\ overtakes \in [Counters -> Nat]

Init ==
  /\ comment = [c \in Ids |-> IF c \in Seeds THEN SeedRow[c] ELSE None]
  /\ likes = [t \in Likeable |-> 0]
  /\ replies = [c \in Ids |->
       Cardinality({d \in Seeds : SeedRow[d].parent = c /\ ~SeedRow[d].deleted})]
  /\ liked = {}
  /\ order \in SetToSeqs(Seeds)
  /\ req = [r \in Requests |-> Fresh]
  /\ overtakes = [k \in Counters |-> 0]

\* AuthMiddleware verifies the access token once, when the request arrives, and it
\* may have expired by then; proxy drops the identity headers the client sent and
\* adds the verified ones.
Identity(u) == {u, Nobody}

\* A write of u reaches the handler, or require_principal answers 401.  After
\* PROXY_TIMEOUT_SECONDS the gateway answers 500 while the handler goes on: what
\* the client sends then is another request.
Arrive(r, u, op, on, b) == \E who \in Identity(u) :
  /\ req[r].phase = "new"
  /\ req' = [req EXCEPT ![r] =
       IF who = Nobody
       THEN [Fresh EXCEPT !.phase = "over"]
       ELSE [Fresh EXCEPT !.phase = "read", !.by = u, !.op = op, !.on = on, !.board = b]]
  /\ order' = IF op = "create" /\ who # Nobody THEN Append(order, r) ELSE order
  /\ UNCHANGED <<comment, likes, replies, liked, overtakes>>

Send(r) == \E u \in Users, b \in Boards :
  \/ \E p \in Ids \cup {None} : Arrive(r, u, "create", p, b)
  \/ \E c \in Ids, op \in {"update", "delete"} : Arrive(r, u, op, c, b)
  \/ \E t \in Likeable : Arrive(r, u, "like", t, b)

\* The handler is done: it has answered, or found something wrong.
Over(r) ==
  /\ req' = [req EXCEPT ![r].phase = "over"]
  /\ UNCHANGED <<comment, likes, replies, liked, order, overtakes>>

Advance(r, phase, seen, liking) ==
  /\ req' = [req EXCEPT ![r] = [@ EXCEPT !.phase = phase, !.seen = seen, !.liking = liking]]
  /\ UNCHANGED <<comment, likes, replies, liked, order, overtakes>>

\* What the handler finds wrong with the row it reads first.
Missing(r) == req[r].on \in Ids /\ comment[req[r].on] = None
Deleted(r) == req[r].on \in Ids /\ comment[req[r].on] # None /\ comment[req[r].on].deleted
Foreign(r) == comment[req[r].on].author # req[r].by

\* Faulty: replies to replies are accepted.
WrongUnlessReply(r) ==
  \/ Missing(r)
  \/ Deleted(r)
  \/ req[r].op \in {"update", "delete"} /\ Foreign(r)

Wrong(r) ==
  \/ Missing(r)
  \/ Deleted(r)
  \/ req[r].op = "create" /\ comment[req[r].on].parent # None
  \/ req[r].op \in {"update", "delete"} /\ Foreign(r)

NeedsRow(r) == req[r].op # "create" \/ req[r].on # None
SeenAtFirst(r) ==
  CASE req[r].op = "like" -> likes[req[r].on]
    [] req[r].op = "create" -> replies[req[r].on]
    [] OTHER -> 0

\* The first statement of a handler: the row the request is about.
ReadRow(r) ==
  /\ req[r].phase = "read" /\ NeedsRow(r)
  /\ IF Wrong(r) THEN Over(r) ELSE Advance(r, "checked", SeenAtFirst(r), FALSE)

\* The second: the reader's like, or the parent whose count the delete changes.
ReadLike(r) ==
  /\ req[r].phase = "checked" /\ req[r].op = "like"
  /\ Advance(r, "ready", req[r].seen, <<req[r].on, req[r].by>> \notin liked)

ParentOf(r) == comment[req[r].on].parent

ReadParent(r) ==
  /\ req[r].phase = "checked" /\ req[r].op = "delete" /\ ParentOf(r) # None
  /\ Advance(r, "ready", replies[ParentOf(r)], FALSE)

\* The counter that the commit of r writes, if it writes one.
CounterOf(q) ==
  CASE q.op = "like" -> <<"likes", q.on>>
    [] q.op = "create" /\ q.on # None -> <<"replies", q.on>>
    [] q.op = "delete" /\ q.on \in Ids /\ comment[q.on] # None
         /\ comment[q.on].parent # None -> <<"replies", comment[q.on].parent>>
    [] OTHER -> <<"none", None>>

UnderWay(q) == q.phase \in {"checked", "ready"}

\* A commit on a counter ends the request and is held against those it overtakes.
Counted(r) ==
  LET k == CounterOf(req[r]) IN
  /\ req' = [q \in Requests |->
       IF q = r
       THEN [req[q] EXCEPT !.phase = "over"]
       ELSE IF k \in Counters /\ UnderWay(req[q]) /\ CounterOf(req[q]) = k
       THEN [req[q] EXCEPT !.late = @ + 1]
       ELSE req[q]]
  /\ overtakes' = [j \in Counters |->
       IF j = k THEN overtakes[j] + req[r].late ELSE overtakes[j]]

NewRow(r) == [parent |-> req[r].on, author |-> req[r].by, board |-> req[r].board,
              text |-> r, deleted |-> FALSE]

CreateRoot(r) ==
  /\ req[r].phase = "read" /\ ~NeedsRow(r)
  /\ comment' = [comment EXCEPT ![r] = NewRow(r)]
  /\ Counted(r)
  /\ UNCHANGED <<likes, replies, liked, order>>

\* The parent is not looked at again: it may be deleted by now.
CreateReply(r) ==
  /\ req[r].phase = "checked" /\ req[r].op = "create"
  /\ comment' = [comment EXCEPT ![r] = NewRow(r)]
  /\ replies' = [replies EXCEPT ![req[r].on] = req[r].seen + 1]
  /\ Counted(r)
  /\ UNCHANGED <<likes, liked, order>>

\* Faulty: the edit writes the row as it was read.
EditedWhole(r) == [comment[req[r].on] EXCEPT !.text = r, !.deleted = FALSE]

\* The ORM writes the columns that changed: an edit leaves is_deleted alone.
Edited(r) == [comment[req[r].on] EXCEPT !.text = r]

Update(r) ==
  /\ req[r].phase = "checked" /\ req[r].op = "update"
  /\ comment' = [comment EXCEPT ![req[r].on] = Edited(r)]
  /\ Counted(r)
  /\ UNCHANGED <<likes, replies, liked, order>>

\* Faulty: the count stays at one.
DecrementedToOne(seen, current) == IF seen <= 1 THEN current ELSE seen - 1

\* max(0, seen - 1); a counter read as 0 is not changed and so not written.
Decremented(seen, current) == IF seen = 0 THEN current ELSE seen - 1

Delete(r) ==
  /\ req[r].op = "delete"
  /\ \/ req[r].phase = "checked" /\ ParentOf(r) = None /\ UNCHANGED replies
     \/ /\ req[r].phase = "ready"
        /\ replies' = [replies EXCEPT ![ParentOf(r)] = Decremented(req[r].seen, @)]
  /\ comment' = [comment EXCEPT ![req[r].on].deleted = TRUE]
  /\ Counted(r)
  /\ UNCHANGED <<likes, liked, order>>

Like(r) ==
  LET t == req[r].on
      row == <<t, req[r].by>> IN
  /\ req[r].phase = "ready" /\ req[r].op = "like" /\ req[r].liking
  /\ row \notin liked
  /\ liked' = liked \cup {row}
  /\ likes' = [likes EXCEPT ![t] = req[r].seen + 1]
  /\ Counted(r)
  /\ UNCHANGED <<comment, replies, order>>

\* Deleting a row that is gone is not an error to the ORM.
Unlike(r) ==
  LET t == req[r].on IN
  /\ req[r].phase = "ready" /\ req[r].op = "like" /\ ~req[r].liking
  /\ t \in Ids
  /\ liked' = liked \ {<<t, req[r].by>>}
  /\ likes' = [likes EXCEPT ![t] = Decremented(req[r].seen, @)]
  /\ Counted(r)
  /\ UNCHANGED <<comment, replies, order>>

\* add_like of a board only adds; a second like changes nothing.
LikeAgain(r) ==
  /\ req[r].phase = "ready" /\ req[r].op = "like" /\ ~req[r].liking
  /\ req[r].on \in Boards
  /\ Over(r)

\* The unique constraint on likes, or the database: 500 and a rollback.
Fail(r) ==
  /\ req[r].phase \notin {"new", "over"}
  /\ Over(r)

Handle(r) ==
  \/ ReadRow(r) \/ ReadLike(r) \/ ReadParent(r)
  \/ CreateRoot(r) \/ CreateReply(r) \/ Update(r) \/ Delete(r)
  \/ Like(r) \/ Unlike(r) \/ LikeAgain(r)
  \/ Fail(r)

Next == \E r \in Requests : Send(r) \/ Handle(r)

Spec == Init /\ [][Next]_vars

-----------------------------------------------------------------------------
(* What list_comments answers *)

Positive(n) == IF n < 1 THEN 1 ELSE n

\* The k-th smallest of a set of numbers, and the comments at a set of places
\* of order by created_at.
Nth(P, k) == CHOOSE n \in P : Cardinality({m \in P : m <= n}) = k
InOrder(P) == [k \in 1..Cardinality(P) |-> order[Nth(P, k)]]

LiveRoots(b) ==
  Reverse(InOrder({i \in DOMAIN order :
    Live(order[i]) /\ comment[order[i]].parent = None /\ comment[order[i]].board = b}))

\* offset and limit of the roots, newest first.
PageOf(s, page, limit) ==
  SubSeq(s, (Positive(page) - 1) * Positive(limit) + 1,
            IF Positive(page) * Positive(limit) < Len(s)
            THEN Positive(page) * Positive(limit) ELSE Len(s))

WithReplies(p) ==
  <<p>> \o InOrder({i \in DOMAIN order : Live(order[i]) /\ comment[order[i]].parent = p})

ListComments(b, page, limit) ==
  LET roots == PageOf(LiveRoots(b), page, limit) IN
  [comments |-> FlattenSeq([i \in DOMAIN roots |-> WithReplies(roots[i])]),
   total |-> Cardinality({c \in Ids : Live(c) /\ comment[c].board = b})]

-----------------------------------------------------------------------------
(* Properties *)

Distance(m, n) == IF m < n THEN n - m ELSE m - n

\* like_count is off the number of likes, and reply_count off the number of
\* undeleted replies, by no more than the commits that fell between the reads
\* and the writes of other requests on that counter: where no two requests
\* overlap, both counts are exact.
CountersDrift ==
  /\ \A t \in Likeable :
       Distance(likes[t], Cardinality(Likers(t))) <= overtakes[<<"likes", t>>]
  /\ \A c \in Ids :
       Distance(replies[c], Cardinality(LiveReplies(c))) <= overtakes[<<"replies", c>>]

\* A deleted comment stays deleted, also under an edit that read it before.
DeletedStaysDeleted ==
  [][\A c \in Ids : comment[c] # None /\ comment[c].deleted =>
       comment'[c] # None /\ comment'[c].deleted]_vars

\* A comment that is not deleted under a root that is.
Hidden == {c \in Ids : Live(c) /\ comment[c].parent # None /\ ~Live(comment[c].parent)}

\* Whatever the limit, the pages of all boards list each comment once that is
\* not deleted and whose root is not, a reply after its root on the same page;
\* the hidden ones are only counted.
PagesPartition ==
  \A limit \in Limits :
    LET Pages == Boards \X (1..Cardinality(Ids))
        list == [g \in Pages |-> ListComments(g[1], g[2], limit).comments]
        places == UNION {{g} \X DOMAIN list[g] : g \in Pages}
        row == [x \in places |-> list[x[1]][x[2]]]
    IN
    /\ IsInjective(row)
    /\ Range(row) = {c \in Ids : Live(c)} \ Hidden
    /\ \A x \in places :
         LET p == comment[row[x]].parent IN
         p # None => \E y \in places : y[1] = x[1] /\ y[2] < x[2] /\ row[y] = p
=============================================================================
