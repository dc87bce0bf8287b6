---------------------------- MODULE AINodeRouter ----------------------------
(***************************************************************************)
(* The gpt-service node router: the ai_nodes table with its health columns *)
(* and the AINodeRouter that spreads inference requests over the nodes.    *)
(*                                                                         *)
(* The service is one asyncio process.  invoke() runs without giving way   *)
(* from one await to the next, and only the model call and the closing of  *)
(* its client suspend it: the concurrency lock is never held across an     *)
(* await.  A step of a request is therefore everything between two         *)
(* suspensions.  What a request knows of a node's health and limit is what *)
(* list_candidates read when the request arrived.                          *)
(***************************************************************************)
EXTENDS Integers, FiniteSets

CONSTANTS
  Nodes,          \* node ids (never reused)
  Capabilities,   \* analysis, chat, vision
  Requests,       \* inference requests
  CapabilityOf,   \* CapabilityOf[r]: what request r asks for
  Serves,         \* Serves[n]: capabilities of the enabled models of n
  Rank,           \* Rank[n]: position of n in the order by priority and name
  Priority,       \* Priority[n]
  Weight,         \* Weight[n]
  Limits,         \* values of max_concurrency
  Threshold,      \* AI_NODE_FAILURE_THRESHOLD
  InitialNodes,   \* rows that may be in the table when the service starts
  Legacy,         \* the nodes that legacy_node_definitions() describes
  Managed,        \* the one of them that start-up keeps in sync: summary-vllm or none
  MaxOps,         \* bound on administration, health checks, faults and restarts
  NoNode          \* the node of a request that calls none

VARIABLES
  node,           \* node[n]: row n of ai_nodes
  slots,          \* slots.node: _inflight, slots.capability: _inflight_by_capability
  cursor,         \* cursor[c, G]: _weighted_cursor of capability c and group G
  req,            \* req[r]: the local state of invoke() for request r
  traffic,        \* the request counters of the router
  metrics,        \* metrics[n]: NodeRuntimeMetrics of n
  ops             \* number of bounded steps taken so far

vars == <<node, slots, cursor, req, traffic, metrics, ops>>

-----------------------------------------------------------------------------
(* Types *)

Healths == {"unknown", "healthy", "degraded", "unhealthy"}

\* cooling: last_checked_at is within AI_NODE_RETRY_COOLDOWN_SECONDS of now; it
\* is read for unhealthy nodes only.
NodeRow == [listed: {"never", "live", "deleted"}, enabled: BOOLEAN, health: Healths,
            failures: Nat, cooling: BOOLEAN, limit: Nat \ {0}]

Phases == {"new", "calling", "closing", "done"}

\* 200; 422; 503; 502; an exception of the database; the process is gone.
Results == {"none", "answered", "invalid", "unavailable", "failed", "error", "lost"}

\* limits[n]: the effective limit of candidate n, 0 if n is not a candidate;
\* rest: candidates not visited yet; full: saw_saturated_candidate.
Request == [pc: Phases, limits: [Nodes -> Nat], primary: SUBSET Nodes,
            rest: SUBSET Nodes, at: Nodes \cup {NoNode}, full: BOOLEAN,
            tried: SUBSET Nodes, refused: SUBSET Nodes, result: Results]

Traffic == [total: Nat, succeeded: Nat, failed: Nat, capacityRejected: Nat,
            spillovers: Nat]

Metrics == [attempts: Nat, successes: Nat, failures: Nat, rejections: Nat,
            capacity: Nat]

\* What record_success and record_failure keep true of a row: the failures that
\* were counted and the status that was derived from them agree.
Consistent(row) ==
  /\ row.health \in {"unknown", "healthy"} <=> row.failures = 0
  /\ row.health = "unhealthy" <=> row.failures >= Threshold

ASSUME RouterAssumption ==
  /\ IsFiniteSet(Nodes) /\ IsFiniteSet(Requests)
  /\ CapabilityOf \in [Requests -> Capabilities]
  /\ Serves \in [Nodes -> SUBSET Capabilities]
  /\ Rank \in [Nodes -> Nat]
  /\ \A m, n \in Nodes : m # n => Rank[m] # Rank[n]
  /\ Priority \in [Nodes -> Int]
  /\ \A m, n \in Nodes : Rank[m] < Rank[n] => Priority[m] <= Priority[n]
  /\ Weight \in [Nodes -> 1..100]
  /\ Limits \subseteq Nat \ {0}
  /\ Threshold \in Nat \ {0}
  /\ InitialNodes \subseteq NodeRow
  /\ \A row \in InitialNodes : Consistent(row)
  /\ Managed \subseteq Legacy
  /\ Legacy \subseteq Nodes
  /\ MaxOps \in Nat
  /\ NoNode \notin Nodes

\* Every row, request and counter has its type.
TypeOK ==
  /\ node \in [Nodes -> NodeRow]
  /\ slots \in [node: [Nodes -> Nat], capability: [Capabilities -> Nat]]
  /\ cursor \in [Capabilities \X SUBSET Nodes -> Nat]
  /\ req \in [Requests -> Request]
  /\ traffic \in Traffic
  /\ metrics \in [Nodes -> Metrics]
  /\ ops \in 0..MaxOps

NewRequest ==
  [pc |-> "new", limits |-> [n \in Nodes |-> 0], primary |-> {}, rest |-> {},
   at |-> NoNode, full |-> FALSE, tried |-> {}, refused |-> {}, result |-> "none"]

NoSlots == [node |-> [n \in Nodes |-> 0], capability |-> [c \in Capabilities |-> 0]]
NoCursor == [k \in Capabilities \X SUBSET Nodes |-> 0]
NoTraffic == [total |-> 0, succeeded |-> 0, failed |-> 0, capacityRejected |-> 0,
              spillovers |-> 0]
NoMetrics == [n \in Nodes |-> [attempts |-> 0, successes |-> 0, failures |-> 0,
                               rejections |-> 0, capacity |-> 0]]

\* The service has started: the managed node is in the table, and enabled.
Init ==
  /\ node \in [Nodes -> InitialNodes]
  /\ \A n \in Managed : node[n].listed = "live" /\ node[n].enabled
  /\ slots = NoSlots
  /\ cursor = NoCursor
  /\ req = [r \in Requests |-> NewRequest]
  /\ traffic = NoTraffic
  /\ metrics = NoMetrics
  /\ ops = 0

-----------------------------------------------------------------------------
(* Health *)

Live(n) == node[n].listed = "live"
Suspect(row) == row.health \in {"degraded", "unhealthy"}

\* Faulty variants, here and below, are the mistakes that the properties at the
\* end of this module rule out; no action uses them.
Succeeded(row) ==
  [row EXCEPT !.health = "healthy", !.failures = 0, !.cooling = FALSE]

Failed(row) ==
  [row EXCEPT !.failures = @ + 1, !.cooling = TRUE,
              !.health = IF row.failures + 1 >= Threshold THEN "unhealthy"
                         ELSE "degraded"]

\* UPDATE ai_nodes ... WHERE id = :id, which a deleted node does not match.
RecordSuccess(n) == node' = [node EXCEPT ![n] = IF Live(n) THEN Succeeded(@) ELSE @]
RecordFailure(n) == node' = [node EXCEPT ![n] = IF Live(n) THEN Failed(@) ELSE @]

-----------------------------------------------------------------------------
(* Candidates and their order *)

Candidates(c) ==
  {n \in Nodes : /\ Live(n) /\ node[n].enabled
                 /\ c \in Serves[n]
                 /\ node[n].health = "unhealthy" => ~node[n].cooling}

Probes(c) == {n \in Candidates(c) : Suspect(node[n])}

Best(S) == {n \in S : \A m \in S : Rank[n] <= Rank[m]}

PrimaryGroup(c) ==
  {n \in Candidates(c) : \A m \in Candidates(c) : Priority[n] <= Priority[m]}

\* The pool holds each node of the group as often as its weight says.
Pool(G) == UNION {{n} \X (1..Weight[n]) : n \in G}
PoolSize(G) == Cardinality(Pool(G))

Turn(G, count) ==
  {n \in G :
     LET earlier == PoolSize({m \in G : Rank[m] < Rank[n]})
         index == count % PoolSize(G)
     IN  earlier <= index /\ index < earlier + Weight[n]}

\* The candidate to be tried first, as a singleton.
Primary(c) ==
  IF Probes(c) # {} THEN Best(Probes(c))
  ELSE Turn(PrimaryGroup(c), cursor[<<c, PrimaryGroup(c)>>])

AdvanceCursor(c) ==
  LET G == PrimaryGroup(c)
  IN  cursor' = IF Probes(c) # {} THEN cursor
                ELSE [cursor EXCEPT ![<<c, G>>] = @ + 1]

\* Candidates come in the order of list_candidates, the primary first.
Ahead(p, n) ==
  {m \in p.rest : /\ m # n
                  /\ m \in p.primary \/ (n \notin p.primary /\ Rank[m] < Rank[n])}

-----------------------------------------------------------------------------
(* Slots *)

\* A suspect node takes one request at a time.
EffectiveLimit(row) == IF Suspect(row) THEN 1 ELSE row.limit

\* Faulty: the limit is compared as if the new request were not counted.
HasRoomForOneMore(s, p, n) == s.node[n] <= p.limits[n]

HasRoom(s, p, n) == s.node[n] < p.limits[n]

Reserve(s, r, n) ==
  [node |-> [s.node EXCEPT ![n] = @ + 1],
   capability |-> [s.capability EXCEPT ![CapabilityOf[r]] = @ + 1]]

Floor(k) == IF k < 0 THEN 0 ELSE k

\* Faulty: the slot of the node is freed, that of the capability is not.
ReleaseInPart(s, r, n) ==
  [node |-> [s.node EXCEPT ![n] = Floor(@ - 1)], capability |-> s.capability]

Release(s, r, n) ==
  [node |-> [s.node EXCEPT ![n] = Floor(@ - 1)],
   capability |-> [s.capability EXCEPT ![CapabilityOf[r]] = Floor(@ - 1)]]

-----------------------------------------------------------------------------
(* invoke *)

Count(cond) == IF cond THEN 1 ELSE 0

\* Faulty: a node that was skipped counts as attempted.
CountVisitSaturated(K, n) ==
  metrics' = [m \in Nodes |->
    [metrics[m] EXCEPT !.capacity = @ + Count(m \in K),
                       !.attempts = @ + Count(m \in K \cup {n})]]

\* The candidates in K were found saturated; the call, if any, goes to n.
CountVisit(K, n) ==
  metrics' = [m \in Nodes |->
    [metrics[m] EXCEPT !.capacity = @ + Count(m \in K),
                       !.attempts = @ + Count(m = n)]]

\* Plan p goes on to the first candidate that has room.
CallNext(r, p, s, t) ==
  \E n \in p.rest :
    /\ HasRoom(s, p, n)
    /\ \A m \in Ahead(p, n) : ~HasRoom(s, p, m)
    /\ req' = [req EXCEPT ![r] =
         [p EXCEPT !.pc = "calling", !.at = n, !.tried = @ \cup {n},
                   !.rest = @ \ (Ahead(p, n) \cup {n}),
                   !.full = @ \/ Ahead(p, n) # {}]]
    /\ slots' = Reserve(s, r, n)
    /\ CountVisit(Ahead(p, n), n)
    /\ traffic' = t

\* The verdict on a request that no node answered.
Verdict(p) ==
  IF p.tried = {} THEN "unavailable"
  ELSE IF p.refused # p.tried THEN "failed"
  ELSE IF p.tried = {n \in Nodes : p.limits[n] > 0} THEN "invalid"
  ELSE "unavailable"

\* The loop ends: every candidate left is saturated, or the deadline passed with
\* only those in K found saturated.
Conclude(r, p, s, t, late) ==
  \E K \in SUBSET p.rest :
    LET full == p.full \/ K # {}
        verdict == Verdict(p)
    IN  /\ \A n \in K : ~HasRoom(s, p, n) /\ Ahead(p, n) \subseteq K
        /\ K = p.rest \/ late
        /\ req' = [req EXCEPT ![r] =
             [p EXCEPT !.pc = "done", !.at = NoNode, !.rest = {}, !.full = full,
                       !.result = verdict]]
        /\ slots' = s
        /\ CountVisit(K, NoNode)
        /\ traffic' =
             [t EXCEPT !.failed = @ + 1,
                       !.capacityRejected = @ + Count(verdict = "unavailable" /\ full)]

Arrived == [traffic EXCEPT !.total = @ + 1]

InvokeNowhere(r) ==
  /\ req[r].pc = "new"
  /\ Candidates(CapabilityOf[r]) = {}
  /\ req' = [req EXCEPT ![r] = [NewRequest EXCEPT !.pc = "done",
                                                 !.result = "unavailable"]]
  /\ traffic' = [Arrived EXCEPT !.failed = @ + 1]
  /\ UNCHANGED <<node, slots, cursor, metrics, ops>>

\* The database is down when the candidates are listed.
InvokeFails(r) ==
  /\ req[r].pc = "new"
  /\ ops < MaxOps
  /\ ops' = ops + 1
  /\ req' = [req EXCEPT ![r] = [NewRequest EXCEPT !.pc = "done", !.result = "error"]]
  /\ traffic' = Arrived
  /\ UNCHANGED <<node, slots, cursor, metrics>>

Plan(c) ==
  [NewRequest EXCEPT
     !.limits = [n \in Nodes |-> IF n \in Candidates(c) THEN EffectiveLimit(node[n])
                                 ELSE 0],
     !.primary = Primary(c),
     !.rest = Candidates(c)]

Invoke(r) ==
  LET c == CapabilityOf[r]
  IN  /\ req[r].pc = "new"
      /\ Candidates(c) # {}
      /\ AdvanceCursor(c)
      /\ \/ CallNext(r, Plan(c), slots, Arrived)
         \/ Conclude(r, Plan(c), slots, Arrived, FALSE)
      /\ UNCHANGED <<node, ops>>

Outcome(r, result) ==
  /\ req[r].pc = "calling"
  /\ req' = [req EXCEPT ![r] = [req[r] EXCEPT !.pc = "closing", !.result = result]]

Answer(r) ==
  /\ Outcome(r, "answered")
  /\ RecordSuccess(req[r].at)
  /\ metrics' = [metrics EXCEPT ![req[r].at].successes = @ + 1]
  /\ traffic' = [traffic EXCEPT !.succeeded = @ + 1,
                                !.spillovers = @ + Count(req[r].full)]
  /\ UNCHANGED <<slots, cursor, ops>>

\* Faulty: the exception leaves invoke() before the request is counted as failed.
MisconfiguredUncounted(r) ==
  /\ Outcome(r, "invalid")
  /\ metrics' = [metrics EXCEPT ![req[r].at].rejections = @ + 1]
  /\ UNCHANGED <<node, slots, cursor, traffic, ops>>

\* AdapterConfigurationError: the request itself is at fault.
Misconfigured(r) ==
  /\ Outcome(r, "invalid")
  /\ metrics' = [metrics EXCEPT ![req[r].at].rejections = @ + 1]
  /\ traffic' = [traffic EXCEPT !.failed = @ + 1]
  /\ UNCHANGED <<node, slots, cursor, ops>>

\* HTTP 400, 413, 415 or 422: the node stays healthy, another one is tried.
Refuse(r) ==
  /\ req[r].pc = "calling"
  /\ req' = [req EXCEPT ![r] = [req[r] EXCEPT !.pc = "closing",
                                             !.refused = @ \cup {req[r].at}]]
  /\ metrics' = [metrics EXCEPT ![req[r].at].rejections = @ + 1]
  /\ UNCHANGED <<node, slots, cursor, traffic, ops>>

\* Another error, a timeout, an answer that transform rejects, or an adapter that
\* cannot be built.
CallFails(r) ==
  /\ Outcome(r, "none")
  /\ RecordFailure(req[r].at)
  /\ metrics' = [metrics EXCEPT ![req[r].at].failures = @ + 1]
  /\ UNCHANGED <<slots, cursor, traffic, ops>>

\* The database is down when the outcome is recorded: invoke() ends with its
\* exception, and counts the request neither as succeeded nor as failed.
StoreFails(r) ==
  /\ ops < MaxOps
  /\ ops' = ops + 1
  /\ Outcome(r, "error")
  /\ metrics' = [metrics EXCEPT ![req[r].at].failures = @ + 1]
  /\ UNCHANGED <<node, slots, cursor, traffic>>

\* Faulty: a request that finds every other candidate saturated waits for a slot.
CloseWaits(r) ==
  LET freed == Release(slots, r, req[r].at)
  IN  /\ req[r].pc = "closing"
      /\ \/ /\ req[r].result # "none"
            /\ req' = [req EXCEPT ![r] = [req[r] EXCEPT !.pc = "done", !.at = NoNode,
                                                       !.rest = {}]]
            /\ slots' = freed
            /\ UNCHANGED <<metrics, traffic>>
         \/ /\ req[r].result = "none"
            /\ CallNext(r, req[r], freed, traffic)
      /\ UNCHANGED <<node, cursor, ops>>

\* finally: the client is closed, the slot released; then invoke() returns,
\* raises, or goes on to the next candidate.
Close(r) ==
  LET freed == Release(slots, r, req[r].at)
  IN  /\ req[r].pc = "closing"
      /\ \/ /\ req[r].result # "none"
            /\ req' = [req EXCEPT ![r] = [req[r] EXCEPT !.pc = "done", !.at = NoNode,
                                                       !.rest = {}]]
            /\ slots' = freed
            /\ UNCHANGED <<metrics, traffic>>
         \/ /\ req[r].result = "none"
            /\ \/ CallNext(r, req[r], freed, traffic)
               \/ Conclude(r, req[r], freed, traffic, TRUE)
      /\ UNCHANGED <<node, cursor, ops>>

-----------------------------------------------------------------------------
(* Administration, health checks, time and restarts *)

Operate == ops < MaxOps /\ ops' = ops + 1

UpdateNode(n, enabled, limit) ==
  /\ Operate
  /\ Live(n)
  /\ node' = [node EXCEPT ![n].enabled = enabled, ![n].limit = limit]
  /\ UNCHANGED <<slots, cursor, req, traffic, metrics>>

\* A row as create_node and the start-up insert it.
NewNode(enabled, limit) ==
  [listed |-> "live", enabled |-> enabled, health |-> "unknown", failures |-> 0,
   cooling |-> FALSE, limit |-> limit]

CreateNode(n, enabled, limit) ==
  /\ Operate
  /\ node[n].listed = "never"
  /\ node' = [node EXCEPT ![n] = NewNode(enabled, limit)]
  /\ UNCHANGED <<slots, cursor, req, traffic, metrics>>

DeleteNode(n) ==
  /\ Operate
  /\ Live(n)
  /\ node' = [node EXCEPT ![n].listed = "deleted"]
  /\ UNCHANGED <<slots, cursor, req, traffic, metrics>>

\* health_check, at the point where its result is recorded; it takes no slot.
HealthCheck(n) ==
  /\ Operate
  /\ Live(n)
  /\ RecordSuccess(n) \/ RecordFailure(n)
  /\ UNCHANGED <<slots, cursor, req, traffic, metrics>>

CooldownElapses(n) ==
  /\ node[n].cooling
  /\ node' = [node EXCEPT ![n].cooling = FALSE]
  /\ UNCHANGED <<slots, cursor, req, traffic, metrics, ops>>

\* Faulty: the health that the old configuration earned is kept in part.
SynchronizedStale(row, limit) ==
  [row EXCEPT !.enabled = TRUE, !.limit = limit, !.health = "unknown",
              !.cooling = FALSE]

\* synchronize_named_node, when a column or the models differ from the environment.
Synchronized(row, limit) ==
  [row EXCEPT !.enabled = TRUE, !.limit = limit, !.health = "unknown",
              !.failures = 0, !.cooling = FALSE]

\* bootstrap_legacy_nodes: an empty table is filled, otherwise the managed node is
\* inserted or, where its row or its models (changed) differ from the environment,
\* synchronised.  A node that comes back gets a new id; nothing remembers the old
\* one, so it keeps its name here.
Bootstrap(changed, limit) ==
  LET described == IF \A n \in Nodes : ~Live(n) THEN Legacy ELSE Managed
  IN  [n \in Nodes |->
         IF n \in described /\ ~Live(n) THEN NewNode(TRUE, limit[n])
         ELSE IF /\ n \in Managed
                 /\ n \in changed \/ ~node[n].enabled \/ node[n].limit # limit[n]
         THEN Synchronized(node[n], limit[n])
         ELSE node[n]]

\* The process restarts: requests, slots, cursors and counters are gone.
Restart ==
  /\ Operate
  /\ \E changed \in SUBSET Managed, limit \in [Legacy -> Limits] :
       node' = Bootstrap(changed, limit)
  /\ slots' = NoSlots
  /\ cursor' = NoCursor
  /\ req' = [r \in Requests |->
       IF req[r].pc = "new" THEN NewRequest
       ELSE [NewRequest EXCEPT !.pc = "done", !.result = "lost"]]
  /\ traffic' = NoTraffic
  /\ metrics' = NoMetrics

-----------------------------------------------------------------------------
Arrive(r) == InvokeNowhere(r) \/ InvokeFails(r) \/ Invoke(r)

\* The steps of a request after its arrival.
Proceed(r) ==
  \/ Answer(r)
  \/ Misconfigured(r)
  \/ Refuse(r)
  \/ CallFails(r)
  \/ StoreFails(r)
  \/ Close(r)

Administer(n) ==
  \/ \E enabled \in BOOLEAN, limit \in Limits :
       UpdateNode(n, enabled, limit) \/ CreateNode(n, enabled, limit)
  \/ DeleteNode(n)
  \/ HealthCheck(n)

Next ==
  \/ \E r \in Requests : Arrive(r) \/ Proceed(r)
  \/ \E n \in Nodes : Administer(n) \/ CooldownElapses(n)
  \/ Restart

Spec == Init /\ [][Next]_vars

\* Every call ends within its timeout and the event loop runs what is ready.
FairSpec == Spec /\ \A r \in Requests : WF_vars(Proceed(r))

-----------------------------------------------------------------------------
(* Properties *)

Holds(r, n) == req[r].pc \in {"calling", "closing"} /\ req[r].at = n
Holders(n) == {r \in Requests : Holds(r, n)}

\* The semaphores leak no slot and free none twice: they count exactly the
\* requests that are at a node, over every error path, failover and admin change.
InflightExact ==
  /\ \A n \in Nodes : slots.node[n] = Cardinality(Holders(n))
  /\ \A c \in Capabilities : slots.capability[c] =
       Cardinality({r \in Requests : \E n \in Nodes : Holds(r, n) /\ CapabilityOf[r] = c})

\* However limits and health change while requests hold snapshots of them, at most
\* k of the requests at a node were admitted under a limit of k.  With k = 1: two
\* recovery probes never run on one node at a time.
CapacityRespected ==
  \A n \in Nodes, k \in Limits \cup {1} :
    Cardinality({r \in Holders(n) : req[r].limits[n] <= k}) <= k

\* Every row agrees with itself after any interleaving of answers, failures,
\* health checks and synchronisation.
HealthConsistent == \A n \in Nodes : Consistent(node[n])

With(results) == {r \in Requests : req[r].result \in results}

\* Each figure of the traffic counts exactly the requests it is about: the total all
\* that arrived, success and failure those that ended with an answer or with one of
\* the router's own errors, spillovers and capacity rejections those of them that met
\* a saturated node.
RequestsAccounted ==
  /\ traffic.total = Cardinality({r \in Requests : req[r].pc # "new"} \ With({"lost"}))
  /\ traffic.succeeded = Cardinality(With({"answered"}))
  /\ traffic.failed = Cardinality(With({"invalid", "unavailable", "failed"}))
  /\ traffic.spillovers = Cardinality({r \in With({"answered"}) : req[r].full})
  /\ traffic.capacityRejected = Cardinality({r \in With({"unavailable"}) : req[r].full})

\* Every attempt on a node ends in one of its counters, or is still running.
AttemptsAccounted ==
  \A n \in Nodes :
    metrics[n].attempts = metrics[n].successes + metrics[n].failures
      + metrics[n].rejections
      + Cardinality({r \in Holders(n) : req[r].pc = "calling"})

Undecided == {r \in With({"none"}) : req[r].pc # "new"}

\* Success and failure fall short of the total by the requests in progress and by
\* those that ended with an exception of the database, and by no others: these are
\* in the total and in no outcome for good, and no spillover or rejection either.
TotalExplained ==
  traffic.total = traffic.succeeded + traffic.failed
    + Cardinality(Undecided) + Cardinality(With({"error"}))

\* The figures an operator reads, those of the nodes and those of the traffic, are off
\* by nothing but the requests that a failing database took, over every way a request
\* can go.
CountersAccounted == AttemptsAccounted /\ RequestsAccounted /\ TotalExplained

\* A request is at a node exactly while it calls it or closes its client.
PlanInv ==
  \A r \in Requests : req[r].at = NoNode <=> req[r].pc \in {"new", "done"}

\* The inductive invariant behind the two bounds on slots and behind the health of
\* the rows.
RouterInv ==
  TypeOK /\ PlanInv /\ InflightExact /\ CapacityRespected /\ HealthConsistent

\* A request that arrived gets its response, or is lost with the process.
RequestsEnd == \A r \in Requests : req[r].pc # "new" ~> req[r].pc = "done"
=============================================================================
