----------------------------- MODULE SqlGateway -----------------------------
(***************************************************************************)
(* The SQL side of one node: client sessions and their explicit and        *)
(* autocommit transactions, point writes, scans over several tablets, the  *)
(* commit of a transaction through the tablet gateway, the registry of     *)
(* transactions whose recovery this node owns, their heartbeats, and the   *)
(* history pins of all of them.                                            *)
(*                                                                         *)
(* External, kept to what this side sees of them: the tablets (versions,   *)
(* intents, transaction status, commands under way), the metadata that     *)
(* describes their layout, and the cleaner that expires abandoned          *)
(* transactions.  A request may end at any of its checks because its       *)
(* deadline passed, its client went away or the history lease is lost.     *)
(***************************************************************************)
EXTENDS DistributedScan

CONSTANTS
    Sessions,             \* client connections
    Scenarios,            \* the instances to check, see below
    HeartbeatBatch,       \* TransactionRuntimeConfig::heartbeat_batch_size
    MaxTxns,              \* bound: transactions the scripts of a scenario begin
    MaxTopologyRefreshes, \* MAX_SCAN_TOPOLOGY_REFRESHES
    MaxRouteRefreshes,    \* route refreshes of one commit phase
    MaxIntentResolutions  \* MAX_FOREGROUND_SCAN_INTENT_RESOLUTIONS

Operations == {"begin", "insert", "update", "delete", "scan", "stream", "commit", "rollback"}

\* A scenario: the statements each client sends, in order, the successive
\* layouts of the table, the rows it starts with, whether requests may fail,
\* whether the cleaner runs, and the places of the registry (max_active_transactions).
ASSUME GatewayConstants ==
    /\ {HeartbeatBatch, MaxIntentResolutions} \subseteq Nat \ {0}
    /\ {MaxTopologyRefreshes, MaxRouteRefreshes} \subseteq Nat
    /\ \A c \in Scenarios :
         /\ \A s \in Sessions : \A i \in DOMAIN c.script[s] :
              c.script[s][i].op \in Operations /\ c.script[s][i].keys \subseteq Keys
         /\ c.layouts # <<>> /\ \A i \in DOMAIN c.layouts : ValidRouter(c.layouts[i])
         /\ c.rows \subseteq Keys /\ c.failures \in BOOLEAN /\ c.cleaner \in BOOLEAN /\ c.capacity \in Nat \ {0}

VARIABLES
    scenario,   \* the instance at hand
    layout,     \* external: the layout the tablets have
    seen,       \* the layout in this node's routing snapshot
    next_ts,    \* external: the timestamp oracle
    txn,        \* the transactions begun, in the order of their ids
    versions,   \* external: the committed versions of each key, by writer
    locks,      \* external: the transaction whose intent is on each key, or 0
    status,     \* external: the status record of each transaction
    outcome,    \* external: what the tablets answered each deciding command
    wire,       \* deciding commands under way
    sql,        \* per connection: next statement, open transaction, pin owner
    stmt,       \* per connection: the statement that runs
    registry,   \* TransactionLifecycleRegistry
    pins,       \* GcProtectionTracker: transactions whose history is pinned
    tasks       \* heartbeats of the round that runs

tablets == <<layout, versions, locks, status, outcome>>
vars == <<scenario, layout, seen, next_ts, txn, versions, locks, status, outcome, wire,
          sql, stmt, registry, pins, tasks>>

Txns == 1..Len(txn)
Idle == [op |-> "none"]
Router(i) == scenario.layouts[i]
EmptyRegistry == [registrations |-> {}, footprints |-> {}, active |-> {}, cursor |-> 0]

Init ==
    /\ scenario \in Scenarios
    /\ layout = 1 /\ seen = 1 /\ next_ts = 1
    /\ txn = <<>> /\ status = <<>> /\ outcome = <<>>
    /\ versions = [k \in Keys |-> IF k \in scenario.rows THEN {0} ELSE {}]
    /\ locks = [k \in Keys |-> 0]
    /\ wire = {} /\ pins = {} /\ tasks = <<>>
    /\ sql = [s \in Sessions |-> [pc |-> 1, txn |-> 0, owner |-> 0]]
    /\ stmt = [s \in Sessions |-> Idle]
    /\ registry = EmptyRegistry

-----------------------------------------------------------------------------
(* What the tablets hold.  Writer 0 stands for the rows of the start.       *)

CommitTs(w) == IF w = 0 THEN 0 ELSE txn[w].commit
Kind(w, k) == IF w = 0 THEN "put" ELSE txn[w].writes[k]

\* The row of a key that a snapshot shows, as a set of at most one.
VisibleRow(k, read_ts) ==
    LET old == {w \in versions[k] : CommitTs(w) <= read_ts}
        newest == {w \in old : \A v \in old : CommitTs(v) <= CommitTs(w)}
    IN  {<<k, w>> : w \in {v \in newest : Kind(v, k) = "put"}}

\* A lock stands in the way of a snapshot unless its transaction began later.
scan_conflicting_intents(keys, read_ts) ==
    {k \in keys : locks[k] # 0 /\ txn[locks[k]].start <= read_ts}

Conflict(t, keys) ==
    \E k \in keys : locks[k] \notin {0, t} \/ \E w \in versions[k] : CommitTs(w) > txn[t].start

WriteKeys(t) == DOMAIN txn[t].writes
Primary(t) == Min(WriteKeys(t))

\* Resolution of intents whose transaction is decided.
Resolvable(k) == status[locks[k]] \in {"committed", "aborted"}
AfterResolution(keys) ==
    /\ versions' = [k \in Keys |-> IF k \in keys /\ status[locks[k]] = "committed"
                                   THEN versions[k] \cup {locks[k]} ELSE versions[k]]
    /\ locks' = [k \in Keys |-> IF k \in keys THEN 0 ELSE locks[k]]

-----------------------------------------------------------------------------
(* TransactionLifecycleRegistry and the owners of history pins.             *)

lifecycle_reservation_count(r) == Cardinality(r.active \cup r.registrations \cup r.footprints)

record_transaction_footprint(r, t) ==
    IF t \in r.active THEN r ELSE [r EXCEPT !.footprints = @ \cup {t}]

prepare_primary_status(r, t) ==
    IF t \in r.active \cup r.registrations THEN r ELSE [r EXCEPT !.registrations = @ \cup {t}]

activate(r, t) ==
    [r EXCEPT !.registrations = @ \ {t}, !.footprints = @ \ {t}, !.active = @ \cup {t}]

release_reservation(r, t) == [r EXCEPT !.registrations = @ \ {t}, !.footprints = @ \ {t}]

unregister(r, t) ==
    [r EXCEPT !.registrations = @ \ {t}, !.footprints = @ \ {t}, !.active = @ \ {t}]

\* An owner that goes away releases its pin, unless recovery owns the transaction.
DropAlways(r, p, t) == p \ {t}
DropGcProtectionOwnership(r, p, t) == IF t \in r.active THEN p ELSE p \ {t}

-----------------------------------------------------------------------------
(* The end of a statement: what owns its pin goes away, then the connection *)
(* notices whether its open transaction changed.                            *)

UpdateConnection(s, r, p) ==
    /\ stmt' = [stmt EXCEPT ![s] = Idle]
    /\ sql' = [sql EXCEPT ![s].owner = sql[s].txn]
    /\ registry' = r
    /\ pins' = IF sql[s].owner \notin {0, sql[s].txn}
               THEN DropGcProtectionOwnership(r, p, sql[s].owner) ELSE p

StatementEnds(s, r, p) ==
    UpdateConnection(s, r, IF stmt[s].auto THEN DropGcProtectionOwnership(r, p, stmt[s].txn) ELSE p)

\* DatabaseServices::commit_transaction after its inner part: success is terminal,
\* and so is an error that left nothing for recovery to own.
commit_transaction_keeping(s, r, ok) ==
    StatementEnds(s, IF ok THEN unregister(r, stmt[s].txn) ELSE r,
                  IF ok \/ stmt[s].txn \notin r.active THEN pins \ {stmt[s].txn} ELSE pins)
commit_transaction(s, r, ok) ==
    LET t == stmt[s].txn
    IN  IF ok \/ t \notin r.active
        THEN StatementEnds(s, unregister(r, t), pins \ {t})
        ELSE StatementEnds(s, r, pins)

-----------------------------------------------------------------------------
(* Statements begin.                                                        *)

Statement(s) == scenario.script[s][sql[s].pc]
MayStart(s, ops) ==
    /\ stmt[s] = Idle /\ sql[s].pc \in DOMAIN scenario.script[s]
    /\ Statement(s).op \in ops

NewTxn == [start |-> next_ts, writes |-> <<>>, commit |-> 0]

\* Under the admission lock: a timestamp, a transaction and its pin.
BeginTransaction ==
    /\ txn' = Append(txn, NewTxn) /\ next_ts' = next_ts + 1
    /\ status' = Append(status, "none")
    /\ outcome' = Append(outcome, [prewrite |-> "none", commit |-> "none"])
    /\ pins' = pins \cup {Len(txn) + 1}

Begin(s) ==
    /\ MayStart(s, {"begin"}) /\ sql[s].txn = 0
    /\ BeginTransaction
    /\ sql' = [sql EXCEPT ![s] = [pc |-> @.pc + 1, txn |-> Len(txn) + 1, owner |-> Len(txn) + 1]]
    /\ UNCHANGED <<scenario, layout, seen, versions, locks, wire, stmt, registry, tasks>>

\* BEGIN inside a transaction, COMMIT and ROLLBACK outside of one.
Misplaced(s) ==
    /\ \/ MayStart(s, {"begin"}) /\ sql[s].txn # 0
       \/ MayStart(s, {"commit", "rollback"}) /\ sql[s].txn = 0
    /\ sql' = [sql EXCEPT ![s].pc = @ + 1]
    /\ UNCHANGED <<scenario, tablets, seen, next_ts, txn, wire, stmt, registry, pins, tasks>>

Rollback(s) ==
    /\ MayStart(s, {"rollback"}) /\ sql[s].txn # 0
    /\ sql' = [sql EXCEPT ![s] = [pc |-> @.pc + 1, txn |-> 0, owner |-> 0]]
    /\ pins' = DropGcProtectionOwnership(registry, pins \ {sql[s].txn}, sql[s].owner)
    /\ UNCHANGED <<scenario, tablets, seen, next_ts, txn, wire, stmt, registry, tasks>>

\* The client goes away with a transaction open.
Disconnect(s) ==
    /\ stmt[s] = Idle /\ sql[s].txn # 0
    /\ sql' = [sql EXCEPT ![s] = [pc |-> Len(scenario.script[s]) + 1, txn |-> 0, owner |-> 0]]
    /\ pins' = DropGcProtectionOwnership(registry, pins, sql[s].owner)
    /\ UNCHANGED <<scenario, tablets, seen, next_ts, txn, wire, stmt, registry, tasks>>

Running(op, t, auto, keys) == [op |-> op, txn |-> t, auto |-> auto, phase |-> "run", keys |-> keys]

\* Rows are sent as they are read unless the transaction has writes to lay over them.
Streams(op, t, auto) == op = "stream" /\ (auto \/ txn[t].writes = <<>>)

\* A scan starts from the fragments of the whole table.
Scanning(op, t, auto) ==
    LET routes == route_scan_fragments(Router(seen), Unbounded)
    IN  [op |-> op, txn |-> t, auto |-> auto, phase |-> "run",
         streaming |-> Streams(op, t, auto),
         hash |-> identical_hash_spans(routes),
         work |-> resume_scan_routes(routes, 0, 0), remaining |-> {Unbounded},
         rows |-> {}, resolved |-> 0]

Reading == {"scan", "stream"}
Writing == {"insert", "update", "delete"}

\* A data statement runs in the open transaction, or in one of its own.
Execute(s) ==
    /\ MayStart(s, Reading \cup Writing)
    /\ LET auto == sql[s].txn = 0
           t == IF auto THEN Len(txn) + 1 ELSE sql[s].txn
           q == Statement(s)
       IN  /\ IF auto THEN BeginTransaction ELSE UNCHANGED <<txn, next_ts, status, outcome, pins>>
           /\ stmt' = [stmt EXCEPT ![s] = IF q.op \in Reading THEN Scanning(q.op, t, auto)
                                          ELSE Running(q.op, t, auto, q.keys)]
    /\ sql' = [sql EXCEPT ![s].pc = @ + 1]
    /\ UNCHANGED <<scenario, layout, seen, versions, locks, wire, registry, tasks>>

\* COMMIT takes the transaction out of the session before anything else.
Commit(s) ==
    /\ MayStart(s, {"commit"}) /\ sql[s].txn # 0
    /\ stmt' = [stmt EXCEPT ![s] = [Running("commit", sql[s].txn, FALSE, {}) EXCEPT !.phase = "enter"]]
    /\ sql' = [sql EXCEPT ![s].pc = @ + 1, ![s].txn = 0]
    /\ UNCHANGED <<scenario, tablets, seen, next_ts, txn, wire, registry, pins, tasks>>

-----------------------------------------------------------------------------
(* Point writes: execute_insert, execute_update and execute_delete by key.  *)

Snapshot(t) == txn[t].start
In(s, ops, phase) == stmt[s].op \in ops /\ stmt[s].phase = phase

\* The keys of a write that are read from a tablet, and the locks in the way.
PointReads(s) == stmt[s].keys \ WriteKeys(stmt[s].txn)
Blocked(s) == scan_conflicting_intents(PointReads(s), Snapshot(stmt[s].txn))

\* Whether a point read finds a row: what the transaction wrote itself comes first.
point_row(t, k) ==
    IF k \in WriteKeys(t) THEN txn[t].writes[k] = "put" ELSE VisibleRow(k, Snapshot(t)) # {}

SingleDestination(keys) == Cardinality({route_point(Router(seen), k) : k \in keys}) <= 1

\* A terminal intent is resolved, then the point is read again.
PointResolves(s) ==
    /\ In(s, Writing, "run") /\ Blocked(s) # {} /\ \A k \in Blocked(s) : Resolvable(k)
    /\ AfterResolution(Blocked(s))
    /\ UNCHANGED <<scenario, layout, seen, next_ts, txn, status, outcome, wire, sql, stmt,
                   registry, pins, tasks>>

Present(st) == {k \in st.keys : point_row(st.txn, k)}
\* INSERT refuses a key that has a row; UPDATE and DELETE skip keys that have none.
execute_insert(st) == [k \in st.keys |-> "put"]
execute_update(st) == [k \in Present(st) |-> "put"]
execute_delete(st) == [k \in Present(st) |-> "delete"]
Mutations(st) ==
    CASE st.op = "insert" -> execute_insert(st)
      [] st.op = "update" -> execute_update(st)
      [] st.op = "delete" -> execute_delete(st)

\* The whole statement is buffered at once, and autocommit goes on to commit.
BufferWrites(s) ==
    LET st == stmt[s]
    IN  /\ In(s, Writing, "run") /\ Blocked(s) = {} /\ SingleDestination(st.keys)
        /\ st.op = "insert" => Present(st) = {}
        /\ txn' = [txn EXCEPT ![st.txn].writes = Mutations(st) @@ @]
        /\ IF st.auto
           THEN /\ stmt' = [stmt EXCEPT ![s].op = "commit", ![s].phase = "enter"]
                /\ UNCHANGED <<sql, registry, pins>>
           ELSE UpdateConnection(s, registry, pins)
        /\ UNCHANGED <<scenario, tablets, seen, next_ts, wire, tasks>>

WriteIsRefused(s) ==
    /\ In(s, Writing, "run")
    /\ \/ ~SingleDestination(stmt[s].keys)
       \/ stmt[s].op = "insert" /\ Blocked(s) = {} /\ Present(stmt[s]) # {}

-----------------------------------------------------------------------------
(* Scans: distributed_scan_rows, and distributed_scan_each_row for a        *)
(* stream in a transaction without writes.                                  *)

Fragment(s) == Head(stmt[s].work)
AtWork(s) ==
    In(s, Reading, "run") /\ stmt[s].work # <<>> /\ ~(stmt[s].streaming /\ stmt[s].hash)

Hosting(s) == {t \in ToSet(Router(layout).tablets) : t.tablet = Fragment(s).route.tablet}
Current(s) == \E t \in Hosting(s) : t.epoch = Fragment(s).route.epoch
Stale(s) == Hosting(s) # {} /\ ~Current(s)

\* evaluate_scan_request at the tablet a fragment is sent to.
evaluate_scan_request(s) ==
    LET owned == {k \in Asked(Fragment(s)) :
                    route_point(Router(layout), k) = Fragment(s).route.tablet}
    IN  TabletScanBatch(scan_conflicting_intents(owned, Snapshot(stmt[s].txn)),
                        UNION {VisibleRow(k, Snapshot(stmt[s].txn)) : k \in owned})

Refreshed(s) == route_scan_fragments(Router(seen), Fragment(s).route.span)

\* The tablet has another epoch: its span is looked up again from the cursor on.
ScanRefreshes(s) ==
    /\ AtWork(s) /\ Stale(s) /\ Fragment(s).refreshes < MaxTopologyRefreshes
    /\ validate_scan_route_cover(Fragment(s).route.span, Refreshed(s))
    /\ stmt' = [stmt EXCEPT ![s].work =
                  resume_scan_routes(Refreshed(s), Fragment(s).resume, Fragment(s).refreshes + 1)
                    \o Tail(@)]
    /\ UNCHANGED <<scenario, tablets, seen, next_ts, txn, wire, sql, registry, pins, tasks>>

\* Intents of decided transactions are resolved and the same cursor is read again.
SkipsLocked(fragment, batch) == [fragment EXCEPT !.resume = Max(batch.intents)]
RetryCursor(fragment, batch) == fragment

ScanResolves(s) ==
    LET batch == evaluate_scan_request(s)
    IN  /\ AtWork(s) /\ Current(s) /\ batch.intents # {}
        /\ stmt[s].resolved + Cardinality(batch.intents) <= MaxIntentResolutions
        /\ \A k \in batch.intents : Resolvable(k)
        /\ AfterResolution(batch.intents)
        /\ stmt' = [stmt EXCEPT ![s].resolved = @ + Cardinality(batch.intents),
                                ![s].work = <<RetryCursor(Head(@), batch)>> \o Tail(@)]
        /\ UNCHANGED <<scenario, layout, seen, next_ts, txn, status, outcome, wire, sql,
                       registry, pins, tasks>>

\* The same row twice, or out of order in a stream, ends the scan.
Repeats(s, batch) ==
    \E r \in batch.rows, q \in stmt[s].rows :
        IF stmt[s].streaming THEN r[1] <= q[1] ELSE r[1] = q[1]

Completes(s, batch) == batch.exhausted /\ ~stmt[s].hash

ScanReads(s) ==
    LET batch == evaluate_scan_request(s)
        span == Fragment(s).route.span
    IN  /\ AtWork(s) /\ Current(s) /\ batch.intents = {} /\ ~Repeats(s, batch)
        /\ Completes(s, batch) => MayComplete(stmt[s].remaining, span)
        /\ stmt' = [stmt EXCEPT
                      ![s].rows = @ \cup batch.rows,
                      ![s].work = IF batch.exhausted THEN Tail(@)
                                  ELSE <<[Head(@) EXCEPT !.resume = batch.next]>> \o Tail(@),
                      ![s].remaining = IF Completes(s, batch) THEN mark_completed(@, span) ELSE @]
        /\ UNCHANGED <<scenario, tablets, seen, next_ts, txn, wire, sql, registry, pins, tasks>>

\* What the transaction wrote itself goes over the committed rows.
Overlay(rows, t) ==
    {r \in rows : r[1] \notin WriteKeys(t)}
      \cup {<<k, t>> : k \in {j \in WriteKeys(t) : txn[t].writes[j] = "put"}}

Outstanding(s) ==
    IF stmt[s].hash THEN mark_completed(stmt[s].remaining, Unbounded) ELSE stmt[s].remaining

ScanFinishes(s) ==
    /\ In(s, Reading, "run") /\ stmt[s].work = <<>> /\ Outstanding(s) = {}
    /\ stmt' = [stmt EXCEPT ![s].phase = "done", ![s].rows = Overlay(@, stmt[s].txn)]
    /\ UNCHANGED <<scenario, tablets, seen, next_ts, txn, wire, sql, registry, pins, tasks>>

ScanIsRefused(s) ==
    /\ In(s, Reading, "run")
    /\ \/ stmt[s].streaming /\ stmt[s].hash
       \/ stmt[s].work = <<>> /\ Outstanding(s) # {}
       \/ AtWork(s) /\ Hosting(s) = {}
       \/ AtWork(s) /\ Stale(s)
            /\ (\/ Fragment(s).refreshes >= MaxTopologyRefreshes
                \/ ~validate_scan_route_cover(Fragment(s).route.span, Refreshed(s)))
       \/ /\ AtWork(s) /\ Current(s)
          /\ LET batch == evaluate_scan_request(s)
             IN  \/ stmt[s].resolved + Cardinality(batch.intents) > MaxIntentResolutions
                 \/ Repeats(s, batch)
                 \/ Completes(s, batch) /\ ~MayComplete(stmt[s].remaining, Fragment(s).route.span)

\* The rows are handed out; an autocommit reader has nothing to commit.
ScanReturns(s) ==
    /\ In(s, Reading, "done")
    /\ StatementEnds(s, IF stmt[s].auto THEN unregister(registry, stmt[s].txn) ELSE registry, pins)
    /\ UNCHANGED <<scenario, tablets, seen, next_ts, txn, wire, tasks>>

\* An intent of an undecided transaction ends the statement, after those that come
\* before it were resolved.
BlockedByIntent(s) ==
    LET met == IF stmt[s].op \in Writing THEN Blocked(s) ELSE evaluate_scan_request(s).intents
        before == {k \in met : \A j \in met : j <= k => Resolvable(j)}
    IN  /\ In(s, Writing, "run") \/ (AtWork(s) /\ Current(s))
        /\ before # met
        /\ AfterResolution(before)
        /\ StatementEnds(s, registry, pins)
        /\ UNCHANGED <<scenario, layout, seen, next_ts, txn, status, outcome, wire, tasks>>

\* A data statement fails.  An open transaction stays with its session.
StatementFails(s) ==
    /\ In(s, Reading \cup Writing, "run")
    /\ scenario.failures \/ WriteIsRefused(s) \/ ScanIsRefused(s)
    /\ StatementEnds(s, registry, pins)
    /\ UNCHANGED <<scenario, tablets, seen, next_ts, txn, wire, tasks>>

-----------------------------------------------------------------------------
(* Commit.  The commands that decide a transaction - the prewrite of its    *)
(* primary key, the commit of its primary key, and the one-phase commit -   *)
(* travel on the wire and may be applied after their sender gave up.        *)

Command(t, name) == [txn |-> t, name |-> name]
Phase(s, phase) == stmt' = [stmt EXCEPT ![s].phase = phase]
Committing(s, phase) == In(s, {"commit"}, phase)

AtCapacity(r, t) ==
    t \notin r.active \cup r.registrations \cup r.footprints
      /\ lifecycle_reservation_count(r) >= scenario.capacity

transaction_requires_distributed_coordination(t) == ~SingleDestination(WriteKeys(t))

\* The request is over before anything was recorded.
CommitRefused(s) ==
    /\ Committing(s, "enter") /\ scenario.failures
    /\ commit_transaction(s, registry, FALSE)
    /\ UNCHANGED <<scenario, tablets, seen, next_ts, txn, wire, tasks>>

CommitEmpty(s) ==
    /\ Committing(s, "enter") /\ txn[stmt[s].txn].writes = <<>>
    /\ commit_transaction(s, registry, TRUE)
    /\ UNCHANGED <<scenario, tablets, seen, next_ts, txn, wire, tasks>>

CommitAtCapacity(s) ==
    /\ Committing(s, "enter") /\ txn[stmt[s].txn].writes # <<>> /\ AtCapacity(registry, stmt[s].txn)
    /\ StatementEnds(s, registry, pins \ {stmt[s].txn})
    /\ UNCHANGED <<scenario, tablets, seen, next_ts, txn, wire, tasks>>

\* The footprint takes a place in the registry before any command is sent.
CommitPlanned(s) ==
    LET t == stmt[s].txn
    IN  /\ Committing(s, "enter") /\ txn[t].writes # <<>> /\ ~AtCapacity(registry, t)
        /\ registry' = record_transaction_footprint(registry, t)
        /\ stmt' = [stmt EXCEPT ![s] = [op |-> "commit", txn |-> t, auto |-> @.auto,
             phase |-> IF transaction_requires_distributed_coordination(t) THEN "prewrite" ELSE "one_phase",
             todo |-> WriteKeys(t), plan |-> seen, reroutes |-> 0]]
        /\ UNCHANGED <<scenario, tablets, seen, next_ts, txn, wire, sql, pins, tasks>>

AllocateCommitTs(t) ==
    /\ txn' = [txn EXCEPT ![t].commit = next_ts]
    /\ next_ts' = next_ts + 1

\* SingleShardCommit: its timestamp is allocated before it is sent.
SendOnePhase(s) ==
    /\ Committing(s, "one_phase")
    /\ AllocateCommitTs(stmt[s].txn)
    /\ wire' = wire \cup {Command(stmt[s].txn, "one_phase")}
    /\ Phase(s, "one_phase_sent")
    /\ UNCHANGED <<scenario, tablets, seen, sql, registry, pins, tasks>>

OnePhaseAnswered(s) ==
    LET t == stmt[s].txn
    IN  /\ Committing(s, "one_phase_sent")
        /\ \/ outcome[t].commit # "none"
              /\ commit_transaction(s, registry, outcome[t].commit = "applied")
           \/ scenario.failures /\ commit_transaction(s, registry, FALSE)
        /\ UNCHANGED <<scenario, tablets, seen, next_ts, txn, wire, tasks>>

\* The primary prewrite reserves its registration, then leaves.
SendPrewrite(s) ==
    LET t == stmt[s].txn
    IN  /\ Committing(s, "prewrite") /\ Primary(t) \in stmt[s].todo
        /\ IF AtCapacity(registry, t)
           THEN commit_transaction(s, registry, FALSE) /\ UNCHANGED wire
           ELSE /\ registry' = prepare_primary_status(registry, t)
                /\ wire' = wire \cup {Command(t, "prewrite")}
                /\ stmt' = [stmt EXCEPT ![s].phase = "prewrite_sent", ![s].plan = seen]
                /\ UNCHANGED <<sql, pins>>
        /\ UNCHANGED <<scenario, tablets, seen, next_ts, txn, tasks>>

\* The tablet refuses it unseen, because of its epoch or its leader: the
\* reservation is given back and the route looked up again.
PrewriteRerouted(s) ==
    LET t == stmt[s].txn
    IN  /\ Committing(s, "prewrite_sent") /\ scenario.failures /\ Command(t, "prewrite") \in wire
        /\ wire' = wire \ {Command(t, "prewrite")}
        /\ IF stmt[s].reroutes = MaxRouteRefreshes
           THEN commit_transaction(s, release_reservation(registry, t), FALSE)
           ELSE /\ registry' = release_reservation(registry, t)
                /\ stmt' = [stmt EXCEPT ![s].phase = "prewrite", ![s].reroutes = @ + 1]
                /\ UNCHANGED <<sql, pins>>
        /\ UNCHANGED <<scenario, tablets, seen, next_ts, txn, tasks>>

PrimaryIsPrewritten(s) ==
    stmt' = [stmt EXCEPT ![s].phase = "prewrite", ![s].todo = @ \ {Primary(stmt[s].txn)}]

\* LifecycleTabletGateway::submit: an applied primary makes this node the owner of
\* the transaction's recovery, a definite refusal gives the reservation back.
PrewriteAnswered(s) ==
    LET t == stmt[s].txn
    IN  /\ Committing(s, "prewrite_sent") /\ outcome[t].prewrite # "none"
        /\ IF outcome[t].prewrite = "applied"
           THEN /\ registry' = activate(registry, t) /\ PrimaryIsPrewritten(s)
                /\ UNCHANGED <<sql, pins>>
           ELSE commit_transaction(s, release_reservation(registry, t), FALSE)
        /\ UNCHANGED <<scenario, tablets, seen, next_ts, txn, wire, tasks>>

\* The answer is lost: the transaction is registered provisionally, since the
\* command may have been or may yet be applied; then its outcome is asked for.
RegisterProvisionally(r, t) == activate(r, t)
PrewriteUncertain(s) ==
    LET t == stmt[s].txn
        r == RegisterProvisionally(registry, t)
    IN  /\ Committing(s, "prewrite_sent") /\ scenario.failures
        /\ \/ /\ outcome[t].prewrite = "applied"
              /\ registry' = r /\ PrimaryIsPrewritten(s)
              /\ UNCHANGED <<sql, pins>>
           \/ commit_transaction(s, r, FALSE)
        /\ UNCHANGED <<scenario, tablets, seen, next_ts, txn, wire, tasks>>

NextKey(s) == Min(stmt[s].todo)
OwnerOf(i, k) == route_point(Router(i), k)
Secondary(s) ==
    Committing(s, "prewrite") /\ stmt[s].todo # {} /\ Primary(stmt[s].txn) \notin stmt[s].todo

\* primary_prewrite_applied is set once the whole batch of the primary's tablet is.
primary_prewrite_applied(s) ==
    \A k \in stmt[s].todo : OwnerOf(stmt[s].plan, k) # OwnerOf(stmt[s].plan, Primary(stmt[s].txn))
\* The key went to another tablet after the transaction was planned.
OwnerChanged(s) == OwnerOf(seen, NextKey(s)) # OwnerOf(stmt[s].plan, NextKey(s))

PrewriteSecondary(s) ==
    LET t == stmt[s].txn
        k == NextKey(s)
    IN  /\ Secondary(s) /\ ~OwnerChanged(s) /\ ~Conflict(t, {k})
        /\ locks' = [locks EXCEPT ![k] = t]
        /\ \/ stmt' = [stmt EXCEPT ![s].todo = @ \ {k}] /\ UNCHANGED <<sql, registry, pins>>
           \/ scenario.failures /\ commit_transaction(s, registry, FALSE)
        /\ UNCHANGED <<scenario, layout, seen, next_ts, txn, versions, status, outcome, wire, tasks>>

\* A definite failure rolls back what is known to be prewritten; an unknown one, and
\* an owner that changed, are left to recovery.
PrewriteSecondaryFails(s) ==
    /\ Secondary(s)
    /\ \/ /\ Conflict(stmt[s].txn, {NextKey(s)}) \/ scenario.failures
          /\ primary_prewrite_applied(s) /\ ~OwnerChanged(s)
          /\ Phase(s, "rollback") /\ UNCHANGED <<sql, registry, pins>>
       \/ /\ OwnerChanged(s) \/ scenario.failures
             \/ (Conflict(stmt[s].txn, {NextKey(s)}) /\ ~primary_prewrite_applied(s))
          /\ commit_transaction(s, registry, FALSE)
    /\ UNCHANGED <<scenario, tablets, seen, next_ts, txn, wire, tasks>>

\* Every participant is prewritten: only now a commit timestamp is allocated.
SendCommit(s) ==
    /\ Committing(s, "prewrite") /\ stmt[s].todo = {}
    /\ AllocateCommitTs(stmt[s].txn)
    /\ wire' = wire \cup {Command(stmt[s].txn, "commit")}
    /\ Phase(s, "commit_sent")
    /\ UNCHANGED <<scenario, tablets, seen, sql, registry, pins, tasks>>

\* No timestamp to be had, or the transaction is over age.
CommitAbandoned(s) ==
    /\ Committing(s, "prewrite") /\ stmt[s].todo = {} /\ scenario.failures
    /\ Phase(s, "rollback")
    /\ UNCHANGED <<scenario, tablets, seen, next_ts, txn, wire, sql, registry, pins, tasks>>

PrimaryIsCommitted(s) ==
    stmt' = [stmt EXCEPT ![s].phase = "secondaries",
                         ![s].todo = WriteKeys(stmt[s].txn) \ {Primary(stmt[s].txn)}]

CommitAnswered(s) ==
    LET t == stmt[s].txn
    IN  /\ Committing(s, "commit_sent") /\ outcome[t].commit # "none"
        /\ IF outcome[t].commit = "applied"
           THEN registry' = unregister(registry, t) /\ PrimaryIsCommitted(s)
           ELSE UNCHANGED registry /\ Phase(s, "rollback")
        /\ UNCHANGED <<scenario, tablets, seen, next_ts, txn, wire, sql, pins, tasks>>

\* The answer is lost and asked for; a committed one goes on without unregistering.
CommitUncertain(s) ==
    /\ Committing(s, "commit_sent") /\ scenario.failures
    /\ \/ /\ outcome[stmt[s].txn].commit = "applied"
          /\ PrimaryIsCommitted(s) /\ UNCHANGED <<sql, registry, pins>>
       \/ commit_transaction(s, registry, FALSE)
    /\ UNCHANGED <<scenario, tablets, seen, next_ts, txn, wire, tasks>>

Held(t, keys) == {k \in keys : locks[k] = t}

\* Failures of secondary commits do not change the decision.
CommitSecondaries(s) ==
    LET t == stmt[s].txn
    IN  /\ Committing(s, "secondaries")
        /\ \E done \in SUBSET Held(t, stmt[s].todo) :
             /\ done # Held(t, stmt[s].todo) => scenario.failures
             /\ versions' = [k \in Keys |-> IF k \in done THEN versions[k] \cup {t} ELSE versions[k]]
             /\ locks' = [k \in Keys |-> IF k \in done THEN 0 ELSE locks[k]]
        /\ commit_transaction(s, registry, TRUE)
        /\ UNCHANGED <<scenario, layout, seen, next_ts, txn, status, outcome, wire, tasks>>

\* Every participant is rolled back before Aborted is published.
RollbackPrepared(s) ==
    LET t == stmt[s].txn
        held == Held(t, Keys)
    IN  /\ Committing(s, "rollback")
        /\ \E done \in SUBSET held :
             /\ locks' = [k \in Keys |-> IF k \in done THEN 0 ELSE locks[k]]
             /\ \/ /\ done = held
                   /\ status' = [status EXCEPT ![t] = "aborted"]
                   /\ commit_transaction(s, unregister(registry, t), FALSE)
                \/ /\ scenario.failures
                   /\ commit_transaction(s, registry, FALSE) /\ UNCHANGED status
        /\ UNCHANGED <<scenario, layout, seen, next_ts, txn, versions, outcome, wire, tasks>>

-----------------------------------------------------------------------------
(* The tablets, the metadata and the cleaner (external).                    *)

ApplyPrewrite(c) ==
    LET ok == status[c.txn] = "none" /\ ~Conflict(c.txn, {Primary(c.txn)})
    IN  /\ c.name = "prewrite"
        /\ status' = [status EXCEPT ![c.txn] = IF ok THEN "pending" ELSE @]
        /\ locks' = [locks EXCEPT ![Primary(c.txn)] = IF ok THEN c.txn ELSE @]
        /\ outcome' = [outcome EXCEPT ![c.txn].prewrite = IF ok THEN "applied" ELSE "rejected"]
        /\ UNCHANGED versions

ApplyCommit(c) ==
    LET ok == status[c.txn] = "pending"
    IN  /\ c.name = "commit"
        /\ status' = [status EXCEPT ![c.txn] = IF ok THEN "committed" ELSE @]
        /\ versions' = [versions EXCEPT ![Primary(c.txn)] = IF ok THEN @ \cup {c.txn} ELSE @]
        /\ locks' = [locks EXCEPT ![Primary(c.txn)] = IF ok THEN 0 ELSE @]
        /\ outcome' = [outcome EXCEPT ![c.txn].commit = IF ok THEN "applied" ELSE "rejected"]

ApplyOnePhase(c) ==
    LET ok == ~Conflict(c.txn, WriteKeys(c.txn))
    IN  /\ c.name = "one_phase"
        /\ versions' = [k \in Keys |-> IF ok /\ k \in WriteKeys(c.txn) THEN versions[k] \cup {c.txn}
                                       ELSE versions[k]]
        /\ outcome' = [outcome EXCEPT ![c.txn].commit = IF ok THEN "applied" ELSE "rejected"]
        /\ UNCHANGED <<status, locks>>

ApplyCommand ==
    \E c \in wire :
        /\ ApplyPrewrite(c) \/ ApplyCommit(c) \/ ApplyOnePhase(c)
        /\ wire' = wire \ {c}
        /\ UNCHANGED <<scenario, layout, seen, next_ts, txn, sql, stmt, registry, pins, tasks>>

\* A tablet is split, or its buckets get another epoch.
ChangeLayout ==
    /\ layout < Len(scenario.layouts)
    /\ layout' = layout + 1
    /\ UNCHANGED <<scenario, seen, next_ts, txn, versions, locks, status, outcome, wire,
                   sql, stmt, registry, pins, tasks>>

\* The routing snapshot of this node catches up.
RefreshMetadata ==
    /\ seen < layout
    /\ seen' = layout
    /\ UNCHANGED <<scenario, tablets, next_ts, txn, wire, sql, stmt, registry, pins, tasks>>

\* A pending transaction whose lease lapsed is expired by some node's cleaner.
Expire ==
    /\ scenario.cleaner
    /\ \E t \in Txns : status[t] = "pending" /\ status' = [status EXCEPT ![t] = "aborted"]
    /\ UNCHANGED <<scenario, layout, seen, next_ts, txn, versions, locks, outcome, wire,
                   sql, stmt, registry, pins, tasks>>

-----------------------------------------------------------------------------
(* Heartbeats: rounds over the registry, a bounded batch at a time.         *)

InOrder(ts) == SetToSortSeq(ts, <)
Take(seq, n) == SubSeq(seq, 1, Min({n, Len(seq)}))

\* The batch after the cursor, topped up from the start of the registry.
CandidatesFromStart(r) == Take(InOrder(r.active), HeartbeatBatch)
heartbeat_candidates(r) ==
    LET after == Take(InOrder({t \in r.active : t > r.cursor}), HeartbeatBatch)
    IN  after \o Take(InOrder(r.active), HeartbeatBatch - Len(after))

HeartbeatRound ==
    /\ tasks = <<>> /\ registry.active # {}
    /\ tasks' = heartbeat_candidates(registry)
    /\ registry' = [registry EXCEPT !.cursor = Last(tasks')]
    /\ UNCHANGED <<scenario, tablets, seen, next_ts, txn, wire, sql, stmt, pins>>

release_recovered_transaction_ownership(t) ==
    registry' = unregister(registry, t) /\ pins' = pins \ {t}

\* A terminal record ends recovery.  An absent one is an error and a pending one is
\* renewed or left to expire: the registration stays.
HeartbeatOne ==
    /\ tasks # <<>>
    /\ IF status[Head(tasks)] \in {"committed", "aborted"}
       THEN release_recovered_transaction_ownership(Head(tasks))
       ELSE UNCHANGED <<registry, pins>>
    /\ tasks' = Tail(tasks)
    /\ UNCHANGED <<scenario, tablets, seen, next_ts, txn, wire, sql, stmt>>

-----------------------------------------------------------------------------
SessionStep(s) ==
    \/ Begin(s) \/ Misplaced(s) \/ Rollback(s) \/ Disconnect(s) \/ Execute(s) \/ Commit(s)
    \/ PointResolves(s) \/ BufferWrites(s) \/ BlockedByIntent(s) \/ StatementFails(s)
    \/ ScanRefreshes(s) \/ ScanResolves(s) \/ ScanReads(s) \/ ScanFinishes(s) \/ ScanReturns(s)

CommitStep(s) ==
    \/ CommitRefused(s) \/ CommitEmpty(s) \/ CommitAtCapacity(s) \/ CommitPlanned(s)
    \/ SendOnePhase(s) \/ OnePhaseAnswered(s)
    \/ SendPrewrite(s) \/ PrewriteRerouted(s) \/ PrewriteAnswered(s) \/ PrewriteUncertain(s)
    \/ PrewriteSecondary(s) \/ PrewriteSecondaryFails(s)
    \/ SendCommit(s) \/ CommitAbandoned(s) \/ CommitAnswered(s) \/ CommitUncertain(s)
    \/ CommitSecondaries(s) \/ RollbackPrepared(s)

Next ==
    \/ \E s \in Sessions : SessionStep(s) \/ CommitStep(s)
    \/ ApplyCommand \/ ChangeLayout \/ RefreshMetadata \/ Expire
    \/ HeartbeatRound \/ HeartbeatOne

\* The heartbeat loop keeps running, and its requests are answered in the end.
Fairness == WF_vars(HeartbeatRound) /\ WF_vars(HeartbeatOne)
Spec == Init /\ [][Next]_vars /\ Fairness

-----------------------------------------------------------------------------
(* Properties.                                                              *)

\* The rows a snapshot has by the commits of all transactions, whether or not their
\* intents were resolved yet.
CommittedRows(read_ts) ==
    LET Writers(k) == {w \in {0} \cup Txns :
                         /\ CommitTs(w) <= read_ts
                         /\ IF w = 0 THEN k \in scenario.rows
                            ELSE k \in WriteKeys(w) /\ outcome[w].commit = "applied"}
        Newest(k) == {w \in Writers(k) : \A v \in Writers(k) : CommitTs(v) <= CommitTs(w)}
    IN  UNION {{<<k, w>> : w \in {v \in Newest(k) : Kind(v, k) = "put"}} : k \in Keys}

\* A scan that succeeds returns exactly the rows of its transaction's snapshot with
\* its own writes over them, and a stream has sent, at any time, exactly those up to
\* its last row: whatever commits, is resolved or moves to other tablets meanwhile
\* (distributed_scan_rows, distributed_scan_each_row).
ScanIsExact ==
    \A s \in Sessions : stmt[s].op \in Reading =>
        LET rows == CommittedRows(Snapshot(stmt[s].txn))
        IN  /\ stmt[s].phase = "done" => stmt[s].rows = Overlay(rows, stmt[s].txn)
            /\ stmt[s].streaming =>
                 stmt[s].rows = {r \in rows : \E q \in stmt[s].rows : r[1] <= q[1]}

Terminal(t) == status[t] \in {"committed", "aborted"}
Runs(t) == \E s \in Sessions : stmt[s] # Idle /\ stmt[s].txn = t
Open(t) == \E s \in Sessions : sql[s].txn = t

\* The history a transaction may still read stays pinned while a session has it
\* open, while a statement of it runs and while this node owns its recovery; and no
\* pin outlives the last of them, however a statement, a connection or a recovery
\* ends (ConnectionGcProtectionOwnership, GcProtectionOwnership::drop,
\* release_recovered_transaction_ownership).
PinsFollowOwners ==
    \A t \in Txns :
        LET owned == Open(t) \/ Runs(t) \/ t \in registry.active
        IN  (owned => t \in pins \/ Terminal(t)) /\ (t \in pins => owned)

\* Places reserved in the registry belong to commits under way: none is leaked by a
\* refused, rerouted or failed commit (release_reservation, commit_transaction).
ReservationsAreCommits ==
    registry.registrations \cup registry.footprints
      \subseteq {stmt[s].txn : s \in {x \in Sessions : stmt[x].op = "commit"}}

\* A transaction that is pending at its primary has a commit under way or is
\* registered for heartbeats here, even if its prewrite was applied long after the
\* caller was told that the outcome is unknown (LifecycleTabletGateway::submit).
PendingIsOwned == \A t \in Txns : status[t] = "pending" => Runs(t) \/ t \in registry.active

\* A registered transaction that was decided leaves the registry, although a round
\* of heartbeats looks at a few of them only (heartbeat_candidates).
DecidedLeaveRegistry ==
    \A t \in 1..MaxTxns :
        (t \in Txns /\ t \in registry.active /\ Terminal(t)) ~> (t \notin registry.active)
=============================================================================
