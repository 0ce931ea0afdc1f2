-------------------------- MODULE ReplicaLifecycle --------------------------
(* The replica lifecycle of one tablet group: how a desired placement in the
   metadata catalog becomes local replicas, joins, membership changes,
   retirements, tombstones and node drains
   (crates/ragnordb-server/src/multiraft_runtime.rs, TabletLifecycleManager,
   with replica_registry.rs, replica_join.rs, drain_jobs.rs, node_lifecycle.rs
   and crates/ragnordb-multiraft/src/membership.rs and meta.rs).

   Every node runs the passes of its host loop on its own copy of the catalog,
   which lags the committed one.  The order of the passes of one node is left
   free.  The Raft core is outside the repository: a membership change that a
   leader proposes is committed or lost, and a replica learns the committed
   configurations one at a time.  Progress stages of a live join decide nothing
   and are one stage here; routes and snapshots have no state of their own. *)
EXTENDS MetadataCatalog

CONSTANTS
    Nodes,          \* the physical nodes
    Bootstrap,      \* the commands that built the catalog the run starts from
    Scenarios       \* what the operator and the faults may do: records of the
                    \*   placement edits (each [factor, replicas]), the leaving nodes,
                    \*   the nodes that may crash once, a bound on epochs, lifecycle
                    \*   changes and crashes together, and one on configurations

(* The identities a fresh allocator gives the one table created. *)
Tablet == 2
Group  == 3

VARIABLES
    meta,       \* the committed metadata catalog
    view,       \* node -> the catalog its metadata replica has applied
    confs,      \* the committed configurations, in order
    change,     \* the membership change in flight, or None
    leader,     \* the node leading the group, or None
    host,       \* node -> "up", "stopped", "down" or "refused"
    hosted,     \* node -> the replica it runs, or None
    boot,       \* node -> the durable bootstrap, or None
    reg,        \* node -> replica registry: id -> lifecycle
    join,       \* node -> join registry: id -> [stage, witness]
    wal,        \* node -> the replicas in its WAL: id -> configuration
    recovered,  \* node -> the same, as read at the last start
    released,   \* node -> replicas whose WAL retention was released
    pending,    \* node -> replicas whose retirement was proposed
    retirements,\* retirement proposals the metadata group has accepted
    plan,       \* node -> the membership action being prepared, or None
    job,        \* node -> its drain job, or None
    scenario,   \* the scenario this behaviour is in
    crashes

vars == <<meta, view, confs, change, leader, host, hosted, boot, reg, join, wal,
          recovered, released, pending, retirements, plan, job, scenario, crashes>>

Retired(s, r) == IsReplicaRetired(s, Group, r)

Desired(s) == s.placements[Tablet]

IsActive(s, n) == s.nodes[n].life = "active"

DesiredVoters(p) == {r.id : r \in {x \in p.replicas : x.role = "voter"}}

(* A configuration is [version, voters, learners]; an entry of confs also
   carries the last removal. *)
Members(c) == c.voters \cup c.learners

ConfOf(e) == [version |-> e.version, voters |-> e.voters, learners |-> e.learners]

Latest == confs[Len(confs)]

-----------------------------------------------------------------------------
(* The next membership action a placement calls for, most conservative first. *)

NextReconcileAction(d, c) ==
    LET voters   == DesiredVoters(d)
        learners == ReplicaIds(d.replicas) \ voters
        missing  == voters \ Members(c)
        waiting  == voters \cap c.learners
        extra    == learners \ Members(c)
        obsolete == Members(c) \ ReplicaIds(d.replicas)
    IN  IF missing # {} THEN [kind |-> "add", id |-> Min(missing)]
        ELSE IF waiting # {} THEN [kind |-> "promote", id |-> Min(waiting)]
        ELSE IF extra # {} THEN [kind |-> "add", id |-> Min(extra)]
        ELSE IF learners \cap c.voters # {} THEN None
        ELSE IF obsolete # {} THEN [kind |-> "remove", id |-> Min(obsolete)]
        ELSE None

NodeOf(p, r) == (CHOOSE x \in p.replicas : x.id = r).node

(* What must hold before a planned action is proposed. *)
UnpreparedPlan(s, p, local) ==
    CASE p.action.kind = "add"     -> TRUE
      [] p.action.kind = "promote" -> p.prepared /\ ~Retired(s, p.action.id)
      [] p.action.kind = "remove"  -> /\ p.action.id # local
                                      /\ Cardinality(p.conf.voters) > 1
                                      /\ DesiredVoters(p.desired) \subseteq p.conf.voters

PlanMembershipReconciliation(s, p, local) ==
    CASE p.action.kind = "add"     -> p.prepared
      [] p.action.kind = "promote" -> p.prepared /\ ~Retired(s, p.action.id)
      [] p.action.kind = "remove"  -> /\ p.action.id # local
                                      /\ Cardinality(p.conf.voters) > 1
                                      /\ DesiredVoters(p.desired) \subseteq p.conf.voters
                                      /\ ~Retired(s, p.action.id)

Changed(e, action) ==
    LET next == [e EXCEPT !.version = @ + 1] IN
    CASE action.kind = "add"     -> [next EXCEPT !.learners = @ \cup {action.id}]
      [] action.kind = "promote" -> [next EXCEPT !.learners = @ \ {action.id}, !.voters = @ \cup {action.id}]
      [] action.kind = "remove"  -> [next EXCEPT !.learners = @ \ {action.id}, !.voters = @ \ {action.id},
                                                 !.removed = [id |-> action.id, version |-> next.version]]

-----------------------------------------------------------------------------
(* One node's state, threaded through the stages of a pass. *)

Local(n) ==
    [node |-> n, view |-> view[n], hosted |-> hosted[n], boot |-> boot[n], reg |-> reg[n],
     join |-> join[n], recovered |-> recovered[n], released |-> released[n], failed |-> FALSE]

Failed(L) == [L EXCEPT !.failed = TRUE]

Hosts(L, r) == L.hosted # None /\ L.hosted.id = r

LiveJoin(L, r) == r \in DOMAIN L.join /\ L.join[r].stage = "live"

DesiredHere(L, r) == \E x \in Desired(L.view).replicas : x.id = r /\ x.node = L.node

(* LocalReplicaRegistry::ensure_replica and JoiningReplicaRegistry::ensure. *)
EnsureReplica(L, r) ==
    IF r \notin DOMAIN L.reg THEN [L EXCEPT !.reg = Put(@, r, "creating")]
    ELSE IF L.reg[r] = "tombstoned" THEN Failed(L)
    ELSE L

EnsureJoin(L, r, witness) ==
    IF r \notin DOMAIN L.join
    THEN [L EXCEPT !.join = Put(@, r, [stage |-> "live", witness |-> witness])]
    ELSE IF L.join[r].witness # witness THEN Failed(L)
    ELSE L

Run(L, r, entry, logged) ==
    [L EXCEPT !.hosted = [id |-> r, entry |-> entry, logged |-> logged]]

StartJoining(L, r, witness, unlocked) ==
    IF L.hosted # None \/ r \in Members(witness) \/ ~unlocked THEN Failed(L)
    ELSE IF r \in DOMAIN L.recovered THEN Run(L, r, L.recovered[r], TRUE)
    ELSE Run(L, r, Put(witness, "removed", None), FALSE)

Joinable(L, req, obsolete) ==
    /\ IsActive(L.view, req.node)
    /\ IsActive(L.view, req.source)
    /\ ~Retired(L.view, req.id)
    /\ obsolete \/ \E x \in Desired(L.view).replicas : x.id = req.id /\ x.node = req.node

(* Only the target persists anything; the other nodes install a route. *)
AdmitReplicaJoin(L, req, obsolete, unlocked) ==
    IF ~Joinable(L, req, obsolete) THEN Failed(L)
    ELSE IF req.node # L.node THEN L
    ELSE IF L.hosted # None /\ ConfOf(L.hosted.entry) # req.witness THEN Failed(L)
    ELSE IF req.id \in DOMAIN L.join /\ ~LiveJoin(L, req.id) THEN Failed(L)
    ELSE LET joined     == EnsureJoin(L, req.id, req.witness)
             registered == IF joined.failed THEN joined ELSE EnsureReplica(joined, req.id)
         IN  IF registered.failed THEN registered
             ELSE IF Hosts(registered, req.id)
                  THEN IF req.promote /\ req.id \notin Members(ConfOf(registered.hosted.entry))
                       THEN Failed(registered) ELSE registered
             ELSE StartJoining(registered, req.id, req.witness, unlocked)

RequestFromRecord(L, r) ==
    [id |-> r, node |-> L.node, source |-> L.node, witness |-> L.join[r].witness, promote |-> FALSE]

-----------------------------------------------------------------------------
(* The stages of one lifecycle pass. *)

(* A replica with a log is active; one that sees its own removal ends its join. *)
PublishProgress(L) ==
    IF L.hosted = None \/ ~L.hosted.logged THEN L
    ELSE LET r == L.hosted.id
             marked == [L EXCEPT !.reg[r] = IF @ = "creating" THEN "active" ELSE @]
         IN  IF LiveJoin(L, r) /\ r \notin Members(ConfOf(L.hosted.entry))
             THEN [marked EXCEPT !.join[r].stage = "removed"]
             ELSE marked

ConfStateProvesRemoved(L, r) ==
    IF Hosts(L, r) THEN L.hosted.logged /\ r \notin Members(ConfOf(L.hosted.entry))
    ELSE r \in DOMAIN L.recovered /\ r \notin Members(ConfOf(L.recovered[r]))

(* Route, runtime, WAL retention and bootstrap go once the tombstone is
   durable.  The writer released here cannot be issued a second time. *)
CleanupRetiredReplica(L, r) ==
    IF r \in L.released THEN Failed(L)
    ELSE [L EXCEPT !.hosted   = IF Hosts(L, r) THEN None ELSE @,
                   !.boot     = None,
                   !.released = @ \cup {r},
                   !.join     = IF r \in DOMAIN @ THEN Put(@, r, [@[r] EXCEPT !.stage = "retired"]) ELSE @]

RetireOne(L, r, life, active) ==
    IF L.failed THEN L
    ELSE IF ~Retired(L.view, r) THEN IF life = "tombstoned" THEN Failed(L) ELSE L
    ELSE IF life # "tombstoned" /\ ~ConfStateProvesRemoved(L, r) THEN L
    ELSE LET fenced == [L EXCEPT !.reg[r] = "tombstoned"]
         IN  IF active THEN CleanupRetiredReplica(fenced, r) ELSE fenced

(* A replica the placement no longer names is destroyed at once. *)
RetireUndesired(L, active) ==
    LET step(x, r, life) ==
            IF DesiredHere(x, r) THEN x
            ELSE CleanupRetiredReplica([x EXCEPT !.reg[r] = "tombstoned"], r)
    IN  RestoreEach(L, L.reg, step)

ReconcileRetired(L, active) ==
    LET step(x, r, life) == RetireOne(x, r, life, active)
    IN  RestoreEach(L, L.reg, step)

(* A recovered join that is no longer desired runs on until it is removed. *)
ReadmitObsolete(L, unlocked) ==
    LET step(x, r, record) ==
            IF x.failed \/ record.stage # "live" \/ r \notin DOMAIN x.recovered \/ DesiredHere(x, r)
            THEN x
            ELSE AdmitReplicaJoin(x, RequestFromRecord(x, r), TRUE, unlocked)
    IN  RestoreEach(L, L.join, step)

RequestedBootstrap(L, r) ==
    LET p == Desired(L.view) IN
    [id |-> r, entry |-> [version |-> p.epoch, voters |-> DesiredVoters(p),
                          learners |-> ReplicaIds(p.replicas) \ DesiredVoters(p), removed |-> None]]

(* Start the replica of a bootstrap, unless SQL holds the database lock. *)
StartBootstrap(L, b, unlocked) ==
    IF ~unlocked \/ Hosts(L, b.id) THEN L
    ELSE LET registered == EnsureReplica(L, b.id) IN
         IF registered.failed \/ L.hosted # None THEN Failed(registered)
         ELSE Run([registered EXCEPT !.boot = b], b.id,
                  IF b.id \in DOMAIN L.recovered THEN L.recovered[b.id] ELSE b.entry, TRUE)

StillCommitted(L, r) ==
    \/ Hosts(L, r)
    \/ r \in DOMAIN L.recovered /\ r \in Members(ConfOf(L.recovered[r]))

MaterializeTablet(L, unlocked) ==
    LET here == {x.id : x \in {y \in Desired(L.view).replicas : y.node = L.node}}
        r    == CHOOSE x \in here : TRUE
    IN  IF here = {}
        THEN IF L.boot # None /\ StillCommitted(L, L.boot.id)
             THEN StartBootstrap(L, L.boot, unlocked) ELSE L
        ELSE IF L.boot # None /\ L.boot.id = r THEN StartBootstrap(L, L.boot, unlocked)
        ELSE IF r \in DOMAIN L.join THEN AdmitReplicaJoin(L, RequestFromRecord(L, r), FALSE, unlocked)
        ELSE IF L.boot # None THEN L
        ELSE StartBootstrap(L, RequestedBootstrap(L, r), unlocked)

LifecyclePass(L, active, unlocked) ==
    LET retired   == ReconcileRetired(PublishProgress(L), active)
        readmitted == IF retired.failed THEN retired ELSE ReadmitObsolete(retired, unlocked)
    IN  IF readmitted.failed THEN readmitted ELSE MaterializeTablet(readmitted, unlocked)

(* Every recovered lifetime must be running or fenced before activation. *)
Accounted(L) ==
    \A r \in DOMAIN L.recovered :
        \/ Hosts(L, r)
        \/ /\ Retired(L.view, r)
           /\ ConfStateProvesRemoved(L, r)
           /\ r \in DOMAIN L.reg /\ L.reg[r] # "creating"

-----------------------------------------------------------------------------
(* The host thread waits while it prepares a membership action. *)
Idle(n) == host[n] = "up" /\ plan[n] = None

(* Installing what a pass did.  A failed pass ends the host loop, and with it
   the replica it runs. *)

Logged(L) ==
    IF L.hosted # None /\ L.hosted.logged THEN Put(wal[L.node], L.hosted.id, L.hosted.entry)
    ELSE wal[L.node]

Install(L, state) ==
    /\ host'      = [host EXCEPT ![L.node] = state]
    /\ hosted'    = [hosted EXCEPT ![L.node] = IF state = "up" THEN L.hosted ELSE None]
    /\ boot'      = [boot EXCEPT ![L.node] = L.boot]
    /\ reg'       = [reg EXCEPT ![L.node] = L.reg]
    /\ join'      = [join EXCEPT ![L.node] = L.join]
    /\ wal'       = [wal EXCEPT ![L.node] = Logged(L)]
    /\ recovered' = [recovered EXCEPT ![L.node] = L.recovered]
    /\ released'  = [released EXCEPT ![L.node] = L.released]
    /\ leader'    = IF leader = L.node /\ hosted'[L.node] # hosted[L.node] THEN None ELSE leader

Reconcile(n, unlocked) ==
    /\ Idle(n)
    /\ LET L == LifecyclePass(Local(n), TRUE, unlocked)
       IN  Install(L, IF L.failed THEN "stopped" ELSE "up")
    /\ UNCHANGED <<meta, view, confs, change, pending, retirements, plan, job, scenario, crashes>>

Inputs ==
    Desired(meta).epoch - 1 + crashes
      + FoldFunction(+, 0, [n \in Nodes |-> RankOf(meta.nodes[n].life) - 1])

Crash(n) ==
    /\ n \in scenario.crashing /\ host[n] # "down"
    /\ crashes = 0 /\ Inputs < scenario.inputs
    /\ crashes'  = crashes + 1
    /\ host'     = [host EXCEPT ![n] = "down"]
    /\ hosted'   = [hosted EXCEPT ![n] = None]
    /\ pending'  = [pending EXCEPT ![n] = {}]
    /\ plan'     = [plan EXCEPT ![n] = None]
    /\ leader'   = IF leader = n THEN None ELSE leader
    /\ UNCHANGED <<meta, view, confs, change, boot, reg, join, wal, recovered, released, retirements, job, scenario>>

Start(n) ==
    /\ host[n] = "down"
    /\ LET fresh == [Local(n) EXCEPT !.recovered = wal[n], !.released = {}]
           L     == LifecyclePass(fresh, FALSE, TRUE)
       IN  Install(L, IF L.failed \/ ~Accounted(L) THEN "refused" ELSE "up")
    /\ UNCHANGED <<meta, view, confs, change, pending, retirements, plan, job, scenario, crashes>>

-----------------------------------------------------------------------------
(* The leader's membership pass. *)

RemovalOutstanding(L) ==
    L.hosted.entry.removed # None /\ ~Retired(L.view, L.hosted.entry.removed.id)

PlanMembership(n) ==
    /\ Idle(n) /\ leader = n
    /\ ~RemovalOutstanding(Local(n))
    /\ LET d == Desired(view[n])
           c == ConfOf(hosted[n].entry)
           a == NextReconcileAction(d, c)
       IN  /\ a # None
           /\ plan' = [plan EXCEPT ![n] = [action |-> a, desired |-> d, conf |-> c,
                                           asked |-> a.kind = "remove", prepared |-> FALSE]]
    /\ UNCHANGED <<meta, view, confs, change, leader, host, hosted, boot, reg, join, wal,
                   recovered, released, pending, retirements, job, scenario, crashes>>

PlanRequest(n) ==
    LET p == plan[n] IN
    [id |-> p.action.id, node |-> NodeOf(p.desired, p.action.id), source |-> n,
     witness |-> p.conf, promote |-> p.action.kind = "promote"]

Reachable(m, n) == m = n \/ Idle(m)

Routes(m, n) == Reachable(m, n) /\ Joinable(Local(m), PlanRequest(n), FALSE)

(* The active nodes are asked in ascending order up to the first failure; a
   call may be lost on the way out or its answer on the way back.  Only the
   target changes state. *)
PrepareTarget(n, delivered, answered, unlocked) ==
    /\ plan[n] # None /\ ~plan[n].asked
    /\ LET req    == PlanRequest(n)
           others == ActiveNodes(view[n]) \ {req.node}
           L      == AdmitReplicaJoin(Local(req.node), req, FALSE, unlocked)
       IN  /\ delivered => /\ req.node \in ActiveNodes(view[n])
                           /\ Reachable(req.node, n)
                           /\ \A m \in others : m < req.node => Routes(m, n)
           /\ answered => delivered /\ ~L.failed /\ \A m \in others : Routes(m, n)
           /\ IF delivered THEN Install(L, "up")
              ELSE UNCHANGED <<host, hosted, boot, reg, join, wal, recovered, released, leader>>
           /\ plan' = [plan EXCEPT ![n].asked = TRUE, ![n].prepared = answered]
    /\ UNCHANGED <<meta, view, confs, change, pending, retirements, job, scenario, crashes>>

(* The catalog is read again before the proposal; the host checks the version. *)
ProposeMembership(n) ==
    /\ plan[n] # None /\ plan[n].asked
    /\ plan' = [plan EXCEPT ![n] = None]
    /\ LET p == plan[n]
           proposable ==
               /\ leader = n /\ change = None
               /\ Desired(view[n]) = p.desired
               /\ p.action.kind # "remove" => IsActive(view[n], NodeOf(p.desired, p.action.id))
               /\ PlanMembershipReconciliation(view[n], p, hosted[n].id)
               /\ ConfOf(hosted[n].entry) = p.conf
       IN  change' = IF proposable THEN Changed(hosted[n].entry, p.action) ELSE change
    /\ UNCHANGED <<meta, view, confs, leader, host, hosted, boot, reg, join, wal,
                   recovered, released, pending, retirements, job, scenario, crashes>>

-----------------------------------------------------------------------------
(* The Raft core, as the passes above observe it. *)

CommitChange ==
    /\ change # None
    /\ Len(confs) < scenario.versions
    /\ confs' = Append(confs, change)
    /\ change' = None
    /\ IF leader = None THEN UNCHANGED <<hosted, wal>>
       ELSE /\ hosted' = [hosted EXCEPT ![leader].entry = change]
            /\ wal' = [wal EXCEPT ![leader] = Put(@, hosted[leader].id, change)]
    /\ UNCHANGED <<meta, view, leader, host, boot, reg, join, recovered, released,
                   pending, retirements, plan, job, scenario, crashes>>

(* A replica is sent the entry that adds it and every later one up to the one
   that removes it. *)
LearnConfiguration(n) ==
    LET h == hosted[n]
        v == h.entry.version + 1
    IN  /\ h # None
        /\ v <= Len(confs)
        /\ h.entry = confs[v - 1] \/ ~h.logged
        /\ h.id \in Members(confs[v]) \cup Members(confs[v - 1])
        /\ hosted' = [hosted EXCEPT ![n].entry = confs[v], ![n].logged = TRUE]
        /\ wal' = [wal EXCEPT ![n] = Put(@, h.id, confs[v])]
        /\ UNCHANGED <<meta, view, confs, change, leader, host, boot, reg, join, recovered,
                       released, pending, retirements, plan, job, scenario, crashes>>

(* Another voter takes over; the change in flight survives in its log or not. *)
Elect(n) ==
    /\ leader # n
    /\ hosted[n] # None /\ hosted[n].entry = Latest /\ hosted[n].id \in Latest.voters
    /\ leader' = n
    /\ change' \in {change, None}
    /\ UNCHANGED <<meta, view, confs, host, hosted, boot, reg, join, wal, recovered,
                   released, pending, retirements, plan, job, scenario, crashes>>

(* A leader on a leaving node, or one the placement drops, hands over to the
   voter of least identity on an active node the catalog routes to. *)
SelectTransferTarget(s, c, local) ==
    {r \in c.voters \ {local} :
        /\ \E x \in Desired(s).replicas : x.id = r /\ IsActive(s, x.node)
        /\ \E m \in Nodes : hosted[m] # None /\ hosted[m].id = r /\ hosted[m].entry = Latest}

TransferLeadership(n) ==
    LET c       == ConfOf(hosted[n].entry)
        local   == hosted[n].id
        targets == SelectTransferTarget(view[n], c, local)
    IN  /\ Idle(n) /\ leader = n
        /\ \/ ~IsActive(view[n], n)
           \/ NextReconcileAction(Desired(view[n]), c) = [kind |-> "remove", id |-> local]
        /\ targets # {}
        /\ leader' = CHOOSE m \in Nodes : hosted[m] # None /\ hosted[m].id = Min(targets)
        /\ UNCHANGED <<meta, view, confs, change, host, hosted, boot, reg, join, wal, recovered,
                       released, pending, retirements, plan, job, scenario, crashes>>

-----------------------------------------------------------------------------
(* Retirement: the removed replica's own node proposes the proof. *)

RetirementCommand(n, r) ==
    [kind |-> "retire", group |-> Group, id |-> r, epoch |-> Desired(view[n]).epoch,
     version |-> hosted[n].entry.removed.version]

ReportsRemoval(n, r) ==
    /\ hosted[n] # None
    /\ hosted[n].entry.removed # None
    /\ hosted[n].entry.removed.id = r
    /\ r \notin Members(ConfOf(hosted[n].entry))


ReconcileRetirementRecords(n, r) ==
    /\ Idle(n)
    /\ r \in DOMAIN reg[n]
    /\ ~Retired(view[n], r)
    /\ r \notin pending[n]
    /\ r \notin ReplicaIds(Desired(view[n]).replicas)
    /\ ReportsRemoval(n, r)
    /\ pending' = [pending EXCEPT ![n] = @ \cup {r}]
    /\ retirements' = retirements \cup {RetirementCommand(n, r)}
    /\ UNCHANGED <<meta, view, confs, change, leader, host, hosted, boot, reg, join, wal,
                   recovered, released, plan, job, scenario, crashes>>

CommitRetirement(c) ==
    /\ c \in retirements
    /\ retirements' = retirements \ {c}
    /\ meta' = ApplyCommand(meta, c).state
    /\ UNCHANGED <<view, confs, change, leader, host, hosted, boot, reg, join, wal, recovered,
                   released, pending, plan, job, scenario, crashes>>

LoseRetirement(c) ==
    /\ c \in retirements
    /\ retirements' = retirements \ {c}
    /\ UNCHANGED <<meta, view, confs, change, leader, host, hosted, boot, reg, join, wal,
                   recovered, released, pending, plan, job, scenario, crashes>>

-----------------------------------------------------------------------------
(* The drain of a node: one durable job for its replica. *)

EligibleReplacementNodes(s, p, n) ==
    {m \in ActiveNodes(s) \ {n} :
        /\ m \notin {r.node : r \in p.replicas}
        /\ p.class \in {None, s.nodes[m].class}
        /\ LET next == {r \in p.replicas : r.node # n} \cup {[id |-> 0, node |-> m, role |-> "voter"]}
           IN  Cardinality({r \in next : r.role = "voter"}) = p.factor
               /\ \A d \in Domains : Cardinality(LabelsOf(s, {r.node : r \in next}, d)) >= p.spread[d]}

DrainPlan(s, n, source) ==
    LET p == Desired(s)
        kept == [p EXCEPT !.leaders = @ \ {n}]
        new  == [id |-> NextReplicaId(s), node |-> Min(EligibleReplacementNodes(s, p, n)), role |-> "voter"]
    IN  IF source.role = "voter"
        THEN [source |-> source.id, replacement |-> new.id, stage |-> "planned",
              transition |-> [kept EXCEPT !.epoch = @ + 1, !.factor = @ + 1, !.replicas = @ \cup {new}],
              final |-> [kept EXCEPT !.epoch = @ + 2, !.replicas = (@ \ {source}) \cup {new}]]
        ELSE [source |-> source.id, replacement |-> None, stage |-> "planned", transition |-> None,
              final |-> [kept EXCEPT !.epoch = @ + 1, !.replicas = @ \ {source}]]

EnsureDrainJobs(n) ==
    /\ Idle(n) /\ ~IsActive(view[n], n) /\ job[n] = None
    /\ \E source \in Desired(view[n]).replicas :
           /\ source.node = n
           /\ ~Retired(view[n], source.id)
           /\ source.role = "voter" => EligibleReplacementNodes(view[n], Desired(view[n]), n) # {}
           /\ job' = [job EXCEPT ![n] = DrainPlan(view[n], n, source)]
    /\ UNCHANGED <<meta, view, confs, change, leader, host, hosted, boot, reg, join, wal,
                   recovered, released, pending, retirements, plan, scenario, crashes>>

(* Only a source that leads has the match indexes this asks for. *)
ReplacementIsReady(n) ==
    /\ job[n].replacement # None
    /\ leader = n /\ hosted[n].id = job[n].source
    /\ job[n].replacement \in hosted[n].entry.voters
    /\ change = None

DrainPhase(n) ==
    LET current == Desired(view[n])
        j == job[n]
    IN  CASE j.stage = "planned" /\ current # j.final /\ current # j.transition ->
               IF j.transition # None THEN 1 ELSE 2
          [] j.stage = "replacement" /\ current # j.final /\ ReplacementIsReady(n) -> 2
          [] j.stage = "removal" /\ current # j.final /\ ~Retired(view[n], j.source) -> 2
          [] OTHER -> 0

DrainStage(n) ==
    LET current == Desired(view[n])
        j == job[n]
    IN  CASE j.stage \in {"planned", "replacement"} /\ current = j.final -> "removal"
          [] j.stage = "planned" /\ current = j.transition -> "replacement"
          [] j.stage = "removal" /\ Retired(view[n], j.source) -> "retired"
          [] j.stage = "retired" /\ (hosted[n] = None \/ hosted[n].id # j.source) -> "complete"
          [] OTHER -> j.stage

(* A phase is proposed under one request identity however often it is tried. *)
SubmitDrainPlacement(n) ==
    /\ Idle(n) /\ ~IsActive(view[n], n) /\ job[n] # None
    /\ DrainPhase(n) # 0
    /\ LET phase == DrainPhase(n)
           c == [kind |-> "placement", tablet |-> Tablet,
                 placement |-> IF phase = 1 THEN job[n].transition ELSE job[n].final]
       IN  meta' = ApplyWithLogicalCommandId(meta, <<n, job[n].source, phase>>, c).state
    /\ UNCHANGED <<view, confs, change, leader, host, hosted, boot, reg, join, wal, recovered,
                   released, pending, retirements, plan, job, scenario, crashes>>

ReconcileDrainJob(n) ==
    /\ Idle(n) /\ ~IsActive(view[n], n) /\ job[n] # None
    /\ DrainStage(n) # job[n].stage
    /\ job' = [job EXCEPT ![n].stage = DrainStage(n)]
    /\ UNCHANGED <<meta, view, confs, change, leader, host, hosted, boot, reg, join, wal,
                   recovered, released, pending, retirements, plan, scenario, crashes>>

(* What still keeps a node from leaving. *)
PlacementBlocks(n) == DesiredOn(view[n], n) # {}

DrainBlocked(n) == DesiredOn(view[n], n) # {} \/ hosted[n] # None

FinishLeaving(n) ==
    /\ Idle(n) /\ ~DrainBlocked(n)
    /\ \E life \in {"decommissioned", "tombstoned"} :
           /\ LifecycleCanAdvance(view[n].nodes[n].life, life)
           /\ meta' = ApplyCommand(meta, [kind |-> "lifecycle", id |-> n, life |-> life]).state
    /\ UNCHANGED <<view, confs, change, leader, host, hosted, boot, reg, join, wal, recovered,
                   released, pending, retirements, plan, job, scenario, crashes>>

-----------------------------------------------------------------------------
(* The operator and metadata replication. *)

Drain(n, life) ==
    /\ Inputs < scenario.inputs
    /\ n \in scenario.leaving /\ life \in {"draining", "decommissioning"}
    /\ LifecycleCanAdvance(meta.nodes[n].life, life)
    /\ meta' = ApplyCommand(meta, [kind |-> "lifecycle", id |-> n, life |-> life]).state
    /\ UNCHANGED <<view, confs, change, leader, host, hosted, boot, reg, join, wal, recovered,
                   released, pending, retirements, plan, job, scenario, crashes>>

EditPlacement(e) ==
    LET p == [Desired(meta) EXCEPT !.epoch = @ + 1, !.factor = e.factor, !.replicas = e.replicas]
        r == ApplyCommand(meta, [kind |-> "placement", tablet |-> Tablet, placement |-> p])
    IN  /\ e \in scenario.edits
        /\ Inputs < scenario.inputs
        /\ Desired(meta).replicas # e.replicas
        /\ r.outcome.kind = "applied"
        /\ meta' = r.state
        /\ UNCHANGED <<view, confs, change, leader, host, hosted, boot, reg, join, wal,
                       recovered, released, pending, retirements, plan, job, scenario, crashes>>

ApplyMetadata(n) ==
    /\ Idle(n) /\ view[n] # meta
    /\ view' = [view EXCEPT ![n] = meta]
    /\ pending' = [pending EXCEPT ![n] = {r \in @ : ~Retired(meta, r)}]
    /\ UNCHANGED <<meta, confs, change, leader, host, hosted, boot, reg, join, wal, recovered,
                   released, retirements, plan, job, scenario, crashes>>

-----------------------------------------------------------------------------
InitialCatalog ==
    LET applied[k \in 0..Len(Bootstrap)] ==
            IF k = 0 THEN EmptyCatalog ELSE ApplyCommand(applied[k - 1], Bootstrap[k]).state
    IN  applied[Len(Bootstrap)]

InitialEntry == RequestedBootstrap([view |-> InitialCatalog], 0).entry

ReplicaOn(n) ==
    LET here == {r.id : r \in {x \in Desired(InitialCatalog).replicas : x.node = n}}
    IN  IF here = {} THEN None ELSE CHOOSE r \in here : TRUE

Init ==
    /\ meta = InitialCatalog
    /\ view = [n \in Nodes |-> InitialCatalog]
    /\ confs = <<InitialEntry>>
    /\ change = None
    /\ leader = None
    /\ host = [n \in Nodes |-> "up"]
    /\ hosted = [n \in Nodes |-> IF ReplicaOn(n) = None THEN None
                                 ELSE [id |-> ReplicaOn(n), entry |-> InitialEntry, logged |-> TRUE]]
    /\ boot = [n \in Nodes |-> IF ReplicaOn(n) = None THEN None
                               ELSE [id |-> ReplicaOn(n), entry |-> InitialEntry]]
    /\ reg = [n \in Nodes |-> IF ReplicaOn(n) = None THEN NoEntries ELSE Put(NoEntries, ReplicaOn(n), "active")]
    /\ join = [n \in Nodes |-> NoEntries]
    /\ wal = [n \in Nodes |-> IF ReplicaOn(n) = None THEN NoEntries
                              ELSE Put(NoEntries, ReplicaOn(n), InitialEntry)]
    /\ recovered = [n \in Nodes |-> NoEntries]
    /\ released = [n \in Nodes |-> {}]
    /\ pending = [n \in Nodes |-> {}]
    /\ retirements = {}
    /\ plan = [n \in Nodes |-> None]
    /\ job = [n \in Nodes |-> None]
    /\ scenario \in Scenarios
    /\ crashes = 0

Next ==
    \/ \E n \in Nodes :
           \/ \E unlocked \in BOOLEAN : Reconcile(n, unlocked)
           \/ PlanMembership(n)
           \/ \E delivered, answered, unlocked \in BOOLEAN : PrepareTarget(n, delivered, answered, unlocked)
           \/ ProposeMembership(n)
           \/ LearnConfiguration(n) \/ Elect(n) \/ TransferLeadership(n)
           \/ \E r \in DOMAIN reg[n] : ReconcileRetirementRecords(n, r)
           \/ EnsureDrainJobs(n) \/ SubmitDrainPlacement(n) \/ ReconcileDrainJob(n)
           \/ FinishLeaving(n)
           \/ \E life \in {"draining", "decommissioning"} : Drain(n, life)
           \/ ApplyMetadata(n)
           \/ Crash(n) \/ Start(n)
    \/ CommitChange
    \/ \E c \in retirements : CommitRetirement(c) \/ LoseRetirement(c)
    \/ \E e \in scenario.edits : EditPlacement(e)

Spec == Init /\ [][Next]_vars

-----------------------------------------------------------------------------
(* A local tombstone, behind which runtime, bootstrap and WAL retention are
   deleted, exists only for a replica that metadata retired and the group
   removed: the absence of a replica from the placement is not enough.  And
   whatever placement edits race with a removal, a replica identity that
   metadata retired for good is not a member of the group again. *)
TombstoneIsAuthorized ==
    /\ \A n \in Nodes : \A r \in DOMAIN reg[n] : reg[n][r] = "tombstoned" => Retired(meta, r)
    /\ \A k \in DOMAIN meta.retired : k[2] \notin Members(Latest)

(* A replica is added to the group only once its node holds its durable join
   and registry records, so no crash of the target leaves a member without an
   identity to restart as. *)
MemberHasIdentity ==
    \A r \in Members(Latest) \ Members(InitialEntry) :
        \E n \in Nodes : r \in DOMAIN join[n] /\ r \in DOMAIN reg[n]

(* A node that finished decommissioning holds no member of the group, although
   its own catalog and configuration may lag both authorities. *)
GoneNodeIsEmpty ==
    \A n \in Nodes : meta.nodes[n].life \in {"decommissioned", "tombstoned"} =>
        \A r \in DOMAIN reg[n] : r \notin Members(Latest)

(* A replica a later placement epoch assigns to a node runs there only as a
   recorded join, never from a bootstrap of its own. *)
NewLifetimeIsJoined ==
    \A n \in Nodes :
        hosted[n] # None /\ hosted[n].id \notin Members(InitialEntry) => hosted[n].id \in DOMAIN join[n]
=============================================================================
